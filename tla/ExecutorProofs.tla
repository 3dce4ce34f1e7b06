--------------------------- MODULE ExecutorProofs ---------------------------
(***************************************************************************)
(* Proofs about PipelineExecutor, for every timeout, every output limit    *)
(* and every pipeline.                                                     *)
(*                                                                         *)
(* A run ends when the pipe is empty and nobody can write to it, so what   *)
(* was copied is all there is (PipeIsQuiet), and the error Run returned    *)
(* still describes the process (ErrIsTrue).  For HTTP, the steps sent and  *)
(* the responses received stay in step (StepsSoFar).                       *)
(***************************************************************************)
EXTENDS PipelineExecutor, TLAPS

USE ExecutorAssumption, PipelinesAssumption

-----------------------------------------------------------------------------
(***************************************************************************)
(* The inductive invariant.                                                *)
(***************************************************************************)
Kinds == {"command", "http", "form", "pipeline"}

InProcess == {"start", "run", "drain", "returned"}
InHTTP    == {"send", "wait", "respond"}

(* The types, and which kind of request is at which line.                  *)
EType ==
  /\ ExecutorTypeOK
  /\ kind \in Kinds /\ pc \in {"idle", "done"} \cup InProcess \cup InHTTP
  /\ steps \in Seq(Step) /\ sent \in Nat /\ got \in Seq(Response)
  /\ kind = "command" => pc \notin InHTTP
  /\ kind \in {"http", "pipeline"} => pc \notin InProcess
  /\ kind # "pipeline" => Len(steps) = 1

(* Before the run there is no process.  After it nobody holds the pipe and *)
(* all that went in was taken out.                                         *)
PipeIsQuiet ==
  /\ pc \in {"idle", "start"} => proc.state = "none" /\ wrote = 0
  /\ pc \notin {"run", "drain"} =>
       kids = 0 /\ copied = wrote /\ proc.state \in {"none", "reaped"}
  /\ pc = "drain" => proc.state = "reaped"

(* What Run returns tells how the process ended.                           *)
ErrIsTrue ==
  pc \in {"drain", "returned"} =>
    /\ err = "nil" => proc = [state |-> "reaped", status |-> 0] /\ ~killed
    /\ err = "exit" => proc.status # 0
    /\ err \in {"context", "other"} => killed \/ proc.state = "none"

Limited(n) == IF n > maxOutputBytes THEN maxOutputBytes ELSE n

(* The limitedWriter has the first bytes copied, and knows of the rest.    *)
OutputSoFar ==
  kind = "command" => out.buf = Limited(copied) /\ (out.hit <=> copied > maxOutputBytes)

(* Requests and responses are in step, every step before the last one sent *)
(* was satisfied, and a form file is sent only as it was fetched.          *)
StepsSoFar ==
  /\ pc \in {"idle"} \cup InProcess => sent = 0 /\ got = << >>
  /\ pc = "send" => sent = Len(got) /\ sent < Len(steps)
  /\ pc = "wait" => sent = Len(got) + 1 /\ sent <= Len(steps)
  /\ pc = "respond" => sent = Len(got) /\ sent \in 1 .. Len(steps)
  /\ \A i \in 1 .. sent - 1 : Satisfied(steps[i], got[i])
  /\ pc = "send" /\ sent > 0 => Satisfied(steps[sent], got[sent])
  /\ kind = "form" /\ (pc \in InHTTP \/ sent > 0) =>
       proc = [state |-> "reaped", status |-> 0] /\ kids = 0 /\ copied = wrote

EInv ==
  /\ EType /\ PipeIsQuiet /\ ErrIsTrue /\ OutputSoFar /\ StepsSoFar
  /\ VerdictIsTrue /\ OutputIsAccounted

-----------------------------------------------------------------------------
(* The bounds are numbers.                                                 *)
LEMMA BoundsAreNat == maxOutputBytes \in Nat /\ MaxOut \in Nat /\ MaxKids \in Nat
OBVIOUS

USE BoundsAreNat

(* The timeout in force is a number of seconds.                            *)
LEMMA EffectiveType == \A t \in Timeouts : Effective(t) \in Int
BY DEF Effective

(* limitedWriter.Write: however the output is cut into pieces, the buffer  *)
(* ends up with the same bytes and the same mark.                          *)
LEMMA LimitedWriteIsExact ==
  ASSUME NEW w \in [buf : 0 .. maxOutputBytes, hit : BOOLEAN], NEW m \in Nat,
         NEW n \in Nat \ {0},
         w.buf = Limited(m), w.hit <=> m > maxOutputBytes
  PROVE  /\ LimitedWrite(w, n).buf = Limited(m + n)
         /\ LimitedWrite(w, n).hit <=> m + n > maxOutputBytes
<1> DEFINE remaining == maxOutputBytes - w.buf
<1>1. CASE remaining <= 0
  <2>1. LimitedWrite(w, n) = [w EXCEPT !.hit = TRUE]
    BY <1>1 DEF LimitedWrite
  <2>2. m >= maxOutputBytes /\ w.buf = maxOutputBytes
    BY <1>1 DEF Limited
  <2> QED BY <2>1, <2>2 DEF Limited
<1>2. CASE remaining > 0 /\ n > remaining
  <2>1. LimitedWrite(w, n) = [buf |-> maxOutputBytes, hit |-> TRUE]
    BY <1>2 DEF LimitedWrite
  <2> QED BY <1>2, <2>1 DEF Limited
<1>3. CASE remaining > 0 /\ ~(n > remaining)
  <2>1. LimitedWrite(w, n) = [w EXCEPT !.buf = w.buf + n]
    BY <1>3 DEF LimitedWrite
  <2>2. w.buf = m /\ m + n <= maxOutputBytes /\ ~w.hit
    BY <1>3 DEF Limited
  <2> QED BY <2>1, <2>2 DEF Limited
<1> QED BY <1>1, <1>2, <1>3

(* limitedWriter.Write never keeps more than its limit.                    *)
LEMMA LimitedWriteType ==
  ASSUME NEW w \in [buf : 0 .. maxOutputBytes, hit : BOOLEAN], NEW n \in Nat
  PROVE  LimitedWrite(w, n) \in [buf : 0 .. maxOutputBytes, hit : BOOLEAN]
<1> DEFINE remaining == maxOutputBytes - w.buf
<1>1. CASE remaining <= 0
  BY <1>1 DEF LimitedWrite
<1>2. CASE remaining > 0 /\ n > remaining
  BY <1>2 DEF LimitedWrite
<1>3. CASE remaining > 0 /\ ~(n > remaining)
  <2>1. LimitedWrite(w, n) = [w EXCEPT !.buf = w.buf + n]
    BY <1>3 DEF LimitedWrite
  <2> QED BY <1>3, <2>1
<1> QED BY <1>1, <1>2, <1>3

(* Nothing has been started, sent or received.                             *)
LEMMA InitEInv == Init => EInv
<1> SUFFICES ASSUME Init PROVE EInv
  OBVIOUS
<1>1. kind \in Kinds /\ steps \in Seq(Step) /\ (kind # "pipeline" => Len(steps) = 1)
  <2>1. <<Plain>> \in Seq(Step) /\ Len(<<Plain>>) = 1
    BY DEF Plain, Step
  <2> QED BY <2>1 DEF Init, Kinds
<1>2. EType
  <2>1. ExecutorTypeOK
    <3>1. proc \in [state : {"none", "running", "exited", "reaped"}, status : {-1, 0, 1}]
      BY DEF Init, ExecutorInit
    <3>2. out \in [buf : 0 .. maxOutputBytes, hit : BOOLEAN]
      BY DEF Init, ExecutorInit
    <3>3. /\ timeout = 0 /\ clock = 0 /\ kids = 0 /\ wrote = 0 /\ copied = 0
          /\ watch = "armed" /\ err = "nil"
      BY DEF Init, ExecutorInit
    <3>4. killed \in BOOLEAN
      BY DEF Init, ExecutorInit
    <3> QED BY <3>1, <3>2, <3>3, <3>4 DEF ExecutorTypeOK, Errs
  <2> QED BY <1>1, <2>1 DEF Init, ExecutorInit, EType, Kinds, InProcess, InHTTP
<1>3. PipeIsQuiet /\ ErrIsTrue /\ OutputSoFar
  BY DEF Init, ExecutorInit, PipeIsQuiet, ErrIsTrue, OutputSoFar, Limited
<1>4. StepsSoFar
  BY DEF Init, ExecutorInit, StepsSoFar, InHTTP, InProcess
<1>5. VerdictIsTrue /\ OutputIsAccounted
  BY DEF Init, ExecutorInit, VerdictIsTrue, OutputIsAccounted, Done
<1> QED BY <1>2, <1>3, <1>4, <1>5 DEF EInv

(* The command and its descendants write, fork and exit.                   *)
LEMMA CommandEInv ==
  ASSUME EInv, Command, UNCHANGED <<sent, got, kind, steps>>
  PROVE  EInv'
<1> USE DEF EInv
<1>1. pc \in {"run", "drain"} /\ UNCHANGED <<pc, timeout, clock, err, result, watch, killed, out, copied>>
  BY DEF Command, Writes, Forks, KidExits, Exits, Running, EType, ExecutorTypeOK,
         PipeIsQuiet, InProcess, InHTTP
<1>2. /\ proc' \in [state : {"none", "running", "exited", "reaped"}, status : {-1, 0, 1}]
      /\ kids' \in 0 .. MaxKids /\ wrote' \in 0 .. MaxOut /\ wrote <= wrote'
  BY DEF Command, Writes, Forks, KidExits, Exits, EType, ExecutorTypeOK
<1>3. proc.state = "running" \/ proc' = proc
  BY DEF Command, Writes, Forks, KidExits, Exits, Running
<1>4. EType'
  BY <1>1, <1>2 DEF EType, ExecutorTypeOK
<1>5. PipeIsQuiet' /\ ErrIsTrue' /\ OutputSoFar'
  BY <1>1, <1>3 DEF PipeIsQuiet, ErrIsTrue, OutputSoFar
<1>6. StepsSoFar'
  BY <1>1 DEF StepsSoFar, InProcess, InHTTP
<1>7. VerdictIsTrue' /\ OutputIsAccounted'
  BY <1>1 DEF VerdictIsTrue, OutputIsAccounted, Done
<1> QED BY <1>4, <1>5, <1>6, <1>7

(* The copying goroutine.                                                  *)
LEMMA CopyEInv ==
  ASSUME EInv, NEW n \in 1 .. 2, Copy(n), UNCHANGED <<sent, got, kind, steps>>
  PROVE  EInv'
<1> USE DEF EInv
<1>1. pc \in {"run", "drain"} /\ UNCHANGED <<pc, timeout, clock, err, result, proc, kids,
                                             watch, killed, wrote>>
  BY DEF Copy
<1>2. copied' = copied + n /\ copied' \in 0 .. wrote
  BY DEF Copy, EType, ExecutorTypeOK
<1>3. out' \in [buf : 0 .. maxOutputBytes, hit : BOOLEAN]
  <2>1. out \in [buf : 0 .. maxOutputBytes, hit : BOOLEAN] /\ n \in Nat
    BY DEF EType, ExecutorTypeOK
  <2>2. out' = LimitedWrite(out, n) \/ out' = out
    BY DEF Copy
  <2> QED BY <2>1, <2>2, LimitedWriteType
<1>4. EType'
  BY <1>1, <1>2, <1>3 DEF EType, ExecutorTypeOK
<1>5. OutputSoFar'
  <2> SUFFICES ASSUME kind = "command"
               PROVE  out'.buf = Limited(copied') /\ (out'.hit <=> copied' > maxOutputBytes)
    BY DEF OutputSoFar, Limited
  <2>1. /\ out \in [buf : 0 .. maxOutputBytes, hit : BOOLEAN] /\ copied \in Nat
        /\ out.buf = Limited(copied) /\ (out.hit <=> copied > maxOutputBytes)
    BY DEF EType, ExecutorTypeOK, OutputSoFar
  <2>2. out' = LimitedWrite(out, n) /\ n \in Nat \ {0}
    BY DEF Copy
  <2> QED BY <1>2, <2>1, <2>2, LimitedWriteIsExact
<1>6. PipeIsQuiet' /\ ErrIsTrue'
  BY <1>1 DEF PipeIsQuiet, ErrIsTrue
<1>7. StepsSoFar'
  BY <1>1 DEF StepsSoFar, InProcess, InHTTP
<1>8. VerdictIsTrue' /\ OutputIsAccounted'
  BY <1>1 DEF VerdictIsTrue, OutputIsAccounted, Done
<1> QED BY <1>4, <1>5, <1>6, <1>7, <1>8

(* A step that is not the last promises nothing about the result.          *)
LEMMA NotDone ==
  ASSUME pc' # "done"
  PROVE  VerdictIsTrue' /\ OutputIsAccounted'
BY DEF VerdictIsTrue, OutputIsAccounted, Done

(* A command's result has all its output.                                  *)
LEMMA FinishAccounts ==
  ASSUME EInv, pc \in {"idle", "returned"}, NEW e, NEW why, Finish(e, why),
         UNCHANGED <<runVars, kind>>
  PROVE  OutputIsAccounted'
<1> SUFFICES ASSUME kind = "command"
             PROVE  /\ result'.out = IF wrote > maxOutputBytes THEN maxOutputBytes ELSE wrote
                    /\ result'.mark = (wrote > maxOutputBytes)
  BY DEF OutputIsAccounted, runVars
<1>1. copied = wrote /\ out.buf = Limited(wrote) /\ (out.hit <=> wrote > maxOutputBytes)
  BY DEF EInv, PipeIsQuiet, OutputSoFar
<1>2. out.hit \in BOOLEAN
  BY DEF EInv, EType, ExecutorTypeOK
<1>3. result'.out = out.buf /\ result'.mark = out.hit
  BY DEF Finish
<1> QED BY <1>1, <1>2, <1>3 DEF Limited

(* A command or a fetch is started, watched, reaped and drained.           *)
LEMMA RunEInv ==
  ASSUME EInv, Start \/ WatchFires \/ Reap \/ WatchResult \/ PipeCloses,
         UNCHANGED <<sent, got, kind, steps>>
  PROVE  EInv'
<1> USE DEF EInv
<1>1. /\ pc \in {"start", "run", "drain"} /\ pc' \in {"run", "drain", "returned"}
      /\ UNCHANGED <<timeout, clock, result, kids, wrote, copied, out>>
  BY DEF Start, WatchFires, Reap, WatchResult, PipeCloses, runVars
<1>2. proc' \in [state : {"none", "running", "exited", "reaped"}, status : {-1, 0, 1}]
  BY DEF Start, WatchFires, Reap, WatchResult, PipeCloses, runVars, EType, ExecutorTypeOK
<1>3. watch' \in {"armed", "fired", "released"} /\ err' \in Errs
  BY DEF Start, WatchFires, Reap, WatchResult, PipeCloses, runVars, EType, ExecutorTypeOK,
         Errs
<1>4. killed' \in BOOLEAN
  <2>1. killed' = killed \/ killed' = (proc.state # "reaped")
    BY DEF Start, WatchFires, Reap, WatchResult, PipeCloses, runVars
  <2> QED BY <2>1 DEF EType, ExecutorTypeOK
<1>5. EType'
  <2>1. ExecutorTypeOK'
    BY <1>1, <1>2, <1>3, <1>4 DEF EType, ExecutorTypeOK
  <2> QED BY <1>1, <2>1 DEF EType, InProcess, InHTTP
<1>6. PipeIsQuiet'
  BY <1>1 DEF PipeIsQuiet, Start, WatchFires, Reap, WatchResult, PipeCloses, runVars,
              EType, ExecutorTypeOK
<1>7. ErrIsTrue'
  <2>1. CASE Start
    BY <2>1 DEF Start, ErrIsTrue, PipeIsQuiet
  <2>2. CASE WatchFires \/ Reap
    BY <2>2 DEF WatchFires, Reap, ErrIsTrue
  <2>3. CASE WatchResult
    BY <2>3 DEF WatchResult, ErrIsTrue, EType, ExecutorTypeOK
  <2>4. CASE PipeCloses
    BY <2>4 DEF PipeCloses, runVars, ErrIsTrue
  <2> QED BY <2>1, <2>2, <2>3, <2>4
<1>8. OutputSoFar'
  BY <1>1 DEF OutputSoFar
<1>9. StepsSoFar'
  BY <1>1 DEF StepsSoFar, InProcess, InHTTP
<1> QED BY <1>1, <1>5, <1>6, <1>7, <1>8, <1>9, NotDone

(* The clock.                                                              *)
LEMMA TimeEInv ==
  ASSUME EInv, TimePasses, UNCHANGED <<sent, got, kind, steps>>
  PROVE  EInv'
<1> USE DEF EInv
<1>1. UNCHANGED <<pc, timeout, err, result, proc, kids, watch, killed, wrote, copied, out>>
  BY DEF TimePasses, runVars
<1>2. clock' \in Int
  BY DEF TimePasses, EType, ExecutorTypeOK
<1>3. EType'
  BY <1>1, <1>2 DEF EType, ExecutorTypeOK
<1>4. PipeIsQuiet' /\ ErrIsTrue' /\ OutputSoFar'
  BY <1>1 DEF PipeIsQuiet, ErrIsTrue, OutputSoFar
<1>5. StepsSoFar'
  BY <1>1 DEF StepsSoFar
<1>6. VerdictIsTrue' /\ OutputIsAccounted'
  BY <1>1, NotDone DEF TimePasses
<1> QED BY <1>3, <1>4, <1>5, <1>6

(* What a step that only moves on, or ends the run, leaves to show.        *)
LEMMA MoveEInv ==
  ASSUME EInv, timeout' \in Int, UNCHANGED <<clock, err, runVars, kind, steps>>,
         pc' \in {"idle", "done"} \cup InProcess \cup InHTTP,
         sent' \in Nat, got' \in Seq(Response),
         kind = "command" => pc' \notin InHTTP,
         kind \in {"http", "pipeline"} => pc' \notin InProcess,
         pc \notin {"run", "drain"}, pc' \notin {"run", "drain", "returned", "idle"},
         pc' = "start" => pc = "idle",
         StepsSoFar', VerdictIsTrue', OutputIsAccounted'
  PROVE  EInv'
<1> USE DEF EInv
<1>1. UNCHANGED <<proc, kids, watch, killed, wrote, copied, out>>
  BY DEF runVars
<1>2. EType'
  <2>1. ExecutorTypeOK'
    BY <1>1 DEF EType, ExecutorTypeOK
  <2> QED BY <2>1 DEF EType
<1>3. PipeIsQuiet' /\ ErrIsTrue' /\ OutputSoFar'
  BY <1>1 DEF PipeIsQuiet, ErrIsTrue, OutputSoFar
<1> QED BY <1>2, <1>3

(* Execute, ExecuteHTTP and ExecutePipeline, up to the first thing they    *)
(* wait for.                                                               *)
LEMMA BeginEInv ==
  ASSUME EInv, NEW t \in Timeouts, UNCHANGED <<sent, got, kind, steps>>,
         \/ executeInterpreter(t) \/ \E d \in Dirs \cup {NoDir} : Execute(t, d)
         \/ ExecuteHTTP(t) \/ ExecutePipeline(t)
  PROVE  EInv'
<1> USE DEF EInv
<1>1. /\ pc = "idle" /\ sent = 0 /\ got = << >> /\ wrote = 0 /\ proc.state = "none"
      /\ UNCHANGED <<clock, err, runVars>>
  BY DEF executeInterpreter, Execute, ExecuteHTTP, ExecutePipeline, WithTimeout,
         StepsSoFar, PipeIsQuiet
<1>2. timeout' \in Int
  BY EffectiveType DEF executeInterpreter, Execute, ExecuteHTTP, ExecutePipeline, WithTimeout,
                       EType, ExecutorTypeOK
<1>3. CASE \E next \in {"start", "send"} :
             /\ WithTimeout(t, next)
             /\ kind \in {"command", "form"} <=> next = "start"
             /\ kind = "pipeline" => steps # << >>
  <2>1. pc' \in {"start", "send"} /\ (kind \in {"command", "form"} <=> pc' = "start")
    BY <1>3 DEF WithTimeout
  <2>2. pc' = "send" => 0 < Len(steps)
    <3>1. steps \in Seq(Step) /\ (kind # "pipeline" => Len(steps) = 1)
      BY DEF EType
    <3>2. kind = "pipeline" => steps # << >>
      BY <1>3
    <3> QED BY <3>1, <3>2
  <2>3. StepsSoFar'
    BY <1>1, <2>1, <2>2 DEF StepsSoFar, InProcess, InHTTP
  <2>4. pc' # "done"
    BY <2>1
  <2>5. VerdictIsTrue' /\ OutputIsAccounted'
    BY <2>4, NotDone
  <2> QED BY <1>1, <1>2, <2>1, <2>3, <2>5, MoveEInv DEF EType, Kinds, InProcess, InHTTP
<1>4. CASE kind = "command" /\ Finish(-1, "refused")
  <2>1. pc' = "done" /\ result'.exit = -1 /\ result'.why = "refused"
    BY <1>4 DEF Finish
  <2>2. StepsSoFar'
    BY <1>1, <1>4, <2>1 DEF StepsSoFar, InProcess, InHTTP
  <2>3. VerdictIsTrue'
    BY <2>1 DEF VerdictIsTrue
  <2>4. OutputIsAccounted'
    BY <1>1, <1>4, FinishAccounts
  <2> QED BY <1>1, <1>2, <1>4, <2>1, <2>2, <2>3, <2>4, MoveEInv
          DEF EType, InProcess, InHTTP
<1>5. CASE kind = "pipeline" /\ steps = << >> /\ Finish(0, "output")
  <2>1. pc' = "done"
    BY <1>5 DEF Finish
  <2>2. StepsSoFar'
    BY <1>1, <1>5, <2>1 DEF StepsSoFar, InProcess, InHTTP
  <2>3. Len(got) = Len(steps) /\ \A i \in DOMAIN steps : Satisfied(steps[i], got[i])
    BY <1>1, <1>5
  <2>4. VerdictIsTrue'
    BY <1>5, <2>3 DEF VerdictIsTrue
  <2>5. OutputIsAccounted'
    BY <1>1, <1>5, FinishAccounts
  <2> QED BY <1>1, <1>2, <1>5, <2>1, <2>2, <2>4, <2>5, MoveEInv
          DEF EType, InProcess, InHTTP
<1>6. CASE executeInterpreter(t)
  BY <1>3, <1>6 DEF executeInterpreter
<1>7. ASSUME NEW d \in Dirs \cup {NoDir}, Execute(t, d)
      PROVE  EInv'
  BY <1>3, <1>4, <1>7 DEF Execute
<1>8. CASE ExecuteHTTP(t)
  BY <1>3, <1>8 DEF ExecuteHTTP
<1>9. CASE ExecutePipeline(t)
  BY <1>3, <1>5, <1>9 DEF ExecutePipeline
<1> QED BY <1>6, <1>7, <1>8, <1>9

(* The rest of Execute: what Run returned becomes the exit code.           *)
LEMMA ReportEInv ==
  ASSUME EInv, Report, UNCHANGED <<sent, got, kind, steps>>
  PROVE  EInv'
<1> USE DEF EInv
<1>1. /\ kind = "command" /\ pc = "returned" /\ pc' = "done"
      /\ UNCHANGED <<timeout, clock, err, runVars>>
  BY DEF Report, Finish
<1>2. StepsSoFar'
  BY <1>1 DEF StepsSoFar, InProcess, InHTTP
<1>3. VerdictIsTrue'
  <2>1. UNCHANGED <<proc, kids, killed, wrote, copied>>
    BY <1>1 DEF runVars
  <2>2. kids = 0 /\ copied = wrote
    BY <1>1 DEF PipeIsQuiet
  <2>3. CASE err = "nil" /\ Finish(0, "exit")
    <3>1. result'.why = "exit"
      BY <2>3 DEF Finish
    <3>2. proc = [state |-> "reaped", status |-> 0] /\ ~killed
      BY <1>1, <2>3 DEF ErrIsTrue
    <3> QED BY <1>1, <2>1, <2>2, <3>1, <3>2 DEF VerdictIsTrue
  <2>4. CASE err # "nil" /\ Finish(-1, "timeout")
    <3>1. result'.exit = -1
      BY <2>4 DEF Finish
    <3>2. proc.status # 0 \/ killed \/ proc.state = "none"
      BY <1>1, <2>4 DEF ErrIsTrue, EType, ExecutorTypeOK, Errs
    <3> QED BY <1>1, <2>1, <3>1, <3>2 DEF VerdictIsTrue
  <2>5. CASE err = "exit" /\ Finish(proc.status, "exit")
    <3>1. result'.exit = proc.status /\ result'.why = "exit"
      BY <2>5 DEF Finish
    <3>2. proc.status # 0
      BY <1>1, <2>5 DEF ErrIsTrue
    <3> QED BY <3>1, <3>2 DEF VerdictIsTrue
  <2>6. CASE Finish(-1, "error")
    <3>1. result'.exit = -1 /\ result'.why = "error"
      BY <2>6 DEF Finish
    <3> QED BY <3>1 DEF VerdictIsTrue
  <2> QED BY <2>3, <2>4, <2>5, <2>6 DEF Report
<1>4. OutputIsAccounted'
  <2>1. PICK e, why : Finish(e, why)
    BY DEF Report
  <2> QED BY <1>1, <2>1, FinishAccounts
<1>5. timeout' \in Int /\ sent' \in Nat /\ got' \in Seq(Response)
  BY <1>1 DEF EType, ExecutorTypeOK
<1> QED BY <1>1, <1>2, <1>3, <1>4, <1>5, MoveEInv DEF InProcess, InHTTP

(* A request that ends without success promises nothing more.              *)
LEMMA FailureVerdict ==
  ASSUME NEW e \in {-1, 1}, NEW why, Finish(e, why), kind' # "command"
  PROVE  VerdictIsTrue' /\ OutputIsAccounted'
<1>1. result'.exit = e /\ e # 0
  BY DEF Finish
<1> QED BY <1>1 DEF VerdictIsTrue, OutputIsAccounted

(* The end of a run leaves the steps as they were.                         *)
LEMMA EndSteps ==
  ASSUME EInv, pc' = "done", UNCHANGED <<sent, got, kind, steps, runVars>>
  PROVE  StepsSoFar'
BY DEF EInv, StepsSoFar, InProcess, InHTTP, runVars

(* form_file: the fetch is over.                                           *)
LEMMA FetchedEInv ==
  ASSUME EInv, Fetched, UNCHANGED <<kind, steps>>
  PROVE  EInv'
<1> USE DEF EInv
<1>1. /\ kind = "form" /\ pc = "returned" /\ sent = 0 /\ got = << >> /\ Len(steps) = 1
      /\ UNCHANGED <<timeout, clock, err, runVars, sent, got>>
  BY DEF Fetched, StepsSoFar, EType, InProcess
<1>2. timeout' \in Int /\ sent' \in Nat /\ got' \in Seq(Response)
  BY <1>1 DEF EType, ExecutorTypeOK
<1>3. CASE Finish(-1, "fetch")
  <2>1. pc' = "done"
    BY <1>3 DEF Finish
  <2>2. VerdictIsTrue' /\ OutputIsAccounted'
    BY <1>1, <1>3, FailureVerdict
  <2>3. StepsSoFar'
    BY <1>1, <2>1, EndSteps
  <2> QED BY <1>1, <1>2, <2>1, <2>2, <2>3, MoveEInv DEF InProcess, InHTTP
<1>4. CASE err = "nil" /\ pc' = "send"
  <2>1. proc = [state |-> "reaped", status |-> 0] /\ kids = 0 /\ copied = wrote
    BY <1>1, <1>4 DEF ErrIsTrue, PipeIsQuiet
  <2>2. StepsSoFar'
    BY <1>1, <1>4, <2>1 DEF StepsSoFar, InProcess, InHTTP, runVars
  <2>3. VerdictIsTrue' /\ OutputIsAccounted'
    BY <1>4, NotDone
  <2> QED BY <1>1, <1>2, <1>4, <2>2, <2>3, MoveEInv DEF InProcess, InHTTP
<1> QED BY <1>3, <1>4 DEF Fetched

(* client.Do takes a request.                                              *)
LEMMA SendEInv ==
  ASSUME EInv, Send, UNCHANGED <<kind, steps>>
  PROVE  EInv'
<1> USE DEF EInv
<1>1. /\ pc = "send" /\ pc' = "wait" /\ sent' = sent + 1
      /\ UNCHANGED <<timeout, clock, err, runVars, got>>
  BY DEF Send
<1>2. kind # "command"
  BY <1>1 DEF EType, InHTTP
<1>3. sent \in Nat /\ sent = Len(got) /\ sent < Len(steps) /\ Len(steps) \in Nat
  BY <1>1 DEF StepsSoFar, EType
<1>4. \A i \in 1 .. sent' - 1 : Satisfied(steps[i], got[i])
  <2> TAKE i \in 1 .. sent' - 1
  <2>1. i \in 1 .. sent - 1 \/ (i = sent /\ sent > 0)
    BY <1>1, <1>3
  <2> QED BY <1>1, <2>1 DEF StepsSoFar
<1>5. kind = "form" => proc = [state |-> "reaped", status |-> 0] /\ kids = 0 /\ copied = wrote
  BY <1>1 DEF StepsSoFar, InHTTP
<1>6. StepsSoFar'
  BY <1>1, <1>3, <1>4, <1>5 DEF StepsSoFar, InProcess, InHTTP, runVars
<1>7. VerdictIsTrue' /\ OutputIsAccounted'
  BY <1>1, NotDone
<1>8. timeout' \in Int /\ sent' \in Nat /\ got' \in Seq(Response)
  BY <1>1, <1>3 DEF EType, ExecutorTypeOK
<1> QED BY <1>1, <1>2, <1>6, <1>7, <1>8, MoveEInv DEF InProcess, InHTTP

(* The request cannot be built, the transport fails, or time is up.        *)
LEMMA RequestFailsEInv ==
  ASSUME EInv, RequestFails, UNCHANGED <<kind, steps>>
  PROVE  EInv'
<1> USE DEF EInv
<1>1. /\ pc \in {"send", "wait"} /\ pc' = "done"
      /\ UNCHANGED <<timeout, clock, err, runVars, sent, got>>
  BY DEF RequestFails, Finish
<1>2. kind # "command"
  BY <1>1 DEF EType, InHTTP
<1>3. VerdictIsTrue' /\ OutputIsAccounted'
  <2>1. PICK why : Finish(-1, why)
    BY DEF RequestFails
  <2> QED BY <1>2, <2>1, FailureVerdict
<1>4. StepsSoFar'
  BY <1>1, EndSteps
<1>5. timeout' \in Int /\ sent' \in Nat /\ got' \in Seq(Response)
  BY <1>1 DEF EType, ExecutorTypeOK
<1> QED BY <1>1, <1>3, <1>4, <1>5, MoveEInv DEF InProcess, InHTTP

(* A response arrives.                                                     *)
LEMMA ReceiveEInv ==
  ASSUME EInv, NEW ok \in BOOLEAN, NEW body \in Bodies, Receive(ok, body),
         UNCHANGED <<kind, steps>>
  PROVE  EInv'
<1> USE DEF EInv
<1> DEFINE resp == [ok |-> ok, body |-> body]
<1>1. /\ pc = "wait" /\ pc' = "respond" /\ got' = Append(got, resp)
      /\ UNCHANGED <<timeout, clock, err, result, proc, kids, watch, killed, wrote, copied, sent>>
  BY DEF Receive
<1>2. kind # "command" /\ got \in Seq(Response) /\ sent \in Nat /\ Len(steps) \in Nat
  BY <1>1 DEF EType, InHTTP
<1>3. resp \in Response
  BY DEF Response
<1>4. /\ got' \in Seq(Response) /\ Len(got') = Len(got) + 1
      /\ \A i \in 1 .. Len(got) : got'[i] = got[i]
  <2> HIDE DEF resp
  <2> QED BY <1>1, <1>2, <1>3
<1>5. out' \in [buf : 0 .. maxOutputBytes, hit : BOOLEAN]
  <2>1. out \in [buf : 0 .. maxOutputBytes, hit : BOOLEAN]
    BY DEF EType, ExecutorTypeOK
  <2>2. out' = out \/ \E n \in Nat : out' = LimitedWrite(out, n)
    <3>1. CASE kind = "pipeline"
      BY <3>1 DEF Receive
    <3>2. CASE kind # "pipeline" /\ body = "long"
      <4>1. out' = LimitedWrite(out, maxOutputBytes + 1)
        BY <3>2 DEF Receive
      <4>2. maxOutputBytes + 1 \in Nat
        OBVIOUS
      <4> QED BY <4>1, <4>2
    <3>3. CASE kind # "pipeline" /\ body # "long"
      <4>1. out' = LimitedWrite(out, maxOutputBytes)
        BY <3>3 DEF Receive
      <4> QED BY <4>1
    <3> QED BY <3>1, <3>2, <3>3
  <2> QED BY <2>1, <2>2, LimitedWriteType
<1>6. EType'
  <2>1. ExecutorTypeOK'
    BY <1>1, <1>5 DEF EType, ExecutorTypeOK
  <2> QED BY <1>1, <1>2, <1>4, <2>1 DEF EType, InProcess, InHTTP
<1>7. sent = Len(got) + 1 /\ sent <= Len(steps) /\ Len(got) \in Nat
  BY <1>1, <1>2 DEF StepsSoFar
<1>8. \A i \in 1 .. sent' - 1 : Satisfied(steps'[i], got'[i])
  BY <1>1, <1>4, <1>7 DEF StepsSoFar
<1>9. kind = "form" => proc = [state |-> "reaped", status |-> 0] /\ kids = 0 /\ copied = wrote
  BY <1>1 DEF StepsSoFar, InHTTP
<1>10. StepsSoFar'
  BY <1>1, <1>4, <1>7, <1>8, <1>9 DEF StepsSoFar, InProcess, InHTTP
<1>11. PipeIsQuiet' /\ ErrIsTrue' /\ OutputSoFar'
  BY <1>1, <1>2 DEF PipeIsQuiet, ErrIsTrue, OutputSoFar
<1>12. VerdictIsTrue' /\ OutputIsAccounted'
  BY <1>1, NotDone
<1> QED BY <1>6, <1>10, <1>11, <1>12

(* The response of an HTTP request is reported.                            *)
LEMMA ReportHTTPEInv ==
  ASSUME EInv, ReportHTTP, UNCHANGED <<kind, steps>>
  PROVE  EInv'
<1> USE DEF EInv
<1>1. /\ kind \in {"http", "form"} /\ pc = "respond" /\ pc' = "done"
      /\ UNCHANGED <<timeout, clock, err, runVars, sent, got>>
  BY DEF ReportHTTP, Finish
<1>2. result'.exit = 0 => Last(got).ok
  BY DEF ReportHTTP, Finish
<1>3. VerdictIsTrue' /\ OutputIsAccounted'
  BY <1>1, <1>2 DEF VerdictIsTrue, OutputIsAccounted, Last
<1>4. StepsSoFar'
  BY <1>1, EndSteps
<1>5. timeout' \in Int /\ sent' \in Nat /\ got' \in Seq(Response)
  BY <1>1 DEF EType, ExecutorTypeOK
<1> QED BY <1>1, <1>3, <1>4, <1>5, MoveEInv DEF InProcess, InHTTP

(* A step of a pipeline is judged by its response: the pipeline ends, or   *)
(* goes on because the step was satisfied.                                 *)
LEMMA ReportStepEInv ==
  ASSUME EInv, ReportStep, UNCHANGED <<kind, steps>>
  PROVE  EInv'
<1> USE DEF EInv
<1>1. /\ kind = "pipeline" /\ pc = "respond"
      /\ UNCHANGED <<timeout, clock, err, runVars, sent, got>>
  BY DEF ReportStep
<1>2. /\ sent = Len(got) /\ sent \in 1 .. Len(steps) /\ Len(steps) \in Nat
      /\ got \in Seq(Response) /\ steps \in Seq(Step) /\ Last(got) = got[sent]
  BY <1>1 DEF StepsSoFar, EType, Last
<1>3. timeout' \in Int /\ sent' \in Nat /\ got' \in Seq(Response)
  BY <1>1 DEF EType, ExecutorTypeOK
<1>4. ASSUME pc' = "done", VerdictIsTrue'
      PROVE  EInv'
  <2>1. OutputIsAccounted'
    BY <1>1 DEF OutputIsAccounted
  <2>2. StepsSoFar'
    BY <1>1, <1>4, EndSteps
  <2> QED BY <1>1, <1>3, <1>4, <2>1, <2>2, MoveEInv DEF InProcess, InHTTP
<1>5. ASSUME NEW e \in {-1, 1}, NEW why, Finish(e, why)
      PROVE  EInv'
  <2>1. pc' = "done"
    BY <1>5 DEF Finish
  <2> QED BY <1>1, <1>4, <1>5, <2>1, FailureVerdict
<1>6. CASE Last(got).ok /\ EmptyArray(steps[sent], Last(got).body) /\ Finish(0, "empty")
  <2>1. pc' = "done" /\ result'.why = "empty"
    BY <1>6 DEF Finish
  <2>2. steps[Len(got)].guard /\ Last(got).ok /\ Last(got).body \in {"empty", "null"}
    BY <1>2, <1>6 DEF EmptyArray
  <2>3. VerdictIsTrue'
    BY <1>1, <2>1, <2>2 DEF VerdictIsTrue, Last
  <2> QED BY <1>4, <2>1, <2>3
<1>7. CASE Last(got).ok /\ Extracts(steps[sent], Last(got).body)
           /\ sent = Len(steps) /\ Finish(0, "output")
  <2>1. pc' = "done" /\ result'.why = "output"
    BY <1>7 DEF Finish
  <2>2. Satisfied(steps[sent], got[sent])
    BY <1>2, <1>7 DEF Satisfied, Extracts
  <2>3. \A i \in DOMAIN steps : Satisfied(steps[i], got[i])
    <3> TAKE i \in DOMAIN steps
    <3>1. i \in 1 .. sent - 1 \/ i = sent
      BY <1>2, <1>7
    <3> QED BY <2>2, <3>1 DEF StepsSoFar
  <2>4. VerdictIsTrue'
    BY <1>1, <1>2, <1>7, <2>1, <2>3 DEF VerdictIsTrue
  <2> QED BY <1>4, <2>1, <2>4
<1>8. CASE Last(got).ok /\ Extracts(steps[sent], Last(got).body)
           /\ sent # Len(steps) /\ pc' = "send"
  <2>1. Satisfied(steps[sent], got[sent])
    BY <1>2, <1>8 DEF Satisfied, Extracts
  <2>2. sent < Len(steps)
    BY <1>2, <1>8
  <2>3. StepsSoFar'
    BY <1>1, <1>2, <1>8, <2>1, <2>2 DEF StepsSoFar, InProcess, InHTTP
  <2>4. VerdictIsTrue' /\ OutputIsAccounted'
    BY <1>8, NotDone
  <2> QED BY <1>1, <1>3, <1>8, <2>3, <2>4, MoveEInv DEF InProcess, InHTTP
<1> QED BY <1>5, <1>6, <1>7, <1>8 DEF ReportStep

(* Every step keeps the invariant.                                         *)
LEMMA NextEInv == EInv /\ [Next]_vars => EInv'
<1> SUFFICES ASSUME EInv, [Next]_vars PROVE EInv'
  OBVIOUS
<1>1. CASE UNCHANGED vars
  <2>1. UNCHANGED <<kind, pc, timeout, clock, proc, kids, watch, killed, err, wrote, copied,
                    out, result, steps, sent, got>>
    BY <1>1 DEF vars
  <2>2. EType' /\ PipeIsQuiet' /\ ErrIsTrue' /\ OutputSoFar' /\ StepsSoFar'
    BY <2>1 DEF EInv, EType, ExecutorTypeOK, PipeIsQuiet, ErrIsTrue, OutputSoFar, StepsSoFar
  <2>3. VerdictIsTrue' /\ OutputIsAccounted'
    BY <2>1 DEF EInv, VerdictIsTrue, OutputIsAccounted, Done, Last
  <2> QED BY <2>2, <2>3 DEF EInv
<1>2. CASE Next
  <2>1. UNCHANGED <<kind, steps>>
    BY <1>2 DEF Next
  <2>2. CASE ExecutorNext /\ UNCHANGED <<sent, got>>
    BY <2>1, <2>2, BeginEInv, TimeEInv, RunEInv, ReportEInv, CommandEInv, CopyEInv
    DEF ExecutorNext, Goroutine
  <2>3. ASSUME NEW t \in Timeouts, ExecuteHTTP(t) \/ ExecutePipeline(t)
        PROVE  EInv'
    <3>1. UNCHANGED <<sent, got>>
      BY <2>3 DEF ExecuteHTTP, ExecutePipeline
    <3> QED BY <2>1, <2>3, <3>1, BeginEInv
  <2>4. CASE Fetched \/ Send \/ RequestFails \/ ReportHTTP \/ ReportStep
    BY <2>1, <2>4, FetchedEInv, SendEInv, RequestFailsEInv, ReportHTTPEInv, ReportStepEInv
  <2>5. ASSUME NEW ok \in BOOLEAN, NEW body \in Bodies, Receive(ok, body)
        PROVE  EInv'
    BY <2>1, <2>5, ReceiveEInv
  <2> QED BY <1>2, <2>2, <2>3, <2>4, <2>5 DEF Next
<1> QED BY <1>1, <1>2

-----------------------------------------------------------------------------
(* The invariant holds of every run of the executor.                       *)
THEOREM ExecutorInvariant == Spec => []EInv
<1>1. Init => EInv
  BY InitEInv
<1>2. EInv /\ [Next]_vars => EInv'
  BY NextEInv
<1> QED BY <1>1, <1>2, PTL DEF Spec

(* Exit code 0 is never given to a run that failed, was killed or lost     *)
(* output, and no run that succeeded is called timed out (Execute,         *)
(* ExecuteHTTP, ExecutePipeline).                                          *)
THEOREM VerdictsAreTrue == Spec => []VerdictIsTrue
<1>1. EInv => VerdictIsTrue
  BY DEF EInv
<1> QED BY <1>1, ExecutorInvariant, PTL

(* A command's result has the first maxOutputBytes it and its descendants  *)
(* wrote, and is marked exactly when there was more (limitedWriter).       *)
THEOREM OutputsAreAccounted == Spec => []OutputIsAccounted
<1>1. EInv => OutputIsAccounted
  BY DEF EInv
<1> QED BY <1>1, ExecutorInvariant, PTL

(* No step of a pipeline is sent before the earlier ones were satisfied,   *)
(* and no form file unless it was fetched whole.                           *)
THEOREM StepsAreEarnedAlways == Spec => []StepsAreEarned
<1>1. EInv => StepsAreEarned
  BY DEF EInv, StepsSoFar, StepsAreEarned
<1> QED BY <1>1, ExecutorInvariant, PTL

-----------------------------------------------------------------------------
(***************************************************************************)
(* What is left of a run, and what can hold it.                            *)
(***************************************************************************)

(* The watcher is armed until the process is started and released only     *)
(* when it is reaped, and a process it has fired at is not running.        *)
WatchIsTrue ==
  /\ pc \in {"idle", "start"} => watch = "armed"
  /\ pc = "run" => watch # "released" /\ proc.state # "none"
  /\ watch = "fired" => proc.state # "running"

(* Every step keeps it: only Start makes a process run, and only WatchFires*)
(* fires.                                                                  *)
LEMMA WatchStaysTrue ==
  ASSUME EInv, [Next]_vars, WatchIsTrue
  PROVE  WatchIsTrue'
<1>0. proc \in [state : {"none", "running", "exited", "reaped"}, status : {-1, 0, 1}]
  BY DEF EInv, EType, ExecutorTypeOK
<1>1. CASE Start
  BY <1>0, <1>1 DEF Start, WatchIsTrue
<1>2. CASE WatchFires
  BY <1>0, <1>2 DEF WatchFires, WatchIsTrue
<1>3. CASE Reap
  BY <1>0, <1>3 DEF Reap, WatchIsTrue
<1>10. CASE WatchResult \/ PipeCloses \/ Report
  BY <1>0, <1>10 DEF WatchResult, PipeCloses, Report, Finish, runVars, WatchIsTrue
<1>4. CASE Command
  BY <1>0, <1>4 DEF Command, Writes, Forks, KidExits, Exits, Running, WatchIsTrue
<1>5. CASE TimePasses \/ \E n \in 1 .. 2 : Copy(n)
  BY <1>5 DEF TimePasses, Copy, runVars, WatchIsTrue
<1>6. CASE \E t \in Timeouts : \/ executeInterpreter(t) \/ ExecuteHTTP(t) \/ ExecutePipeline(t)
                               \/ \E d \in Dirs \cup {NoDir} : Execute(t, d)
  BY <1>6 DEF executeInterpreter, ExecuteHTTP, ExecutePipeline, Execute, WithTimeout, Finish,
              runVars, WatchIsTrue
<1>7. CASE Fetched \/ Send \/ RequestFails \/ ReportHTTP \/ ReportStep
  BY <1>7 DEF Fetched, Send, RequestFails, ReportHTTP, ReportStep, Finish, runVars, WatchIsTrue
<1>8. CASE \E ok \in BOOLEAN, body \in Bodies : Receive(ok, body)
  BY <1>8 DEF Receive, WatchIsTrue
<1>9. CASE UNCHANGED vars
  BY <1>9 DEF vars, WatchIsTrue
<1> QED BY <1>1, <1>2, <1>3, <1>4, <1>5, <1>6, <1>7, <1>8, <1>9, <1>10
        DEF Next, ExecutorNext, Goroutine

(* It holds in every state.                                                *)
LEMMA WatchAlwaysTrue == Spec => [](EInv /\ WatchIsTrue)
<1>1. Init => WatchIsTrue
  BY DEF Init, ExecutorInit, WatchIsTrue
<1>2. EInv /\ WatchIsTrue /\ [Next]_vars => WatchIsTrue'
  BY WatchStaysTrue
<1> QED BY <1>1, <1>2, ExecutorInvariant, PTL DEF Spec

(* When a result is reported its process has been reaped and nobody holds  *)
(* its pipe, and a timed-out process never stays running (CommandContext). *)
THEOREM RunsLeaveNothing == Spec => []NothingOutlivesItsRun
<1>1. EInv /\ WatchIsTrue => NothingOutlivesItsRun
  BY DEF EInv, PipeIsQuiet, WatchIsTrue, NothingOutlivesItsRun, Done
<1> QED BY <1>1, WatchAlwaysTrue, PTL

(* The safety part of RunReturns: past the timeout no run is stuck on its  *)
(* process, on a server or on its own goroutines.                          *)
THEOREM NoRunIsStuck == Spec => []OnlyDescendantsHoldARun
<1>1. EInv /\ WatchIsTrue => OnlyDescendantsHoldARun
  <2> SUFFICES ASSUME EInv, WatchIsTrue, pc \notin {"idle", "done"}
               PROVE  RelayHasAStep \/ kids > 0
    BY DEF OnlyDescendantsHoldARun
  <2>1. kids \in Nat /\ pc \in InProcess \cup InHTTP /\ kind \in Kinds
    BY BoundsAreNat DEF EInv, EType, ExecutorTypeOK
  <2>2. /\ pc \in InHTTP => kind # "command"
        /\ pc \in InProcess => kind \in {"command", "form"}
    BY <2>1 DEF EInv, EType, Kinds
  <2>3. CASE pc = "run"
    <3>1. proc.state \in {"none", "running", "exited", "reaped"}
      BY DEF EInv, EType, ExecutorTypeOK
    <3>2. watch \in {"armed", "fired", "released"}
      BY DEF EInv, EType, ExecutorTypeOK
    <3> QED BY <2>3, <3>1, <3>2 DEF RelayHasAStep, WatchIsTrue
  <2>4. CASE pc = "drain"
    BY <2>1, <2>4 DEF RelayHasAStep
  <2>5. CASE pc \notin {"run", "drain"}
    BY <2>1, <2>2, <2>5 DEF RelayHasAStep, InProcess, InHTTP
  <2> QED BY <2>3, <2>4, <2>5
<1> QED BY <1>1, WatchAlwaysTrue, PTL

=============================================================================
