-------------------------- MODULE PipelineExecutor --------------------------
(***************************************************************************)
(* The executor package as one machine: a command (Executor), an HTTP      *)
(* request (executor/http.go), the same with a form_file whose bytes a     *)
(* command fetches first, or a pipeline of HTTP steps                      *)
(* (executor/pipeline.go).  All run under one context each.                *)
(*                                                                         *)
(* The errors of reading a response body are dropped in the code, so a     *)
(* body cut short by a lost connection or by the deadline is taken as it   *)
(* is.  A text that was cut does not parse as a JSON array or object, and  *)
(* every path that jsonPath follows starts at one.                         *)
(***************************************************************************)
EXTENDS Executor

CONSTANT Pipelines    \* the pipelines requests run: sequences of steps

(* What a step extracts (nothing, a field, an array's length) and whether  *)
(* it has an empty_array_message.                                          *)
Step == [extract : {"none", "field", "count"}, guard : BOOLEAN]

ASSUME PipelinesAssumption == Pipelines \subseteq Seq(Step)

VARIABLES
  steps,    \* the pipeline; one plain step for an HTTP request
  sent,     \* requests handed to the HTTP client and not refused by it
  got       \* the responses received

vars == <<kind, pc, timeout, clock, proc, kids, watch, killed, err, wrote, copied,
          out, result, steps, sent, got>>

Plain == [extract |-> "none", guard |-> FALSE]

(* Bodies: all that is asked for; something missing; an empty array; JSON  *)
(* null; cut short; longer than the limit.                                 *)
Bodies   == {"full", "lacking", "empty", "null", "cut", "long"}
Response == [ok : BOOLEAN, body : Bodies]

Init ==
  /\ ExecutorInit
  /\ \/ kind \in {"command", "http", "form"} /\ steps = <<Plain>>
     \/ kind = "pipeline" /\ steps \in Pipelines
  /\ sent = 0
  /\ got = << >>

-----------------------------------------------------------------------------
(***************************************************************************)
(* ExecuteHTTP and ExecutePipeline.                                        *)
(***************************************************************************)
ExecuteHTTP(t) ==
  /\ pc = "idle"
  /\ \/ kind = "http" /\ WithTimeout(t, "send")
     \/ kind = "form" /\ WithTimeout(t, "start")
  /\ UNCHANGED <<sent, got>>

(* A pipeline without steps is done at once.                               *)
ExecutePipeline(t) ==
  /\ kind = "pipeline" /\ pc = "idle"
  /\ \/ steps # << >> /\ WithTimeout(t, "send")
     \/ /\ steps = << >>
        /\ timeout' = Effective(t)
        /\ Finish(0, "output")
        /\ UNCHANGED <<clock, err, runVars>>
  /\ UNCHANGED <<sent, got>>

(* form_file: the output of the fetch command, if it succeeded.            *)
(* Mutant: its error is dropped.                                           *)
FetchedAnyway ==
  /\ kind = "form" /\ pc = "returned"
  /\ pc' = "send"
  /\ UNCHANGED <<timeout, clock, err, result, runVars, sent, got>>

Fetched ==
  /\ kind = "form" /\ pc = "returned"
  /\ \/ err # "nil" /\ Finish(-1, "fetch")
     \/ err = "nil" /\ pc' = "send" /\ UNCHANGED result
  /\ UNCHANGED <<timeout, clock, err, runVars, sent, got>>

(* client.Do refuses a context that is done.                               *)
Send ==
  /\ pc = "send" /\ ~Expired
  /\ pc' = "wait"
  /\ sent' = sent + 1
  /\ UNCHANGED <<timeout, clock, err, result, runVars, got>>

(* The request cannot be built, the transport fails, or the deadline       *)
(* passes.                                                                 *)
RequestFails ==
  /\ pc \in {"send", "wait"}
  /\ Finish(-1, IF Expired THEN "timeout" ELSE "error")
  /\ UNCHANGED <<timeout, clock, err, runVars, sent, got>>

(* The response and as much of its body as arrives.                        *)
Receive(ok, body) ==
  /\ pc = "wait"
  /\ pc' = "respond"
  /\ got' = Append(got, [ok |-> ok, body |-> body])
  /\ out' = IF kind = "pipeline" THEN out
            ELSE LimitedWrite(out, IF body = "long" THEN maxOutputBytes + 1 ELSE maxOutputBytes)
  /\ UNCHANGED <<timeout, clock, err, result, proc, kids, watch, killed, wrote, copied, sent>>

ReportHTTP ==
  /\ kind \in {"http", "form"} /\ pc = "respond"
  /\ Finish(IF Last(got).ok THEN 0 ELSE 1, "status")
  /\ UNCHANGED <<timeout, clock, err, runVars, sent, got>>

-----------------------------------------------------------------------------
(* jsonPath on a response: a body that was cut does not parse, and null is *)
(* no array to count.                                                      *)
Extracts(step, body) ==
  \/ step.extract = "none"
  \/ body = "full"
  \/ step.extract = "count" /\ body = "empty"

(* The empty array guard asks for a body that unmarshals into a slice of   *)
(* no elements: an empty array, or null.                                   *)
(* Mutant: the error of parsing it is dropped; the array is then empty.    *)
EmptyUnparsed(step, body) == step.guard /\ body # "full"

EmptyArray(step, body) == step.guard /\ body \in {"empty", "null"}

(* A step of the pipeline after its response.                              *)
(* Mutant: the status is not looked at before the values are extracted.    *)
ReportStepAnyStatus ==
  /\ kind = "pipeline" /\ pc = "respond"
  /\ LET step == steps[sent]
         body == Last(got).body
     IN \/ EmptyArray(step, body) /\ Finish(0, "empty")
        \/ ~EmptyArray(step, body) /\ ~Extracts(step, body) /\ Finish(-1, "extract")
        \/ /\ ~EmptyArray(step, body) /\ Extracts(step, body)
           /\ IF sent = Len(steps) THEN Finish(0, "output")
              ELSE pc' = "send" /\ UNCHANGED result
  /\ UNCHANGED <<timeout, clock, err, runVars, sent, got>>

ReportStep ==
  /\ kind = "pipeline" /\ pc = "respond"
  /\ LET step == steps[sent]
         ok   == Last(got).ok
         body == Last(got).body
     IN \/ ~ok /\ Finish(1, "status")
        \/ ok /\ EmptyArray(step, body) /\ Finish(0, "empty")
        \/ ok /\ ~EmptyArray(step, body) /\ ~Extracts(step, body) /\ Finish(-1, "extract")
        \/ /\ ok /\ ~EmptyArray(step, body) /\ Extracts(step, body)
           /\ IF sent = Len(steps) THEN Finish(0, "output")
              ELSE pc' = "send" /\ UNCHANGED result
  /\ UNCHANGED <<timeout, clock, err, runVars, sent, got>>

-----------------------------------------------------------------------------
HTTPGoroutine ==
  Fetched \/ Send \/ (Expired /\ RequestFails) \/ ReportHTTP \/ ReportStep

Next ==
  /\ \/ ExecutorNext /\ UNCHANGED <<sent, got>>
     \/ \E t \in Timeouts : ExecuteHTTP(t) \/ ExecutePipeline(t)
     \/ Fetched \/ Send \/ RequestFails \/ ReportHTTP \/ ReportStep
     \/ \E ok \in BOOLEAN, body \in Bodies : Receive(ok, body)
  /\ UNCHANGED <<kind, steps>>

(* Go runs its goroutines and its timers; a client notices that its        *)
(* context is done.  Nothing is assumed of the command, of its descendants *)
(* or of the server.                                                       *)
Idle == UNCHANGED <<kind, steps, sent, got>>

Fairness ==
  /\ WF_vars(TimePasses /\ Idle)
  /\ WF_vars(Goroutine /\ Idle)
  /\ WF_vars(WatchFires /\ Idle)
  /\ WF_vars((\E n \in 1 .. 2 : Copy(n)) /\ Idle)
  /\ WF_vars(HTTPGoroutine /\ UNCHANGED <<kind, steps>>)

Spec == Init /\ [][Next]_vars /\ Fairness

-----------------------------------------------------------------------------
Done == pc = "done"

(* A step's response is what the step needs: 2xx and, where a value is     *)
(* extracted, the value.                                                   *)
Satisfied(step, resp) ==
  resp.ok /\ (step.extract = "none" \/ resp.body = "full"
                \/ (step.extract = "count" /\ resp.body = "empty"))

(* The exit code tells the truth about the race between the end of the     *)
(* run and its timeout.  0 means that the process itself exited 0 before   *)
(* any kill and all its output was taken, or that the response (of every   *)
(* step, with every value extracted, or a whole empty array or null that   *)
(* its step is prepared for) was 2xx; a process that succeeded before any kill is   *)
(* never reported as timed out, however long its pipe stays open.          *)
VerdictIsTrue ==
  /\ Done /\ result.exit = 0 =>
       CASE kind = "command" ->
              /\ proc = [state |-> "reaped", status |-> 0] /\ ~killed
              /\ kids = 0 /\ copied = wrote
         [] kind \in {"http", "form"} -> Last(got).ok
         [] kind = "pipeline" ->
              \/ /\ Len(got) = Len(steps)
                 /\ \A i \in DOMAIN steps : Satisfied(steps[i], got[i])
              \/ /\ steps[Len(got)].guard
                 /\ Last(got).ok /\ Last(got).body \in {"empty", "null"}
  /\ Done /\ result.why = "timeout" /\ kind = "command" =>
       proc.status # 0 \/ killed \/ proc.state = "none"

(* Whatever the command and its descendants wrote, in whatever pieces it   *)
(* was copied and however the run ended, the result holds the first        *)
(* maxOutputBytes of it, and says so exactly when there was more.          *)
OutputIsAccounted ==
  Done /\ kind = "command" =>
    /\ result.out = IF wrote > maxOutputBytes THEN maxOutputBytes ELSE wrote
    /\ result.mark = (wrote > maxOutputBytes)

(* Nothing is sent on the strength of something that failed or arrived in  *)
(* part: a step is sent when every earlier one was satisfied, a form file  *)
(* when its fetch succeeded and the file is whole.                         *)
StepsAreEarned ==
  /\ \A i \in 1 .. sent - 1 : Satisfied(steps[i], got[i])
  /\ kind = "form" /\ sent > 0 =>
       proc = [state |-> "reaped", status |-> 0] /\ kids = 0 /\ copied = wrote

(* Nothing outlives its run: when a result is there the process has been   *)
(* reaped and no descendant holds the pipe, whichever of exit, timeout and *)
(* kill came first; and a process that the watcher fired at is not left    *)
(* running.                                                                *)
NothingOutlivesItsRun ==
  /\ Done => proc.state \in {"none", "reaped"} /\ kids = 0
  /\ watch = "fired" => proc.state # "running"

(* Past its timeout, only a descendant that holds the pipe can hold a run: *)
(* otherwise the goroutine, the watcher or the copying has a step to take. *)
RelayHasAStep ==
  \/ pc \in {"start", "send", "wait"}
  \/ pc = "run" /\ (watch = "armed" \/ proc.state \in {"exited", "reaped"})
  \/ pc = "drain" /\ (copied < wrote \/ kids = 0)
  \/ pc = "returned" /\ kind \in {"command", "form"}
  \/ pc = "respond" /\ kind # "command"

OnlyDescendantsHoldARun ==
  Expired /\ pc \notin {"idle", "done"} => RelayHasAStep \/ kids > 0

(* A run ends once no descendant of its command holds the output pipe,     *)
(* even if the command, or a server, never ends by itself: the timeout     *)
(* sees to those.  A descendant that keeps the pipe holds the run, timeout *)
(* or not.                                                                 *)
RunReturns == <>[](kids = 0) => [](pc # "idle" => <>Done)

=============================================================================
