------------------------------ MODULE Executor ------------------------------
(***************************************************************************)
(* One run of a command (executor/executor.go) or of a script's            *)
(* interpreter (executor/script.go) under its timeout.                     *)
(*                                                                         *)
(* cmd.Run belongs to os/exec and is modelled from its use: the command's  *)
(* output goes through a pipe that its descendants inherit and that a      *)
(* goroutine copies into a limitedWriter; a watcher kills the process, and *)
(* only it, when the context's deadline passes; Run reaps the process,     *)
(* takes what the watcher has to say and, as no WaitDelay is set, then     *)
(* waits until nobody holds the pipe.                                      *)
(*                                                                         *)
(* One output stream is modelled: stdout and stderr are handled alike.     *)
(***************************************************************************)
EXTENDS Integers, Sequences, SequencesExt

CONSTANTS
  DefaultTimeout, MaxTimeout,   \* Config
  AllowedDirs,                  \* Config: directories, as sequences of names
  Timeouts,                     \* the timeouts requests ask for
  Dirs,                         \* the working directories they ask for
  NoDir,                        \* no working directory
  maxOutputBytes,               \* what a limitedWriter keeps
  MaxOut,                       \* bound: bytes a command writes
  MaxKids,                      \* bound: descendants that hold the pipe
  NoResult

ASSUME ExecutorAssumption ==
  /\ DefaultTimeout \in Int /\ MaxTimeout \in Int /\ Timeouts \subseteq Int
  /\ {maxOutputBytes, MaxOut, MaxKids} \subseteq Nat
  /\ NoDir \notin Dirs

VARIABLES
  kind,      \* what is run: "command", or a request of PipelineExecutor
  pc,        \* how far the relay's goroutine has got
  timeout,   \* the timeout in force
  clock,     \* seconds since the context was made, up to the timeout
  proc,      \* the process: its state and its exit status
  kids,      \* its descendants that hold one of its pipes
  watch,     \* os/exec's watcher of the context
  killed,    \* the watcher's kill went through
  err,       \* what Run returns
  wrote,     \* bytes written to the pipe
  copied,    \* bytes taken out of it
  out,       \* the limitedWriter they went to
  result     \* the store.Result

runVars == <<proc, kids, watch, killed, wrote, copied, out>>

Errs == {"nil", "exit", "context", "other"}

(* A status of -1 is death by a signal.                                    *)
ExecutorTypeOK ==
  /\ timeout \in Int /\ clock \in Int
  /\ proc \in [state : {"none", "running", "exited", "reaped"}, status : {-1, 0, 1}]
  /\ kids \in 0 .. MaxKids
  /\ watch \in {"armed", "fired", "released"}
  /\ killed \in BOOLEAN
  /\ err \in Errs
  /\ wrote \in 0 .. MaxOut /\ copied \in 0 .. wrote
  /\ out \in [buf : 0 .. maxOutputBytes, hit : BOOLEAN]

ExecutorInit ==
  /\ pc = "idle"
  /\ timeout = 0 /\ clock = 0
  /\ proc = [state |-> "none", status |-> 0]
  /\ kids = 0
  /\ watch = "armed" /\ killed = FALSE
  /\ err = "nil"
  /\ wrote = 0 /\ copied = 0
  /\ out = [buf |-> 0, hit |-> FALSE]
  /\ result = NoResult

-----------------------------------------------------------------------------
(* The default replaces a timeout that is not positive; the cap applies to *)
(* the default as well.                                                    *)
Effective(t) ==
  LET asked == IF t <= 0 THEN DefaultTimeout ELSE t
  IN IF asked > MaxTimeout THEN MaxTimeout ELSE asked

(* ctx.Err() is DeadlineExceeded.                                          *)
Expired == clock >= timeout

(* A directory at or below an allowed one.  The prefix test appends a      *)
(* slash, so an allowed "/" has nothing below it.                          *)
validateWorkingDir(dir) ==
  dir # NoDir /\ AllowedDirs # {} =>
    \E a \in AllowedDirs : dir = a \/ (a # << >> /\ IsPrefix(a, dir))

Finish(exit, why) ==
  /\ pc' = "done"
  /\ result' = [exit |-> exit, why |-> why, out |-> out.buf, mark |-> out.hit]

WithTimeout(t, next) ==
  /\ timeout' = Effective(t)
  /\ pc' = next
  /\ UNCHANGED <<clock, err, result, runVars>>

(* Execute, up to Run: a directory that is not allowed runs nothing.       *)
Execute(t, dir) ==
  /\ kind = "command" /\ pc = "idle"
  /\ \/ validateWorkingDir(dir) /\ WithTimeout(t, "start")
     \/ /\ ~validateWorkingDir(dir)
        /\ Finish(-1, "refused")
        /\ UNCHANGED <<timeout, clock, err, runVars>>

(* executeShell and executePython take no working directory.               *)
executeInterpreter(t) ==
  kind = "command" /\ pc = "idle" /\ WithTimeout(t, "start")

TimePasses ==
  /\ pc \notin {"idle", "done"}
  /\ clock < timeout
  /\ clock' = clock + 1
  /\ UNCHANGED <<pc, timeout, err, result, runVars>>

-----------------------------------------------------------------------------
(***************************************************************************)
(* cmd.Run.                                                                *)
(***************************************************************************)

(* Start refuses a context that is done already.                           *)
Start ==
  /\ pc = "start"
  /\ \/ /\ ~Expired
        /\ pc' = "run"
        /\ proc' = [proc EXCEPT !.state = "running"]
        /\ UNCHANGED err
     \/ /\ pc' = "returned"
        /\ err' = IF Expired THEN "context" ELSE "other"    \* no such command
        /\ UNCHANGED proc
  /\ UNCHANGED <<timeout, clock, result, kids, watch, killed, wrote, copied, out>>

(* The deadline passes.  A process that has exited and is not reaped yet   *)
(* can still be signalled.                                                 *)
(* Mutant: exec.Command in place of exec.CommandContext, no watcher.       *)
WatchNothing ==
  /\ FALSE
  /\ UNCHANGED <<pc, timeout, clock, err, result, runVars>>

WatchFires ==
  /\ pc = "run" /\ watch = "armed" /\ Expired
  /\ watch' = "fired"
  /\ killed' = (proc.state # "reaped")
  /\ proc' = IF proc.state = "running" THEN [state |-> "exited", status |-> -1] ELSE proc
  /\ UNCHANGED <<pc, timeout, clock, err, result, kids, wrote, copied, out>>

Reap ==
  /\ pc = "run" /\ proc.state = "exited"
  /\ proc' = [proc EXCEPT !.state = "reaped"]
  /\ UNCHANGED <<pc, timeout, clock, err, result, kids, watch, killed, wrote, copied, out>>

(* The exit status comes before the watcher's error.                       *)
WatchResult ==
  /\ pc = "run" /\ proc.state = "reaped"
  /\ watch' = IF watch = "armed" THEN "released" ELSE watch
  /\ err' = IF proc.status # 0 THEN "exit" ELSE IF killed THEN "context" ELSE "nil"
  /\ pc' = "drain"
  /\ UNCHANGED <<timeout, clock, result, proc, kids, killed, wrote, copied, out>>

(* limitedWriter.Write: n more bytes.  All are consumed, the overflow is   *)
(* dropped and noted.                                                      *)
(* Mutant: nothing is noted when the buffer is exactly full.               *)
LimitedWriteExact(w, n) ==
  LET remaining == maxOutputBytes - w.buf
  IN IF remaining <= 0 THEN w
     ELSE IF n > remaining THEN [buf |-> maxOutputBytes, hit |-> TRUE]
     ELSE [w EXCEPT !.buf = @ + n]

LimitedWrite(w, n) ==
  LET remaining == maxOutputBytes - w.buf
  IN IF remaining <= 0 THEN [w EXCEPT !.hit = TRUE]
     ELSE IF n > remaining THEN [buf |-> maxOutputBytes, hit |-> TRUE]
     ELSE [w EXCEPT !.buf = @ + n]

(* The copying goroutine; form_file's fetch copies into a plain buffer.    *)
Copy(n) ==
  /\ pc \in {"run", "drain"}
  /\ copied + n <= wrote
  /\ copied' = copied + n
  /\ out' = IF kind = "command" THEN LimitedWrite(out, n) ELSE out
  /\ UNCHANGED <<pc, timeout, clock, err, result, proc, kids, watch, killed, wrote>>

(* Run returns when the pipe is empty and nobody can write to it.  It also *)
(* waits for the goroutine that feeds the command's stdin, which ends when *)
(* everything is written or nobody can read any more (a broken pipe is no  *)
(* error to it): a descendant that keeps any of the pipes is one of kids.  *)
(* Mutant: it does not wait for the copying (Process.Wait for cmd.Run).    *)
PipeIgnored ==
  /\ pc = "drain"
  /\ pc' = "returned"
  /\ UNCHANGED <<timeout, clock, err, result, runVars>>

PipeCloses ==
  /\ pc = "drain"
  /\ copied = wrote /\ kids = 0
  /\ pc' = "returned"
  /\ UNCHANGED <<timeout, clock, err, result, runVars>>

(* The rest of Execute.  The context is asked only now, so a process that  *)
(* failed by itself is reported as timed out when its pipe stayed open     *)
(* past the deadline; one that succeeded is not.                           *)
(* Mutant: a context error is not an exit error, and is dropped.           *)
ReportExitOnly ==
  /\ kind = "command" /\ pc = "returned"
  /\ IF err # "exit" THEN Finish(0, "exit") ELSE Finish(proc.status, "exit")
  /\ UNCHANGED <<timeout, clock, err, runVars>>

Report ==
  /\ kind = "command" /\ pc = "returned"
  /\ \/ err = "nil" /\ Finish(0, "exit")
     \/ err # "nil" /\ Expired /\ Finish(-1, "timeout")
     \/ err = "exit" /\ ~Expired /\ Finish(proc.status, "exit")
     \/ err \in {"context", "other"} /\ ~Expired /\ Finish(-1, "error")
  /\ UNCHANGED <<timeout, clock, err, runVars>>

-----------------------------------------------------------------------------
(***************************************************************************)
(* The command.  It and its descendants do what they like; only the        *)
(* process itself is ever killed.                                          *)
(***************************************************************************)
Running == proc.state = "running"

Writes(n) ==
  /\ Running \/ kids > 0
  /\ wrote + n <= MaxOut
  /\ wrote' = wrote + n
  /\ UNCHANGED <<pc, timeout, clock, err, result, proc, kids, watch, killed, copied, out>>

Forks ==
  /\ Running /\ kids < MaxKids
  /\ kids' = kids + 1
  /\ UNCHANGED <<pc, timeout, clock, err, result, proc, watch, killed, wrote, copied, out>>

KidExits ==
  /\ kids > 0
  /\ kids' = kids - 1
  /\ UNCHANGED <<pc, timeout, clock, err, result, proc, watch, killed, wrote, copied, out>>

Exits(status) ==
  /\ Running
  /\ proc' = [state |-> "exited", status |-> status]
  /\ UNCHANGED <<pc, timeout, clock, err, result, kids, watch, killed, wrote, copied, out>>

-----------------------------------------------------------------------------
Goroutine ==
  Start \/ WatchFires \/ Reap \/ WatchResult \/ PipeCloses \/ Report

Command ==
  \/ \E n \in 1 .. 2 : Writes(n)
  \/ Forks \/ KidExits
  \/ \E status \in {-1, 0, 1} : Exits(status)

ExecutorNext ==
  \/ \E t \in Timeouts : executeInterpreter(t) \/ \E d \in Dirs \cup {NoDir} : Execute(t, d)
  \/ TimePasses \/ Goroutine \/ Command
  \/ \E n \in 1 .. 2 : Copy(n)

=============================================================================
