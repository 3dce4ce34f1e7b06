------------------------------ MODULE Scripts -------------------------------
(***************************************************************************)
(* The scripts directory and the three tools that use it: run_script,      *)
(* create_script and create_then_run (mcp/tools.go for what is checked     *)
(* when a request is queued, executor/script.go for what its execution     *)
(* does later).  Executions are goroutines, so their file operations       *)
(* interleave.                                                             *)
(*                                                                         *)
(* create_script takes flat names only; create_then_run prefixes a flat    *)
(* name with oneshot/, so its targets are the other names.                 *)
(***************************************************************************)
EXTENDS Naturals

CONSTANTS
  Reqs,            \* requests
  Flat, Paths,     \* script names without and with a slash
  Bodies,          \* script contents
  ExtOf,           \* the extension detectScriptType gives each body
  Initial,         \* what the directory holds at the start
  NoFile,          \* no file at a path
  Torn,            \* a file that has been truncated and not yet written
  NotFound         \* the lookup found no script

Exts  == {"sh", "py", "json"}
Names == Flat \cup Paths

ASSUME ScriptsAssumption ==
  /\ Flat \cap Paths = {}
  /\ Names # {} /\ Bodies # {}
  /\ ExtOf \in [Bodies -> Exts]
  /\ Initial \in [Names -> [Exts -> Bodies \cup {NoFile}]]
  /\ {NoFile, Torn, NotFound} \cap Bodies = {}
  /\ NoFile \notin {Torn, NotFound} /\ Torn # NotFound

Kinds == {"script", "script_create", "script_create_then_run"}

VARIABLES
  disk,    \* the directory
  req,     \* per request: what it asks for and how far it has got
  ran      \* history, per request: the text its interpreter was given

vars == <<disk, req, ran>>

Pc == {"none", "pending", "truncate", "write", "statSh", "statPy", "readJson",
       "open", "done"}

(* The directory, the requests and what their interpreters were given.     *)
TypeOK ==
  /\ disk \in [Names -> [Exts -> Bodies \cup {NoFile, Torn}]]
  /\ req \in [Reqs -> [pc : Pc, kind : Kinds, name : Names, body : Bodies, ext : Exts]]
  /\ ran \in [Reqs -> Bodies \cup {NoFile, Torn, NotFound}]

Blank == [pc |-> "none", kind |-> "script", name |-> CHOOSE n \in Names : TRUE,
          body |-> CHOOSE b \in Bodies : TRUE, ext |-> "json"]

Init ==
  /\ disk = Initial
  /\ req = [r \in Reqs |-> Blank]
  /\ ran = [r \in Reqs |-> NoFile]

Exists(name, ext) == disk[name][ext] # NoFile

-----------------------------------------------------------------------------
(***************************************************************************)
(* Queueing.  The checks are on the directory as it is now.                *)
(***************************************************************************)
Queue(r, kind, name, body) ==
  /\ req[r].pc = "none"
  /\ req' = [req EXCEPT ![r] = [pc |-> "pending", kind |-> kind, name |-> name,
                                body |-> body, ext |-> ExtOf[body]]]
  /\ UNCHANGED <<disk, ran>>

(* Mutant: run_script does not look before it queues.                      *)
runScriptUnchecked(r, name) == Queue(r, "script", name, Blank.body)

runScript(r, name) ==
  /\ \E e \in Exts : Exists(name, e)
  /\ Queue(r, "script", name, Blank.body)

createScript(r, name, body) ==
  /\ name \in Flat
  /\ Queue(r, "script_create", name, body)

(* Mutant: only the extension to be written is checked.                    *)
CollidesSameExt(name, body) == Exists(name, ExtOf[body])

Collides(name, body) == \E e \in Exts : Exists(name, e)

createThenRun(r, name, body) ==
  /\ name \in Paths
  /\ ~Collides(name, body)
  /\ Queue(r, "script_create_then_run", name, body)

-----------------------------------------------------------------------------
(***************************************************************************)
(* Execution, after an approval (executeRequest's switch).                 *)
(***************************************************************************)
Goto(r, pc) == req' = [req EXCEPT ![r].pc = pc]

Approved(r) ==
  /\ req[r].pc = "pending"
  /\ Goto(r, IF req[r].kind = "script" THEN "statSh" ELSE "truncate")
  /\ UNCHANGED <<disk, ran>>

(* writeScriptFile: os.WriteFile truncates, then writes.                   *)
Truncate(r) ==
  /\ req[r].pc = "truncate"
  /\ disk' = [disk EXCEPT ![req[r].name][req[r].ext] = Torn]
  /\ Goto(r, "write")
  /\ UNCHANGED ran

Write(r) ==
  /\ req[r].pc = "write"
  /\ disk' = [disk EXCEPT ![req[r].name][req[r].ext] = req[r].body]
  /\ Goto(r, IF req[r].kind = "script_create" THEN "done" ELSE "statSh")
  /\ UNCHANGED ran

(* A failed write skips the run.                                           *)
WriteFails(r) ==
  /\ req[r].pc \in {"truncate", "write"}
  /\ Goto(r, "done")
  /\ UNCHANGED <<disk, ran>>

(* ExecuteScriptIn: .sh, .py, .json, one look at a time.                   *)
Look(r, at, ext, next) ==
  /\ req[r].pc = at
  /\ req' = [req EXCEPT ![r] =
               IF Exists(@.name, ext) THEN [@ EXCEPT !.pc = "open", !.ext = ext]
               ELSE [@ EXCEPT !.pc = next]]
  /\ UNCHANGED <<disk, ran>>

StatSh(r) == Look(r, "statSh", "sh", "statPy")
StatPy(r) == Look(r, "statPy", "py", "readJson")

Run(r, ext) ==
  /\ ran' = [ran EXCEPT ![r] = IF Exists(req[r].name, ext)
                               THEN disk[req[r].name][ext] ELSE NotFound]
  /\ Goto(r, "done")
  /\ UNCHANGED disk

ReadJson(r) == req[r].pc = "readJson" /\ Run(r, "json")

(* bash or python3 opens the path it was given.                            *)
Open(r) == req[r].pc = "open" /\ Run(r, req[r].ext)

-----------------------------------------------------------------------------
Agent(r) ==
  \/ \E name \in Names : runScript(r, name)
  \/ \E name \in Names, body \in Bodies :
       createScript(r, name, body) \/ createThenRun(r, name, body)

Execution(r) ==
  \/ Truncate(r) \/ Write(r) \/ WriteFails(r)
  \/ StatSh(r) \/ StatPy(r) \/ ReadJson(r) \/ Open(r)

Next == \E r \in Reqs : Agent(r) \/ Approved(r) \/ Execution(r)

Spec == Init /\ [][Next]_vars

-----------------------------------------------------------------------------
(* Other create_then_runs of r's name that were approved.  All of them     *)
(* found the name free when they were queued, and the check is not         *)
(* repeated when they write.                                               *)
Rivals(r) == {q \in Reqs \ {r} : /\ req[q].kind = "script_create_then_run"
                                /\ req[q].name = req[r].name
                                /\ req[q].pc \notin {"none", "pending"}}

ApprovedTexts(r) == {req[r].body} \cup UNION {{Torn, req[q].body} : q \in Rivals(r)}

(* What a create_then_run executes was approved, whatever is in the        *)
(* directory beforehand and whatever other requests do: it is the script   *)
(* in the request itself, or that of an approved rival for its name        *)
(* (perhaps cut short by the rival's write), and never a script that was   *)
(* there already.                                                          *)
RunsWhatWasReviewed ==
  \A r \in Reqs :
    req[r].kind = "script_create_then_run" => ran[r] \in {NoFile} \cup ApprovedTexts(r)

(* A create_then_run executes the script that its own approval showed, if  *)
(* perhaps not all of it, and is not shadowed by another of its name       *)
(* (CHANGELOG, "Refuses on collision").  It does not hold of two that were *)
(* queued for one name: each passes createThenRun's check before either    *)
(* has written.                                                            *)
RunsItsOwnScript ==
  \A r \in Reqs :
    req[r].kind = "script_create_then_run" => ran[r] \in {NoFile, Torn, req[r].body}

(* A run_script that was accepted finds a script when it is approved,      *)
(* however much later that is and whatever is created meanwhile.           *)
AcceptedScriptIsFound ==
  \A r \in Reqs : req[r].kind = "script" => ran[r] # NotFound

=============================================================================
