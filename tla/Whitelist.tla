----------------------------- MODULE Whitelist ------------------------------
(***************************************************************************)
(* The whitelist and its file (whitelist/whitelist.go, and handleWhitelist *)
(* and handleWhitelistRemove in web/handler.go).  A handler changes the    *)
(* rules under the write lock, and then saves them under the read lock,    *)
(* which other handlers' saves share but no change can.  The handler       *)
(* answers 200 whether or not the save worked.                             *)
(*                                                                         *)
(* os.WriteFile truncates and then writes, so a crash or a failure in      *)
(* between leaves a file that Load refuses.  A rule in the file may carry  *)
(* the retired gate_output flag, which Load skips.                         *)
(*                                                                         *)
(* The rules are a list, and a file written by hand may hold a rule twice: *)
(* Load keeps both copies and Remove takes one away.  Their order is of no *)
(* consequence, so a list is the number of copies of each rule.            *)
(***************************************************************************)
EXTENDS Naturals

CONSTANTS
  Handlers,   \* whitelist requests in progress
  Keys,       \* rules
  Initial,    \* the file at the first start
  Torn        \* a file that does not parse

Copies == [Keys -> Nat]

(* A file that parses: its rules without and with gate_output.             *)
Stored == [plain : Copies, gated : Copies]

ASSUME WhitelistAssumption ==
  /\ Keys # {}
  /\ Initial \in Stored
  /\ Torn \notin Stored

VARIABLES
  up,        \* the relay is running
  rules,     \* Whitelist.rules
  file,
  readers,   \* handlers that hold the read lock
  handler,   \* per handler: its request
  \* history
  added,     \* rules operators added
  limit,     \* per rule: the copies its saved removals have left it
  failed     \* the latest save to end did not work

vars == <<up, rules, file, readers, handler, added, limit, failed>>

(* The rules, the file, the lock and the handlers keep their types.        *)
TypeOK ==
  /\ up \in BOOLEAN
  /\ rules \in Copies
  /\ file \in Stored \cup {Torn}
  /\ readers \subseteq Handlers
  /\ handler \in [Handlers -> [pc : {"idle", "save", "truncate", "write"},
                               op : {"add", "remove"}, key : Keys, data : Copies]]
  /\ added \subseteq Keys /\ limit \in Copies
  /\ failed \in BOOLEAN

(* Mutant: the gate flag is not decoded.                                   *)
LoadedUngated(f) == [k \in Keys |-> f.plain[k] + f.gated[k]]

Loaded(f) == f.plain

NoRules == [k \in Keys |-> 0]

Saved(list) == [plain |-> list, gated |-> NoRules]

Idle == [pc |-> "idle", op |-> "add", key |-> CHOOSE k \in Keys : TRUE,
         data |-> NoRules]

Init ==
  /\ up = FALSE
  /\ rules = NoRules
  /\ file = Initial
  /\ readers = {}
  /\ handler = [h \in Handlers |-> Idle]
  /\ added = {} /\ limit = Initial.plain
  /\ failed = FALSE

-----------------------------------------------------------------------------
(* Load.  A file that does not parse stops the relay.                      *)
Load ==
  /\ ~up
  /\ file # Torn
  /\ up' = TRUE
  /\ rules' = Loaded(file)
  /\ failed' = FALSE
  /\ UNCHANGED <<file, readers, handler, added, limit>>

Crash ==
  /\ up
  /\ up' = FALSE
  /\ rules' = NoRules
  /\ readers' = {}
  /\ handler' = [h \in Handlers |-> Idle]
  /\ UNCHANGED <<file, added, limit, failed>>

Begin(h, op, key) ==
  /\ up
  /\ handler[h].pc = "idle"
  /\ readers = {}
  /\ handler' = [handler EXCEPT ![h] = [Idle EXCEPT !.pc = "save", !.op = op, !.key = key]]

AtLeastOne(n) == IF n = 0 THEN 1 ELSE n

(* Re-adding a rule leaves the rules alone and saves all the same.         *)
Add(h, key) ==
  /\ Begin(h, "add", key)
  /\ rules' = [rules EXCEPT ![key] = AtLeastOne(@)]
  /\ added' = added \cup {key}
  /\ limit' = [limit EXCEPT ![key] = AtLeastOne(@)]
  /\ UNCHANGED <<up, file, readers, failed>>

(* The first copy goes; a rule that is not there is answered 404.          *)
Remove(h, key) ==
  /\ rules[key] > 0
  /\ Begin(h, "remove", key)
  /\ rules' = [rules EXCEPT ![key] = @ - 1]
  /\ UNCHANGED <<up, file, readers, added, limit, failed>>

(* Save: the read lock is taken, the rules are encoded, ...                *)
(* Mutant: the lock is released before the file is written.                *)
SaveUnlocked(h) ==
  /\ handler[h].pc = "save"
  /\ handler' = [handler EXCEPT ![h].pc = "truncate", ![h].data = rules]
  /\ UNCHANGED <<up, rules, file, readers, added, limit, failed>>

Save(h) ==
  /\ handler[h].pc = "save"
  /\ readers' = readers \cup {h}
  /\ handler' = [handler EXCEPT ![h].pc = "truncate", ![h].data = rules]
  /\ UNCHANGED <<up, rules, file, added, limit, failed>>

Truncate(h) ==
  /\ handler[h].pc = "truncate"
  /\ file' = Torn
  /\ handler' = [handler EXCEPT ![h].pc = "write"]
  /\ UNCHANGED <<up, rules, readers, added, limit, failed>>

(* ... and the request is answered.  What a removal has left is then all   *)
(* there may ever be, unless an operator adds the rule again.              *)
Write(h) ==
  /\ handler[h].pc = "write"
  /\ file' = Saved(handler[h].data)
  /\ readers' = readers \ {h}
  /\ limit' = IF handler[h].op = "remove"
              THEN [limit EXCEPT ![handler[h].key] = rules[handler[h].key]] ELSE limit
  /\ handler' = [handler EXCEPT ![h] = Idle]
  /\ failed' = FALSE
  /\ UNCHANGED <<up, rules, added>>

(* An error of os.WriteFile is logged and the request answered as usual.   *)
SaveFails(h) ==
  /\ handler[h].pc \in {"truncate", "write"}
  /\ readers' = readers \ {h}
  /\ handler' = [handler EXCEPT ![h] = Idle]
  /\ failed' = TRUE
  /\ UNCHANGED <<up, rules, file, added, limit>>

Next ==
  \/ Load \/ Crash
  \/ \E h \in Handlers :
       \/ \E key \in Keys : Add(h, key) \/ Remove(h, key)
       \/ Save(h) \/ Truncate(h) \/ Write(h) \/ SaveFails(h)

Spec == Init /\ [][Next]_vars

-----------------------------------------------------------------------------
Quiet == \A h \in Handlers : handler[h].pc = "idle"

(* When every request has been answered and the last save worked, the file *)
(* holds the rules in force: however two handlers interleave, no save      *)
(* overwrites a later change with an earlier list.                         *)
FileMatchesRules ==
  up /\ Quiet /\ ~failed => file # Torn /\ Loaded(file) = rules

(* A removal that was saved and answered is not undone by a crash and a    *)
(* restart, whatever other handler was in the middle of its own save: the  *)
(* relay never has more copies of a rule than it had then, and a rule that *)
(* was there once is out of force until an operator adds it again.  One    *)
(* that the first file held twice takes two removals.                      *)
RemovalIsDurable == up => \A k \in Keys : rules[k] <= limit[k]

(* A rule stored with gate_output never approves anything until an         *)
(* operator adds it again: not when it is loaded, and not after the file   *)
(* has been rewritten and loaded once more (storedRule's comment).         *)
GatedRuleIsNotLoaded ==
  \A k \in Keys \ added : rules[k] > 0 => Initial.plain[k] > 0

=============================================================================
