-------------------------- MODULE WhitelistProofs ---------------------------
(***************************************************************************)
(* Proofs about Whitelist, for every number of handlers and every set of   *)
(* rules.                                                                  *)
(*                                                                         *)
(* The properties rest on the read lock: while a handler is between        *)
(* encoding the rules and the end of its write no other can change them,   *)
(* so what it has encoded is what is in force (SnapshotIsCurrent).         *)
(***************************************************************************)
EXTENDS Whitelist, TLAPS

USE WhitelistAssumption

-----------------------------------------------------------------------------
(***************************************************************************)
(* The inductive invariant.                                                *)
(***************************************************************************)

(* The read lock is held by the handlers that are saving, and a relay that *)
(* is down has neither handlers nor rules.                                 *)
LockHeld ==
  /\ \A h \in Handlers : handler[h].pc \in {"truncate", "write"} <=> h \in readers
  /\ ~up => rules = NoRules /\ Quiet

SnapshotIsCurrent == \A h \in readers : handler[h].data = rules

(* The removals that were answered bound the file as well as the memory.   *)
RemovedFromFile ==
  /\ \A k \in Keys : rules[k] <= limit[k]
  /\ file # Torn => \A k \in Keys : Loaded(file)[k] <= limit[k]

(* What the file would load was there ungated at the start or was added.   *)
FileIsUngated ==
  file # Torn => \A k \in Keys \ added : Loaded(file)[k] > 0 => Initial.plain[k] > 0

WInv ==
  /\ TypeOK /\ LockHeld /\ SnapshotIsCurrent
  /\ FileMatchesRules /\ RemovedFromFile
  /\ FileIsUngated /\ GatedRuleIsNotLoaded

-----------------------------------------------------------------------------
(* No rules at all are a list.                                             *)
LEMMA NoRulesType == NoRules \in Copies
BY DEF NoRules, Copies

(* The idle handler is well typed.                                         *)
LEMMA IdleType ==
  /\ Idle \in [pc : {"idle", "save", "truncate", "write"}, op : {"add", "remove"},
               key : Keys, data : Copies]
  /\ Idle.pc = "idle"
BY NoRulesType DEF Idle

(* What Save writes is a list of rules that Load reads back as it was.     *)
LEMMA SavedIsLoaded ==
  ASSUME NEW list \in Copies
  PROVE  Saved(list) \in Stored /\ Saved(list) # Torn /\ Loaded(Saved(list)) = list
<1>1. Saved(list) \in Stored /\ Loaded(Saved(list)) = list
  BY NoRulesType DEF Saved, Stored, Loaded
<1> QED BY <1>1

(* Load reads only rules.                                                  *)
LEMMA LoadedType ==
  ASSUME NEW f \in Stored
  PROVE  Loaded(f) \in Copies /\ f # Torn
BY DEF Loaded, Stored

(* The relay is down, no handler is at work, and the file is the operator's*)
(* own.                                                                    *)
LEMMA InitWInv == Init => WInv
<1> SUFFICES ASSUME Init PROVE WInv
  OBVIOUS
<1>0. Initial.plain \in Copies
  BY DEF Stored
<1>1. TypeOK
  BY <1>0, IdleType, NoRulesType DEF Init, TypeOK
<1>2. LockHeld /\ SnapshotIsCurrent /\ FileMatchesRules /\ GatedRuleIsNotLoaded
  BY IdleType DEF Init, LockHeld, SnapshotIsCurrent, FileMatchesRules,
                  GatedRuleIsNotLoaded, Quiet, NoRules
<1>3. RemovedFromFile /\ FileIsUngated
  BY <1>0 DEF Init, RemovedFromFile, FileIsUngated, NoRules, Loaded, Copies
<1> QED BY <1>1, <1>2, <1>3 DEF WInv

(* A start of the relay (Load).                                            *)
LEMMA LoadWInv ==
  ASSUME WInv, Load
  PROVE  WInv'
<1> USE DEF WInv
<1>1. file \in Stored /\ rules' = Loaded(file) /\ Loaded(file) \in Copies
  BY LoadedType DEF Load, TypeOK
<1>2. TypeOK'
  BY <1>1 DEF Load, TypeOK
<1>3. LockHeld' /\ SnapshotIsCurrent'
  BY DEF Load, LockHeld, SnapshotIsCurrent, Quiet, TypeOK
<1>4. FileMatchesRules' /\ RemovedFromFile'
  BY <1>1 DEF Load, FileMatchesRules, RemovedFromFile
<1>5. FileIsUngated' /\ GatedRuleIsNotLoaded'
  BY <1>1 DEF Load, FileIsUngated, GatedRuleIsNotLoaded
<1> QED BY <1>2, <1>3, <1>4, <1>5

(* A crash: the file stays as it is.                                       *)
LEMMA CrashWInv ==
  ASSUME WInv, Crash
  PROVE  WInv'
<1> USE DEF WInv
<1>1. TypeOK'
  BY IdleType, NoRulesType DEF Crash, TypeOK
<1>2. LockHeld' /\ SnapshotIsCurrent' /\ FileMatchesRules'
  BY IdleType DEF Crash, LockHeld, SnapshotIsCurrent, FileMatchesRules, Quiet
<1>3. RemovedFromFile' /\ FileIsUngated' /\ GatedRuleIsNotLoaded'
  BY DEF Crash, RemovedFromFile, FileIsUngated, GatedRuleIsNotLoaded, TypeOK, Copies, NoRules
<1> QED BY <1>1, <1>2, <1>3

(* Add and Remove: nobody holds the read lock, so no encoded list is left  *)
(* behind.                                                                 *)
LEMMA ChangeWInv ==
  ASSUME WInv, NEW h \in Handlers, NEW key \in Keys, Add(h, key) \/ Remove(h, key)
  PROVE  WInv'
<1> USE DEF WInv
<1>1. PICK op \in {"add", "remove"} : Begin(h, op, key)
  BY DEF Add, Remove
<1> DEFINE new == [Idle EXCEPT !.pc = "save", !.op = op, !.key = key]
<1>2. /\ new \in [pc : {"idle", "save", "truncate", "write"}, op : {"add", "remove"},
                  key : Keys, data : Copies]
      /\ new.pc = "save"
  BY IdleType
<1>3. up /\ readers = {} /\ handler' = [handler EXCEPT ![h] = new]
  BY <1>1 DEF Begin
<1> HIDE DEF new
<1>4. UNCHANGED <<up, file, readers, failed>>
  BY DEF Add, Remove
<1>5. /\ rules' \in Copies /\ added' \subseteq Keys /\ limit' \in Copies
      /\ added \subseteq added'
      /\ \A k \in Keys \ added' : rules'[k] <= rules[k]
      /\ \A k \in Keys : rules'[k] <= limit'[k] /\ limit[k] <= limit'[k]
  <2>0. /\ rules \in [Keys -> Nat] /\ limit \in [Keys -> Nat] /\ added \subseteq Keys
        /\ \A k \in Keys : rules[k] <= limit[k]
    BY DEF TypeOK, Copies, RemovedFromFile
  <2>1. CASE Add(h, key)
    <3>1. /\ rules' = [rules EXCEPT ![key] = AtLeastOne(rules[key])]
          /\ limit' = [limit EXCEPT ![key] = AtLeastOne(limit[key])]
          /\ added' = added \cup {key}
      BY <2>1 DEF Add
    <3>2. \A m, n \in Nat : /\ AtLeastOne(m) \in Nat /\ n <= AtLeastOne(n)
                            /\ m <= n => AtLeastOne(m) <= AtLeastOne(n)
      BY DEF AtLeastOne
    <3>3. rules' \in Copies /\ limit' \in Copies
      BY <2>0, <3>1, <3>2 DEF Copies
    <3>4. ASSUME NEW k \in Keys
          PROVE  /\ k # key => rules'[k] = rules[k] /\ limit'[k] = limit[k]
                 /\ rules'[k] <= limit'[k] /\ limit[k] <= limit'[k]
      BY <2>0, <3>1, <3>2
    <3> QED BY <2>0, <3>1, <3>3, <3>4
  <2>2. CASE Remove(h, key)
    <3>1. /\ rules[key] > 0 /\ rules' = [rules EXCEPT ![key] = rules[key] - 1]
          /\ limit' = limit /\ added' = added
      BY <2>2 DEF Remove
    <3>2. rules' \in Copies
      BY <2>0, <3>1 DEF Copies
    <3>3. ASSUME NEW k \in Keys PROVE rules'[k] <= rules[k]
      BY <2>0, <3>1
    <3>4. ASSUME NEW k \in Keys PROVE rules'[k] <= limit'[k] /\ limit[k] <= limit'[k]
      BY <2>0, <3>1, <3>2, <3>3 DEF Copies
    <3> QED BY <2>0, <3>1, <3>2, <3>3, <3>4 DEF Copies
  <2> QED BY <2>1, <2>2
<1>6. TypeOK'
  BY <1>2, <1>3, <1>4, <1>5 DEF TypeOK
<1>7. LockHeld' /\ SnapshotIsCurrent' /\ FileMatchesRules'
  BY <1>2, <1>3, <1>4 DEF TypeOK, LockHeld, SnapshotIsCurrent, FileMatchesRules, Quiet
<1>8. RemovedFromFile' /\ FileIsUngated' /\ GatedRuleIsNotLoaded'
  BY <1>4, <1>5, LoadedType DEF RemovedFromFile, FileIsUngated, GatedRuleIsNotLoaded,
                                TypeOK, Copies
<1> QED BY <1>6, <1>7, <1>8

(* Save and its truncation.                                                *)
LEMMA SaveWInv ==
  ASSUME WInv, NEW h \in Handlers, Save(h) \/ Truncate(h)
  PROVE  WInv'
<1> USE DEF WInv
<1>1. CASE Save(h)
  <2>1. TypeOK'
    BY <1>1 DEF Save, TypeOK
  <2>2. /\ handler'[h].pc = "truncate" /\ handler'[h].data = rules
        /\ \A g \in Handlers \ {h} : handler'[g] = handler[g]
    BY <1>1 DEF Save, TypeOK
  <2>3. LockHeld' /\ SnapshotIsCurrent' /\ FileMatchesRules'
    BY <1>1, <2>2 DEF Save, TypeOK, LockHeld, SnapshotIsCurrent, FileMatchesRules, Quiet
  <2>4. RemovedFromFile' /\ FileIsUngated' /\ GatedRuleIsNotLoaded'
    BY <1>1 DEF Save, RemovedFromFile, FileIsUngated, GatedRuleIsNotLoaded
  <2> QED BY <2>1, <2>3, <2>4
<1>2. CASE Truncate(h)
  <2>1. TypeOK'
    BY <1>2 DEF Truncate, TypeOK
  <2>2. /\ handler'[h].pc = "write" /\ handler'[h].data = handler[h].data
        /\ \A g \in Handlers \ {h} : handler'[g] = handler[g]
    BY <1>2 DEF Truncate, TypeOK
  <2>3. LockHeld' /\ SnapshotIsCurrent' /\ FileMatchesRules'
    BY <1>2, <2>2 DEF Truncate, TypeOK, LockHeld, SnapshotIsCurrent, FileMatchesRules, Quiet
  <2>4. RemovedFromFile' /\ FileIsUngated' /\ GatedRuleIsNotLoaded'
    BY <1>2 DEF Truncate, RemovedFromFile, FileIsUngated, GatedRuleIsNotLoaded
  <2> QED BY <2>1, <2>3, <2>4
<1> QED BY <1>1, <1>2

(* The end of a save.  The handler held the read lock, so it writes the    *)
(* rules in force.                                                         *)
LEMMA WriteWInv ==
  ASSUME WInv, NEW h \in Handlers, Write(h)
  PROVE  WInv'
<1> USE DEF WInv
<1>1. handler[h].data = rules /\ h \in readers /\ rules \in Copies
  BY DEF Write, LockHeld, SnapshotIsCurrent, TypeOK
<1>2. file' = Saved(rules) /\ file' \in Stored /\ file' # Torn /\ Loaded(file') = rules
  BY <1>1, SavedIsLoaded DEF Write
<1>3. limit' \in Copies /\ \A k \in Keys : rules[k] <= limit'[k]
  BY DEF Write, TypeOK, Copies, RemovedFromFile
<1>4. TypeOK'
  BY <1>2, <1>3, IdleType DEF Write, TypeOK
<1>5. LockHeld' /\ SnapshotIsCurrent'
  BY <1>1, IdleType DEF Write, TypeOK, LockHeld, SnapshotIsCurrent, Quiet
<1>6. FileMatchesRules' /\ RemovedFromFile' /\ FileIsUngated' /\ GatedRuleIsNotLoaded'
  BY <1>2, <1>3 DEF Write, FileMatchesRules, RemovedFromFile, FileIsUngated,
                    GatedRuleIsNotLoaded
<1> QED BY <1>4, <1>5, <1>6

(* A save that fails promises nothing about the file.                      *)
LEMMA SaveFailsWInv ==
  ASSUME WInv, NEW h \in Handlers, SaveFails(h)
  PROVE  WInv'
<1> USE DEF WInv
<1>1. TypeOK'
  BY IdleType DEF SaveFails, TypeOK
<1>2. LockHeld' /\ SnapshotIsCurrent' /\ FileMatchesRules'
  BY IdleType DEF SaveFails, TypeOK, LockHeld, SnapshotIsCurrent, FileMatchesRules, Quiet
<1>3. RemovedFromFile' /\ FileIsUngated' /\ GatedRuleIsNotLoaded'
  BY DEF SaveFails, RemovedFromFile, FileIsUngated, GatedRuleIsNotLoaded
<1> QED BY <1>1, <1>2, <1>3

-----------------------------------------------------------------------------
(* Every step keeps the invariant.                                         *)
LEMMA NextWInv == WInv /\ [Next]_vars => WInv'
<1> SUFFICES ASSUME WInv, [Next]_vars PROVE WInv'
  OBVIOUS
<1>1. CASE Next
  BY <1>1, LoadWInv, CrashWInv, ChangeWInv, SaveWInv, WriteWInv, SaveFailsWInv DEF Next
<1>2. CASE UNCHANGED vars
  BY <1>2 DEF vars, WInv, TypeOK, LockHeld, SnapshotIsCurrent, FileMatchesRules,
              RemovedFromFile, FileIsUngated, GatedRuleIsNotLoaded, Quiet
<1> QED BY <1>1, <1>2

(* The whitelist's invariant holds in every state.                         *)
THEOREM WhitelistInvariant == Spec => []WInv
<1> QED BY InitWInv, NextWInv, PTL DEF Spec

(* However many handlers change and save the rules at once, the file never *)
(* falls behind them.                                                      *)
THEOREM FileIsCurrent == Spec => []FileMatchesRules
<1>1. WInv => FileMatchesRules
  BY DEF WInv
<1> QED BY <1>1, WhitelistInvariant, PTL

(* No crash, restart or failed save brings back a copy of a rule whose     *)
(* removal was saved and answered (whitelist.go Remove, Save and Load).    *)
THEOREM RemovalHolds == Spec => []RemovalIsDurable
<1>1. WInv => RemovalIsDurable
  BY DEF WInv, RemovedFromFile, RemovalIsDurable
<1> QED BY <1>1, WhitelistInvariant, PTL

(* A rule stored with gate_output is in force only if an operator has      *)
(* added it again, over any number of saves and restarts.                  *)
THEOREM GatedRulesStayOut == Spec => []GatedRuleIsNotLoaded
<1>1. WInv => GatedRuleIsNotLoaded
  BY DEF WInv
<1> QED BY <1>1, WhitelistInvariant, PTL

=============================================================================
