--------------------------- MODULE ScriptsProofs ----------------------------
(***************************************************************************)
(* Proofs about Scripts, for every set of requests, names and bodies and   *)
(* every initial directory.                                                *)
(*                                                                         *)
(* Nothing removes a script, so a lookup still has its script ahead of it  *)
(* (LookupIsSound).  From the moment a create_then_run has passed the      *)
(* collision check, only it and its approved rivals write files of its     *)
(* name, because create_script's names are flat (ReviewedOnly).            *)
(***************************************************************************)
EXTENDS Scripts, TLAPS

USE ScriptsAssumption

-----------------------------------------------------------------------------
(***************************************************************************)
(* The inductive invariant.                                                *)
(***************************************************************************)

(* A slot without a request, who writes files, and when a script runs.     *)
RoleIsKept(r) ==
  /\ req[r].pc = "none" => req[r].kind = "script"
  /\ req[r].pc \in {"truncate", "write"} => req[r].kind # "script"
  /\ req[r].pc # "done" => ran[r] = NoFile
  /\ req[r].kind = "script_create" => req[r].name \in Flat
  /\ req[r].kind = "script_create_then_run" => req[r].name \in Paths

(* The extensions a lookup has not passed by yet.                          *)
Ahead(r) ==
  CASE req[r].pc = "statPy"   -> {"py", "json"}
    [] req[r].pc = "readJson" -> {"json"}
    [] req[r].pc = "open"     -> {req[r].ext}
    [] OTHER                  -> Exts

Looking(r) ==
  \/ req[r].pc \in {"statSh", "statPy", "readJson", "open"}
  \/ req[r].pc = "pending" /\ req[r].kind = "script"

(* A request that looks for its script has it ahead of it.                 *)
LookupIsSound(r) ==
  /\ Looking(r) => \E e \in Ahead(r) : Exists(req[r].name, e)
  /\ ran[r] # NotFound

(* A create_then_run finds its name free, and then only what it and its    *)
(* approved rivals write; what it has cut short itself it writes before it *)
(* looks.                                                                  *)
May(r) == {NoFile} \cup ApprovedTexts(r)

ReviewedOnly(r) ==
  req[r].kind = "script_create_then_run" =>
    /\ \A e \in Exts : e # ExtOf[req[r].body] => disk[req[r].name][e] \in May(r)
    /\ req[r].pc \notin {"write", "done"} =>
         disk[req[r].name][ExtOf[req[r].body]] \in May(r)
    /\ req[r].pc \in {"pending", "truncate", "write"} => req[r].ext = ExtOf[req[r].body]
    /\ ran[r] \in May(r)

OfRequest(r) == RoleIsKept(r) /\ LookupIsSound(r) /\ ReviewedOnly(r)

ScInv == TypeOK /\ \A r \in Reqs : OfRequest(r)

-----------------------------------------------------------------------------
(* No body is one of the marks.                                            *)
LEMMA MarksDiffer ==
  /\ NoFile \notin Bodies /\ Torn \notin Bodies /\ NotFound \notin Bodies
  /\ NoFile # Torn /\ NoFile # NotFound /\ Torn # NotFound
OBVIOUS

(* Nothing is queued and nothing has run.                                  *)
LEMMA InitScInv == Init => ScInv
<1> SUFFICES ASSUME Init PROVE ScInv
  OBVIOUS
<1>1. Blank \in [pc : Pc, kind : Kinds, name : Names, body : Bodies, ext : Exts]
  BY DEF Blank, Pc, Kinds, Exts
<1>2. TypeOK
  BY <1>1 DEF Init, TypeOK
<1>3. \A r \in Reqs : req[r].pc = "none" /\ req[r].kind = "script" /\ ran[r] = NoFile
  BY DEF Init, Blank
<1> QED BY <1>2, <1>3, MarksDiffer
        DEF ScInv, OfRequest, RoleIsKept, LookupIsSound, Looking, ReviewedOnly

(***************************************************************************)
(* What a step of one request does to the directory and to the others:     *)
(* files appear or are rewritten, and only where the request may write.    *)
(***************************************************************************)
DiskStep(r) ==
  \/ disk' = disk
  \/ /\ req[r].pc \in {"truncate", "write"}
     /\ \E v \in {req[r].body, Torn} :
          disk' = [disk EXCEPT ![req[r].name][req[r].ext] = v]

(* A request that was approved stays so, and what it asks for is fixed.    *)
KeepsItsAsk(r) ==
  req[r].pc # "none" =>
    /\ req'[r].kind = req[r].kind /\ req'[r].name = req[r].name
    /\ req'[r].body = req[r].body /\ req'[r].pc # "none"
    /\ req[r].pc # "pending" => req'[r].pc # "pending"

StepOf(r) ==
  /\ \A q \in Reqs : q # r => req'[q] = req[q] /\ ran'[q] = ran[q]
  /\ DiskStep(r)
  /\ KeepsItsAsk(r)

(* A script that is there stays, and no other name is touched.             *)
LEMMA DiskGrows ==
  ASSUME TypeOK, NEW r \in Reqs, DiskStep(r)
  PROVE  /\ \A n \in Names, e \in Exts : Exists(n, e) => Exists(n, e)'
         /\ \A n \in Names : n # req[r].name \/ req[r].pc \notin {"truncate", "write"}
                               => disk'[n] = disk[n]
<1>1. CASE disk' = disk
  BY <1>1 DEF Exists
<1>2. ASSUME NEW v \in {req[r].body, Torn}, req[r].pc \in {"truncate", "write"},
             disk' = [disk EXCEPT ![req[r].name][req[r].ext] = v]
      PROVE  /\ \A n \in Names, e \in Exts : Exists(n, e) => Exists(n, e)'
             /\ \A n \in Names : n # req[r].name => disk'[n] = disk[n]
  BY <1>2, MarksDiffer DEF Exists, TypeOK
<1> QED BY <1>1, <1>2 DEF DiskStep

(* What a create_then_run may run only grows.                              *)
LEMMA MayGrows ==
  ASSUME TypeOK, NEW r \in Reqs, StepOf(r), NEW q \in Reqs,
         req'[q].name = req[q].name, req'[q].body = req[q].body
  PROVE  May(q) \subseteq May(q)'
<1>1. ASSUME NEW o \in Rivals(q)
      PROVE  o \in Rivals(q)' /\ req'[o].body = req[o].body
  BY <1>1 DEF Rivals, StepOf, KeepsItsAsk
<1>2. ApprovedTexts(q) \subseteq ApprovedTexts(q)'
  BY <1>1 DEF ApprovedTexts
<1> QED BY <1>2 DEF May

(* What appears under the name of a create_then_run comes from a rival.    *)
LEMMA RivalWrites ==
  ASSUME ScInv, TypeOK', NEW r \in Reqs, StepOf(r), NEW q \in Reqs, q # r,
         req[q].kind = "script_create_then_run", NEW e \in Exts
  PROVE  disk'[req[q].name][e] = disk[req[q].name][e] \/ disk'[req[q].name][e] \in May(q)'
<1>1. /\ TypeOK /\ RoleIsKept(q) /\ RoleIsKept(r) /\ req'[q] = req[q]
      /\ DiskStep(r) /\ KeepsItsAsk(r)
  BY DEF ScInv, OfRequest, StepOf
<1>2. req[q].name \in Names /\ req[r].name \in Names /\ req[r].ext \in Exts
  BY <1>1 DEF TypeOK
<1>3. CASE disk' = disk
  BY <1>3
<1>4. ASSUME NEW v \in {req[r].body, Torn}, req[r].pc \in {"truncate", "write"},
             disk' = [disk EXCEPT ![req[r].name][req[r].ext] = v]
      PROVE  \/ disk'[req[q].name][e] = disk[req[q].name][e]
             \/ disk'[req[q].name][e] \in May(q)'
  <2>1. CASE req[r].name # req[q].name
    BY <1>1, <1>2, <1>4, <2>1 DEF TypeOK
  <2>2. CASE req[r].name = req[q].name
    <3>1. req[r].kind = "script_create_then_run"
      BY <1>1, <1>4, <2>2 DEF RoleIsKept, TypeOK, Kinds
    <3>2. r \in Rivals(q)' /\ req'[r].body = req[r].body
      BY <1>1, <1>4, <2>2, <3>1 DEF Rivals, KeepsItsAsk
    <3>3. v \in May(q)'
      BY <3>2 DEF May, ApprovedTexts
    <3>4. disk'[req[q].name][e] = disk[req[q].name][e] \/ disk'[req[q].name][e] = v
      BY <1>1, <1>2, <1>4, <2>2 DEF TypeOK
    <3> QED BY <3>3, <3>4
  <2> QED BY <2>1, <2>2
<1> QED BY <1>1, <1>3, <1>4 DEF DiskStep

(* The other requests do not notice.                                       *)
LEMMA OthersStay ==
  ASSUME ScInv, TypeOK', NEW r \in Reqs, StepOf(r), NEW q \in Reqs, q # r
  PROVE  OfRequest(q)'
<1>1. req'[q] = req[q] /\ ran'[q] = ran[q] /\ req[q].name \in Names
  BY DEF StepOf, ScInv, TypeOK
<1>2. TypeOK /\ DiskStep(r) /\ OfRequest(q) /\ RoleIsKept(r)
  BY DEF ScInv, StepOf, OfRequest
<1>3. RoleIsKept(q)'
  BY <1>1, <1>2 DEF OfRequest, RoleIsKept
<1>4. LookupIsSound(q)'
  <2>1. Looking(q)' <=> Looking(q)
    BY <1>1 DEF Looking
  <2>2. Ahead(q)' = Ahead(q) /\ (req[q].ext \in Exts => Ahead(q) \subseteq Exts)
    BY <1>1 DEF Ahead, Exts
  <2>3. req[q].ext \in Exts
    BY <1>2 DEF TypeOK
  <2>4. Looking(q) => \E e \in Ahead(q) : Exists(req[q].name, e)
    BY <1>2 DEF OfRequest, LookupIsSound
  <2>5. Looking(q) => \E e \in Ahead(q) : Exists(req[q].name, e)'
    BY <1>1, <1>2, <2>2, <2>3, <2>4, DiskGrows
  <2> QED BY <1>1, <1>2, <2>1, <2>2, <2>5 DEF OfRequest, LookupIsSound, Exists
<1>5. ReviewedOnly(q)'
  <2> SUFFICES ASSUME req[q].kind = "script_create_then_run"
               PROVE  ReviewedOnly(q)'
    BY <1>1 DEF ReviewedOnly
  <2>1. ReviewedOnly(q) /\ May(q) \subseteq May(q)'
    BY <1>1, <1>2, MayGrows DEF OfRequest
  <2>2. ASSUME NEW e \in Exts
        PROVE  disk'[req[q].name][e] = disk[req[q].name][e] \/ disk'[req[q].name][e] \in May(q)'
    BY <1>2, RivalWrites
  <2>3. ExtOf[req[q].body] \in Exts
    BY <1>2 DEF TypeOK
  <2> QED BY <1>1, <2>1, <2>2, <2>3 DEF ReviewedOnly
<1> QED BY <1>3, <1>4, <1>5 DEF OfRequest

(* So a step keeps the invariant if it keeps the types and its own         *)
(* request's part.                                                         *)
LEMMA StepScInv ==
  ASSUME ScInv, TypeOK', NEW r \in Reqs, StepOf(r), OfRequest(r)'
  PROVE  ScInv'
<1>1. \A q \in Reqs : OfRequest(q)'
  BY OthersStay
<1> QED BY <1>1 DEF ScInv

(* A request is queued; what it creates is free.                           *)
LEMMA QueueScInv ==
  ASSUME ScInv, NEW r \in Reqs, NEW kind \in Kinds, NEW name \in Names, NEW body \in Bodies,
         Queue(r, kind, name, body),
         kind = "script" => \E e \in Exts : Exists(name, e),
         kind = "script_create" => name \in Flat,
         kind = "script_create_then_run" => name \in Paths /\ ~Collides(name, body)
  PROVE  ScInv'
<1>1. /\ req[r].pc = "none" /\ disk' = disk /\ ran' = ran
      /\ req' = [req EXCEPT ![r] = [pc |-> "pending", kind |-> kind, name |-> name,
                                    body |-> body, ext |-> ExtOf[body]]]
  BY DEF Queue
<1>2. TypeOK /\ OfRequest(r) /\ ExtOf[body] \in Exts
  BY DEF ScInv
<1>3. TypeOK'
  BY <1>1, <1>2 DEF TypeOK, Pc
<1>4. /\ req'[r].pc = "pending" /\ req'[r].kind = kind /\ req'[r].name = name
      /\ req'[r].body = body /\ req'[r].ext = ExtOf[body]
      /\ \A q \in Reqs : q # r => req'[q] = req[q]
  BY <1>1, <1>2 DEF TypeOK
<1>5. ran'[r] = NoFile
  BY <1>1, <1>2 DEF OfRequest, RoleIsKept
<1>6. OfRequest(r)'
  <2>1. RoleIsKept(r)'
    BY <1>4, <1>5 DEF RoleIsKept
  <2>2. LookupIsSound(r)'
    BY <1>1, <1>4, <1>5, MarksDiffer DEF LookupIsSound, Looking, Ahead, Exists
  <2>3. ReviewedOnly(r)'
    <3> SUFFICES ASSUME kind = "script_create_then_run" PROVE ReviewedOnly(r)'
      BY <1>4 DEF ReviewedOnly
    <3>1. \A e \in Exts : disk'[name][e] = NoFile
      BY <1>1 DEF Collides, Exists
    <3>2. NoFile \in May(r)'
      BY DEF May
    <3> QED BY <1>2, <1>4, <1>5, <3>1, <3>2 DEF ReviewedOnly
  <2> QED BY <2>1, <2>2, <2>3 DEF OfRequest
<1>7. StepOf(r)
  BY <1>1, <1>4 DEF StepOf, DiskStep, KeepsItsAsk
<1> QED BY <1>3, <1>6, <1>7, StepScInv

(* The tools.                                                              *)
LEMMA AgentScInv ==
  ASSUME ScInv, NEW r \in Reqs, Agent(r)
  PROVE  ScInv'
<1>1. Blank.body \in Bodies
  BY DEF Blank
<1>2. ASSUME NEW name \in Names, runScript(r, name)
      PROVE  ScInv'
  <2>1. "script" \in Kinds
    BY DEF Kinds
  <2> QED BY <1>1, <1>2, <2>1, QueueScInv DEF runScript
<1>3. ASSUME NEW name \in Names, NEW body \in Bodies, createScript(r, name, body)
      PROVE  ScInv'
  <2>1. "script_create" \in Kinds
    BY DEF Kinds
  <2> QED BY <1>3, <2>1, QueueScInv DEF createScript
<1>4. ASSUME NEW name \in Names, NEW body \in Bodies, createThenRun(r, name, body)
      PROVE  ScInv'
  <2>1. "script_create_then_run" \in Kinds
    BY DEF Kinds
  <2> QED BY <1>4, <2>1, QueueScInv DEF createThenRun
<1> QED BY <1>2, <1>3, <1>4 DEF Agent

(* A step that only moves the request on, perhaps with its extension.      *)
LEMMA MoveStep ==
  ASSUME ScInv, NEW r \in Reqs, req[r].pc # "none",
         NEW pc \in Pc \ {"none", "pending"}, NEW ext \in Exts,
         req' = [req EXCEPT ![r] = [req[r] EXCEPT !.pc = pc, !.ext = ext]],
         NEW x \in Bodies \cup {NoFile, Torn, NotFound}, ran' = [ran EXCEPT ![r] = x],
         DiskStep(r)
  PROVE  TypeOK' /\ StepOf(r) /\ May(r) \subseteq May(r)'
<1>1. TypeOK
  BY DEF ScInv
<1>2. /\ req'[r].name = req[r].name /\ req'[r].kind = req[r].kind
      /\ req'[r].body = req[r].body /\ req'[r].pc = pc
      /\ \A q \in Reqs : q # r => req'[q] = req[q] /\ ran'[q] = ran[q]
  BY <1>1 DEF TypeOK
<1>3. TypeOK'
  <2>1. disk' \in [Names -> [Exts -> Bodies \cup {NoFile, Torn}]]
    <3>1. ASSUME NEW v \in {req[r].body, Torn},
                 disk' = [disk EXCEPT ![req[r].name][req[r].ext] = v]
          PROVE  disk' \in [Names -> [Exts -> Bodies \cup {NoFile, Torn}]]
      BY <1>1, <3>1 DEF TypeOK
    <3> QED BY <1>1, <3>1 DEF TypeOK, DiskStep
  <2>2. req' \in [Reqs -> [pc : Pc, kind : Kinds, name : Names, body : Bodies, ext : Exts]]
    BY <1>1 DEF TypeOK
  <2> QED BY <1>1, <2>1, <2>2 DEF TypeOK
<1>4. StepOf(r)
  BY <1>2 DEF StepOf, KeepsItsAsk
<1> QED BY <1>1, <1>2, <1>3, <1>4, MayGrows

(* An approval starts the execution.                                       *)
LEMMA ApprovedScInv ==
  ASSUME ScInv, NEW r \in Reqs, Approved(r)
  PROVE  ScInv'
<1> DEFINE pc == IF req[r].kind = "script" THEN "statSh" ELSE "truncate"
<1>1. TypeOK /\ OfRequest(r)
  BY DEF ScInv
<1>2. /\ req[r].pc = "pending" /\ pc \in Pc \ {"none", "pending"} /\ req[r].ext \in Exts
      /\ req' = [req EXCEPT ![r] = [req[r] EXCEPT !.pc = pc, !.ext = req[r].ext]]
  BY <1>1 DEF Approved, Goto, TypeOK, Pc
<1>3. disk' = disk /\ ran' = [ran EXCEPT ![r] = NoFile] /\ ran'[r] = NoFile
  BY <1>1, <1>2 DEF Approved, OfRequest, RoleIsKept, TypeOK
<1>4. /\ req'[r].pc = pc /\ req'[r].ext = req[r].ext /\ req'[r].kind = req[r].kind
      /\ req'[r].name = req[r].name /\ req'[r].body = req[r].body
  BY <1>1, <1>2 DEF TypeOK
<1>5. TypeOK' /\ StepOf(r) /\ May(r) \subseteq May(r)'
  BY <1>2, <1>3, MoveStep DEF DiskStep
<1>6. OfRequest(r)'
  <2>1. RoleIsKept(r)'
    BY <1>1, <1>3, <1>4 DEF OfRequest, RoleIsKept
  <2>2. LookupIsSound(r)'
    BY <1>1, <1>2, <1>3, <1>4, MarksDiffer
    DEF OfRequest, LookupIsSound, Looking, Ahead, Exists
  <2>3. ReviewedOnly(r)'
    BY <1>1, <1>2, <1>3, <1>4, <1>5 DEF OfRequest, ReviewedOnly, May
  <2> QED BY <2>1, <2>2, <2>3 DEF OfRequest
<1> QED BY <1>6, <1>5, StepScInv

(* writeScriptFile truncates.                                              *)
LEMMA TruncateScInv ==
  ASSUME ScInv, NEW r \in Reqs, Truncate(r)
  PROVE  ScInv'
<1>1. TypeOK /\ OfRequest(r)
  BY DEF ScInv
<1>2. /\ req[r].pc = "truncate" /\ "write" \in Pc \ {"none", "pending"} /\ req[r].ext \in Exts
      /\ req' = [req EXCEPT ![r] = [req[r] EXCEPT !.pc = "write", !.ext = req[r].ext]]
  BY <1>1 DEF Truncate, Goto, TypeOK, Pc
<1>3. ran' = [ran EXCEPT ![r] = NoFile] /\ ran'[r] = NoFile
  BY <1>1, <1>2 DEF Truncate, OfRequest, RoleIsKept, TypeOK
<1>4. /\ req'[r].pc = "write" /\ req'[r].ext = req[r].ext /\ req'[r].kind = req[r].kind
      /\ req'[r].name = req[r].name /\ req'[r].body = req[r].body
  BY <1>1, <1>2 DEF TypeOK
<1>5. DiskStep(r)
  BY <1>2 DEF Truncate, DiskStep
<1>6. \A e \in Exts : e # req[r].ext => disk'[req[r].name][e] = disk[req[r].name][e]
  BY <1>1 DEF Truncate, TypeOK
<1>7. TypeOK' /\ StepOf(r) /\ May(r) \subseteq May(r)'
  BY <1>2, <1>3, <1>5, MoveStep
<1>8. OfRequest(r)'
  <2>1. RoleIsKept(r)'
    BY <1>1, <1>2, <1>3, <1>4 DEF OfRequest, RoleIsKept
  <2>2. LookupIsSound(r)'
    BY <1>3, <1>4, MarksDiffer DEF LookupIsSound, Looking
  <2>3. ReviewedOnly(r)'
    BY <1>1, <1>2, <1>3, <1>4, <1>6, <1>7 DEF OfRequest, ReviewedOnly, May
  <2> QED BY <2>1, <2>2, <2>3 DEF OfRequest
<1> QED BY <1>8, <1>7, StepScInv

(* writeScriptFile writes what was approved.                               *)
LEMMA WriteScInv ==
  ASSUME ScInv, NEW r \in Reqs, Write(r)
  PROVE  ScInv'
<1> DEFINE pc == IF req[r].kind = "script_create" THEN "done" ELSE "statSh"
<1>1. TypeOK /\ OfRequest(r)
  BY DEF ScInv
<1>2. /\ req[r].pc = "write" /\ pc \in Pc \ {"none", "pending"}
      /\ req[r].ext \in Exts /\ req[r].body \in Bodies /\ req[r].name \in Names
      /\ req' = [req EXCEPT ![r] = [req[r] EXCEPT !.pc = pc, !.ext = req[r].ext]]
  BY <1>1 DEF Write, Goto, TypeOK, Pc
<1>3. ran' = [ran EXCEPT ![r] = NoFile] /\ ran'[r] = NoFile
  BY <1>1, <1>2 DEF Write, OfRequest, RoleIsKept, TypeOK
<1>4. /\ req'[r].pc = pc /\ req'[r].ext = req[r].ext /\ req'[r].kind = req[r].kind
      /\ req'[r].name = req[r].name /\ req'[r].body = req[r].body
  BY <1>1, <1>2 DEF TypeOK
<1>5. DiskStep(r)
  BY <1>2 DEF Write, DiskStep
<1>6. /\ disk'[req[r].name][req[r].ext] = req[r].body
      /\ \A e \in Exts : e # req[r].ext => disk'[req[r].name][e] = disk[req[r].name][e]
  BY <1>1 DEF Write, TypeOK
<1>7. TypeOK' /\ StepOf(r) /\ May(r) \subseteq May(r)'
  BY <1>2, <1>3, <1>5, MoveStep
<1>8. OfRequest(r)'
  <2>1. RoleIsKept(r)'
    BY <1>1, <1>3, <1>4 DEF OfRequest, RoleIsKept
  <2>2. LookupIsSound(r)'
    BY <1>2, <1>3, <1>4, <1>6, MarksDiffer DEF LookupIsSound, Looking, Ahead, Exists
  <2>3. ReviewedOnly(r)'
    <3> SUFFICES ASSUME req[r].kind = "script_create_then_run"
                 PROVE  ReviewedOnly(r)'
      BY <1>4 DEF ReviewedOnly
    <3>1. req[r].ext = ExtOf[req[r].body] /\ ReviewedOnly(r)
      BY <1>1, <1>2 DEF OfRequest, ReviewedOnly
    <3>2. req[r].body \in May(r) /\ NoFile \in May(r)
      BY DEF May, ApprovedTexts
    <3> QED BY <1>3, <1>4, <1>6, <1>7, <3>1, <3>2 DEF ReviewedOnly
  <2> QED BY <2>1, <2>2, <2>3 DEF OfRequest
<1> QED BY <1>8, <1>7, StepScInv

(* A write fails, and nothing is run.                                      *)
LEMMA WriteFailsScInv ==
  ASSUME ScInv, NEW r \in Reqs, WriteFails(r)
  PROVE  ScInv'
<1>1. TypeOK /\ OfRequest(r)
  BY DEF ScInv
<1>2. /\ req[r].pc \in {"truncate", "write"} /\ "done" \in Pc \ {"none", "pending"} /\ req[r].ext \in Exts
      /\ req' = [req EXCEPT ![r] = [req[r] EXCEPT !.pc = "done", !.ext = req[r].ext]]
  BY <1>1 DEF WriteFails, Goto, TypeOK, Pc
<1>3. disk' = disk /\ ran' = [ran EXCEPT ![r] = NoFile] /\ ran'[r] = NoFile
  BY <1>1, <1>2 DEF WriteFails, OfRequest, RoleIsKept, TypeOK
<1>4. /\ req'[r].pc = "done" /\ req'[r].kind = req[r].kind /\ req'[r].body = req[r].body
      /\ req'[r].name = req[r].name
  BY <1>1, <1>2 DEF TypeOK
<1>5. TypeOK' /\ StepOf(r) /\ May(r) \subseteq May(r)'
  BY <1>2, <1>3, MoveStep DEF DiskStep
<1>6. OfRequest(r)'
  <2>1. RoleIsKept(r)' /\ LookupIsSound(r)'
    BY <1>1, <1>3, <1>4, MarksDiffer DEF OfRequest, RoleIsKept, LookupIsSound, Looking
  <2>2. ReviewedOnly(r)'
    BY <1>1, <1>3, <1>4, <1>5 DEF OfRequest, ReviewedOnly, May
  <2> QED BY <2>1, <2>2 DEF OfRequest
<1> QED BY <1>5, <1>6, StepScInv

(* ExecuteScriptIn looks for one extension: it is there, or the script is  *)
(* further ahead.                                                          *)
LEMMA LookScInv ==
  ASSUME ScInv, NEW r \in Reqs, StatSh(r) \/ StatPy(r)
  PROVE  ScInv'
<1>1. TypeOK /\ OfRequest(r)
  BY DEF ScInv
<1>2. PICK at \in {"statSh", "statPy"}, ext \in Exts, next \in {"statPy", "readJson"} :
        /\ Look(r, at, ext, next)
        /\ at = "statSh" => ext = "sh" /\ next = "statPy"
        /\ at = "statPy" => ext = "py" /\ next = "readJson"
  BY DEF StatSh, StatPy, Exts
<1> DEFINE found == Exists(req[r].name, ext)
           pc    == IF found THEN "open" ELSE next
           xt    == IF found THEN ext ELSE req[r].ext
<1>3. /\ req[r].pc = at /\ pc \in Pc \ {"none", "pending"} /\ xt \in Exts
      /\ req' = [req EXCEPT ![r] = [req[r] EXCEPT !.pc = pc, !.ext = xt]]
  BY <1>1, <1>2 DEF Look, TypeOK, Pc
<1>4. disk' = disk /\ ran' = [ran EXCEPT ![r] = NoFile] /\ ran'[r] = NoFile
  BY <1>1, <1>2, <1>3 DEF Look, OfRequest, RoleIsKept, TypeOK
<1>5. /\ req'[r].pc = pc /\ req'[r].ext = xt /\ req'[r].kind = req[r].kind
      /\ req'[r].name = req[r].name /\ req'[r].body = req[r].body
  BY <1>1, <1>3 DEF TypeOK
<1>6. TypeOK' /\ StepOf(r) /\ May(r) \subseteq May(r)'
  BY <1>2, <1>3, <1>4, MoveStep DEF DiskStep
<1>7. OfRequest(r)'
  <2>1. RoleIsKept(r)'
    BY <1>1, <1>2, <1>4, <1>5 DEF OfRequest, RoleIsKept
  <2>2. LookupIsSound(r)'
    <3>1. \E e \in Ahead(r) : Exists(req[r].name, e)
      BY <1>1, <1>3 DEF OfRequest, LookupIsSound, Looking
    <3>2. \E e \in Ahead(r)' : Exists(req[r].name, e)
      BY <1>2, <1>3, <1>5, <3>1 DEF Ahead, Exts
    <3> QED BY <1>4, <1>5, <3>2, MarksDiffer DEF LookupIsSound, Exists
  <2>3. ReviewedOnly(r)'
    <3>1. ReviewedOnly(r) /\ pc \in {"open", "statPy", "readJson"} /\ NoFile \in May(r)
      BY <1>1, <1>2 DEF OfRequest, May
    <3> QED BY <1>2, <1>3, <1>4, <1>5, <1>6, <3>1 DEF ReviewedOnly
  <2> QED BY <2>1, <2>2, <2>3 DEF OfRequest
<1> QED BY <1>7, <1>6, StepScInv

(* The script that was found is run.                                       *)
LEMMA RunScInv ==
  ASSUME ScInv, NEW r \in Reqs, ReadJson(r) \/ Open(r)
  PROVE  ScInv'
<1>1. TypeOK /\ OfRequest(r)
  BY DEF ScInv
<1>2. PICK ext \in Exts : /\ Run(r, ext)
                          /\ \/ req[r].pc = "readJson" /\ ext = "json"
                             \/ req[r].pc = "open" /\ ext = req[r].ext
  BY <1>1 DEF ReadJson, Open, Exts, TypeOK
<1> DEFINE x == disk[req[r].name][ext]
<1>3. Exists(req[r].name, ext)
  BY <1>1, <1>2 DEF OfRequest, LookupIsSound, Looking, Ahead
<1>4. /\ "done" \in Pc \ {"none", "pending"} /\ req[r].ext \in Exts
      /\ req' = [req EXCEPT ![r] = [req[r] EXCEPT !.pc = "done", !.ext = req[r].ext]]
  BY <1>1, <1>2 DEF Run, Goto, TypeOK, Pc
<1>5. /\ disk' = disk /\ ran' = [ran EXCEPT ![r] = x]
      /\ x \in Bodies \cup {Torn} /\ ran'[r] = x
  BY <1>1, <1>2, <1>3 DEF Run, TypeOK, Exists
<1>6. /\ req'[r].pc = "done" /\ req'[r].kind = req[r].kind /\ req'[r].body = req[r].body
      /\ req'[r].name = req[r].name
  BY <1>1, <1>4 DEF TypeOK
<1>7. TypeOK' /\ StepOf(r) /\ May(r) \subseteq May(r)'
  BY <1>2, <1>4, <1>5, MoveStep DEF DiskStep
<1>8. OfRequest(r)'
  <2>1. req[r].kind = "script_create_then_run" => x \in May(r)
    BY <1>1, <1>2 DEF OfRequest, ReviewedOnly
  <2>2. RoleIsKept(r)' /\ LookupIsSound(r)'
    BY <1>1, <1>5, <1>6, MarksDiffer DEF OfRequest, RoleIsKept, LookupIsSound, Looking
  <2>3. ReviewedOnly(r)'
    BY <1>1, <1>5, <1>6, <1>7, <2>1 DEF OfRequest, ReviewedOnly
  <2> QED BY <2>2, <2>3 DEF OfRequest
<1> QED BY <1>7, <1>8, StepScInv

(* Every step keeps the invariant.                                         *)
LEMMA NextScInv == ScInv /\ [Next]_vars => ScInv'
<1> SUFFICES ASSUME ScInv, [Next]_vars PROVE ScInv'
  OBVIOUS
<1>1. CASE UNCHANGED vars
  BY <1>1 DEF vars, ScInv, TypeOK, OfRequest, RoleIsKept, LookupIsSound, Looking, Ahead,
              ReviewedOnly, May, ApprovedTexts, Rivals, Exists
<1>2. CASE Next
  BY <1>2, AgentScInv, ApprovedScInv, TruncateScInv, WriteScInv, WriteFailsScInv, LookScInv,
     RunScInv
  DEF Next, Execution
<1> QED BY <1>1, <1>2

-----------------------------------------------------------------------------
(* The invariant holds in every execution.                                 *)
THEOREM ScriptsInvariant == Spec => []ScInv
<1> QED BY InitScInv, NextScInv, PTL DEF Spec

(* A run_script that was accepted finds a script (ExecuteScriptIn),        *)
(* whoever creates what meanwhile.                                         *)
THEOREM AcceptedIsFound == Spec => []AcceptedScriptIsFound
<1>1. ScInv => AcceptedScriptIsFound
  BY DEF ScInv, OfRequest, LookupIsSound, AcceptedScriptIsFound
<1> QED BY <1>1, ScriptsInvariant, PTL

(* A create_then_run runs its own text or that of an approved rival for    *)
(* its name, and never one that nobody approved (createThenRun's collision *)
(* check, ExecuteScriptCreateThenRun's write and lookup).                  *)
THEOREM ReviewedIsRun == Spec => []RunsWhatWasReviewed
<1>1. ScInv => RunsWhatWasReviewed
  BY DEF ScInv, OfRequest, ReviewedOnly, May, RunsWhatWasReviewed
<1> QED BY <1>1, ScriptsInvariant, PTL

=============================================================================
