---------------------------- MODULE RelayProofs -----------------------------
(***************************************************************************)
(* Proofs about Relay for every set of requests, callers, contents,        *)
(* results and rules, and every channel capacity.                          *)
(*                                                                         *)
(* IInv is inductive.  It is stronger than the properties because they     *)
(* rest on facts about goroutines in flight: the status of a request says  *)
(* nothing about them (a stale deny overwrites it), but the process that   *)
(* holds an approval and has not launched it yet is unique (OneLauncher).  *)
(***************************************************************************)
EXTENDS Relay, TLAPS

USE StoreAssumption, NoRequestAssumption, RelayAssumption DEF approvals, history

-----------------------------------------------------------------------------
(***************************************************************************)
(* The store's methods.                                                    *)
(***************************************************************************)

(* What a method that changes one stored request leaves alone.             *)
Updates(id) ==
  /\ StoreTypeOK'
  /\ requests'[id] \in Request
  /\ requests'[id].Content = requests[id].Content
  /\ \A j \in Ids \ {id} : requests'[j] = requests[j]

(* A send that drops when the channel is full keeps it within capacity.    *)
LEMMA TrySendType ==
  ASSUME NEW ch \in Seq(Ids), Len(ch) <= ChanCap, NEW id \in Ids
  PROVE  TrySend(ch, id) \in Seq(Ids) /\ Len(TrySend(ch, id)) <= ChanCap
BY DEF TrySend

(* Add stores a pending request without a result.                          *)
LEMMA AddEffect ==
  ASSUME StoreTypeOK, NEW id \in Ids, NEW content \in Contents, Add(id, content)
  PROVE  /\ StoreTypeOK'
         /\ requests'[id] \in Request
         /\ requests'[id].Status = "pending" /\ requests'[id].Result = NoResult
         /\ ~requests'[id].OutputGated
         /\ \A j \in Ids \ {id} : requests'[j] = requests[j]
<1> DEFINE r == [Content |-> content, Status |-> "pending",
                 OutputGated |-> FALSE, Result |-> NoResult]
<1>1. r \in Request /\ r.Status = "pending" /\ r.Result = NoResult /\ ~r.OutputGated
  BY DEF Request, Status
<1>2. requests' = [requests EXCEPT ![id] = r]
  BY DEF Add
<1> HIDE DEF r
<1>3. order' \in Seq(Ids) /\ UNCHANGED <<notify, updates>>
  BY DEF Add, StoreTypeOK
<1>4. /\ requests' \in [Ids -> Request \cup {NoRequest}] /\ requests'[id] = r
      /\ \A j \in Ids \ {id} : requests'[j] = requests[j]
  BY <1>1, <1>2 DEF StoreTypeOK
<1> QED BY <1>1, <1>3, <1>4 DEF StoreTypeOK

(* SetStatus and Deny set the status, whatever it was.                     *)
LEMMA SetStatusEffect ==
  ASSUME StoreTypeOK, NEW id \in Ids, Stored(id), NEW s \in Status,
         SetStatus(id, s) \/ (Deny(id) /\ s = "denied")
  PROVE  /\ Updates(id)
         /\ requests'[id].Status = s /\ requests'[id].Result = requests[id].Result
         /\ requests'[id].OutputGated = requests[id].OutputGated
<1>1. requests[id] \in Request
  BY DEF StoreTypeOK, Stored
<1> DEFINE r == [requests[id] EXCEPT !.Status = s]
<1>2. /\ r \in Request /\ r.Status = s /\ r.OutputGated = requests[id].OutputGated
      /\ r.Result = requests[id].Result /\ r.Content = requests[id].Content
  BY <1>1 DEF Request
<1>3. /\ requests' = [requests EXCEPT ![id] = r]
      /\ UNCHANGED <<order, notify, updates>>
  BY DEF SetStatus, Deny
<1> HIDE DEF r
<1> QED BY <1>2, <1>3 DEF Updates, StoreTypeOK

(* Withdraw succeeds only on a pending request.                            *)
LEMMA WithdrawEffect ==
  ASSUME StoreTypeOK, NEW id \in Ids, Stored(id), Withdraw(id)
  PROVE  /\ Updates(id) /\ Pending(id)
         /\ requests'[id].Status = "withdrawn"
         /\ requests'[id].Result = requests[id].Result
         /\ requests'[id].OutputGated = requests[id].OutputGated
<1>1. requests[id] \in Request
  BY DEF StoreTypeOK, Stored
<1>2. updates' \in Seq(Ids) /\ Len(updates') <= ChanCap
  BY TrySendType DEF Withdraw, StoreTypeOK
<1> QED BY <1>1, <1>2 DEF Withdraw, Updates, StoreTypeOK, Request, Status

(* Approve marks the request approved and may gate its output.             *)
LEMMA ApproveEffect ==
  ASSUME StoreTypeOK, NEW id \in Ids, Stored(id), NEW g \in BOOLEAN, Approve(id, g)
  PROVE  /\ Updates(id)
         /\ requests'[id].Status = "approved"
         /\ requests'[id].Result = requests[id].Result
         /\ requests'[id].OutputGated = (requests[id].OutputGated \/ g)
<1>1. requests[id] \in Request
  BY DEF StoreTypeOK, Stored
<1> DEFINE r == [requests[id] EXCEPT
                   !.Status = "approved",
                   !.OutputGated = requests[id].OutputGated \/ g]
<1>2. /\ r \in Request /\ r.Status = "approved"
      /\ r.OutputGated = (requests[id].OutputGated \/ g)
      /\ r.Result = requests[id].Result /\ r.Content = requests[id].Content
  BY <1>1 DEF Request, Status
<1>3. requests' = [requests EXCEPT ![id] = r]
  BY <1>1 DEF Approve, StoreTypeOK, Request
<1> HIDE DEF r
<1> QED BY <1>2, <1>3 DEF Approve, Updates, StoreTypeOK

(* SetResult stores the result and a final status.                         *)
LEMMA SetResultEffect ==
  ASSUME StoreTypeOK, NEW id \in Ids, Stored(id), NEW res \in Results,
         NEW s \in Status, SetResult(id, res, s)
  PROVE  /\ Updates(id)
         /\ requests'[id].Status = s /\ requests'[id].Result = res
         /\ requests'[id].OutputGated = (requests[id].OutputGated /\ hasGatedContent(res))
<1>1. requests[id] \in Request
  BY DEF StoreTypeOK, Stored
<1> DEFINE g == requests[id].OutputGated /\ ~ReleasesEmpty(id, res)
           r == [requests[id] EXCEPT !.Result = res, !.Status = s, !.OutputGated = g]
<1>2. g \in BOOLEAN /\ g = (requests[id].OutputGated /\ hasGatedContent(res))
  BY <1>1 DEF Request, ReleasesEmpty
<1>3. requests' = [requests EXCEPT ![id] = r]
  BY <1>1 DEF SetResult, StoreTypeOK, Request
<1> HIDE DEF g
<1>4. /\ r \in Request /\ r.Status = s /\ r.Result = res
      /\ r.OutputGated = g /\ r.Content = requests[id].Content
  BY <1>1, <1>2 DEF Request, Status
<1> HIDE DEF r
<1>5. /\ requests' \in [Ids -> Request \cup {NoRequest}] /\ requests'[id] = r
      /\ \A j \in Ids \ {id} : requests'[j] = requests[j]
  BY <1>3, <1>4 DEF StoreTypeOK
<1>6. UNCHANGED <<order, notify, updates>>
  BY DEF SetResult
<1> QED BY <1>2, <1>4, <1>5, <1>6 DEF Updates, StoreTypeOK

(* ReleaseOutput changes the gate only.                                    *)
LEMMA ReleaseEffect ==
  ASSUME StoreTypeOK, NEW id \in Ids, Stored(id), ReleaseOutput(id)
  PROVE  /\ Updates(id)
         /\ requests'[id].Status = requests[id].Status
         /\ requests'[id].Result = requests[id].Result
         /\ requests'[id].OutputGated = FALSE
<1>1. requests[id] \in Request
  BY DEF StoreTypeOK, Stored
<1>2. updates' \in Seq(Ids) /\ Len(updates') <= ChanCap
  BY TrySendType DEF ReleaseOutput, StoreTypeOK
<1> QED BY <1>1, <1>2 DEF ReleaseOutput, Updates, StoreTypeOK, Request

(* An execution goroutine moves from one stage to another, or returns.     *)
LEMMA AdvanceEffect ==
  ASSUME exec \in [Ids -> [Stage -> Nat]], NEW id \in Ids, NEW from \in Stage,
         NEW to \in Stage \cup {"gone"}, from # to, Advance(id, from, to)
  PROVE  /\ exec' \in [Ids -> [Stage -> Nat]]
         /\ exec[id][from] > 0
         /\ exec'[id][from] = exec[id][from] - 1
         /\ to \in Stage => exec'[id][to] = exec[id][to] + 1
         /\ \A s \in Stage \ {from, to} : exec'[id][s] = exec[id][s]
         /\ \A j \in Ids \ {id} : exec'[j] = exec[j]
<1> DEFINE f == [s \in Stage |-> IF s = from THEN exec[id][s] - 1
                                 ELSE IF s = to THEN exec[id][s] + 1 ELSE exec[id][s]]
<1>1. f \in [Stage -> Nat]
  BY DEF Advance
<1>2. exec' = [exec EXCEPT ![id] = f]
  BY DEF Advance
<1>3. /\ f[from] = exec[id][from] - 1
      /\ to \in Stage => f[to] = exec[id][to] + 1
      /\ \A s \in Stage \ {from, to} : f[s] = exec[id][s]
  OBVIOUS
<1> HIDE DEF f
<1> QED BY <1>1, <1>2, <1>3 DEF Advance

(* Spawn adds one goroutine at the first stage.                            *)
LEMMA SpawnEffect ==
  ASSUME exec \in [Ids -> [Stage -> Nat]], launched \in [Ids -> Nat],
         NEW id \in Ids, Spawn(id)
  PROVE  /\ exec' \in [Ids -> [Stage -> Nat]]
         /\ exec'[id]["spawned"] = exec[id]["spawned"] + 1
         /\ \A s \in Stage \ {"spawned"} : exec'[id][s] = exec[id][s]
         /\ \A j \in Ids \ {id} : exec'[j] = exec[j]
         /\ launched' \in [Ids -> Nat]
         /\ launched'[id] = launched[id] + 1
         /\ \A j \in Ids \ {id} : launched'[j] = launched[j]
BY DEF Spawn, Stage

-----------------------------------------------------------------------------
(***************************************************************************)
(* IInv is inductive.                                                      *)
(***************************************************************************)

(* There is an identifier for the idle values of op and watch.             *)
LEMMA AnyIdIsId == AnyId \in Ids
BY DEF AnyId

(* The idle values of op and watch are well typed.                         *)
LEMMA IdleTypes ==
  /\ Idle \in [pc : OpPc, id : Ids, action : Actions] /\ Idle.pc = "idle"
  /\ Ready \in [pc : WatchPc, id : Ids] /\ Ready.pc = "receive"
BY AnyIdIsId DEF Idle, Ready, OpPc, WatchPc, Actions

(* The relay starts in the invariant: nothing stored, nobody deciding.     *)
LEMMA InitIInv == Init => IInv
<1> SUFFICES ASSUME Init PROVE IInv OBVIOUS
<1>1. StoreTypeOK
  BY DEF Init, StoreInit, StoreTypeOK
<1>2. /\ op \in [Callers -> [pc : OpPc, id : Ids, action : Actions]]
      /\ watch \in [pc : WatchPc, id : Ids]
  BY IdleTypes DEF Init
<1>3. exec \in [Ids -> [Stage -> Nat]]
  BY DEF Init
<1>4. /\ rules \subseteq Keys /\ cooling \in {"never", "running", "over"}
      /\ audit \in [Ids -> SUBSET AuditEvent]
  BY DEF Init
<1>5. TypeOK
  BY <1>1, <1>2, <1>3, <1>4 DEF Init, TypeOK
<1>6. NamesAreStored /\ DecidedOnce /\ OneLauncher /\ OneGoroutine
  BY DEF Init, StoreInit, NamesAreStored, DecidedOnce, OneLauncher, OneGoroutine,
         Stored, Idle, Ready
<1> QED BY <1>5, <1>6 DEF IInv


(* A step that leaves requests, goroutines and approvals alone.            *)
LEMMA QuietStep ==
  ASSUME IInv, TypeOK',
         UNCHANGED <<requests, sub, wd, op, watch, exec, consent, launched>>
  PROVE  IInv'
BY DEF IInv, NamesAreStored, DecidedOnce, OneLauncher, OneGoroutine, Stored, Pending

(* Adding a request (Store.Add) keeps the invariant.                       *)
LEMMA SubmitIInv ==
  ASSUME IInv, NEW id \in Ids, NEW content \in Contents, Submit(id, content)
  PROVE  IInv'
<1> USE DEF IInv
<1>1. StoreTypeOK /\ Add(id, content) /\ ~Stored(id)
  BY DEF TypeOK, Submit
<1>2. /\ StoreTypeOK' /\ Stored(id)'
      /\ requests'[id].Status = "pending" /\ requests'[id].Result = NoResult
      /\ \A j \in Ids \ {id} : requests'[j] = requests[j]
  BY <1>1, AddEffect DEF Stored
<1>3. TypeOK'
  BY <1>2 DEF Submit, TypeOK
<1>4. NamesAreStored'
  BY <1>1, <1>2 DEF Submit, TypeOK, NamesAreStored, Stored
<1>5. DecidedOnce'
  BY <1>1, <1>2 DEF Submit, NamesAreStored, DecidedOnce, Stored, Pending
<1>6. OneLauncher'
  BY DEF Submit, OneLauncher
<1>7. OneGoroutine'
  BY <1>1, <1>2 DEF Submit, OneGoroutine, Stored
<1> QED BY <1>3, <1>4, <1>5, <1>6, <1>7

(* The rest of a submitting or withdrawing tool call keeps it.             *)
LEMMA AgentCallIInv ==
  ASSUME IInv, NEW id \in Ids, AgentCall(id)
  PROVE  IInv'
<1> USE DEF IInv
<1>1. TypeOK'
  <2>1. CASE SubmitNotify(id)
    BY <2>1, TrySendType DEF SubmitNotify, AddNotify, TypeOK, StoreTypeOK
  <2>2. CASE SubmitLog(id)
    BY <2>2 DEF SubmitLog, Log, AuditEvent, TypeOK, StoreTypeOK, storeVars
  <2>3. CASE WithdrawLog(id)
    BY <2>3 DEF WithdrawLog, Log, AuditEvent, TypeOK, StoreTypeOK, storeVars
  <2> QED BY <2>1, <2>2, <2>3 DEF AgentCall
<1>2. /\ UNCHANGED <<requests, op, watch, exec, consent, launched>>
      /\ \A j \in Ids : sub'[j] # "no" => sub[j] # "no"
      /\ \A j \in Ids : wd'[j] # "no" <=> wd[j] # "no"
  BY DEF AgentCall, SubmitNotify, AddNotify, SubmitLog, WithdrawLog, storeVars, TypeOK
<1>3. NamesAreStored' /\ DecidedOnce'
  BY <1>1, <1>2 DEF NamesAreStored, DecidedOnce, Stored, Pending, TypeOK
<1>4. OneLauncher' /\ OneGoroutine'
  BY <1>2 DEF OneLauncher, OneGoroutine, Stored
<1> QED BY <1>1, <1>3, <1>4

(* A withdrawal (Store.Withdraw) keeps it: the request was pending.        *)
LEMMA WithdrawIInv ==
  ASSUME IInv, NEW id \in Ids, WithdrawRequest(id)
  PROVE  IInv'
<1> USE DEF IInv
<1>1. /\ Updates(id) /\ Pending(id) /\ Stored(id)
      /\ requests'[id].Status = "withdrawn"
      /\ requests'[id].Result = requests[id].Result
  BY WithdrawEffect DEF WithdrawRequest, TypeOK
<1>2. Stored(id)' /\ StoreTypeOK' /\ \A j \in Ids \ {id} : requests'[j] = requests[j]
  BY <1>1 DEF Updates, Stored
<1>3. TypeOK'
  BY <1>2 DEF WithdrawRequest, TypeOK
<1>4. NamesAreStored'
  BY <1>1, <1>2 DEF WithdrawRequest, NamesAreStored, Stored, TypeOK
<1>5. DecidedOnce'
  BY <1>1, <1>2 DEF WithdrawRequest, DecidedOnce, Stored, Pending, TypeOK
<1>6. OneLauncher'
  BY DEF WithdrawRequest, OneLauncher
<1>7. OneGoroutine'
  BY <1>1, <1>2 DEF WithdrawRequest, OneGoroutine, Stored
<1> QED BY <1>3, <1>4, <1>5, <1>6, <1>7

(* Reads and changes of the whitelist.                                     *)
LEMMA ReadAndRulesIInv ==
  ASSUME IInv,
         \/ \E id \in Ids, viaWeb \in BOOLEAN : ReadRequest(id, viaWeb)
         \/ \E c \in Callers, key \in Keys, id \in Ids \cup {NoRequest} :
              WhitelistAdd(c, key, id)
         \/ \E c \in Callers, key \in Keys : WhitelistRemove(c, key)
         \/ CooldownChanges
         \/ WatchUpdates
  PROVE  IInv'
<1>1. UNCHANGED <<requests, sub, wd, op, watch, exec, consent, launched>>
  BY DEF ReadRequest, WhitelistAdd, WhitelistRemove, CooldownChanges, WatchUpdates, storeVars
<1>2. TypeOK'
  <2>0. TypeOK
    BY DEF IInv
  <2>1. ASSUME NEW id \in Ids, NEW viaWeb \in BOOLEAN, ReadRequest(id, viaWeb)
        PROVE  TypeOK'
    <3>1. disclosed' \subseteq Ids
      BY <2>0, <2>1 DEF ReadRequest, TypeOK
    <3> QED BY <2>0, <2>1, <3>1 DEF ReadRequest, TypeOK, StoreTypeOK, storeVars
  <2>2. ASSUME NEW c \in Callers, NEW key \in Keys, NEW id \in Ids \cup {NoRequest},
               WhitelistAdd(c, key, id)
        PROVE  TypeOK'
    BY <2>0, <2>2 DEF WhitelistAdd, TypeOK, StoreTypeOK, storeVars
  <2>3. ASSUME NEW c \in Callers, NEW key \in Keys, WhitelistRemove(c, key)
        PROVE  TypeOK'
    BY <2>0, <2>3 DEF WhitelistRemove, TypeOK, StoreTypeOK, storeVars
  <2>4. CASE CooldownChanges
    BY <2>0, <2>4 DEF CooldownChanges, TypeOK, StoreTypeOK, storeVars
  <2>5. CASE WatchUpdates
    <3>1. updates' \in Seq(Ids) /\ Len(updates') <= ChanCap
      BY <2>0, <2>5 DEF WatchUpdates, TypeOK, StoreTypeOK
    <3> QED BY <2>0, <2>5, <3>1 DEF WatchUpdates, TypeOK, StoreTypeOK
  <2> QED BY <2>1, <2>2, <2>3, <2>4, <2>5
<1> QED BY <1>1, <1>2, QuietStep

(***************************************************************************)
(* The decision handlers.                                                  *)
(***************************************************************************)

(* Steps of a caller that change nothing but its own place, the cooldown   *)
(* and the audit log, and do not take it to a launch it did not hold.      *)
LEMMA CallerMoves ==
  ASSUME IInv, TypeOK', NEW c \in Callers,
         UNCHANGED <<requests, sub, wd, watch, exec, consent, launched>>,
         \A d \in Callers \ {c} : op'[d] = op[d],
         op'[c].pc # "idle" => Stored(op'[c].id),
         op'[c].pc \in {"approved", "spawn"} =>
           op[c].pc \in {"approved", "spawn"} /\ op'[c].id = op[c].id
  PROVE  IInv'
<1> USE DEF IInv
<1>1. NamesAreStored'
  BY DEF NamesAreStored, Stored
<1>2. DecidedOnce' /\ OneGoroutine'
  BY DEF DecidedOnce, OneGoroutine, Stored, Pending
<1>3. OneLauncher'
  BY DEF OneLauncher
<1> QED BY <1>1, <1>2, <1>3

(* A caller that moves on keeps its request and its action.                *)
LEMMA GotoEffect ==
  ASSUME TypeOK, NEW c \in Callers, NEW pc \in OpPc, Goto(c, pc)
  PROVE  /\ op' \in [Callers -> [pc : OpPc, id : Ids, action : Actions]]
         /\ op'[c].pc = pc /\ op'[c].id = op[c].id
         /\ \A d \in Callers \ {c} : op'[d] = op[d]
<1> DEFINE r == [op[c] EXCEPT !.pc = pc]
<1>1. op[c] \in [pc : OpPc, id : Ids, action : Actions]
  BY DEF TypeOK
<1>2. r \in [pc : OpPc, id : Ids, action : Actions] /\ r.pc = pc /\ r.id = op[c].id
  BY <1>1
<1>3. op' = [op EXCEPT ![c] = r]
  BY DEF Goto
<1> HIDE DEF r
<1> QED BY <1>2, <1>3 DEF TypeOK

(* The steps of handleRequestAction outside the store keep it.             *)
LEMMA CallerStepIInv ==
  ASSUME IInv, NEW c \in Callers,
         \/ \E id \in Ids, action \in OperatorActions : BeginDecision(c, id, action)
         \/ CheckCooldown(c) \/ LogApproved(c) \/ LogDenied(c) \/ LogReleased(c)
  PROVE  IInv'
<1> USE IdleTypes DEF IInv
<1>1. ASSUME NEW id \in Ids, NEW action \in OperatorActions, BeginDecision(c, id, action)
      PROVE  IInv'
  <2>1. FirstPc(action) \in OpPc \ {"idle", "approved", "spawn"} /\ action \in Actions
    BY DEF FirstPc, OpPc, Actions
  <2>2. TypeOK'
    BY <1>1, <2>1 DEF BeginDecision, TypeOK, StoreTypeOK, storeVars
  <2>3. op'[c] = [pc |-> FirstPc(action), id |-> id, action |-> action]
    BY <1>1 DEF BeginDecision, TypeOK
  <2> QED BY <1>1, <2>1, <2>2, <2>3, CallerMoves DEF BeginDecision, TypeOK, Stored, storeVars
<1>2. CASE CheckCooldown(c)
  <2>1. TypeOK'
    <3>1. op' \in [Callers -> [pc : OpPc, id : Ids, action : Actions]]
      <4>1. CASE cooling = "running"
        BY <1>2, <4>1 DEF CheckCooldown, Return, TypeOK
      <4>2. CASE cooling # "running"
        BY <1>2, <4>2, GotoEffect DEF CheckCooldown, OpPc
      <4> QED BY <4>1, <4>2
    <3> QED BY <1>2, <3>1 DEF CheckCooldown, TypeOK, StoreTypeOK, storeVars
  <2>2. op'[c] = Idle \/ (op'[c].pc = "approve" /\ op'[c].id = op[c].id)
    BY <1>2 DEF CheckCooldown, Goto, Return, TypeOK
  <2>3. \A d \in Callers \ {c} : op'[d] = op[d]
    BY <1>2 DEF CheckCooldown, Goto, Return, TypeOK
  <2> QED BY <1>2, <2>1, <2>2, <2>3, CallerMoves DEF CheckCooldown, NamesAreStored, storeVars
<1>3. CASE LogApproved(c)
  <2>1. TypeOK'
    BY <1>3 DEF LogApproved, Log, AuditEvent, Goto, OpPc, TypeOK, StoreTypeOK, storeVars
  <2>2. /\ op'[c].pc = "spawn" /\ op'[c].id = op[c].id
        /\ \A d \in Callers \ {c} : op'[d] = op[d]
    BY <1>3 DEF LogApproved, Goto, TypeOK
  <2> QED BY <1>3, <2>1, <2>2, CallerMoves DEF LogApproved, NamesAreStored, storeVars
<1>4. CASE LogDenied(c) \/ LogReleased(c)
  <2>1. TypeOK'
    <3>1. op' \in [Callers -> [pc : OpPc, id : Ids, action : Actions]]
      <4>1. op' = [op EXCEPT ![c] = Idle]
        BY <1>4 DEF LogDenied, LogReleased, Return
      <4> QED BY <4>1, IdleTypes DEF TypeOK
    <3>2. audit' \in [Ids -> SUBSET AuditEvent]
      <4>1. PICK event \in AuditEvent : Log(op[c].id, event)
        BY <1>4 DEF LogDenied, LogReleased, AuditEvent
      <4> QED BY <4>1 DEF Log, TypeOK
    <3> QED BY <1>4, <3>1, <3>2 DEF LogDenied, LogReleased, TypeOK, StoreTypeOK, storeVars
  <2>2. op'[c] = Idle /\ \A d \in Callers \ {c} : op'[d] = op[d]
    BY <1>4 DEF LogDenied, LogReleased, Return, TypeOK
  <2> QED BY <1>4, <2>1, <2>2, CallerMoves DEF LogDenied, LogReleased, storeVars
<1> QED BY <1>1, <1>2, <1>3, <1>4

(* An approval (Store.Approve) keeps it: its caller becomes the launcher.  *)
LEMMA ApproveRequestIInv ==
  ASSUME IInv, NEW c \in Callers, ApproveRequest(c)
  PROVE  IInv'
<1> USE IdleTypes DEF IInv
<1> PICK id \in Ids : id = op[c].id
  BY DEF TypeOK
<1>0. Stored(id) /\ op[c].pc = "approve"
  BY DEF ApproveRequest, NamesAreStored
<1>1. CASE CanApprove(id)
  <2>1. /\ Updates(id) /\ requests'[id].Status = "approved"
        /\ requests'[id].Result = requests[id].Result
    BY <1>0, <1>1, ApproveEffect DEF ApproveRequest, TypeOK
  <2>2. /\ StoreTypeOK' /\ Stored(id)'
        /\ \A j \in Ids \ {id} : requests'[j] = requests[j]
    BY <2>1 DEF Updates, Stored
  <2>3. /\ consent' = [consent EXCEPT ![id] = c] /\ op' = [op EXCEPT ![c].pc = "approved"]
        /\ gated' = gated \cup {id} \/ gated' = gated
        /\ UNCHANGED <<sub, wd, watch, exec, rules, cooling, audit, launched, grants,
                       released, disclosed>>
    BY <1>1 DEF ApproveRequest, Goto
  <2>4. Pending(id) /\ consent[id] = Nobody /\ wd[id] = "no" /\ launched[id] = 0
    BY <1>0, <1>1 DEF CanApprove, DecidedOnce
  <2>5. op'[c].pc = "approved" /\ op'[c].id = id /\ \A d \in Callers \ {c} : op'[d] = op[d]
    BY <2>3 DEF TypeOK
  <2>6. consent'[id] = c /\ \A j \in Ids \ {id} : consent'[j] = consent[j]
    BY <1>0, <2>3 DEF TypeOK
  <2>7. TypeOK'
    <3>1. op' \in [Callers -> [pc : OpPc, id : Ids, action : Actions]]
      BY <2>3 DEF TypeOK, OpPc
    <3>2. consent' \in [Ids -> Callers \cup {Watcher, Nobody}] /\ gated' \subseteq Ids
      BY <1>0, <2>3 DEF TypeOK
    <3> QED BY <2>2, <2>3, <3>1, <3>2 DEF TypeOK
  <2>8. NamesAreStored'
    <3>1. \A j \in Ids : Stored(j) => requests'[j] # NoRequest
      BY <2>2 DEF Stored
    <3>2. \A d \in Callers : op'[d].pc # "idle" => requests'[op'[d].id] # NoRequest
      <4>1. requests'[op'[c].id] # NoRequest
        BY <1>0, <2>5, <3>1
      <4>2. \A d \in Callers \ {c} : op'[d].pc # "idle" => requests'[op'[d].id] # NoRequest
        BY <2>5, <3>1 DEF NamesAreStored, TypeOK
      <4> QED BY <4>1, <4>2
    <3>3. watch'.pc \notin {"receive", "get"} => requests'[watch'.id] # NoRequest
      BY <2>3, <3>1 DEF NamesAreStored, TypeOK
    <3>4. \A j \in Ids : sub'[j] # "no" \/ consent'[j] # Nobody \/ wd'[j] # "no"
                           => requests'[j] # NoRequest
      BY <1>0, <2>3, <2>6, <3>1 DEF NamesAreStored
    <3> QED BY <3>2, <3>3, <3>4 DEF NamesAreStored, Stored
  <2>9. DecidedOnce'
    <3>1. ~Pending(id)'
      BY <2>1 DEF Pending
    <3>2. \A j \in Ids \ {id} : (Stored(j)' => Stored(j)) /\ (Pending(j)' => Pending(j))
      BY <2>2 DEF Stored, Pending
    <3>3. consent'[id] # Nobody /\ UNCHANGED <<wd, launched>>
      BY <2>3, <2>6
    <3> QED BY <2>4, <2>6, <3>1, <3>2, <3>3 DEF DecidedOnce
  <2>10. OneLauncher'
    BY <1>0, <2>3, <2>4, <2>5, <2>6 DEF OneLauncher, TypeOK
  <2>11. OneGoroutine'
    BY <1>0, <2>1, <2>2, <2>3 DEF OneGoroutine, Stored
  <2> QED BY <2>7, <2>8, <2>9, <2>10, <2>11
<1>2. CASE ~CanApprove(id)
  <2>1. op' = [op EXCEPT ![c] = Idle] /\ UNCHANGED <<storeVars, consent, gated>>
    BY <1>2 DEF ApproveRequest, Return
  <2>2. TypeOK'
    BY <2>1 DEF ApproveRequest, TypeOK, StoreTypeOK, storeVars
  <2>3. op'[c] = Idle /\ \A d \in Callers \ {c} : op'[d] = op[d]
    BY <2>1 DEF TypeOK
  <2> QED BY <2>1, <2>2, <2>3, CallerMoves DEF ApproveRequest, storeVars
<1> QED BY <1>1, <1>2

(* Launching an approved request keeps it: the launcher lets go.           *)
LEMMA SpawnApprovedIInv ==
  ASSUME IInv, NEW c \in Callers, SpawnApproved(c)
  PROVE  IInv'
<1> USE IdleTypes DEF IInv
<1> PICK id \in Ids : id = op[c].id
  BY DEF TypeOK
<1>1. Stored(id) /\ consent[id] = c /\ launched[id] = 0 /\ Spawn(id)
  BY DEF SpawnApproved, NamesAreStored, OneLauncher
<1>2. /\ op'[c] = Idle /\ \A d \in Callers \ {c} : op'[d] = op[d]
      /\ op' \in [Callers -> [pc : OpPc, id : Ids, action : Actions]]
  BY DEF SpawnApproved, Return, TypeOK
<1>3. /\ exec' \in [Ids -> [Stage -> Nat]] /\ launched' \in [Ids -> Nat]
      /\ exec'[id]["spawned"] = exec[id]["spawned"] + 1
      /\ \A s \in Stage \ {"spawned"} : exec'[id][s] = exec[id][s]
      /\ \A j \in Ids \ {id} : exec'[j] = exec[j] /\ launched'[j] = launched[j]
      /\ launched'[id] = 1
  BY <1>1, SpawnEffect DEF TypeOK
<1>4. TypeOK'
  BY <1>2, <1>3 DEF SpawnApproved, TypeOK, StoreTypeOK, storeVars
<1>5. NamesAreStored'
  BY <1>2 DEF SpawnApproved, NamesAreStored, Stored, storeVars
<1>6. DecidedOnce'
  BY <1>1, <1>3 DEF SpawnApproved, DecidedOnce, Stored, Pending, storeVars
<1>7. OneLauncher'
  <2>1. UNCHANGED <<consent, watch>> /\ c # Watcher
    BY DEF SpawnApproved
  <2>2. ASSUME NEW d \in Callers, op'[d].pc \in {"approved", "spawn"}
        PROVE  consent'[op'[d].id] = d /\ launched'[op'[d].id] = 0
    <3>1. d # c /\ op'[d] = op[d] /\ op[d].id \in Ids
      BY <1>2, <2>2 DEF TypeOK
    <3>2. op[d].id # id /\ consent[op[d].id] = d /\ launched[op[d].id] = 0
      BY <1>1, <2>2, <3>1 DEF OneLauncher
    <3> QED BY <1>3, <2>1, <3>1, <3>2
  <2>3. ASSUME watch'.pc \in {"approved", "spawn"}
        PROVE  consent'[watch'.id] = Watcher /\ launched'[watch'.id] = 0
    BY <1>1, <1>3, <2>1, <2>3 DEF OneLauncher, TypeOK
  <2> QED BY <1>3, <2>2, <2>3 DEF OneLauncher
<1>8. OneGoroutine'
  BY <1>1, <1>3 DEF SpawnApproved, OneGoroutine, Stored, storeVars, Stage
<1> QED BY <1>4, <1>5, <1>6, <1>7, <1>8

(* A stale deny overwrites the status but not the approval.                *)
LEMMA DenyAndReleaseIInv ==
  ASSUME IInv, NEW c \in Callers, DenyRequest(c) \/ ReleaseRequest(c)
  PROVE  IInv'
<1> USE DEF IInv
<1> PICK id \in Ids : id = op[c].id
  BY DEF TypeOK
<1>1. Stored(id)
  BY DEF DenyRequest, ReleaseRequest, NamesAreStored
<1>2. /\ Updates(id) /\ requests'[id].Result = requests[id].Result
      /\ Pending(id)' => Pending(id)
  <2>1. CASE DenyRequest(c)
    BY <1>1, <2>1, SetStatusEffect DEF DenyRequest, TypeOK, Pending, Status
  <2>2. CASE ReleaseRequest(c)
    BY <1>1, <2>2, ReleaseEffect DEF ReleaseRequest, TypeOK, Pending
  <2> QED BY <2>1, <2>2
<1>3. /\ StoreTypeOK' /\ Stored(id)'
      /\ \A j \in Ids \ {id} : requests'[j] = requests[j]
  BY <1>2 DEF Updates, Stored
<1>4. /\ op' \in [Callers -> [pc : OpPc, id : Ids, action : Actions]]
      /\ op'[c].pc \in {"denied", "released"} /\ op'[c].id = id
      /\ \A d \in Callers \ {c} : op'[d] = op[d]
  <2>1. Goto(c, "denied") \/ Goto(c, "released")
    BY DEF DenyRequest, ReleaseRequest
  <2> QED BY <2>1, GotoEffect DEF OpPc
<1>5. UNCHANGED <<sub, wd, watch, exec, rules, cooling, audit, consent, launched, grants,
                  gated, disclosed>>
  BY DEF DenyRequest, ReleaseRequest
<1>6. released' \subseteq Ids
  BY <1>1 DEF DenyRequest, ReleaseRequest, TypeOK
<1>7. TypeOK'
  BY <1>3, <1>4, <1>5, <1>6 DEF TypeOK
<1>8. NamesAreStored'
  BY <1>1, <1>3, <1>4, <1>5 DEF NamesAreStored, Stored, TypeOK
<1>9. DecidedOnce'
  BY <1>1, <1>2, <1>3, <1>5 DEF DecidedOnce, Stored, Pending
<1>10. OneLauncher'
  BY <1>4, <1>5 DEF OneLauncher
<1>11. OneGoroutine'
  BY <1>1, <1>2, <1>3, <1>5 DEF OneGoroutine, Stored
<1> QED BY <1>7, <1>8, <1>9, <1>10, <1>11

(***************************************************************************)
(* The watcher.                                                            *)
(***************************************************************************)

(* The steps of watchRequests outside the store keep it.                   *)
LEMMA WatcherStepIInv ==
  ASSUME IInv, WatchReceive \/ WatchGet \/ WatchMatch \/ LogAutoApproved
  PROVE  IInv'
<1> USE IdleTypes DEF IInv
<1>1. /\ watch' \in [pc : WatchPc, id : Ids]
      /\ watch'.pc \notin {"receive", "get"} => Stored(watch.id) /\ watch'.id = watch.id
      /\ watch'.pc \in {"approved", "spawn"} =>
           watch.pc \in {"approved", "spawn"} /\ watch'.id = watch.id
  <2>0. watch \in [pc : WatchPc, id : Ids]
    BY DEF TypeOK
  <2>1. CASE WatchReceive
    <3>1. notify \in Seq(Ids) /\ notify # <<>>
      BY <2>1 DEF WatchReceive, TypeOK, StoreTypeOK
    <3>2. Head(notify) \in Ids
      BY <3>1
    <3>3. watch' = Ready \/ watch' = [pc |-> "get", id |-> Head(notify)]
      BY <2>1 DEF WatchReceive, WatchAgain
    <3> QED BY <3>2, <3>3 DEF WatchPc
  <2>2. CASE WatchGet
    BY <2>0, <2>2 DEF WatchGet, WatchGoto, WatchAgain, WatchPc
  <2>3. CASE WatchMatch
    BY <2>0, <2>3 DEF WatchMatch, WatchGoto, WatchAgain, WatchPc, NamesAreStored
  <2>4. CASE LogAutoApproved
    BY <2>0, <2>4 DEF LogAutoApproved, WatchGoto, WatchPc, NamesAreStored
  <2> QED BY <2>1, <2>2, <2>3, <2>4
<1>2. /\ UNCHANGED <<requests, order, updates, sub, wd, op, exec, rules, cooling,
                     consent, launched, grants, gated, released, disclosed>>
      /\ notify' \in Seq(Ids) /\ Len(notify') <= ChanCap
      /\ audit' \in [Ids -> SUBSET AuditEvent]
  <2>1. CASE WatchReceive
    BY <2>1 DEF WatchReceive, TypeOK, StoreTypeOK
  <2>2. CASE WatchGet \/ WatchMatch
    BY <2>2 DEF WatchGet, WatchMatch, TypeOK, StoreTypeOK, storeVars
  <2>3. CASE LogAutoApproved
    BY <2>3 DEF LogAutoApproved, Log, AuditEvent, TypeOK, StoreTypeOK, storeVars
  <2> QED BY <2>1, <2>2, <2>3
<1>3. TypeOK'
  BY <1>1, <1>2 DEF TypeOK, StoreTypeOK
<1>4. NamesAreStored'
  BY <1>1, <1>2 DEF NamesAreStored, Stored
<1>5. DecidedOnce' /\ OneGoroutine'
  BY <1>2 DEF DecidedOnce, OneGoroutine, Stored, Pending
<1>6. OneLauncher'
  BY <1>1, <1>2 DEF OneLauncher
<1> QED BY <1>3, <1>4, <1>5, <1>6

(* An automatic approval keeps it, like an operator's.                     *)
LEMMA AutoApproveIInv ==
  ASSUME IInv, AutoApprove
  PROVE  IInv'
<1> USE IdleTypes DEF IInv
<1> PICK id \in Ids : id = watch.id
  BY DEF TypeOK
<1>0. Stored(id) /\ watch.pc = "approve" /\ watch \in [pc : WatchPc, id : Ids]
  BY DEF AutoApprove, NamesAreStored, TypeOK
<1>1. CASE CanApprove(id)
  <2>1. /\ Updates(id) /\ requests'[id].Status = "approved"
        /\ requests'[id].Result = requests[id].Result
    BY <1>0, <1>1, ApproveEffect DEF AutoApprove, TypeOK
  <2>2. /\ StoreTypeOK' /\ Stored(id)'
        /\ \A j \in Ids \ {id} : requests'[j] = requests[j]
    BY <2>1 DEF Updates, Stored
  <2>3. /\ consent' = [consent EXCEPT ![id] = Watcher]
        /\ watch' = [watch EXCEPT !.pc = "approved"]
        /\ UNCHANGED <<sub, wd, op, exec, rules, cooling, audit, launched, grants, gated,
                       released, disclosed>>
    BY <1>1 DEF AutoApprove, WatchGoto
  <2>4. Pending(id) /\ consent[id] = Nobody /\ wd[id] = "no" /\ launched[id] = 0
    BY <1>0, <1>1 DEF CanApprove, DecidedOnce
  <2>5. watch'.pc = "approved" /\ watch'.id = id /\ watch' \in [pc : WatchPc, id : Ids]
    BY <1>0, <2>3 DEF WatchPc
  <2>6. /\ consent' \in [Ids -> Callers \cup {Watcher, Nobody}]
        /\ consent'[id] = Watcher /\ \A j \in Ids \ {id} : consent'[j] = consent[j]
    BY <2>3 DEF TypeOK
  <2>7. TypeOK'
    BY <2>2, <2>3, <2>5, <2>6 DEF TypeOK
  <2>8. NamesAreStored'
    <3>1. \A j \in Ids : Stored(j) => requests'[j] # NoRequest
      BY <2>2 DEF Stored
    <3>2. \A d \in Callers : op'[d].pc # "idle" => requests'[op'[d].id] # NoRequest
      BY <2>3, <3>1 DEF NamesAreStored, TypeOK
    <3>3. \A j \in Ids : sub'[j] # "no" \/ consent'[j] # Nobody \/ wd'[j] # "no"
                           => requests'[j] # NoRequest
      BY <1>0, <2>3, <2>6, <3>1 DEF NamesAreStored
    <3> QED BY <2>2, <2>5, <3>2, <3>3 DEF NamesAreStored, Stored
  <2>9. DecidedOnce'
    <3>1. ~Pending(id)'
      BY <2>1 DEF Pending
    <3>2. \A j \in Ids \ {id} : (Stored(j)' => Stored(j)) /\ (Pending(j)' => Pending(j))
      BY <2>2 DEF Stored, Pending
    <3>3. consent'[id] # Nobody /\ UNCHANGED <<wd, launched>>
      BY <2>3, <2>6
    <3> QED BY <2>4, <2>6, <3>1, <3>2, <3>3 DEF DecidedOnce
  <2>10. OneLauncher'
    BY <2>3, <2>4, <2>5, <2>6 DEF OneLauncher, TypeOK
  <2>11. OneGoroutine'
    BY <1>0, <2>1, <2>2, <2>3 DEF OneGoroutine, Stored
  <2> QED BY <2>7, <2>8, <2>9, <2>10, <2>11
<1>2. CASE ~CanApprove(id)
  <2>1. watch' = Ready /\ UNCHANGED <<storeVars, consent>>
    BY <1>2 DEF AutoApprove, WatchAgain
  <2>2. UNCHANGED <<sub, wd, op, exec, rules, cooling, audit, launched, grants, gated,
                    released, disclosed>>
    BY DEF AutoApprove
  <2>3. TypeOK'
    BY <2>1, <2>2 DEF TypeOK, StoreTypeOK, storeVars
  <2>4. NamesAreStored' /\ OneLauncher'
    BY <2>1, <2>2 DEF NamesAreStored, OneLauncher, Stored, storeVars
  <2>5. DecidedOnce' /\ OneGoroutine'
    BY <2>1, <2>2 DEF DecidedOnce, OneGoroutine, Stored, Pending, storeVars
  <2> QED BY <2>3, <2>4, <2>5
<1> QED BY <1>1, <1>2

(* Launching an auto-approved request keeps it.                            *)
LEMMA SpawnAutoApprovedIInv ==
  ASSUME IInv, SpawnAutoApproved
  PROVE  IInv'
<1> USE IdleTypes DEF IInv
<1> PICK id \in Ids : id = watch.id
  BY DEF TypeOK
<1>1. Stored(id) /\ consent[id] = Watcher /\ launched[id] = 0 /\ Spawn(id)
  BY DEF SpawnAutoApproved, NamesAreStored, OneLauncher
<1>2. /\ watch' = Ready
      /\ UNCHANGED <<storeVars, sub, wd, op, rules, cooling, audit, consent, grants, gated,
                     released, disclosed>>
  BY DEF SpawnAutoApproved, WatchAgain
<1>3. /\ exec' \in [Ids -> [Stage -> Nat]] /\ launched' \in [Ids -> Nat]
      /\ exec'[id]["spawned"] = exec[id]["spawned"] + 1
      /\ \A s \in Stage \ {"spawned"} : exec'[id][s] = exec[id][s]
      /\ \A j \in Ids \ {id} : exec'[j] = exec[j] /\ launched'[j] = launched[j]
      /\ launched'[id] = 1
  BY <1>1, SpawnEffect DEF TypeOK
<1>4. TypeOK'
  BY <1>2, <1>3 DEF TypeOK, StoreTypeOK, storeVars
<1>5. NamesAreStored'
  BY <1>2 DEF NamesAreStored, Stored, storeVars
<1>6. DecidedOnce'
  BY <1>1, <1>2, <1>3 DEF DecidedOnce, Stored, Pending, storeVars
<1>7. OneLauncher'
  <2>1. ASSUME NEW d \in Callers, op[d].pc \in {"approved", "spawn"}
        PROVE  consent[op[d].id] = d /\ launched'[op[d].id] = 0
    <3>1. op[d].id \in Ids /\ consent[op[d].id] = d /\ launched[op[d].id] = 0 /\ d # Watcher
      BY <2>1 DEF OneLauncher, TypeOK
    <3> QED BY <1>1, <1>3, <3>1
  <2> QED BY <1>2, <1>3, <2>1 DEF OneLauncher
<1>8. OneGoroutine'
  BY <1>1, <1>2, <1>3 DEF OneGoroutine, Stored, storeVars, Stage
<1> QED BY <1>4, <1>5, <1>6, <1>7, <1>8

(***************************************************************************)
(* The execution goroutines.                                               *)
(***************************************************************************)

(* A request with a goroutine is stored, approved and launched once.       *)
LEMMA RunningIsStored ==
  ASSUME IInv, NEW id \in Ids, NEW s \in Stage, exec[id][s] > 0
  PROVE  /\ Stored(id) /\ consent[id] # Nobody /\ launched[id] = 1 /\ exec[id][s] = 1
         /\ \A t \in Stage \ {s} : exec[id][t] = 0
<1>1. launched[id] \in Nat /\ launched[id] <= 1 /\ launched[id] # 0
  BY DEF IInv, TypeOK, OneLauncher, OneGoroutine
<1>2. launched[id] = 1 /\ consent[id] # Nobody
  BY <1>1 DEF IInv, DecidedOnce
<1>3. Stored(id)
  BY <1>2 DEF IInv, NamesAreStored
<1>4. exec[id][s] \in Nat /\ exec[id][s] <= 1
  BY DEF IInv, TypeOK, OneGoroutine
<1>5. \A t \in Stage \ {s} : exec[id][t] = 0
  BY <1>4 DEF IInv, OneGoroutine
<1> QED BY <1>2, <1>3, <1>4, <1>5

(* What ExecStart and ExecFinish change besides the goroutine's stage.     *)
LEMMA ExecStoreStep ==
  ASSUME IInv, NEW id \in Ids, NEW from \in Stage, NEW to \in Stage, from # to,
         Advance(id, from, to), Updates(id), ~Pending(id)',
         UNCHANGED <<sub, wd, op, watch, rules, cooling, audit,
                     consent, launched, grants, gated, released, disclosed>>,
         \/ /\ from = "spawned" /\ to = "started"
            /\ requests'[id].Result = requests[id].Result
         \/ from = "executing" /\ to \in {"finished", "finishedEmpty"}
  PROVE  IInv'
<1> USE DEF IInv
<1>1. /\ exec' \in [Ids -> [Stage -> Nat]]
      /\ exec[id][from] > 0 /\ exec'[id][from] = exec[id][from] - 1
      /\ exec'[id][to] = exec[id][to] + 1
      /\ \A s \in Stage \ {from, to} : exec'[id][s] = exec[id][s]
      /\ \A j \in Ids \ {id} : exec'[j] = exec[j]
  BY AdvanceEffect DEF TypeOK
<1>2. /\ Stored(id) /\ consent[id] # Nobody /\ launched[id] = 1 /\ exec[id][from] = 1
      /\ \A t \in Stage \ {from} : exec[id][t] = 0
  BY <1>1, RunningIsStored
<1>3. /\ StoreTypeOK' /\ requests'[id] # NoRequest
      /\ \A j \in Ids \ {id} : requests'[j] = requests[j]
  BY DEF Updates
<1>4. TypeOK'
  BY <1>1, <1>3 DEF TypeOK
<1>5. NamesAreStored'
  <2>1. \A j \in Ids : Stored(j) => requests'[j] # NoRequest
    BY <1>3 DEF Stored
  <2>2. \A d \in Callers : op[d].pc # "idle" => requests'[op[d].id] # NoRequest
    BY <2>1 DEF NamesAreStored, TypeOK
  <2>3. watch.pc \notin {"receive", "get"} => requests'[watch.id] # NoRequest
    BY <2>1 DEF NamesAreStored, TypeOK
  <2>4. \A j \in Ids : sub[j] # "no" \/ consent[j] # Nobody \/ wd[j] # "no"
                         => requests'[j] # NoRequest
    BY <2>1 DEF NamesAreStored
  <2> QED BY <2>2, <2>3, <2>4 DEF NamesAreStored, Stored
<1>6. DecidedOnce'
  <2>1. \A j \in Ids \ {id} : (Stored(j)' => Stored(j)) /\ (Pending(j)' => Pending(j))
    BY <1>3 DEF Stored, Pending
  <2> QED BY <2>1 DEF DecidedOnce
<1>7. OneLauncher'
  BY DEF OneLauncher
<1>8. OneGoroutine'
  <2>1. exec'[id][from] = 0 /\ exec'[id][to] = 1 /\ \A s \in Stage \ {to} : exec'[id][s] = 0
    BY <1>1, <1>2
  <2>2. requests'[id].Result # NoResult => to \in {"finished", "finishedEmpty"}
    BY <1>2 DEF OneGoroutine, Stage
  <2>3. ASSUME NEW j \in Ids, j # id
        PROVE  exec'[j] = exec[j] /\ requests'[j] = requests[j]
    BY <1>1, <1>3, <2>3
  <2>4. \A s \in {"spawned", "started", "executing"} : requests'[id].Result # NoResult => exec'[id][s] = 0
    BY <2>1, <2>2 DEF Stage
  <2> QED BY <1>2, <2>1, <2>3, <2>4 DEF OneGoroutine, Stored, Stage
<1> QED BY <1>4, <1>5, <1>6, <1>7, <1>8

(* The steps that only log: the store is untouched.                        *)
LEMMA ExecLogStep ==
  ASSUME IInv, NEW id \in Ids, ExecLogStart(id) \/ ExecLogFinish(id)
  PROVE  IInv'
<1> USE DEF IInv
<1>1. PICK from \in {"started", "finished", "finishedEmpty"}, to \in {"executing", "gone"} :
        Advance(id, from, to) /\ (from = "started" <=> to = "executing")
  BY DEF ExecLogStart, ExecLogFinish
<1>2. /\ exec' \in [Ids -> [Stage -> Nat]]
      /\ exec[id][from] > 0 /\ exec'[id][from] = exec[id][from] - 1
      /\ to \in Stage => exec'[id][to] = exec[id][to] + 1
      /\ \A s \in Stage \ {from, to} : exec'[id][s] = exec[id][s]
      /\ \A j \in Ids \ {id} : exec'[j] = exec[j]
  BY <1>1, AdvanceEffect DEF TypeOK, Stage
<1>3. /\ Stored(id) /\ launched[id] = 1 /\ exec[id][from] = 1
      /\ \A t \in Stage \ {from} : exec[id][t] = 0
  BY <1>1, <1>2, RunningIsStored DEF Stage
<1>4. UNCHANGED <<storeVars, sub, wd, op, watch, rules, cooling,
                  consent, launched, grants, gated, released, disclosed>>
  BY DEF ExecLogStart, ExecLogFinish
<1>5. audit' \in [Ids -> SUBSET AuditEvent]
  <2>1. \E new \in SUBSET AuditEvent : audit' = [audit EXCEPT ![id] = @ \cup new]
    BY DEF ExecLogStart, ExecLogFinish, Log, AuditEvent
  <2> QED BY <2>1 DEF TypeOK
<1>6. TypeOK'
  BY <1>2, <1>4, <1>5 DEF TypeOK, StoreTypeOK, storeVars
<1>7. NamesAreStored' /\ OneLauncher'
  BY <1>4 DEF NamesAreStored, OneLauncher, Stored, storeVars
<1>8. DecidedOnce'
  BY <1>4 DEF DecidedOnce, Stored, Pending, storeVars
<1>9. OneGoroutine'
  <2>1. \A s \in Stage : exec'[id][s] = IF s = to THEN 1 ELSE 0
    BY <1>1, <1>2, <1>3 DEF Stage
  <2>2. requests[id].Result # NoResult => exec'[id]["executing"] = 0
    BY <1>1, <1>3, <2>1 DEF OneGoroutine, Stage
  <2>3. requests' = requests /\ launched' = launched
    BY <1>4 DEF storeVars
  <2>4. \A j \in Ids \ {id} : exec'[j] = exec[j]
    BY <1>2
  <2>5. \A s \in {"spawned", "started", "executing"} : requests[id].Result # NoResult => exec'[id][s] = 0
    BY <1>1, <2>1, <2>2 DEF Stage
  <2> QED BY <1>3, <2>1, <2>3, <2>4, <2>5 DEF OneGoroutine, Stored, Stage
<1> QED BY <1>6, <1>7, <1>8, <1>9

(* Every step of executeRequest keeps it.                                  *)
LEMMA ExecutorIInv ==
  ASSUME IInv, NEW id \in Ids, Executor(id)
  PROVE  IInv'
<1>1. StoreTypeOK
  BY DEF IInv, TypeOK
<1>2. CASE ExecStart(id)
  <2>1. Stored(id)
    BY <1>2, RunningIsStored DEF ExecStart, Advance, Stage
  <2>2. Updates(id) /\ ~Pending(id)' /\ requests'[id].Result = requests[id].Result
    BY <1>1, <1>2, <2>1, SetStatusEffect DEF ExecStart, Pending, Status
  <2> QED BY <1>2, <2>2, ExecStoreStep DEF ExecStart, Stage
<1>3. ASSUME NEW res \in Results, ExecFinish(id, res)
      PROVE  IInv'
  <2>1. Stored(id)
    BY <1>3, RunningIsStored DEF ExecFinish, Advance, Stage
  <2>2. Updates(id) /\ ~Pending(id)'
    BY <1>1, <1>3, <2>1, SetResultEffect DEF ExecFinish, Pending, Status
  <2> QED BY <1>3, <2>2, ExecStoreStep DEF ExecFinish, Stage
<1> QED BY <1>2, <1>3, ExecLogStep DEF Executor

-----------------------------------------------------------------------------
(***************************************************************************)
(* The theorems.                                                           *)
(***************************************************************************)

(* Every step of the relay keeps it.                                       *)
LEMMA NextIInv == IInv /\ [Next]_vars => IInv'
<1> SUFFICES ASSUME IInv, [Next]_vars PROVE IInv'
  OBVIOUS
<1>1. ASSUME NEW id \in Ids, Agent(id) \/ AgentCall(id) \/ Executor(id)
      PROVE  IInv'
  BY <1>1, SubmitIInv, WithdrawIInv, ReadAndRulesIInv, AgentCallIInv, ExecutorIInv DEF Agent
<1>2. ASSUME NEW c \in Callers, Operator(c) \/ Handler(c)
      PROVE  IInv'
  BY <1>2, ReadAndRulesIInv, CallerStepIInv, ApproveRequestIInv, SpawnApprovedIInv,
     DenyAndReleaseIInv DEF Operator, Handler
<1>3. CASE WatchRequests \/ WatchUpdates \/ CooldownChanges
  BY <1>3, WatcherStepIInv, AutoApproveIInv, SpawnAutoApprovedIInv, ReadAndRulesIInv
  DEF WatchRequests
<1>4. CASE UNCHANGED vars
  BY <1>4 DEF vars, storeVars, IInv, TypeOK, StoreTypeOK, NamesAreStored, DecidedOnce,
              OneLauncher, OneGoroutine, Stored, Pending
<1> QED BY <1>1, <1>2, <1>3, <1>4 DEF Next

(* IInv, and with it the type of every variable, holds in every state.     *)
THEOREM InvariantHolds == Spec => []IInv
<1> QED BY InitIInv, NextIInv, PTL DEF Spec

(* Every variable keeps its type.                                          *)
THEOREM TypeCorrect == Spec => []TypeOK
<1>1. IInv => TypeOK
  BY DEF IInv
<1> QED BY <1>1, InvariantHolds, PTL

(* However many approvals race, store.Approve lets one of them launch the  *)
(* request, once.                                                          *)
THEOREM AtMostOneExecution == Spec => []ExecutesAtMostOnce
<1>1. IInv => ExecutesAtMostOnce
  BY DEF IInv, OneLauncher, ExecutesAtMostOnce
<1> QED BY <1>1, InvariantHolds, PTL

(* A withdrawal the agent was told of is final: no decision in progress    *)
(* can still approve or launch the request.                                *)
THEOREM WithdrawalHolds == Spec => []WithdrawnNeverRuns
<1>1. IInv => WithdrawnNeverRuns
  BY DEF IInv, DecidedOnce, WithdrawnNeverRuns
<1> QED BY <1>1, InvariantHolds, PTL

-----------------------------------------------------------------------------
(***************************************************************************)
(* Who may decide, what is logged, what is withheld and in which order the *)
(* status moves.  The argument is split by who moves: four relations say   *)
(* what one step of the whole relay can do to one caller, to the watcher,  *)
(* to one request and to the history; each is proved once of [Next]_vars,  *)
(* and the properties follow from the relations, without looking at an     *)
(* action again.                                                           *)
(***************************************************************************)
USE PlaceholderAssumption

-----------------------------------------------------------------------------
(***************************************************************************)
(* What a step may do.                                                     *)
(***************************************************************************)

(* To a caller of handleRequestAction: nothing, let it in, take it to its  *)
(* next line, or answer it.                                                *)
CallerMovesOn(c, from, to) ==
  op[c].pc = from /\ op'[c].pc = to /\ op'[c].id = op[c].id

CallerStep(c) ==
  \/ op'[c] = op[c]
  \/ op[c].pc = "idle" /\ authorizeDecision(c) /\ op'[c].pc \in {"cooldown", "deny", "release"}
  \/ CallerMovesOn(c, "cooldown", "approve")
  \/ /\ CallerMovesOn(c, "approve", "approved")
     /\ requests'[op[c].id].Status = "approved"
  \/ /\ CallerMovesOn(c, "approved", "spawn")
     /\ "request_approved" \in audit'[op[c].id]
  \/ op[c].pc = "spawn" /\ op'[c].pc = "idle" /\ launched'[op[c].id] > 0
  \/ CallerMovesOn(c, "deny", "denied") \/ CallerMovesOn(c, "release", "released")
  \/ op[c].pc \in {"cooldown", "approve", "denied", "released"} /\ op'[c].pc = "idle"

(* To the watcher.                                                         *)
WatcherMovesOn(from, to) ==
  watch.pc = from /\ watch'.pc = to /\ watch'.id = watch.id

WatcherStep ==
  \/ watch' = watch
  \/ watch.pc = "receive" /\ (watch'.pc = "receive" \/ (watch'.pc = "get" /\ WhitelistEnabled))
  \/ WatcherMovesOn("get", "match")
  \/ /\ WatcherMovesOn("match", "approve")
     /\ whitelistKey(requests[watch.id].Content) \in rules
     /\ requests' = requests
  \/ /\ WatcherMovesOn("approve", "approved")
     /\ requests'[watch.id].Status = "approved"
  \/ /\ WatcherMovesOn("approved", "spawn")
     /\ "request_auto_approved" \in audit'[watch.id]
  \/ watch.pc = "spawn" /\ watch'.pc = "receive" /\ launched'[watch.id] > 0
  \/ watch.pc \in {"get", "match", "approve"} /\ watch'.pc = "receive"

(* To a request.  It has at most one goroutine, so where that one is says  *)
(* all of exec; NoStage stands for none.                                   *)
NoStage == "gone"

OnlyAt(id, s) == \A t \in Stage : exec[id][t] = IF t = s THEN 1 ELSE 0

SameApproval(id) == consent'[id] = consent[id] /\ launched'[id] = launched[id]

Goes(id, from, to) == OnlyAt(id, from) /\ OnlyAt(id, to)' /\ SameApproval(id)

Added(id) ==
  /\ ~Stored(id) /\ Stored(id)'
  /\ requests'[id].Status = "pending" /\ requests'[id].Result = NoResult
  /\ ~requests'[id].OutputGated
  /\ SameApproval(id) /\ exec'[id] = exec[id]

SameRequestBut(id, status, outputGated, result) ==
  /\ Stored(id) /\ Stored(id)'
  /\ requests'[id].Content = requests[id].Content
  /\ requests'[id].Status = status
  /\ requests'[id].OutputGated = outputGated
  /\ requests'[id].Result = result

Withdrawn(id) ==
  /\ Pending(id)
  /\ SameRequestBut(id, "withdrawn", requests[id].OutputGated, requests[id].Result)
  /\ SameApproval(id) /\ exec'[id] = exec[id]

Approved(id) ==
  /\ Pending(id)
  /\ \E g \in BOOLEAN :
       /\ SameRequestBut(id, "approved", requests[id].OutputGated \/ g, requests[id].Result)
       /\ id \in gated' \ gated => g
  /\ \/ /\ consent'[id] \in Callers
        /\ CallerMovesOn(consent'[id], "approve", "approved") /\ op[consent'[id]].id = id
     \/ /\ consent'[id] = Watcher
        /\ WatcherMovesOn("approve", "approved") /\ watch.id = id
  /\ launched'[id] = launched[id] /\ exec'[id] = exec[id]

Denied(id) ==
  /\ SameRequestBut(id, "denied", requests[id].OutputGated, requests[id].Result)
  /\ SameApproval(id) /\ exec'[id] = exec[id]

OutputReleased(id) ==
  /\ SameRequestBut(id, requests[id].Status, FALSE, requests[id].Result)
  /\ id \in released'
  /\ SameApproval(id) /\ exec'[id] = exec[id]

Launched(id) ==
  /\ requests' = requests /\ audit' = audit
  /\ consent'[id] = consent[id] /\ launched[id] = 0 /\ launched'[id] = 1
  /\ OnlyAt(id, NoStage) /\ OnlyAt(id, "spawned")'
  /\ \/ \E c \in Callers : op[c].id = id /\ op[c].pc = "spawn"
     \/ watch.id = id /\ watch.pc = "spawn"

Executes(id) ==
  \/ /\ Goes(id, "spawned", "started")
     /\ SameRequestBut(id, "running", requests[id].OutputGated, requests[id].Result)
  \/ /\ Goes(id, "started", "executing")
     /\ requests' = requests
     /\ "execution_started" \in audit'[id]
  \/ \E to \in {"finished", "finishedEmpty"}, res \in Results, s \in {"complete", "error"} :
       /\ Goes(id, "executing", to)
       /\ SameRequestBut(id, s, requests[id].OutputGated /\ hasGatedContent(res), res)
  \/ \E from \in {"finished", "finishedEmpty"} :
       Goes(id, from, NoStage) /\ requests' = requests

Untouched(id) ==
  requests'[id] = requests[id] /\ SameApproval(id) /\ exec'[id] = exec[id]

RequestStep(id) ==
  \/ Untouched(id)
  \/ Added(id) \/ Withdrawn(id) \/ Approved(id) \/ Denied(id) \/ OutputReleased(id)
  \/ Launched(id) \/ Executes(id)

OneRequestStep ==
  \E id \in Ids : RequestStep(id) /\ \A j \in Ids \ {id} : Untouched(j)

(* To the history: the log, the grants and the released outputs only grow; *)
(* a rule is granted by a caller allowed to; output is gated by an         *)
(* approval, and what is disclosed is not gated.                           *)
HistoryStep ==
  /\ \A id \in Ids : audit[id] \subseteq audit'[id]
  /\ grants \subseteq grants' /\ gated \subseteq gated' /\ released \subseteq released'
  /\ \A key \in rules' \ rules : \E g \in grants' : g.key = key /\ authorizeDecision(g.by)
  /\ \A id \in gated' \ gated : Stored(id)' /\ requests'[id].OutputGated
  /\ \A id \in disclosed' \ disclosed :
       /\ id \in gated /\ Stored(id)
       /\ requests[id].Result # NoResult /\ hasGatedContent(requests[id].Result)
       /\ ApproverRequired => ~requests[id].OutputGated

RelayStep ==
  /\ \A c \in Callers : CallerStep(c)
  /\ WatcherStep
  /\ OneRequestStep /\ \A id \in Ids : RequestStep(id)
  /\ HistoryStep

-----------------------------------------------------------------------------
(***************************************************************************)
(* The inductive invariant: IInv and five parts, one per property.         *)
(***************************************************************************)
Sanctioned(key) ==
  key \in InitialRules \/ \E g \in grants : g.key = key /\ authorizeDecision(g.by)

(* Whoever is about to decide may decide.                                  *)
DecidersAreAuthorized ==
  /\ \A c \in Callers : op[c].pc # "idle" => authorizeDecision(c)
  /\ watch.pc # "receive" => WhitelistEnabled
  /\ \A key \in rules : Sanctioned(key)
  /\ watch.pc = "approve" => Sanctioned(whitelistKey(requests[watch.id].Content))

(* The log is ahead of what it explains.                                   *)
LogIsAhead ==
  /\ \A c \in Callers : op[c].pc = "spawn" => "request_approved" \in audit[op[c].id]
  /\ watch.pc = "spawn" => "request_auto_approved" \in audit[watch.id]
  /\ \A id \in Ids : exec[id]["executing"] > 0 => "execution_started" \in audit[id]

(* A stale deny apart, the status is where the launcher or the goroutine   *)
(* left it.                                                                *)
StatusIsOnTrack ==
  /\ \A c \in Callers : op[c].pc \in {"approved", "spawn"} =>
       requests[op[c].id].Status \in {"approved", "denied"}
  /\ watch.pc \in {"approved", "spawn"} =>
       requests[watch.id].Status \in {"approved", "denied"}
  /\ \A id \in Ids :
       /\ exec[id]["spawned"] > 0 => requests[id].Status \in {"approved", "denied"}
       /\ exec[id]["started"] > 0 \/ exec[id]["executing"] > 0
            => requests[id].Status \in {"running", "denied"}

(* Output that was gated stays so until it is released or turns out empty. *)
GateIsKept ==
  \A id \in gated :
    /\ Stored(id)
    /\ \/ requests[id].OutputGated \/ id \in released
       \/ requests[id].Result # NoResult /\ ~hasGatedContent(requests[id].Result)

SInv ==
  /\ IInv
  /\ DecidersAreAuthorized /\ AuthorizedConsent
  /\ LogIsAhead /\ LogCallPrecedesRun
  /\ StatusIsOnTrack
  /\ GateIsKept /\ NoEmptyGate /\ GatedContentWithheld
  /\ NoApprovalIsLost

-----------------------------------------------------------------------------
(***************************************************************************)
(* Every step of the relay is a RelayStep.                                 *)
(***************************************************************************)

(* A caller that is answered is idle again.                                *)
LEMMA ReturnEffect ==
  ASSUME TypeOK, NEW c \in Callers, Return(c)
  PROVE  op'[c].pc = "idle" /\ \A d \in Callers \ {c} : op'[d] = op[d]
<1>1. op' = [op EXCEPT ![c] = Idle]
  BY DEF Return
<1> QED BY <1>1, IdleTypes DEF TypeOK

(* The steps of handleRequestAction are steps of its caller.               *)
LEMMA HandlerCallerStep ==
  ASSUME IInv, NEW c \in Callers,
         \/ \E id \in Ids, action \in OperatorActions : BeginDecision(c, id, action)
         \/ Handler(c)
  PROVE  CallerStep(c) /\ \A d \in Callers \ {c} : op'[d] = op[d]
<1>0. TypeOK
  BY DEF IInv
<1>1. ASSUME NEW id \in Ids, NEW action \in OperatorActions, BeginDecision(c, id, action)
      PROVE  CallerStep(c) /\ \A d \in Callers \ {c} : op'[d] = op[d]
  <2>1. FirstPc(action) \in {"cooldown", "deny", "release"}
    BY DEF FirstPc
  <2>2. /\ op'[c] = [pc |-> FirstPc(action), id |-> id, action |-> action]
        /\ \A d \in Callers \ {c} : op'[d] = op[d]
    BY <1>0, <1>1 DEF BeginDecision, TypeOK
  <2> QED BY <1>1, <2>1, <2>2 DEF BeginDecision, CallerStep
<1>2. CASE CheckCooldown(c)
  <2>1. CASE cooling = "running"
    BY <1>0, <1>2, <2>1, ReturnEffect DEF CheckCooldown, CallerStep
  <2>2. CASE cooling # "running"
    BY <1>0, <1>2, <2>2, GotoEffect DEF CheckCooldown, CallerStep, CallerMovesOn, OpPc
  <2> QED BY <2>1, <2>2
<1>3. CASE ApproveRequest(c)
  <2>1. op[c].id \in Ids /\ Stored(op[c].id) /\ StoreTypeOK
    BY <1>0, <1>3 DEF IInv, NamesAreStored, ApproveRequest, TypeOK
  <2>2. CASE CanApprove(op[c].id)
    <3>1. requests'[op[c].id].Status = "approved"
      BY <1>3, <2>1, <2>2, ApproveEffect DEF ApproveRequest
    <3> QED BY <1>0, <1>3, <2>2, <3>1, GotoEffect
            DEF ApproveRequest, CallerStep, CallerMovesOn, OpPc
  <2>3. CASE ~CanApprove(op[c].id)
    BY <1>0, <1>3, <2>3, ReturnEffect DEF ApproveRequest, CallerStep
  <2> QED BY <2>2, <2>3
<1>4. CASE LogApproved(c)
  <2>1. "request_approved" \in audit'[op[c].id]
    BY <1>0, <1>4 DEF LogApproved, Log, TypeOK
  <2> QED BY <1>0, <1>4, <2>1, GotoEffect DEF LogApproved, CallerStep, CallerMovesOn, OpPc
<1>5. CASE SpawnApproved(c)
  <2>1. launched'[op[c].id] > 0
    BY <1>0, <1>5, SpawnEffect DEF SpawnApproved, TypeOK
  <2> QED BY <1>0, <1>5, <2>1, ReturnEffect DEF SpawnApproved, CallerStep
<1>6. CASE DenyRequest(c) \/ ReleaseRequest(c)
  BY <1>0, <1>6, GotoEffect DEF DenyRequest, ReleaseRequest, CallerStep, CallerMovesOn, OpPc
<1>7. CASE LogDenied(c) \/ LogReleased(c)
  BY <1>0, <1>7, ReturnEffect DEF LogDenied, LogReleased, CallerStep
<1> QED BY <1>1, <1>2, <1>3, <1>4, <1>5, <1>6, <1>7 DEF Handler

(* Only a caller's own handler moves it.                                   *)
LEMMA CallerSteps ==
  ASSUME IInv, [Next]_vars
  PROVE  \A c \in Callers : CallerStep(c)
<1>1. ASSUME NEW c \in Callers,
             \/ \E id \in Ids, action \in OperatorActions : BeginDecision(c, id, action)
             \/ Handler(c)
      PROVE  \A d \in Callers : CallerStep(d)
  <2>1. CallerStep(c) /\ \A d \in Callers \ {c} : op'[d] = op[d]
    BY <1>1, HandlerCallerStep
  <2> QED BY <2>1 DEF CallerStep
<1>2. CASE op' = op
  BY <1>2 DEF CallerStep
<1>3. \/ op' = op
      \/ \E c \in Callers :
           \/ \E id \in Ids, action \in OperatorActions : BeginDecision(c, id, action)
           \/ Handler(c)
  BY DEF Next, vars, Agent, AgentCall, Operator, Executor, WatchRequests,
         Submit, WithdrawRequest, ReadRequest, SubmitNotify, SubmitLog, WithdrawLog,
         WhitelistAdd, WhitelistRemove, CooldownChanges, WatchUpdates,
         WatchReceive, WatchGet, WatchMatch, AutoApprove, LogAutoApproved, SpawnAutoApproved,
         ExecStart, ExecLogStart, ExecFinish, ExecLogFinish
<1> QED BY <1>1, <1>2, <1>3

(* Only watchRequests moves the watcher.                                   *)
LEMMA WatcherSteps ==
  ASSUME IInv, [Next]_vars
  PROVE  WatcherStep
<1>0. TypeOK /\ watch \in [pc : WatchPc, id : Ids] /\ Ready.pc = "receive"
  BY IdleTypes DEF IInv, TypeOK
<1>1. CASE WatchReceive
  BY <1>0, <1>1 DEF WatchReceive, WatchAgain, WatcherStep
<1>2. CASE WatchGet
  BY <1>0, <1>2 DEF WatchGet, WatchGoto, WatchAgain, WatcherStep, WatcherMovesOn
<1>3. CASE WatchMatch
  BY <1>0, <1>3 DEF WatchMatch, WatchGoto, WatchAgain, WatcherStep, WatcherMovesOn, storeVars
<1>4. CASE AutoApprove
  <2>1. Stored(watch.id) /\ StoreTypeOK
    BY <1>0, <1>4 DEF IInv, NamesAreStored, AutoApprove, TypeOK
  <2>2. CASE CanApprove(watch.id)
    <3>1. requests'[watch.id].Status = "approved"
      BY <1>0, <1>4, <2>1, <2>2, ApproveEffect DEF AutoApprove
    <3> QED BY <1>0, <1>4, <2>2, <3>1 DEF AutoApprove, WatchGoto, WatcherStep, WatcherMovesOn
  <2>3. CASE ~CanApprove(watch.id)
    BY <1>0, <1>4, <2>3 DEF AutoApprove, WatchAgain, WatcherStep
  <2> QED BY <2>2, <2>3
<1>5. CASE LogAutoApproved
  <2>1. "request_auto_approved" \in audit'[watch.id]
    BY <1>0, <1>5 DEF LogAutoApproved, Log, TypeOK
  <2> QED BY <1>0, <1>5, <2>1 DEF LogAutoApproved, WatchGoto, WatcherStep, WatcherMovesOn
<1>6. CASE SpawnAutoApproved
  <2>1. launched'[watch.id] > 0
    BY <1>0, <1>6, SpawnEffect DEF SpawnAutoApproved, TypeOK
  <2> QED BY <1>0, <1>6, <2>1 DEF SpawnAutoApproved, WatchAgain, WatcherStep
<1>7. CASE watch' = watch
  BY <1>7 DEF WatcherStep
<1>8. watch' = watch \/ WatchRequests
  BY DEF Next, vars, Agent, AgentCall, Operator, Handler, Executor,
         Submit, WithdrawRequest, ReadRequest, SubmitNotify, SubmitLog, WithdrawLog,
         BeginDecision, WhitelistAdd, WhitelistRemove, CooldownChanges, WatchUpdates,
         CheckCooldown, ApproveRequest, LogApproved, SpawnApproved, DenyRequest, LogDenied,
         ReleaseRequest, LogReleased, ExecStart, ExecLogStart, ExecFinish, ExecLogFinish
<1> QED BY <1>1, <1>2, <1>3, <1>4, <1>5, <1>6, <1>7, <1>8 DEF WatchRequests

(* A method of the store that updates one request keeps the others.        *)
LEMMA UpdatesOne ==
  ASSUME NEW id \in Ids, Updates(id), RequestStep(id),
         \A j \in Ids \ {id} : SameApproval(j) /\ exec'[j] = exec[j]
  PROVE  OneRequestStep
BY DEF Updates, OneRequestStep, Untouched

(* Add, Withdraw, Deny and ReleaseOutput.                                  *)
LEMMA StoreRequestStep ==
  ASSUME IInv,
         \/ \E id \in Ids, content \in Contents : Submit(id, content)
         \/ \E id \in Ids : WithdrawRequest(id)
         \/ \E c \in Callers : DenyRequest(c) \/ ReleaseRequest(c)
  PROVE  OneRequestStep
<1>0. TypeOK /\ StoreTypeOK
  BY DEF IInv, TypeOK
<1>1. \A j \in Ids : SameApproval(j) /\ exec'[j] = exec[j]
  BY DEF Submit, WithdrawRequest, DenyRequest, ReleaseRequest, SameApproval
<1>2. ASSUME NEW id \in Ids, NEW content \in Contents, Submit(id, content)
      PROVE  OneRequestStep
  <2>1. /\ ~Stored(id) /\ requests'[id] \in Request
        /\ requests'[id].Status = "pending" /\ requests'[id].Result = NoResult
        /\ ~requests'[id].OutputGated
        /\ \A j \in Ids \ {id} : requests'[j] = requests[j]
    BY <1>0, <1>2, AddEffect DEF Submit
  <2>2. Added(id)
    BY <1>1, <2>1 DEF Added, Stored
  <2> QED BY <1>1, <2>1, <2>2 DEF OneRequestStep, RequestStep, Untouched
<1>3. ASSUME NEW id \in Ids, WithdrawRequest(id)
      PROVE  OneRequestStep
  <2>1. Updates(id) /\ Withdrawn(id)
    BY <1>0, <1>1, <1>3, WithdrawEffect
    DEF WithdrawRequest, Withdrawn, SameRequestBut, Updates, Stored
  <2> QED BY <1>1, <2>1, UpdatesOne DEF RequestStep
<1>4. ASSUME NEW c \in Callers, DenyRequest(c) \/ ReleaseRequest(c)
      PROVE  OneRequestStep
  <2> PICK id \in Ids : id = op[c].id
    BY <1>0 DEF TypeOK
  <2>1. Stored(id)
    BY <1>4 DEF IInv, NamesAreStored, DenyRequest, ReleaseRequest
  <2>2. CASE DenyRequest(c)
    <3>1. /\ Updates(id) /\ requests'[id].Status = "denied"
          /\ requests'[id].Result = requests[id].Result
          /\ requests'[id].OutputGated = requests[id].OutputGated
      BY <1>0, <2>1, <2>2, SetStatusEffect DEF DenyRequest, Status
    <3>2. Denied(id)
      BY <1>1, <2>1, <3>1 DEF Denied, SameRequestBut, Updates, Stored
    <3> QED BY <1>1, <3>1, <3>2, UpdatesOne DEF RequestStep
  <2>3. CASE ReleaseRequest(c)
    <3>1. Updates(id) /\ OutputReleased(id)
      BY <1>0, <1>1, <2>1, <2>3, ReleaseEffect
      DEF ReleaseRequest, OutputReleased, SameRequestBut, Updates, Stored
    <3> QED BY <1>1, <3>1, UpdatesOne DEF RequestStep
  <2> QED BY <1>4, <2>2, <2>3
<1> QED BY <1>2, <1>3, <1>4

(* store.Approve, called by a handler or by the watcher.                   *)
LEMMA ApproveRequestStep ==
  ASSUME IInv, (\E c \in Callers : ApproveRequest(c)) \/ AutoApprove
  PROVE  OneRequestStep
<1>0. TypeOK /\ StoreTypeOK
  BY DEF IInv, TypeOK
<1>1. UNCHANGED <<launched, exec>>
  BY DEF ApproveRequest, AutoApprove
<1>2. ASSUME NEW c \in Callers, ApproveRequest(c)
      PROVE  OneRequestStep
  <2> PICK id \in Ids : id = op[c].id
    BY <1>0 DEF TypeOK
  <2>1. Stored(id)
    BY <1>2 DEF IInv, NamesAreStored, ApproveRequest
  <2> DEFINE g == op[c].action = "approve-gated"
  <2>2. CASE CanApprove(id)
    <3>1. /\ Updates(id) /\ requests'[id].Status = "approved"
          /\ requests'[id].Result = requests[id].Result
          /\ requests'[id].OutputGated = (requests[id].OutputGated \/ g)
      BY <1>0, <1>2, <2>1, <2>2, ApproveEffect DEF ApproveRequest
    <3>2. consent'[id] = c /\ \A j \in Ids \ {id} : consent'[j] = consent[j]
      BY <1>0, <1>2, <2>2 DEF ApproveRequest, TypeOK
    <3>3. CallerMovesOn(c, "approve", "approved")
      BY <1>0, <1>2, <2>2, GotoEffect DEF ApproveRequest, CallerMovesOn, OpPc
    <3>4. id \in gated' \ gated => g
      BY <1>2, <2>2 DEF ApproveRequest
    <3>5. SameRequestBut(id, "approved", requests[id].OutputGated \/ g, requests[id].Result)
      BY <2>1, <3>1 DEF SameRequestBut, Updates, Stored
    <3>6. Approved(id)
      BY <1>1, <2>2, <3>2, <3>3, <3>4, <3>5 DEF Approved, CanApprove
    <3> QED BY <1>1, <3>1, <3>2, <3>6, UpdatesOne DEF RequestStep, SameApproval
  <2>3. CASE ~CanApprove(id)
    BY <1>1, <1>2, <2>3 DEF ApproveRequest, storeVars, OneRequestStep, RequestStep,
       Untouched, SameApproval
  <2> QED BY <2>2, <2>3
<1>3. CASE AutoApprove
  <2> PICK id \in Ids : id = watch.id
    BY <1>0 DEF TypeOK
  <2>1. Stored(id)
    BY <1>3 DEF IInv, NamesAreStored, AutoApprove
  <2>2. CASE CanApprove(id)
    <3>1. /\ Updates(id) /\ requests'[id].Status = "approved"
          /\ requests'[id].Result = requests[id].Result
          /\ requests'[id].OutputGated = (requests[id].OutputGated \/ FALSE)
      BY <1>0, <1>3, <2>1, <2>2, ApproveEffect DEF AutoApprove
    <3>2. consent'[id] = Watcher /\ \A j \in Ids \ {id} : consent'[j] = consent[j]
      BY <1>0, <1>3, <2>2 DEF AutoApprove, TypeOK
    <3>3. WatcherMovesOn("approve", "approved")
      BY <1>0, <1>3, <2>2 DEF AutoApprove, WatchGoto, WatcherMovesOn, TypeOK
    <3>4. gated' = gated
      BY <1>3 DEF AutoApprove
    <3>5. SameRequestBut(id, "approved", requests[id].OutputGated \/ FALSE, requests[id].Result)
      BY <2>1, <3>1 DEF SameRequestBut, Updates, Stored
    <3>6. Approved(id)
      BY <1>1, <2>2, <3>2, <3>3, <3>4, <3>5 DEF Approved, CanApprove
    <3> QED BY <1>1, <3>1, <3>2, <3>6, UpdatesOne DEF RequestStep, SameApproval
  <2>3. CASE ~CanApprove(id)
    BY <1>1, <1>3, <2>3 DEF AutoApprove, storeVars, OneRequestStep, RequestStep,
       Untouched, SameApproval
  <2> QED BY <2>2, <2>3
<1> QED BY <1>2, <1>3

(* The go statement of a handler or of the watcher.                        *)
LEMMA SpawnRequestStep ==
  ASSUME IInv, (\E c \in Callers : SpawnApproved(c)) \/ SpawnAutoApproved
  PROVE  OneRequestStep
<1>0. TypeOK
  BY DEF IInv
<1>1. PICK id \in Ids :
        /\ Spawn(id) /\ launched[id] = 0
        /\ \/ \E c \in Callers : op[c].id = id /\ op[c].pc = "spawn"
           \/ watch.id = id /\ watch.pc = "spawn"
  <2>1. CASE \E c \in Callers : SpawnApproved(c)
    BY <1>0, <2>1 DEF SpawnApproved, IInv, OneLauncher, TypeOK
  <2>2. CASE SpawnAutoApproved
    BY <1>0, <2>2 DEF SpawnAutoApproved, IInv, OneLauncher, TypeOK
  <2> QED BY <2>1, <2>2
<1>2. /\ exec'[id]["spawned"] = exec[id]["spawned"] + 1
      /\ \A s \in Stage \ {"spawned"} : exec'[id][s] = exec[id][s]
      /\ \A j \in Ids \ {id} : exec'[j] = exec[j] /\ launched'[j] = launched[j]
      /\ launched'[id] = 1
  BY <1>0, <1>1, SpawnEffect DEF TypeOK
<1>3. OnlyAt(id, NoStage) /\ OnlyAt(id, "spawned")'
  BY <1>1, <1>2 DEF OnlyAt, NoStage, IInv, OneGoroutine, Stage
<1>4. UNCHANGED <<requests, audit, consent>>
  BY DEF SpawnApproved, SpawnAutoApproved, storeVars
<1>5. Launched(id)
  BY <1>1, <1>2, <1>3, <1>4 DEF Launched
<1> QED BY <1>2, <1>4, <1>5 DEF OneRequestStep, RequestStep, Untouched, SameApproval

(* A goroutine that advances is the only one of its request.               *)
LEMMA AdvanceGoes ==
  ASSUME IInv, NEW id \in Ids, NEW from \in Stage, NEW to \in Stage \cup {NoStage},
         from # to, Advance(id, from, to), UNCHANGED <<consent, launched>>
  PROVE  /\ Goes(id, from, to) /\ Stored(id)
         /\ \A j \in Ids \ {id} : SameApproval(j) /\ exec'[j] = exec[j]
<1>1. /\ exec[id][from] > 0 /\ exec'[id][from] = exec[id][from] - 1
      /\ to \in Stage => exec'[id][to] = exec[id][to] + 1
      /\ \A s \in Stage \ {from, to} : exec'[id][s] = exec[id][s]
      /\ \A j \in Ids \ {id} : exec'[j] = exec[j]
  BY AdvanceEffect DEF IInv, TypeOK, NoStage
<1>2. Stored(id) /\ exec[id][from] = 1 /\ \A t \in Stage \ {from} : exec[id][t] = 0
  BY <1>1, RunningIsStored
<1>3. OnlyAt(id, from)
  BY <1>2 DEF OnlyAt
<1>4. OnlyAt(id, to)'
  BY <1>1, <1>2 DEF OnlyAt, NoStage
<1> QED BY <1>1, <1>2, <1>3, <1>4 DEF Goes, SameApproval

(* The steps of executeRequest.                                            *)
LEMMA ExecutorRequestStep ==
  ASSUME IInv, NEW id \in Ids, Executor(id)
  PROVE  OneRequestStep
<1>0. TypeOK /\ StoreTypeOK /\ UNCHANGED <<consent, launched>>
  BY DEF IInv, TypeOK, Executor, ExecStart, ExecLogStart, ExecFinish, ExecLogFinish
<1>1. CASE ExecStart(id)
  <2>1. /\ Goes(id, "spawned", "started") /\ Stored(id)
        /\ \A j \in Ids \ {id} : SameApproval(j) /\ exec'[j] = exec[j]
    BY <1>0, <1>1, AdvanceGoes DEF ExecStart, Stage
  <2>2. /\ Updates(id) /\ requests'[id].Status = "running"
        /\ requests'[id].Result = requests[id].Result
        /\ requests'[id].OutputGated = requests[id].OutputGated
    BY <1>0, <1>1, <2>1, SetStatusEffect DEF ExecStart, Status
  <2>3. SameRequestBut(id, "running", requests[id].OutputGated, requests[id].Result)
    BY <2>1, <2>2 DEF SameRequestBut, Updates, Stored
  <2> QED BY <2>1, <2>2, <2>3, UpdatesOne DEF RequestStep, Executes
<1>2. CASE ExecLogStart(id)
  <2>1. /\ Goes(id, "started", "executing")
        /\ \A j \in Ids \ {id} : SameApproval(j) /\ exec'[j] = exec[j]
    BY <1>0, <1>2, AdvanceGoes DEF ExecLogStart, Stage
  <2>2. requests' = requests /\ "execution_started" \in audit'[id]
    BY <1>0, <1>2 DEF ExecLogStart, Log, storeVars, TypeOK
  <2> QED BY <2>1, <2>2 DEF OneRequestStep, RequestStep, Untouched, Executes
<1>3. ASSUME NEW res \in Results, ExecFinish(id, res)
      PROVE  OneRequestStep
  <2>1. PICK to \in {"finished", "finishedEmpty"} : Advance(id, "executing", to)
    BY <1>3 DEF ExecFinish
  <2>2. /\ Goes(id, "executing", to) /\ Stored(id)
        /\ \A j \in Ids \ {id} : SameApproval(j) /\ exec'[j] = exec[j]
    BY <1>0, <2>1, AdvanceGoes DEF Stage
  <2>3. PICK s \in {"complete", "error"} : SetResult(id, res, s)
    BY <1>3 DEF ExecFinish
  <2>4. /\ Updates(id) /\ requests'[id].Status = s /\ requests'[id].Result = res
        /\ requests'[id].OutputGated = (requests[id].OutputGated /\ hasGatedContent(res))
    BY <1>0, <2>2, <2>3, SetResultEffect DEF Status
  <2>5. SameRequestBut(id, s, requests[id].OutputGated /\ hasGatedContent(res), res)
    BY <2>2, <2>4 DEF SameRequestBut, Updates, Stored
  <2> QED BY <2>2, <2>4, <2>5, UpdatesOne DEF RequestStep, Executes
<1>4. CASE ExecLogFinish(id)
  <2>1. PICK from \in {"finished", "finishedEmpty"} : Advance(id, from, NoStage)
    BY <1>4 DEF ExecLogFinish, NoStage
  <2>2. /\ Goes(id, from, NoStage)
        /\ \A j \in Ids \ {id} : SameApproval(j) /\ exec'[j] = exec[j]
    BY <1>0, <2>1, AdvanceGoes DEF Stage, NoStage
  <2>3. requests' = requests
    BY <1>4 DEF ExecLogFinish, storeVars
  <2> QED BY <2>2, <2>3 DEF OneRequestStep, RequestStep, Untouched, Executes
<1> QED BY <1>1, <1>2, <1>3, <1>4 DEF Executor

(* Nothing else touches a request, its approval or its goroutine.          *)
LEMMA RequestSteps ==
  ASSUME IInv, [Next]_vars
  PROVE  OneRequestStep /\ \A id \in Ids : RequestStep(id)
<1>1. CASE UNCHANGED <<requests, consent, launched, exec>>
  BY <1>1 DEF OneRequestStep, RequestStep, Untouched, SameApproval
<1>2. \/ UNCHANGED <<requests, consent, launched, exec>>
      \/ \E id \in Ids, content \in Contents : Submit(id, content)
      \/ \E id \in Ids : WithdrawRequest(id) \/ Executor(id)
      \/ \E c \in Callers : \/ DenyRequest(c) \/ ReleaseRequest(c)
                            \/ ApproveRequest(c) \/ SpawnApproved(c)
      \/ AutoApprove \/ SpawnAutoApproved
  BY DEF Next, vars, storeVars, Agent, AgentCall, Operator, Handler, WatchRequests,
         ReadRequest, SubmitNotify, AddNotify, SubmitLog, WithdrawLog,
         BeginDecision, WhitelistAdd, WhitelistRemove, CooldownChanges, WatchUpdates,
         CheckCooldown, LogApproved, LogDenied, LogReleased,
         WatchReceive, WatchGet, WatchMatch, LogAutoApproved
<1>3. OneRequestStep
  BY <1>1, <1>2, StoreRequestStep, ApproveRequestStep, SpawnRequestStep, ExecutorRequestStep
<1> QED BY <1>3 DEF OneRequestStep, RequestStep

(* The log only grows.                                                     *)
LEMMA LogGrows ==
  ASSUME TypeOK, [Next]_vars
  PROVE  \A id \in Ids : audit[id] \subseteq audit'[id]
<1>1. ASSUME NEW x \in Ids, NEW new, audit' = [audit EXCEPT ![x] = @ \cup new]
      PROVE  \A id \in Ids : audit[id] \subseteq audit'[id]
  BY <1>1 DEF TypeOK
<1>2. ASSUME NEW x \in Ids, NEW event, Log(x, event)
      PROVE  \A id \in Ids : audit[id] \subseteq audit'[id]
  BY <1>1, <1>2 DEF Log
<1>3. CASE \E id \in Ids : AgentCall(id) \/ ExecLogStart(id) \/ ExecLogFinish(id)
  BY <1>1, <1>2, <1>3 DEF AgentCall, SubmitNotify, SubmitLog, WithdrawLog, ExecLogStart,
                          ExecLogFinish
<1>4. CASE \E c \in Callers : LogApproved(c) \/ LogDenied(c) \/ LogReleased(c)
  BY <1>2, <1>4 DEF LogApproved, LogDenied, LogReleased, TypeOK
<1>5. CASE LogAutoApproved
  BY <1>2, <1>5 DEF LogAutoApproved, TypeOK
<1>6. CASE audit' = audit
  BY <1>6
<1>7. \/ audit' = audit
      \/ \E id \in Ids : AgentCall(id) \/ ExecLogStart(id) \/ ExecLogFinish(id)
      \/ \E c \in Callers : LogApproved(c) \/ LogDenied(c) \/ LogReleased(c)
      \/ LogAutoApproved
  BY DEF Next, vars, Agent, Operator, Handler, Executor, WatchRequests,
         Submit, WithdrawRequest, ReadRequest,
         BeginDecision, WhitelistAdd, WhitelistRemove, CooldownChanges, WatchUpdates,
         CheckCooldown, ApproveRequest, SpawnApproved, DenyRequest, ReleaseRequest,
         WatchReceive, WatchGet, WatchMatch, AutoApprove, SpawnAutoApproved,
         ExecStart, ExecFinish
<1> QED BY <1>3, <1>4, <1>5, <1>6, <1>7

(* A read by an agent discloses what is not gated: the copy it gets of a   *)
(* gated request has a placeholder for its output.                         *)
LEMMA ReadDiscloses ==
  ASSUME IInv, NEW id \in Ids, NEW viaWeb \in BOOLEAN, ReadRequest(id, viaWeb),
         NEW j \in disclosed' \ disclosed
  PROVE  /\ j \in gated /\ Stored(j)
         /\ requests[j].Result # NoResult /\ hasGatedContent(requests[j].Result)
         /\ ApproverRequired => ~requests[j].OutputGated
<1> DEFINE shown == ServedTo(id, viaWeb).Result
<1>1. /\ j = id /\ id \in gated /\ Stored(id) /\ requests[id].Result # NoResult
      /\ shown = requests[id].Result /\ hasGatedContent(shown)
  BY DEF ReadRequest
<1>2. requests[id] \in Request /\ requests[id].Result \in Results
  BY <1>1 DEF IInv, TypeOK, StoreTypeOK, Stored, Request
<1>3. ASSUME ApproverRequired, requests[id].OutputGated
      PROVE  FALSE
  <2>1. shown = RedactGatedOutput(requests[id]).Result
    BY <1>3 DEF ServedTo
  <2> DEFINE visible == visibleWhenGated(requests[id].Result)
             redacted == [visible EXCEPT
                            !.Stdout = "gated",
                            !.Stderr = IF requests[id].Result.Stderr # "" THEN "gated" ELSE ""]
  <2>2. redacted.Stdout = "gated"
    BY DEF visibleWhenGated
  <2>3. RedactGatedOutput(requests[id]) = [requests[id] EXCEPT !.Result = redacted]
    BY <1>1, <1>3 DEF RedactGatedOutput
  <2> HIDE DEF redacted, shown
  <2>4. shown = redacted
    BY <1>2, <2>1, <2>3 DEF Request
  <2> QED BY <1>1, <1>2, <2>2, <2>4
<1> QED BY <1>1, <1>3

(* The history grows as HistoryStep says.                                  *)
LEMMA HistorySteps ==
  ASSUME IInv, [Next]_vars
  PROVE  HistoryStep
<1>0. TypeOK /\ StoreTypeOK
  BY DEF IInv, TypeOK
<1>1. \A id \in Ids : audit[id] \subseteq audit'[id]
  BY <1>0, LogGrows
<1>2. /\ grants \subseteq grants' /\ released \subseteq released'
      /\ \A key \in rules' \ rules : \E g \in grants' : g.key = key /\ authorizeDecision(g.by)
  <2>1. ASSUME NEW c \in Callers, NEW key \in Keys, NEW id \in Ids \cup {NoRequest},
               WhitelistAdd(c, key, id)
        PROVE  /\ \A k \in rules' \ rules : \E g \in grants' : g.key = k /\ authorizeDecision(g.by)
               /\ UNCHANGED released /\ grants \subseteq grants'
    BY <2>1 DEF WhitelistAdd
  <2>2. ASSUME NEW c \in Callers, ReleaseRequest(c)
        PROVE  UNCHANGED <<grants, rules>> /\ released \subseteq released'
    BY <2>2 DEF ReleaseRequest
  <2>3. ASSUME NEW c \in Callers, NEW key \in Keys, WhitelistRemove(c, key)
        PROVE  UNCHANGED <<grants, released>> /\ rules' \subseteq rules
    BY <2>3 DEF WhitelistRemove
  <2>4. \/ UNCHANGED <<grants, released, rules>>
        \/ \E c \in Callers :
             \/ \E key \in Keys, id \in Ids \cup {NoRequest} : WhitelistAdd(c, key, id)
             \/ \E key \in Keys : WhitelistRemove(c, key)
             \/ ReleaseRequest(c)
    BY DEF Next, vars, Agent, AgentCall, Operator, Handler, Executor, WatchRequests,
           Submit, WithdrawRequest, ReadRequest, SubmitNotify, SubmitLog, WithdrawLog,
           BeginDecision, CooldownChanges, WatchUpdates, CheckCooldown, ApproveRequest,
           LogApproved, SpawnApproved, DenyRequest, LogDenied, LogReleased,
           WatchReceive, WatchGet, WatchMatch, AutoApprove, LogAutoApproved,
           SpawnAutoApproved, ExecStart, ExecLogStart, ExecFinish, ExecLogFinish
  <2> QED BY <2>1, <2>2, <2>3, <2>4
<1>3. /\ gated \subseteq gated'
      /\ \A id \in gated' \ gated : Stored(id)' /\ requests'[id].OutputGated
  <2>1. ASSUME NEW c \in Callers, ApproveRequest(c)
        PROVE  /\ gated \subseteq gated'
               /\ \A id \in gated' \ gated : Stored(id)' /\ requests'[id].OutputGated
    <3> PICK id \in Ids : id = op[c].id
      BY <1>0 DEF TypeOK
    <3>1. Stored(id)
      BY <2>1 DEF IInv, NamesAreStored, ApproveRequest
    <3>2. CASE CanApprove(id) /\ op[c].action = "approve-gated"
      <4>1. Updates(id) /\ requests'[id].OutputGated = (requests[id].OutputGated \/ TRUE)
        BY <1>0, <2>1, <3>1, <3>2, ApproveEffect DEF ApproveRequest
      <4>2. gated' = gated \cup {id}
        BY <2>1, <3>2 DEF ApproveRequest
      <4> QED BY <4>1, <4>2 DEF Updates, Stored
    <3>3. CASE ~(CanApprove(id) /\ op[c].action = "approve-gated")
      BY <2>1, <3>3 DEF ApproveRequest
    <3> QED BY <3>2, <3>3
  <2>2. gated' = gated \/ \E c \in Callers : ApproveRequest(c)
    BY DEF Next, vars, Agent, AgentCall, Operator, Handler, Executor, WatchRequests,
           Submit, WithdrawRequest, ReadRequest, SubmitNotify, SubmitLog, WithdrawLog,
           BeginDecision, WhitelistAdd, WhitelistRemove, CooldownChanges, WatchUpdates,
           CheckCooldown, LogApproved, SpawnApproved, DenyRequest, LogDenied,
           ReleaseRequest, LogReleased,
           WatchReceive, WatchGet, WatchMatch, AutoApprove, LogAutoApproved,
           SpawnAutoApproved, ExecStart, ExecLogStart, ExecFinish, ExecLogFinish
  <2> QED BY <2>1, <2>2
<1>4. \A id \in disclosed' \ disclosed :
        /\ id \in gated /\ Stored(id)
        /\ requests[id].Result # NoResult /\ hasGatedContent(requests[id].Result)
        /\ ApproverRequired => ~requests[id].OutputGated
  <2>1. disclosed' = disclosed \/ \E id \in Ids, viaWeb \in BOOLEAN : ReadRequest(id, viaWeb)
    BY DEF Next, vars, Agent, AgentCall, Operator, Handler, Executor, WatchRequests,
           Submit, WithdrawRequest, SubmitNotify, SubmitLog, WithdrawLog,
           BeginDecision, WhitelistAdd, WhitelistRemove, CooldownChanges, WatchUpdates,
           CheckCooldown, ApproveRequest, LogApproved, SpawnApproved, DenyRequest, LogDenied,
           ReleaseRequest, LogReleased,
           WatchReceive, WatchGet, WatchMatch, AutoApprove, LogAutoApproved,
           SpawnAutoApproved, ExecStart, ExecLogStart, ExecFinish, ExecLogFinish
  <2> QED BY <2>1, ReadDiscloses
<1> QED BY <1>1, <1>2, <1>3, <1>4 DEF HistoryStep

(* Every step of the relay is a RelayStep.                                 *)
LEMMA StepsAreRelaySteps == IInv /\ [Next]_vars => RelayStep
BY CallerSteps, WatcherSteps, RequestSteps, HistorySteps DEF RelayStep

-----------------------------------------------------------------------------
(***************************************************************************)
(* SInv is inductive.                                                      *)
(***************************************************************************)

(* A stored request stays stored, with its content.                        *)
LEMMA ContentIsKept ==
  ASSUME NEW id \in Ids, RequestStep(id), Stored(id)
  PROVE  Stored(id)' /\ requests'[id].Content = requests[id].Content
BY DEF RequestStep, Untouched, Added, Withdrawn, Approved, Denied, OutputReleased, Launched, Executes,
       SameRequestBut, Stored

(* Only an approval changes a request's consent, and only a launch its     *)
(* count.                                                                  *)
LEMMA ApprovalIsKept ==
  ASSUME NEW id \in Ids, RequestStep(id)
  PROVE  /\ consent'[id] = consent[id] \/ Approved(id)
         /\ launched'[id] = launched[id] \/ Launched(id)
BY DEF RequestStep, Untouched, Added, Withdrawn, Approved, Denied, OutputReleased, Launched, Executes,
       Goes, SameApproval

(* Where the goroutine of a request is after a step.                       *)
LEMMA StageAfter ==
  ASSUME NEW id \in Ids, RequestStep(id), NEW s \in Stage, exec'[id][s] > 0
  PROVE  \/ exec'[id] = exec[id]
         \/ Launched(id) /\ s = "spawned"
         \/ /\ Goes(id, "spawned", "started") /\ s = "started"
            /\ requests'[id].Status = "running"
         \/ /\ Goes(id, "started", "executing") /\ s = "executing"
            /\ requests' = requests /\ "execution_started" \in audit'[id]
         \/ s \in {"finished", "finishedEmpty"}
<1>1. CASE exec'[id] = exec[id]
  BY <1>1
<1>2. CASE Launched(id)
  BY <1>2 DEF Launched, OnlyAt, Stage
<1>3. CASE Executes(id)
  BY <1>3 DEF Executes, Goes, OnlyAt, Stage, SameRequestBut, NoStage
<1> QED BY <1>1, <1>2, <1>3
        DEF RequestStep, Untouched, Added, Withdrawn, Approved, Denied, OutputReleased

(* Who decides.                                                            *)
LEMMA AuthorityIsKept ==
  ASSUME SInv, RelayStep, IInv'
  PROVE  DecidersAreAuthorized' /\ AuthorizedConsent'
<1>1. ASSUME NEW key, Sanctioned(key)
      PROVE  Sanctioned(key)'
  BY <1>1 DEF Sanctioned, RelayStep, HistoryStep, authorizeDecision
<1>2. \A c \in Callers : op'[c].pc # "idle" => authorizeDecision(c)'
  BY DEF SInv, DecidersAreAuthorized, RelayStep, CallerStep, CallerMovesOn, authorizeDecision
<1>3. watch'.pc # "receive" => WhitelistEnabled
  BY DEF SInv, DecidersAreAuthorized, RelayStep, WatcherStep, WatcherMovesOn
<1>4. \A key \in rules' : Sanctioned(key)'
  <2> SUFFICES ASSUME NEW key \in rules' PROVE Sanctioned(key)'
    OBVIOUS
  <2>1. CASE key \in rules
    BY <1>1, <2>1 DEF SInv, DecidersAreAuthorized
  <2>2. CASE key \notin rules
    BY <2>2 DEF RelayStep, HistoryStep, Sanctioned, authorizeDecision
  <2> QED BY <2>1, <2>2
<1>5. ASSUME watch'.pc = "approve"
      PROVE  Sanctioned(whitelistKey(requests[watch.id].Content)) /\ watch'.id = watch.id
             /\ requests'[watch.id].Content = requests[watch.id].Content
  <2>1. CASE watch' = watch
    <3>1. watch.id \in Ids /\ Stored(watch.id)
      BY <1>5, <2>1 DEF SInv, IInv, TypeOK, NamesAreStored
    <3>2. requests'[watch.id].Content = requests[watch.id].Content
      BY <3>1, ContentIsKept DEF RelayStep
    <3> QED BY <1>5, <2>1, <3>2 DEF SInv, DecidersAreAuthorized
  <2>2. CASE /\ WatcherMovesOn("match", "approve") /\ requests' = requests
             /\ whitelistKey(requests[watch.id].Content) \in rules
    BY <2>2 DEF SInv, DecidersAreAuthorized, WatcherMovesOn
  <2> QED BY <1>5, <2>1, <2>2 DEF RelayStep, WatcherStep, WatcherMovesOn
<1>6. DecidersAreAuthorized'
  <2>1. watch'.pc = "approve" => Sanctioned(whitelistKey(requests[watch.id].Content))'
    <3> SUFFICES ASSUME watch'.pc = "approve"
                 PROVE  Sanctioned(whitelistKey(requests[watch.id].Content))'
      OBVIOUS
    <3> DEFINE key == whitelistKey(requests[watch.id].Content)
    <3>1. key' = key
      BY <1>5 DEF whitelistKey
    <3>2. Sanctioned(key)
      BY <1>5
    <3> QED BY <3>1, <3>2 DEF Sanctioned, RelayStep, HistoryStep, authorizeDecision
  <2> QED BY <1>2, <1>3, <1>4, <2>1 DEF DecidersAreAuthorized
<1>7. ASSUME NEW id \in Ids
      PROVE  /\ launched'[id] > 0 => consent'[id] # Nobody
             /\ consent'[id] \in Callers => authorizeDecision(consent'[id])
             /\ consent'[id] = Watcher => Sanctioned(whitelistKey(requests[id].Content))'
  <2>1. launched'[id] > 0 => consent'[id] # Nobody
    BY DEF IInv, DecidedOnce
  <2>2. CASE consent'[id] = consent[id]
    <3>1. consent[id] \in Callers => authorizeDecision(consent[id])
      BY DEF SInv, AuthorizedConsent
    <3>2. ASSUME consent[id] = Watcher
          PROVE  Sanctioned(whitelistKey(requests[id].Content))'
      <4> DEFINE key == whitelistKey(requests[id].Content)
      <4>1. Stored(id)
        BY <3>2 DEF SInv, IInv, NamesAreStored
      <4>2. key' = key
        BY <4>1, ContentIsKept DEF RelayStep, whitelistKey
      <4>3. Sanctioned(key)
        BY <3>2 DEF SInv, AuthorizedConsent, Sanctioned
      <4> QED BY <4>2, <4>3 DEF Sanctioned, RelayStep, HistoryStep, authorizeDecision
    <3> QED BY <2>1, <2>2, <3>1, <3>2
  <2>3. CASE Approved(id)
    <3>1. consent'[id] \in Callers => authorizeDecision(consent'[id])
      BY <2>3 DEF Approved, CallerMovesOn, SInv, DecidersAreAuthorized
    <3>2. ASSUME consent'[id] = Watcher
          PROVE  Sanctioned(whitelistKey(requests[id].Content))'
      <4> DEFINE key == whitelistKey(requests[id].Content)
      <4>1. watch.pc = "approve" /\ watch.id = id
        BY <2>3, <3>2 DEF Approved, WatcherMovesOn
      <4>2. key' = key
        BY <2>3 DEF Approved, SameRequestBut, whitelistKey
      <4>3. Sanctioned(key)
        BY <4>1 DEF SInv, DecidersAreAuthorized
      <4> QED BY <4>2, <4>3 DEF Sanctioned, RelayStep, HistoryStep, authorizeDecision
    <3> QED BY <2>1, <3>1, <3>2
  <2> QED BY <2>2, <2>3, ApprovalIsKept DEF RelayStep
<1>8. AuthorizedConsent'
  BY <1>7 DEF AuthorizedConsent, Sanctioned, authorizeDecision
<1> QED BY <1>6, <1>8

(* What is logged.                                                         *)
LEMMA LogStaysAhead ==
  ASSUME SInv, RelayStep, IInv'
  PROVE  LogIsAhead' /\ LogCallPrecedesRun'
<1>0. \A id \in Ids : audit[id] \subseteq audit'[id]
  BY DEF RelayStep, HistoryStep
<1>1. \A c \in Callers : op'[c].pc = "spawn" => "request_approved" \in audit'[op'[c].id]
  <2> SUFFICES ASSUME NEW c \in Callers, op'[c].pc = "spawn"
               PROVE  "request_approved" \in audit'[op'[c].id]
    OBVIOUS
  <2>1. op[c].id \in Ids
    BY DEF SInv, IInv, TypeOK
  <2>2. CASE op'[c] = op[c]
    BY <1>0, <2>1, <2>2 DEF SInv, LogIsAhead
  <2> QED BY <2>2 DEF RelayStep, CallerStep, CallerMovesOn
<1>2. watch'.pc = "spawn" => "request_auto_approved" \in audit'[watch'.id]
  <2>1. watch.id \in Ids
    BY DEF SInv, IInv, TypeOK
  <2> QED BY <1>0, <2>1 DEF SInv, LogIsAhead, RelayStep, WatcherStep, WatcherMovesOn
<1>3. ASSUME NEW id \in Ids, exec'[id]["executing"] > 0
      PROVE  "execution_started" \in audit'[id]
  <2>1. RequestStep(id) /\ "executing" \in Stage
    BY DEF RelayStep, Stage
  <2> QED BY <1>0, <1>3, <2>1, StageAfter DEF SInv, LogIsAhead
<1>4. ASSUME NEW id \in Ids, launched'[id] > 0
      PROVE  audit'[id] \cap {"request_approved", "request_auto_approved"} # {}
  <2>1. CASE launched'[id] = launched[id]
    BY <1>0, <1>4, <2>1 DEF SInv, LogCallPrecedesRun
  <2>2. CASE Launched(id)
    BY <1>0, <2>2 DEF Launched, SInv, LogIsAhead
  <2> QED BY <2>1, <2>2, ApprovalIsKept DEF RelayStep
<1>5. ASSUME NEW id \in Ids, Stored(id)', requests'[id].Result # NoResult
      PROVE  "execution_started" \in audit'[id]
  <2>1. \/ Stored(id) /\ requests[id].Result # NoResult
        \/ exec[id]["executing"] > 0
    <3>1. RequestStep(id)
      BY DEF RelayStep
    <3>2. CASE Executes(id)
      BY <1>5, <3>2 DEF Executes, Goes, OnlyAt, Stage, SameRequestBut, Stored
    <3> QED BY <1>5, <3>1, <3>2 DEF RequestStep, Untouched, Added, Withdrawn, Approved, Denied,
            OutputReleased, Launched, SameRequestBut, Stored
  <2> QED BY <1>0, <2>1 DEF SInv, LogIsAhead, LogCallPrecedesRun
<1> QED BY <1>1, <1>2, <1>3, <1>4, <1>5 DEF LogIsAhead, LogCallPrecedesRun

(* An approved request that has no goroutine yet, or whose goroutine has   *)
(* just been launched, can only be denied.                                 *)
LEMMA ApprovedStaysOnTrack ==
  ASSUME NEW id \in Ids, RequestStep(id), Stored(id),
         requests[id].Status \in {"approved", "denied"},
         \A s \in Stage : exec[id][s] = 0 \/ exec'[id] = exec[id]
  PROVE  requests'[id].Status \in {"approved", "denied"}
<1>1. CASE Executes(id)
  BY <1>1 DEF Executes, Goes, OnlyAt, Stage, NoStage
<1> QED BY <1>1 DEF RequestStep, Untouched, Added, Withdrawn, Approved, Denied, OutputReleased,
        Launched, SameRequestBut, Pending

(* Where the status is.                                                    *)
LEMMA StatusStaysOnTrack ==
  ASSUME SInv, RelayStep, IInv'
  PROVE  StatusIsOnTrack'
<1> USE DEF SInv, IInv
<1>1. ASSUME NEW c \in Callers, op'[c].pc \in {"approved", "spawn"}
      PROVE  requests'[op'[c].id].Status \in {"approved", "denied"}
  <2>1. CASE op[c].pc \in {"approved", "spawn"} /\ op'[c].id = op[c].id
    <3> PICK id \in Ids : id = op[c].id
      BY DEF TypeOK
    <3>1. Stored(id) /\ launched[id] = 0 /\ requests[id].Status \in {"approved", "denied"}
      BY <2>1 DEF NamesAreStored, OneLauncher, StatusIsOnTrack
    <3>2. \A s \in Stage : exec[id][s] = 0
      BY <3>1 DEF OneGoroutine
    <3> QED BY <2>1, <3>1, <3>2, ApprovedStaysOnTrack DEF RelayStep
  <2> QED BY <1>1, <2>1 DEF RelayStep, CallerStep, CallerMovesOn
<1>2. ASSUME watch'.pc \in {"approved", "spawn"}
      PROVE  requests'[watch'.id].Status \in {"approved", "denied"}
  <2>1. CASE watch.pc \in {"approved", "spawn"} /\ watch'.id = watch.id
    <3> PICK id \in Ids : id = watch.id
      BY DEF TypeOK
    <3>1. Stored(id) /\ launched[id] = 0 /\ requests[id].Status \in {"approved", "denied"}
      BY <2>1 DEF NamesAreStored, OneLauncher, StatusIsOnTrack
    <3>2. \A s \in Stage : exec[id][s] = 0
      BY <3>1 DEF OneGoroutine
    <3> QED BY <2>1, <3>1, <3>2, ApprovedStaysOnTrack DEF RelayStep
  <2> QED BY <1>2, <2>1 DEF RelayStep, WatcherStep, WatcherMovesOn
<1>3. ASSUME NEW id \in Ids, exec'[id]["spawned"] > 0
      PROVE  requests'[id].Status \in {"approved", "denied"}
  <2>1. RequestStep(id) /\ "spawned" \in Stage
    BY DEF RelayStep, Stage
  <2>2. CASE exec'[id] = exec[id]
    <3>1. Stored(id) /\ requests[id].Status \in {"approved", "denied"}
      BY <1>3, <2>1, <2>2, RunningIsStored DEF StatusIsOnTrack
    <3> QED BY <2>1, <2>2, <3>1, ApprovedStaysOnTrack
  <2>3. CASE Launched(id)
    BY <2>3 DEF Launched, StatusIsOnTrack
  <2> QED BY <1>3, <2>1, <2>2, <2>3, StageAfter
<1>4. ASSUME NEW id \in Ids, NEW s \in {"started", "executing"}, exec'[id][s] > 0
      PROVE  requests'[id].Status \in {"running", "denied"}
  <2>1. RequestStep(id) /\ s \in Stage
    BY DEF RelayStep, Stage
  <2>2. CASE exec'[id] = exec[id]
    <3>1. Stored(id) /\ requests[id].Status \in {"running", "denied"} /\ exec[id][s] = 1
      BY <1>4, <2>1, <2>2, RunningIsStored DEF StatusIsOnTrack
    <3>2. CASE Executes(id)
      BY <2>1, <2>2, <3>1, <3>2 DEF Executes, Goes, OnlyAt, Stage, NoStage
    <3> QED BY <2>1, <3>1, <3>2 DEF RequestStep, Untouched, Added, Withdrawn, Approved, Denied,
            OutputReleased, Launched, SameRequestBut, Pending
  <2>3. CASE Goes(id, "started", "executing") /\ requests' = requests
    BY <2>3 DEF Goes, OnlyAt, Stage, StatusIsOnTrack
  <2> QED BY <1>4, <2>1, <2>2, <2>3, StageAfter
<1> QED BY <1>1, <1>2, <1>3, <1>4 DEF StatusIsOnTrack

(* What a step does to what a request shows.                               *)
LEMMA OutputAfter ==
  ASSUME NEW id \in Ids, RequestStep(id), Stored(id), IInv
  PROVE  /\ Stored(id)'
         /\ \/ /\ requests'[id].Result = requests[id].Result
               /\ \/ requests'[id].OutputGated = requests[id].OutputGated
                  \/ requests[id].Result = NoResult /\ requests'[id].OutputGated
                  \/ id \in released' /\ ~requests'[id].OutputGated
            \/ \E res \in Results :
                 /\ requests[id].Result = NoResult /\ requests'[id].Result = res
                 /\ requests'[id].OutputGated
                      = (requests[id].OutputGated /\ hasGatedContent(res))
<1>0. requests[id].OutputGated \in BOOLEAN
  BY DEF IInv, TypeOK, StoreTypeOK, Stored, Request
<1>1. CASE Approved(id)
  <2>1. requests[id].Result = NoResult
    BY <1>1 DEF Approved, IInv, DecidedOnce, OneGoroutine
  <2> QED BY <1>0, <1>1, <2>1 DEF Approved, SameRequestBut
<1>2. CASE Executes(id)
  <2>1. exec[id]["executing"] > 0 => requests[id].Result = NoResult
    BY DEF IInv, OneGoroutine
  <2> QED BY <1>2, <2>1 DEF Executes, Goes, OnlyAt, Stage, SameRequestBut, Stored
<1> QED BY <1>1, <1>2 DEF RequestStep, Untouched, Added, Withdrawn, Denied, OutputReleased, Launched,
        SameRequestBut, Stored

(* What is withheld.                                                       *)
LEMMA GateStaysKept ==
  ASSUME SInv, RelayStep, IInv'
  PROVE  GateIsKept' /\ NoEmptyGate' /\ GatedContentWithheld'
<1>1. released \subseteq released'
  BY DEF RelayStep, HistoryStep
<1>2. ASSUME NEW id \in gated'
      PROVE  /\ Stored(id)'
             /\ \/ requests'[id].OutputGated \/ id \in released'
                \/ requests'[id].Result # NoResult /\ ~hasGatedContent(requests'[id].Result)
  <2>0. id \in Ids
    BY DEF IInv, TypeOK
  <2>1. CASE id \notin gated
    BY <2>1 DEF RelayStep, HistoryStep
  <2>2. CASE id \in gated
    <3>1. /\ Stored(id)
          /\ \/ requests[id].OutputGated \/ id \in released
             \/ requests[id].Result # NoResult /\ ~hasGatedContent(requests[id].Result)
      BY <2>2 DEF SInv, GateIsKept
    <3>2. RequestStep(id)
      BY <2>0 DEF RelayStep
    <3> QED BY <1>1, <2>0, <3>1, <3>2, OutputAfter DEF SInv
  <2> QED BY <2>1, <2>2
<1>3. GateIsKept'
  BY <1>2 DEF GateIsKept, hasGatedContent, visibleWhenGated
<1>4. ASSUME NEW id \in Ids, Stored(id)', requests'[id].Result # NoResult,
             requests'[id].OutputGated
      PROVE  hasGatedContent(requests'[id].Result)
  <2>1. RequestStep(id)
    BY DEF RelayStep
  <2>2. CASE Stored(id)
    <3>1. requests[id].Result # NoResult /\ requests[id].OutputGated
            => hasGatedContent(requests[id].Result)
      BY <2>2 DEF SInv, NoEmptyGate
    <3> QED BY <1>4, <2>1, <2>2, <3>1, OutputAfter DEF SInv
  <2>3. CASE ~Stored(id)
    BY <1>4, <2>1, <2>3 DEF RequestStep, Untouched, Added, Withdrawn, Approved, Denied, OutputReleased,
       Launched, Executes, SameRequestBut, Stored
  <2> QED BY <2>2, <2>3
<1>5. NoEmptyGate'
  BY <1>4 DEF NoEmptyGate, hasGatedContent, visibleWhenGated
<1>6. GatedContentWithheld'
  <2>1. ASSUME ApproverRequired, NEW id \in disclosed' \ disclosed
        PROVE  id \in released
    BY <2>1 DEF RelayStep, HistoryStep, SInv, GateIsKept
  <2> QED BY <1>1, <2>1 DEF GatedContentWithheld, SInv
<1> QED BY <1>3, <1>5, <1>6

(* What is carried out.                                                    *)
LEMMA ApprovalStaysHeld ==
  ASSUME SInv, RelayStep, IInv'
  PROVE  NoApprovalIsLost'
<1> SUFFICES ASSUME NEW id \in Ids, consent'[id] # Nobody, launched'[id] = 0
             PROVE  \/ \E c \in Callers : op'[c].id = id /\ op'[c].pc \in {"approved", "spawn"}
                    \/ watch'.id = id /\ watch'.pc \in {"approved", "spawn"}
  BY DEF NoApprovalIsLost
<1>1. RequestStep(id) /\ WatcherStep /\ \A c \in Callers : CallerStep(c)
  BY DEF RelayStep
<1>2. CASE Approved(id)
  BY <1>2 DEF Approved, CallerMovesOn, WatcherMovesOn
<1>3. CASE consent'[id] = consent[id]
  <2>1. launched[id] = 0
    BY <1>1, ApprovalIsKept DEF Launched
  <2>2. ASSUME NEW c \in Callers, op[c].id = id, op[c].pc \in {"approved", "spawn"}
        PROVE  op'[c].id = id /\ op'[c].pc \in {"approved", "spawn"}
    BY <1>1, <2>2 DEF CallerStep, CallerMovesOn
  <2>3. ASSUME watch.id = id, watch.pc \in {"approved", "spawn"}
        PROVE  watch'.id = id /\ watch'.pc \in {"approved", "spawn"}
    BY <1>1, <2>3 DEF WatcherStep, WatcherMovesOn
  <2> QED BY <1>3, <2>1, <2>2, <2>3 DEF SInv, NoApprovalIsLost
<1> QED BY <1>1, <1>2, <1>3, ApprovalIsKept

(* Nothing has been submitted, decided, logged or gated.                   *)
LEMMA InitSInv == Init => SInv
<1> SUFFICES ASSUME Init PROVE SInv
  OBVIOUS
<1>1. IInv
  BY InitIInv
<1>2. DecidersAreAuthorized /\ AuthorizedConsent
  BY IdleTypes DEF Init, DecidersAreAuthorized, AuthorizedConsent, Sanctioned
<1>3. LogIsAhead /\ LogCallPrecedesRun
  BY IdleTypes DEF Init, StoreInit, LogIsAhead, LogCallPrecedesRun, Stage, Stored
<1>4. StatusIsOnTrack /\ NoApprovalIsLost
  BY IdleTypes DEF Init, StatusIsOnTrack, NoApprovalIsLost, Stage
<1>5. GateIsKept /\ NoEmptyGate /\ GatedContentWithheld
  BY DEF Init, StoreInit, GateIsKept, NoEmptyGate, GatedContentWithheld, Stored
<1> QED BY <1>1, <1>2, <1>3, <1>4, <1>5 DEF SInv

(* Every step of the relay keeps it.                                       *)
LEMMA NextSInv == SInv /\ [Next]_vars => SInv'
<1> SUFFICES ASSUME SInv, [Next]_vars PROVE SInv'
  OBVIOUS
<1>1. IInv' /\ RelayStep
  BY NextIInv, StepsAreRelaySteps DEF SInv
<1> QED BY <1>1, AuthorityIsKept, LogStaysAhead, StatusStaysOnTrack, GateStaysKept,
           ApprovalStaysHeld DEF SInv

-----------------------------------------------------------------------------
(***************************************************************************)
(* The theorems.                                                           *)
(***************************************************************************)

(* The safety invariant holds in every state.                              *)
THEOREM SafetyInvariant == Spec => []SInv
<1> QED BY InitSInv, NextSInv, PTL DEF Spec

(* Nothing runs without an approver's decision or a rule that one of them  *)
(* added or that was loaded, however handlers and watcher interleave.      *)
THEOREM ConsentIsAuthorized == Spec => []AuthorizedConsent
<1>1. SInv => AuthorizedConsent
  BY DEF SInv
<1> QED BY <1>1, SafetyInvariant, PTL

(* No execution is launched before audit.Log has been called with its      *)
(* approval, and none has a result before the call with its start.         *)
THEOREM LogCallsPrecedeRuns == Spec => []LogCallPrecedesRun
<1>1. SInv => LogCallPrecedesRun
  BY DEF SInv
<1> QED BY <1>1, SafetyInvariant, PTL

(* An approval always has a process that has launched it or is about to.   *)
THEOREM ApprovalsAreCarried == Spec => []NoApprovalIsLost
<1>1. SInv => NoApprovalIsLost
  BY DEF SInv
<1> QED BY <1>1, SafetyInvariant, PTL

(* With an approver token, gated content reaches an agent only after a     *)
(* release, for every result and every order of reads and decisions.       *)
THEOREM GatedIsWithheld == Spec => []GatedContentWithheld
<1>1. SInv => GatedContentWithheld
  BY DEF SInv
<1> QED BY <1>1, SafetyInvariant, PTL

(* A finished request that is gated has something to release.              *)
THEOREM GatesAreNotEmpty == Spec => []NoEmptyGate
<1>1. SInv => NoEmptyGate
  BY DEF SInv
<1> QED BY <1>1, SafetyInvariant, PTL

(* No step replaces a stored result.                                       *)
THEOREM ResultsAreFinal == Spec => ResultIsFinal
<1> DEFINE Final == \A id \in Ids : Stored(id) /\ requests[id].Result # NoResult
                                     => requests'[id].Result = requests[id].Result
<1>1. SInv /\ [Next]_vars => [Final]_vars
  BY StepsAreRelaySteps, OutputAfter DEF SInv, RelayStep
<1> QED BY <1>1, SafetyInvariant, PTL DEF Spec, ResultIsFinal

(* The status moves as StatusLife says, a late deny included.              *)
THEOREM StatusIsFollowed == Spec => StatusFollowsLife
<1> DEFINE Follows == \A id \in Ids :
                        Stored(id) /\ requests'[id].Status # requests[id].Status
                          => <<requests[id].Status, requests'[id].Status>> \in StatusMoves
<1>1. SInv /\ [Next]_vars => [Follows]_vars
  <2> SUFFICES ASSUME SInv, RelayStep, NEW id \in Ids, Stored(id),
                      requests'[id].Status # requests[id].Status
               PROVE  <<requests[id].Status, requests'[id].Status>> \in StatusMoves
    BY StepsAreRelaySteps DEF SInv
  <2>1. RequestStep(id) /\ requests[id].Status \in Status
    BY DEF RelayStep, SInv, IInv, TypeOK, StoreTypeOK, Stored, Request
  <2>2. CASE Executes(id)
    <3>1. /\ OnlyAt(id, "spawned") => requests[id].Status \in {"approved", "denied"}
          /\ OnlyAt(id, "executing") => requests[id].Status \in {"running", "denied"}
      BY DEF OnlyAt, Stage, SInv, StatusIsOnTrack
    <3> QED BY <2>2, <3>1 DEF Executes, Goes, SameRequestBut, StatusMoves
  <2> QED BY <2>1, <2>2 DEF RequestStep, Untouched, Added, Withdrawn, Approved, Denied,
          OutputReleased, Launched, SameRequestBut, Pending, StatusMoves
<1> QED BY <1>1, SafetyInvariant, PTL DEF Spec, StatusFollowsLife

-----------------------------------------------------------------------------
(***************************************************************************)
(* The relay implements the approval gate.                                 *)
(***************************************************************************)

(* A relay that has just started is a gate that has.                       *)
LEMMA InitGate == Init => Gate!Init
BY DEF Init, StoreInit, Gate!Init, gateBar, GateOf, Stored

(* What a step does to the gate of one request, and to who opened it.      *)
GateMoves(id) ==
  \/ GateOf(id)' = GateOf(id) /\ consent'[id] = consent[id]
  \/ /\ <<GateOf(id), GateOf(id)'>> \in
           {<<"absent", "pending">>, <<"pending", "closed">>,
            <<"granted", "running">>, <<"running", "done">>}
     /\ consent'[id] = consent[id]
  \/ GateOf(id) = "pending" /\ GateOf(id)' = "granted" /\ consent'[id] \in Deciders

(* Each kind of request step is a step of its gate or leaves it alone.     *)
LEMMA RequestStepMovesGate ==
  ASSUME SInv, RelayStep, SInv', NEW id \in Ids
  PROVE  GateMoves(id)
<1> USE DEF SInv, IInv
<1>1. RequestStep(id)
  BY DEF RelayStep
<1>2. CASE Untouched(id)
  BY <1>2 DEF Untouched, GateMoves, GateOf, Stored, Pending, SameApproval
<1>3. CASE Added(id)
  <2>1. consent[id] = Nobody
    BY <1>3 DEF Added, NamesAreStored
  <2> QED BY <1>3, <2>1 DEF Added, SameApproval, GateMoves, GateOf, Pending
<1>4. CASE Withdrawn(id)
  <2>1. consent[id] = Nobody
    BY <1>4 DEF Withdrawn, SameRequestBut, DecidedOnce
  <2> QED BY <1>4, <2>1 DEF Withdrawn, SameRequestBut, SameApproval, GateMoves, GateOf, Pending
<1>5. CASE Denied(id)
  BY <1>5 DEF Denied, SameRequestBut, SameApproval, GateMoves, GateOf, Pending
<1>6. CASE OutputReleased(id)
  BY <1>6 DEF OutputReleased, SameRequestBut, SameApproval, GateMoves, GateOf, Pending
<1>7. CASE Approved(id)
  <2>1. /\ Stored(id) /\ Pending(id) /\ consent[id] = Nobody
        /\ launched[id] = 0 /\ requests[id].Result = NoResult
    BY <1>7 DEF Approved, SameRequestBut, DecidedOnce, OneGoroutine
  <2>2. exec[id]["executing"] = 0
    BY <2>1 DEF OneGoroutine, Stage
  <2>3. consent'[id] \in Deciders
    BY <1>7 DEF Approved, Deciders, DecidersAreAuthorized, CallerMovesOn, WatcherMovesOn
  <2>4. consent'[id] # Nobody
    BY <1>7 DEF Approved
  <2>5. GateOf(id) = "pending"
    BY <2>1 DEF GateOf
  <2>6. GateOf(id)' = "granted"
    BY <1>7, <2>1, <2>2, <2>4 DEF Approved, SameRequestBut, GateOf
  <2> QED BY <2>3, <2>5, <2>6 DEF GateMoves
<1>8. CASE Launched(id)
  BY <1>8 DEF Launched, OnlyAt, NoStage, Stage, GateMoves, GateOf, Stored, Pending
<1>9. CASE Executes(id)
  <2>1. Stored(id) /\ consent[id] # Nobody
    <3>1. \E s \in Stage : exec[id][s] > 0
      BY <1>9 DEF Executes, Goes, OnlyAt, Stage
    <3> QED BY <3>1, RunningIsStored
  <2>2. \A s \in {"spawned", "started", "executing"} :
          exec[id][s] > 0 => requests[id].Result = NoResult
    BY <2>1 DEF OneGoroutine
  <2>3. CASE Goes(id, "spawned", "started")
             /\ SameRequestBut(id, "running", requests[id].OutputGated, requests[id].Result)
    BY <2>1, <2>3 DEF Goes, OnlyAt, Stage, SameApproval, SameRequestBut, GateMoves, GateOf
  <2>4. CASE Goes(id, "started", "executing") /\ requests' = requests
    BY <2>1, <2>2, <2>4 DEF Goes, OnlyAt, Stage, SameApproval, GateMoves, GateOf, Stored
  <2>5. ASSUME NEW to \in {"finished", "finishedEmpty"}, NEW res \in Results,
               NEW s \in {"complete", "error"}, Goes(id, "executing", to),
               SameRequestBut(id, s, requests[id].OutputGated /\ hasGatedContent(res), res)
        PROVE  GateMoves(id)
    BY <2>1, <2>5 DEF Goes, OnlyAt, Stage, SameApproval, SameRequestBut, GateMoves, GateOf
  <2>6. ASSUME NEW from \in {"finished", "finishedEmpty"}, Goes(id, from, NoStage),
               requests' = requests
        PROVE  GateMoves(id)
    BY <2>1, <2>6 DEF Goes, OnlyAt, Stage, NoStage, SameApproval, GateMoves, GateOf, Stored
  <2> QED BY <1>9, <2>3, <2>4, <2>5, <2>6 DEF Executes
<1> QED BY <1>1, <1>2, <1>3, <1>4, <1>5, <1>6, <1>7, <1>8, <1>9 DEF RequestStep

(* Every step of the relay is a step of the gate or leaves it alone.       *)
LEMMA NextGate == SInv /\ RelayStep /\ SInv' => [Gate!Next]_<<gateBar, consent>>
<1> SUFFICES ASSUME SInv, RelayStep, SInv'
             PROVE  Gate!Next \/ UNCHANGED <<gateBar, consent>>
  OBVIOUS
<1>1. PICK id \in Ids : \A j \in Ids \ {id} : Untouched(j)
  BY DEF RelayStep, OneRequestStep
<1>2. /\ gateBar = [j \in Ids |-> GateOf(j)]
      /\ gateBar' = [j \in Ids |-> GateOf(j)']
      /\ consent = [j \in Ids |-> consent[j]]
      /\ consent' = [j \in Ids |-> consent'[j]]
  BY DEF gateBar, SInv, IInv, TypeOK
<1>3. \A j \in Ids \ {id} : GateOf(j)' = GateOf(j) /\ consent'[j] = consent[j]
  BY <1>1 DEF Untouched, SameApproval, GateOf, Stored, Pending
<1>4. /\ gateBar[id] = GateOf(id)
      /\ gateBar' = [gateBar EXCEPT ![id] = GateOf(id)']
      /\ consent' = [consent EXCEPT ![id] = consent'[id]]
  BY <1>2, <1>3
<1>5. GateMoves(id)
  BY RequestStepMovesGate
<1>6. CASE GateOf(id)' = GateOf(id) /\ consent'[id] = consent[id]
  BY <1>2, <1>3, <1>6
<1>7. CASE /\ <<GateOf(id), GateOf(id)'>> \in
                {<<"absent", "pending">>, <<"pending", "closed">>,
                 <<"granted", "running">>, <<"running", "done">>}
           /\ consent'[id] = consent[id]
  <2>1. consent' = consent
    BY <1>2, <1>3, <1>7
  <2>2. Gate!Submit(id) \/ Gate!Close(id) \/ Gate!Run(id) \/ Gate!Finish(id)
    BY <1>4, <1>7, <2>1 DEF Gate!Submit, Gate!Close, Gate!Run, Gate!Finish, Gate!Move
  <2> QED BY <2>2 DEF Gate!Next
<1>8. CASE GateOf(id) = "pending" /\ GateOf(id)' = "granted" /\ consent'[id] \in Deciders
  <2>1. Gate!Grant(id)
    BY <1>4, <1>8 DEF Gate!Grant, Gate!Move
  <2> QED BY <2>1 DEF Gate!Next
<1> QED BY <1>5, <1>6, <1>7, <1>8 DEF GateMoves

(* Whatever its status field says, a request runs at most once, after one  *)
(* authorized decider opened its gate while it was pending, and never once *)
(* the gate was closed.                                                    *)
THEOREM RelayImplementsGate == Spec => ImplementsGate
<1>1. SInv /\ SInv' /\ [Next]_vars => [Gate!Next]_<<gateBar, consent>>
  BY NextGate, StepsAreRelaySteps DEF SInv
<1> QED BY <1>1, InitGate, SafetyInvariant, PTL
        DEF Spec, ImplementsGate, Gate!Spec, Gate!gateVars

-----------------------------------------------------------------------------
(***************************************************************************)
(* What the watcher approves is what an operator reviewed.                 *)
(***************************************************************************)

(* A rule that came from a request still names it: the request is in the   *)
(* store with the content it had when the operator clicked, and its key    *)
(* has a command.                                                          *)
GrantsAreReviewed ==
  \A g \in grants :
    IF g.request = NoRequest THEN g.key \in BodyKeys
    ELSE /\ g.request \in Ids /\ Stored(g.request)
         /\ g.key = whitelistKey(requests[g.request].Content)
         /\ HasCommand(g.key)

(* The request was approved by the watcher on its own key: a key from the  *)
(* file or posted by hand, or the key of a request that an operator        *)
(* whitelisted.                                                            *)
ApprovedOnReviewedKey(id) ==
  LET key == whitelistKey(requests[id].Content) IN
  \/ key \in InitialRules \cup BodyKeys
  \/ \E g \in grants : /\ g.request \in Ids /\ Stored(g.request) /\ authorizeDecision(g.by)
                       /\ key = whitelistKey(requests[g.request].Content)
                       /\ HasCommand(key)

(* A new grant names a request that is stored, or a key from the body, and *)
(* the step that adds it leaves the requests alone.                        *)
LEMMA GrantSteps ==
  ASSUME [Next]_vars
  PROVE  \/ grants' = grants
         \/ /\ requests' = requests
            /\ \E c \in Callers, key \in Keys, id \in Ids \cup {NoRequest} :
                 /\ grants' = grants \cup {[by |-> c, key |-> key, request |-> id]}
                 /\ IF id = NoRequest THEN key \in BodyKeys
                    ELSE Stored(id) /\ key = whitelistKey(requests[id].Content)
                 /\ HasCommand(key)
<1>1. ASSUME NEW c \in Callers, NEW key \in Keys, NEW id \in Ids \cup {NoRequest},
             WhitelistAdd(c, key, id)
      PROVE  /\ requests' = requests
             /\ grants' = grants \cup {[by |-> c, key |-> key, request |-> id]}
             /\ IF id = NoRequest THEN key \in BodyKeys
                ELSE Stored(id) /\ key = whitelistKey(requests[id].Content)
             /\ HasCommand(key)
  BY <1>1 DEF WhitelistAdd, storeVars
<1>2. \/ grants' = grants
      \/ \E c \in Callers, key \in Keys, id \in Ids \cup {NoRequest} :
           WhitelistAdd(c, key, id)
  BY DEF Next, vars, Agent, AgentCall, Operator, Handler, Executor, WatchRequests,
         Submit, WithdrawRequest, ReadRequest, SubmitNotify, SubmitLog, WithdrawLog,
         BeginDecision, WhitelistRemove, CooldownChanges, WatchUpdates, CheckCooldown,
         ApproveRequest, LogApproved, SpawnApproved, DenyRequest, LogDenied,
         ReleaseRequest, LogReleased,
         WatchReceive, WatchGet, WatchMatch, AutoApprove, LogAutoApproved,
         SpawnAutoApproved, ExecStart, ExecLogStart, ExecFinish, ExecLogFinish
<1> QED BY <1>1, <1>2

(* Every step keeps the grants reviewed.                                   *)
LEMMA GrantsStayReviewed ==
  ASSUME SInv, [Next]_vars, GrantsAreReviewed
  PROVE  GrantsAreReviewed'
<1>1. ASSUME NEW g \in grants
      PROVE  IF g.request = NoRequest THEN g.key \in BodyKeys
             ELSE /\ g.request \in Ids /\ Stored(g.request)'
                  /\ g.key = whitelistKey(requests'[g.request].Content)
                  /\ HasCommand(g.key)
  <2>1. CASE g.request = NoRequest
    BY <2>1 DEF GrantsAreReviewed
  <2>2. CASE g.request # NoRequest
    <3>1. /\ g.request \in Ids /\ Stored(g.request)
          /\ g.key = whitelistKey(requests[g.request].Content)
          /\ HasCommand(g.key)
      BY <2>2 DEF GrantsAreReviewed
    <3>2. RequestStep(g.request)
      BY <3>1, StepsAreRelaySteps DEF SInv, RelayStep
    <3>3. Stored(g.request)' /\ requests'[g.request].Content = requests[g.request].Content
      BY <3>1, <3>2, ContentIsKept
    <3> QED BY <2>2, <3>1, <3>3
  <2> QED BY <2>1, <2>2
<1>2. CASE grants' = grants
  BY <1>1, <1>2 DEF GrantsAreReviewed
<1>3. ASSUME requests' = requests,
             NEW c \in Callers, NEW key \in Keys, NEW id \in Ids \cup {NoRequest},
             grants' = grants \cup {[by |-> c, key |-> key, request |-> id]},
             IF id = NoRequest THEN key \in BodyKeys
             ELSE Stored(id) /\ key = whitelistKey(requests[id].Content),
             HasCommand(key)
      PROVE  GrantsAreReviewed'
  <2>1. Stored(id)' = Stored(id)
    BY <1>3 DEF Stored
  <2> QED BY <1>1, <1>3, <2>1 DEF GrantsAreReviewed
<1> QED BY <1>2, <1>3, GrantSteps

(* The watcher approves a request only on the key of its own content, and  *)
(* that key was loaded, posted by hand, or taken by an authorized caller   *)
(* from a stored request that still has that key and has a command.        *)
THEOREM WatcherFollowsReview ==
  Spec => [](\A id \in Ids : consent[id] = Watcher => ApprovedOnReviewedKey(id))
<1>1. Init => GrantsAreReviewed
  BY DEF Init, GrantsAreReviewed
<1>2. SInv /\ GrantsAreReviewed /\ [Next]_vars => GrantsAreReviewed'
  BY GrantsStayReviewed
<1>3. SInv /\ GrantsAreReviewed
        => \A id \in Ids : consent[id] = Watcher => ApprovedOnReviewedKey(id)
  <2> SUFFICES ASSUME SInv, GrantsAreReviewed, NEW id \in Ids, consent[id] = Watcher
               PROVE  ApprovedOnReviewedKey(id)
    OBVIOUS
  <2> DEFINE key == whitelistKey(requests[id].Content)
  <2>1. key \in InitialRules \/ \E g \in grants : g.key = key /\ authorizeDecision(g.by)
    BY DEF SInv, AuthorizedConsent
  <2> HIDE DEF key
  <2>2. ASSUME NEW g \in grants, g.key = key, authorizeDecision(g.by)
        PROVE  \/ key \in BodyKeys
               \/ /\ g.request \in Ids /\ Stored(g.request)
                  /\ key = whitelistKey(requests[g.request].Content)
                  /\ HasCommand(key)
    BY <2>2 DEF GrantsAreReviewed
  <2> QED BY <2>1, <2>2 DEF ApprovedOnReviewedKey, key
<1> QED BY <1>1, <1>2, <1>3, SafetyInvariant, PTL DEF Spec

(* Where keys tell the kinds of work apart, that request is the same work: *)
(* the same kind, never a registry operation, and for a script create the  *)
(* same name and the same body.                                            *)
THEOREM AutoApprovalIsReviewed ==
  Spec => [](KeysTellWorkApart => AutoApprovedAsReviewed)
<1>1. ASSUME KeysTellWorkApart, NEW x \in Contents, NEW y \in Contents,
             whitelistKey(x) = whitelistKey(y), HasCommand(whitelistKey(x))
      PROVE  SameWork(x, y)
  <2>1. x.Type = y.Type /\ x.Type # "registry_op"
    BY <1>1 DEF KeysTellWorkApart
  <2>2. ASSUME x.Type \in {"script_create", "script_create_then_run"}
        PROVE  x.ScriptName = y.ScriptName /\ x.Stdin = y.Stdin
    BY <1>1, <2>1, <2>2 DEF whitelistKey
  <2> QED BY <2>1, <2>2 DEF SameWork
<1>2. SInv /\ (\A id \in Ids : consent[id] = Watcher => ApprovedOnReviewedKey(id))
        => (KeysTellWorkApart => AutoApprovedAsReviewed)
  <2> SUFFICES ASSUME SInv, KeysTellWorkApart, NEW id \in Ids, consent[id] = Watcher,
                      ApprovedOnReviewedKey(id)
               PROVE  \/ whitelistKey(requests[id].Content) \in InitialRules \cup BodyKeys
                      \/ \E g \in grants :
                           /\ g.request \in Ids
                           /\ SameWork(requests[g.request].Content, requests[id].Content)
    BY DEF AutoApprovedAsReviewed
  <2>1. \A j \in Ids : Stored(j) => requests[j].Content \in Contents
    BY DEF SInv, IInv, TypeOK, StoreTypeOK, Stored, Request
  <2>2. Stored(id)
    BY DEF SInv, IInv, NamesAreStored
  <2>3. ASSUME NEW g \in grants, g.request \in Ids, Stored(g.request),
               whitelistKey(requests[id].Content) = whitelistKey(requests[g.request].Content),
               HasCommand(whitelistKey(requests[id].Content))
        PROVE  SameWork(requests[g.request].Content, requests[id].Content)
    BY <1>1, <2>1, <2>2, <2>3
  <2> QED BY <2>3 DEF ApprovedOnReviewedKey
<1> QED BY <1>2, WatcherFollowsReview, SafetyInvariant, PTL

-----------------------------------------------------------------------------
(***************************************************************************)
(* A denial that comes before any approval.                                *)
(***************************************************************************)

(* Only a request that was launched has begun.                             *)
BegunWasLaunched ==
  \A id \in Ids : "execution_started" \in audit[id] => launched[id] > 0

(* One line is logged for one request.                                     *)
LogLine(x, event) == audit' = [audit EXCEPT ![x] = @ \cup event]

(* The only line that says a request has begun is its goroutine's.         *)
LEMMA BeginningIsLogged ==
  ASSUME IInv, [Next]_vars, NEW id \in Ids,
         "execution_started" \in audit'[id], "execution_started" \notin audit[id]
  PROVE  launched[id] > 0 /\ launched' = launched
<1>1. ASSUME NEW x \in Ids, NEW new, "execution_started" \notin new, LogLine(x, new)
      PROVE  FALSE
  BY <1>1 DEF LogLine, IInv, TypeOK
<1>2. ASSUME NEW x \in Ids, NEW event, event # "execution_started", Log(x, event)
      PROVE  FALSE
  <2>1. LogLine(x, {event})
    BY <1>2 DEF Log, LogLine
  <2> QED BY <1>1, <1>2, <2>1
<1>3. CASE \E x \in Ids : AgentCall(x)
  BY <1>2, <1>3 DEF AgentCall, SubmitNotify, SubmitLog, WithdrawLog
<1>4. CASE \E x \in Ids : ExecLogFinish(x)
  <2> PICK x \in Ids : ExecLogFinish(x)
    BY <1>4
  <2>1. \/ Log(x, "execution_completed")
        \/ LogLine(x, {"execution_completed", "output_auto_released_empty"})
    BY DEF ExecLogFinish, LogLine
  <2> QED BY <1>1, <1>2, <2>1
<1>5. CASE \E x \in Ids : ExecLogStart(x)
  <2> PICK x \in Ids : ExecLogStart(x)
    BY <1>5
  <2>1. x = id
    BY DEF ExecLogStart, Log, IInv, TypeOK
  <2>2. exec[id]["started"] > 0 /\ launched' = launched
    BY <2>1 DEF ExecLogStart, Advance
  <2>3. launched[id] = 1
    BY <2>2, RunningIsStored DEF Stage
  <2> QED BY <2>2, <2>3
<1>6. CASE \E c \in Callers : LogApproved(c) \/ LogDenied(c) \/ LogReleased(c)
  BY <1>2, <1>6 DEF LogApproved, LogDenied, LogReleased, IInv, TypeOK
<1>7. CASE LogAutoApproved
  BY <1>2, <1>7 DEF LogAutoApproved, IInv, TypeOK
<1>8. audit' # audit
  OBVIOUS
<1>9. \/ audit' = audit
      \/ \E x \in Ids : AgentCall(x) \/ ExecLogStart(x) \/ ExecLogFinish(x)
      \/ \E c \in Callers : LogApproved(c) \/ LogDenied(c) \/ LogReleased(c)
      \/ LogAutoApproved
  BY DEF Next, vars, Agent, Operator, Handler, Executor, WatchRequests,
         Submit, WithdrawRequest, ReadRequest,
         BeginDecision, WhitelistAdd, WhitelistRemove, CooldownChanges, WatchUpdates,
         CheckCooldown, ApproveRequest, SpawnApproved, DenyRequest, ReleaseRequest,
         WatchReceive, WatchGet, WatchMatch, AutoApprove, SpawnAutoApproved,
         ExecStart, ExecFinish
<1> QED BY <1>3, <1>4, <1>5, <1>6, <1>7, <1>8, <1>9

(* A launch is never taken back.                                           *)
LEMMA BegunStaysLaunched ==
  ASSUME IInv, [Next]_vars, BegunWasLaunched
  PROVE  BegunWasLaunched'
<1> SUFFICES ASSUME NEW id \in Ids, "execution_started" \in audit'[id]
             PROVE  launched'[id] > 0
  BY DEF BegunWasLaunched
<1>1. RequestStep(id)
  BY StepsAreRelaySteps DEF RelayStep
<1>2. launched'[id] = launched[id] \/ launched'[id] = 1
  BY <1>1, ApprovalIsKept DEF Launched
<1>3. CASE "execution_started" \in audit[id]
  BY <1>2, <1>3 DEF BegunWasLaunched
<1>4. CASE "execution_started" \notin audit[id]
  BY <1>4, BeginningIsLogged
<1> QED BY <1>3, <1>4

(* The part of "a denied request must never execute" that the code keeps:  *)
(* once a request that nobody had approved is denied, no decision, rule or *)
(* goroutine that was under way approves, launches or begins it.           *)
THEOREM TimelyDenialIsFinal == Spec => DenialInTimeIsFinal
<1> DEFINE Final == \A id \in Ids :
              Stored(id) /\ requests[id].Status = "denied" /\ consent[id] = Nobody
                => /\ requests'[id].Status = "denied" /\ consent'[id] = Nobody
                   /\ launched'[id] = 0 /\ "execution_started" \notin audit'[id]
<1>1. Init => BegunWasLaunched
  BY DEF Init, BegunWasLaunched
<1>2. IInv /\ BegunWasLaunched /\ [Next]_vars => BegunWasLaunched'
  BY BegunStaysLaunched
<1>3. IInv /\ BegunWasLaunched' /\ [Next]_vars => [Final]_vars
  <2> SUFFICES ASSUME IInv, BegunWasLaunched', [Next]_vars, NEW id \in Ids,
                      Stored(id), requests[id].Status = "denied", consent[id] = Nobody
               PROVE  /\ requests'[id].Status = "denied" /\ consent'[id] = Nobody
                      /\ launched'[id] = 0 /\ "execution_started" \notin audit'[id]
    OBVIOUS
  <2>1. RequestStep(id)
    BY StepsAreRelaySteps DEF RelayStep
  <2>2. launched[id] = 0 /\ \A s \in Stage : exec[id][s] = 0
    BY DEF IInv, DecidedOnce, OneGoroutine
  <2>3. ~Executes(id)
    BY <2>2 DEF Executes, Goes, OnlyAt, Stage, NoStage
  <2>4. ~Launched(id)
    BY DEF Launched, IInv, OneLauncher, TypeOK, RelayAssumption
  <2>5. ~Approved(id) /\ ~Withdrawn(id)
    BY DEF Approved, Withdrawn, Pending
  <2>6. requests'[id].Status = "denied" /\ SameApproval(id)
    BY <2>1, <2>3, <2>4, <2>5 DEF RequestStep, Untouched, Added, Denied, OutputReleased,
       SameRequestBut
  <2> QED BY <2>2, <2>6 DEF SameApproval, BegunWasLaunched
<1> QED BY <1>1, <1>2, <1>3, InvariantHolds, PTL DEF Spec, DenialInTimeIsFinal

-----------------------------------------------------------------------------
(***************************************************************************)
(* A whitelisted request on its way through the watcher.                   *)
(***************************************************************************)

(* Only the watcher takes from the channel, and only its head.             *)
LEMMA ChannelSteps ==
  ASSUME IInv, [Next]_vars, NEW id \in Ids, Notified(id)
  PROVE  Notified(id)' \/ (WatchReceive /\ id = Head(notify))
<1>1. notify \in Seq(Ids)
  BY DEF IInv, TypeOK, StoreTypeOK
<1>2. PICK i \in 1 .. Len(notify) : notify[i] = id
  BY <1>1 DEF Notified
<1>3. ASSUME notify' = notify PROVE Notified(id)'
  BY <1>3 DEF Notified
<1>4. ASSUME NEW j \in Ids, AddNotify(j) PROVE Notified(id)'
  <2>1. notify' = notify \/ notify' = Append(notify, j)
    BY <1>4 DEF AddNotify, TrySend
  <2>2. CASE notify' = Append(notify, j)
    <3>1. i \in DOMAIN notify' /\ notify'[i] = id
      BY <1>1, <1>2, <2>2
    <3> QED BY <3>1 DEF Notified
  <2> QED BY <1>3, <2>1, <2>2
<1>5. ASSUME notify # <<>>, notify' = Tail(notify), i # 1 PROVE Notified(id)'
  <2>1. i - 1 \in DOMAIN notify' /\ notify'[i - 1] = id
    BY <1>1, <1>2, <1>5
  <2> QED BY <2>1 DEF Notified
<1>6. i = 1 => id = Head(notify)
  BY <1>1, <1>2
<1>7. WatchReceive => notify # <<>> /\ notify' = Tail(notify)
  BY DEF WatchReceive
<1>8. \/ notify' = notify
      \/ \E j \in Ids : AddNotify(j)
      \/ WatchReceive
  BY DEF Next, vars, storeVars, Agent, AgentCall, Operator, Handler, Executor, WatchRequests,
         Submit, Add, WithdrawRequest, Withdraw, ReadRequest, SubmitNotify, SubmitLog,
         WithdrawLog, BeginDecision, WhitelistAdd, WhitelistRemove, CooldownChanges,
         WatchUpdates, CheckCooldown, ApproveRequest, Approve, LogApproved, SpawnApproved,
         DenyRequest, Deny, LogDenied, ReleaseRequest, ReleaseOutput, LogReleased,
         WatchGet, WatchMatch, AutoApprove, LogAutoApproved, SpawnAutoApproved,
         ExecStart, SetStatus, ExecLogStart, ExecFinish, SetResult, ExecLogFinish
<1> QED BY <1>3, <1>4, <1>5, <1>6, <1>7, <1>8

(* The safety part of WhitelistedIsDecided: watchRequests and autoApprove  *)
(* let go of a whitelisted request only when it is decided or its rule has *)
(* been removed.                                                           *)
THEOREM WatcherPassesNobodyOver == Spec => NotPassedOver
<1> DEFINE Kept == \A id \in Ids :
              WhitelistEnabled /\ WithWatcher(id) /\ RuleFor(id) /\ Pending(id)
                => WithWatcher(id)' \/ ~RuleFor(id)' \/ ~Pending(id)'
<1>1. IInv /\ [Next]_vars => [Kept]_vars
  <2> SUFFICES ASSUME IInv, [Next]_vars, NEW id \in Ids,
                      WhitelistEnabled, WithWatcher(id), RuleFor(id), Pending(id)
               PROVE  WithWatcher(id)' \/ ~Pending(id)'
    OBVIOUS
  <2>1. TypeOK /\ watch \in [pc : WatchPc, id : Ids]
    BY DEF IInv, TypeOK
  <2>2. CASE WatchReceive /\ id = Head(notify)
    BY <2>1, <2>2 DEF WatchReceive, WithWatcher
  <2>3. CASE Notified(id) /\ ~(WatchReceive /\ id = Head(notify))
    BY <2>3, ChannelSteps DEF WithWatcher
  <2>4. CASE ~Notified(id)
    <3>1. watch.id = id /\ watch.pc \in {"get", "match", "approve"}
      BY <2>4 DEF WithWatcher
    <3>2. CASE watch' = watch
      BY <3>1, <3>2 DEF WithWatcher
    <3>3. CASE WatchGet
      BY <2>1, <3>1, <3>3 DEF WatchGet, WatchGoto, RuleFor, WithWatcher
    <3>4. CASE WatchMatch
      BY <2>1, <3>1, <3>4 DEF WatchMatch, WatchGoto, RuleFor, WithWatcher
    <3>5. CASE AutoApprove
      <4>1. Stored(id) /\ StoreTypeOK /\ Approve(id, FALSE)
        BY <2>1, <3>1, <3>5 DEF RuleFor, TypeOK, AutoApprove, CanApprove
      <4>2. requests'[id].Status = "approved"
        BY <4>1, ApproveEffect
      <4> QED BY <4>2 DEF Pending
    <3>6. watch' = watch \/ WatchGet \/ WatchMatch \/ AutoApprove
      BY <3>1 DEF Next, vars, Agent, AgentCall, Operator, Handler, Executor, WatchRequests,
         Submit, WithdrawRequest, ReadRequest, SubmitNotify, SubmitLog, WithdrawLog,
         BeginDecision, WhitelistAdd, WhitelistRemove, CooldownChanges, WatchUpdates,
         CheckCooldown, ApproveRequest, LogApproved, SpawnApproved, DenyRequest, LogDenied,
         ReleaseRequest, LogReleased, ExecStart, ExecLogStart, ExecFinish, ExecLogFinish,
         WatchReceive, LogAutoApproved, SpawnAutoApproved
    <3> QED BY <3>2, <3>3, <3>4, <3>5, <3>6
  <2> QED BY <2>2, <2>3, <2>4
<1> QED BY <1>1, InvariantHolds, PTL DEF Spec, NotPassedOver

=============================================================================
