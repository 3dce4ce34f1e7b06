---------------------------- MODULE RequestStore ----------------------------
(***************************************************************************)
(* The in-memory request store (store/store.go): the map of requests, the  *)
(* insertion order, and the two buffered channels on which the store tells *)
(* the web handler that a request is new (notify) or changed (updates).    *)
(*                                                                         *)
(* Every operator below is one method, hence one critical section of       *)
(* Store.mu.  A method is an action on requests, order and updates; the    *)
(* send on notify happens after Add has released the lock and is a step of *)
(* its own.                                                                *)
(***************************************************************************)
EXTENDS Naturals, Sequences, StatusLife

CONSTANTS
  Ids,          \* the identifiers generateID can return
  Contents,     \* what an agent can submit: [Type, Command, Args, ScriptName, Stdin]
  Results,      \* what an execution can return
  NoRequest,    \* requests[id] before Add
  NoResult,     \* Request.Result before SetResult
  ChanCap       \* capacity of notify and of updates

ASSUME StoreAssumption ==
  /\ Ids # {}
  /\ ChanCap \in Nat \ {0}
  /\ NoResult \notin Results

VARIABLES requests, order, notify, updates

storeVars == <<requests, order, notify, updates>>

(***************************************************************************)
(* Request.  Status is StatusLife's; a result is a record.                 *)
(***************************************************************************)
Request == [Content : Contents, Status : Status,
            OutputGated : BOOLEAN, Result : Results \cup {NoResult}]

StoreTypeOK ==
  /\ requests \in [Ids -> Request \cup {NoRequest}]
  /\ order \in Seq(Ids)
  /\ notify \in Seq(Ids) /\ Len(notify) <= ChanCap
  /\ updates \in Seq(Ids) /\ Len(updates) <= ChanCap

ASSUME NoRequestAssumption == NoRequest \notin Request

StoreInit ==
  /\ requests = [id \in Ids |-> NoRequest]
  /\ order = <<>>
  /\ notify = <<>>
  /\ updates = <<>>

Stored(id) == requests[id] # NoRequest

(***************************************************************************)
(* What output gating withholds.  A result is a record; the exit code and  *)
(* the HTTP status code are always visible.                                *)
(***************************************************************************)
visibleWhenGated(res) ==
  [ExitCode |-> res.ExitCode, StatusCode |-> res.StatusCode,
   Stdout |-> "", Stderr |-> "", RespHeaders |-> "nil"]

hasGatedContent(res) == res # visibleWhenGated(res)

(* The placeholders carry byte counts only; they are one value here, and   *)
(* no command prints it: one that prints its own placeholder, byte count   *)
(* and all, has nothing more to disclose.                                  *)
ASSUME PlaceholderAssumption == \A res \in Results : res.Stdout # "gated"

RedactGatedOutput(r) ==
  IF ~r.OutputGated \/ r.Result = NoResult
  THEN r
  ELSE [r EXCEPT !.Result = [visibleWhenGated(r.Result) EXCEPT
                               !.Stdout = "gated",
                               !.Stderr = IF r.Result.Stderr # "" THEN "gated" ELSE ""]]

(***************************************************************************)
(* A non-blocking send: the select with a default case.                    *)
(***************************************************************************)
TrySend(ch, id) == IF Len(ch) < ChanCap THEN Append(ch, id) ELSE ch

(***************************************************************************)
(* Add and its six variants: insert under the lock, ...                    *)
(***************************************************************************)
Add(id, content) ==
  /\ requests' = [requests EXCEPT ![id] =
                    [Content |-> content, Status |-> "pending",
                     OutputGated |-> FALSE, Result |-> NoResult]]
  /\ order' = Append(order, id)
  /\ UNCHANGED <<notify, updates>>

(* ... then notify after the lock is released, dropping when full.         *)
AddNotify(id) ==
  /\ notify' = TrySend(notify, id)
  /\ UNCHANGED <<requests, order, updates>>

SetStatus(id, status) ==
  /\ requests' = [requests EXCEPT ![id].Status = status]
  /\ UNCHANGED <<order, notify, updates>>

(* Deny does not look at the current status.                               *)
Deny(id) ==
  /\ requests' = [requests EXCEPT ![id].Status = "denied"]
  /\ UNCHANGED <<order, notify, updates>>

(* The outcome of Withdraw and of Approve is decided by the same test.     *)
Pending(id) == requests[id].Status = "pending"

Withdraw(id) ==
  /\ Pending(id)
  /\ requests' = [requests EXCEPT ![id].Status = "withdrawn"]
  /\ updates' = TrySend(updates, id)
  /\ UNCHANGED <<order, notify>>

(* Mutant: approve trusts the handler's earlier check.                     *)
CanApproveUnchecked(id) == Stored(id)

CanApprove(id) == Pending(id)

Approve(id, gateOutput) ==
  /\ requests' = [requests EXCEPT ![id].Status = "approved",
                                  ![id].OutputGated = @ \/ gateOutput]
  /\ UNCHANGED <<order, notify, updates>>

(* SetResult stores the result and releases gated output that is empty.    *)
(* Mutants: the auto-release is missing, or looks at the output only.      *)
ReleasesNothing(id, res) == FALSE
ReleasesNoOutput(id, res) ==
  requests[id].OutputGated /\ res.Stdout = "" /\ res.Stderr = ""

ReleasesEmpty(id, res) == requests[id].OutputGated /\ ~hasGatedContent(res)

SetResult(id, res, status) ==
  /\ requests' = [requests EXCEPT
                    ![id].Result = res,
                    ![id].Status = status,
                    ![id].OutputGated = @ /\ ~ReleasesEmpty(id, res)]
  /\ UNCHANGED <<order, notify, updates>>

ReleaseOutput(id) ==
  /\ requests' = [requests EXCEPT ![id].OutputGated = FALSE]
  /\ updates' = TrySend(updates, id)
  /\ UNCHANGED <<order, notify>>

=============================================================================
