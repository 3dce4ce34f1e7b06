------------------------------- MODULE Relay --------------------------------
(***************************************************************************)
(* The life of a request in the relay: an agent's tool call adds it to the *)
(* store, an operator's HTTP handler or the whitelist watcher decides it,  *)
(* an execution goroutine runs it, and agents read it back.                *)
(*                                                                         *)
(* Processes (each is a goroutine; a step is a stretch of its code that    *)
(* touches shared state once):                                             *)
(*   - one submitting tool call per request      (sub, mcp/tools.go)       *)
(*   - one withdraw_request call per request     (wd, mcp/tools.go)        *)
(*   - the HTTP callers of the dashboard port    (op, web/handler.go)      *)
(*   - watchRequests, the only reader of notify  (watch, web/handler.go)   *)
(*   - executeRequest goroutines                 (exec, web/handler.go)    *)
(*   - watchUpdates, the only reader of updates  (web/handler.go)          *)
(*                                                                         *)
(* Broadcasts to the dashboards read the store and change nothing here;    *)
(* the module Dashboard is about them.                                     *)
(***************************************************************************)
EXTENDS RequestStore

CONSTANTS
  Callers,            \* HTTP clients of the dashboard port
  Approvers,          \* those that present the approver token
  ApproverRequired,   \* an approver token is configured
  Watcher,            \* names the whitelist watcher as a decider
  Nobody,             \* no one has approved the request
  WhitelistEnabled,   \* a whitelist file is configured
  InitialRules,       \* the rules Load found in it
  BodyKeys,           \* keys an operator can post by hand
  OperatorActions     \* the actions operators post (all of Actions, or fewer)

VARIABLES
  sub,        \* per request: how far the submitting call has got
  wd,         \* per request: how far a successful withdrawal has got
  op,         \* per caller: its decision in progress
  watch,      \* the whitelist watcher
  exec,       \* per request: execution goroutines at each stage
  rules,      \* the whitelist in memory
  cooling,    \* the approval cooldown: never stamped, running or over
  audit,      \* per request: the events audit.Log has been called with
  \* history variables
  consent,    \* per request: the process whose store.Approve succeeded
  launched,   \* per request: execution goroutines ever started
  grants,     \* the whitelist rules operators added
  gated,      \* requests approved with "approve-gated"
  released,   \* requests whose output an operator released
  disclosed   \* those of gated whose result content reached an agent

approvals == <<consent, launched>>
history   == <<grants, gated, released, disclosed>>

vars == <<storeVars, sub, wd, op, watch, exec, rules, cooling, audit, approvals, history>>

(***************************************************************************)
(* Whitelist keys (handler.go whitelistKey): a command and its arguments.  *)
(* The digest of stdin is stdin itself here.  A registry operation has no  *)
(* command.                                                                *)
(***************************************************************************)
(* Mutant: script creates keyed on the name alone.                         *)
whitelistKeyByName(content) ==
  CASE content.Type = "script" -> <<"run_script", <<content.ScriptName>>>>
    [] content.Type = "script_create" -> <<"create_script", <<content.ScriptName>>>>
    [] content.Type = "script_create_then_run" ->
         <<"create_then_run", <<content.ScriptName>>>>
    [] OTHER -> <<content.Command, content.Args>>

whitelistKey(content) ==
  CASE content.Type = "script" -> <<"run_script", <<content.ScriptName>>>>
    [] content.Type = "script_create" ->
         <<"create_script", <<content.ScriptName, content.Stdin>>>>
    [] content.Type = "script_create_then_run" ->
         <<"create_then_run", <<content.ScriptName, content.Stdin>>>>
    [] OTHER -> <<content.Command, content.Args>>

Keys == {whitelistKey(x) : x \in Contents} \cup BodyKeys

(***************************************************************************)
(* Types.                                                                  *)
(***************************************************************************)
Actions == {"approve", "approve-gated", "deny", "release"}

ASSUME RelayAssumption ==
  /\ Approvers \subseteq Callers
  /\ ApproverRequired \in BOOLEAN
  /\ WhitelistEnabled \in BOOLEAN
  /\ InitialRules \subseteq Keys
  /\ OperatorActions \subseteq Actions
  /\ Watcher \notin Callers
  /\ Nobody \notin Callers \cup {Watcher}

OpPc == {"idle", "cooldown", "approve", "approved", "spawn",
         "deny", "denied", "release", "released"}

WatchPc == {"receive", "get", "match", "approve", "approved", "spawn"}

Stage == {"spawned", "started", "executing", "finished", "finishedEmpty"}

AuditEvent ==
  {"request_created", "request_withdrawn", "request_approved",
   "request_auto_approved", "request_denied", "output_released",
   "execution_started", "execution_completed", "output_auto_released_empty"}

(* The state every action keeps: one type for each variable.               *)
TypeOK ==
  /\ StoreTypeOK
  /\ sub \in [Ids -> {"no", "inserted", "notified", "logged"}]
  /\ wd \in [Ids -> {"no", "withdrawn", "logged"}]
  /\ op \in [Callers -> [pc : OpPc, id : Ids, action : Actions]]
  /\ watch \in [pc : WatchPc, id : Ids]
  /\ exec \in [Ids -> [Stage -> Nat]]
  /\ rules \subseteq Keys
  /\ cooling \in {"never", "running", "over"}
  /\ audit \in [Ids -> SUBSET AuditEvent]
  /\ consent \in [Ids -> Callers \cup {Watcher, Nobody}]
  /\ launched \in [Ids -> Nat]
  /\ grants \subseteq [by : Callers, key : Keys, request : Ids \cup {NoRequest}]
  /\ gated \subseteq Ids
  /\ released \subseteq Ids
  /\ disclosed \subseteq Ids

AnyId == CHOOSE id \in Ids : TRUE
Idle  == [pc |-> "idle", id |-> AnyId, action |-> "approve"]
Ready == [pc |-> "receive", id |-> AnyId]

Init ==
  /\ StoreInit
  /\ sub = [id \in Ids |-> "no"]
  /\ wd = [id \in Ids |-> "no"]
  /\ op = [c \in Callers |-> Idle]
  /\ watch = Ready
  /\ exec = [id \in Ids |-> [s \in Stage |-> 0]]
  /\ rules = InitialRules
  /\ cooling = "never"
  /\ audit = [id \in Ids |-> {}]
  /\ consent = [id \in Ids |-> Nobody]
  /\ launched = [id \in Ids |-> 0]
  /\ grants = {}
  /\ gated = {}
  /\ released = {}
  /\ disclosed = {}

(* The call of audit.Log, which returns nothing: a line that cannot be     *)
(* marshalled or written is dropped and the caller goes on (audit.go:40),  *)
(* so this records the calls made, not the lines that reached the file.    *)
Log(id, event) == audit' = [audit EXCEPT ![id] = @ \cup {event}]

(* go h.executeRequest(req)                                                *)
Spawn(id) ==
  /\ exec' = [exec EXCEPT ![id]["spawned"] = @ + 1]
  /\ launched' = [launched EXCEPT ![id] = @ + 1]

-----------------------------------------------------------------------------
(***************************************************************************)
(* An agent's tool call: Add, the notification, the audit line.            *)
(***************************************************************************)
Submit(id, content) ==
  /\ ~Stored(id)
  /\ Add(id, content)
  /\ sub' = [sub EXCEPT ![id] = "inserted"]
  /\ UNCHANGED <<wd, op, watch, exec, rules, cooling, audit, approvals, history>>

SubmitNotify(id) ==
  /\ sub[id] = "inserted"
  /\ AddNotify(id)
  /\ sub' = [sub EXCEPT ![id] = "notified"]
  /\ UNCHANGED <<wd, op, watch, exec, rules, cooling, audit, approvals, history>>

SubmitLog(id) ==
  /\ sub[id] = "notified"
  /\ Log(id, "request_created")
  /\ sub' = [sub EXCEPT ![id] = "logged"]
  /\ UNCHANGED <<storeVars, wd, op, watch, exec, rules, cooling, approvals, history>>

(***************************************************************************)
(* withdraw_request.  A call that finds the request absent or decided      *)
(* returns an error and changes nothing, so at most one gets past Withdraw.*)
(***************************************************************************)
WithdrawRequest(id) ==
  /\ Stored(id)
  /\ Withdraw(id)
  /\ wd' = [wd EXCEPT ![id] = "withdrawn"]
  /\ UNCHANGED <<sub, op, watch, exec, rules, cooling, audit, approvals, history>>

WithdrawLog(id) ==
  /\ wd[id] = "withdrawn"
  /\ Log(id, "request_withdrawn")
  /\ wd' = [wd EXCEPT ![id] = "logged"]
  /\ UNCHANGED <<storeVars, sub, op, watch, exec, rules, cooling, approvals, history>>

(***************************************************************************)
(* get_result, list_requests and the dashboard's list for a token that is  *)
(* not the approver's: a copy of the request, redacted while it is gated.  *)
(* Without an approver token the dashboard port serves it unredacted.      *)
(***************************************************************************)
ServedTo(id, viaWeb) ==
  IF viaWeb /\ ~ApproverRequired
  THEN requests[id] ELSE RedactGatedOutput(requests[id])

ReadRequest(id, viaWeb) ==
  /\ Stored(id)
  /\ requests[id].Result # NoResult
  /\ LET shown == ServedTo(id, viaWeb).Result
     IN disclosed' = IF shown = requests[id].Result /\ hasGatedContent(shown)
                     THEN disclosed \cup ({id} \cap gated) ELSE disclosed
  /\ UNCHANGED <<storeVars, sub, wd, op, watch, exec, rules, cooling, audit, consent, launched, grants, gated, released>>

-----------------------------------------------------------------------------
(***************************************************************************)
(* handleRequestAction: POST /api/requests/{id}/{action}.                  *)
(***************************************************************************)
authorizeDecision(c) == ~ApproverRequired \/ c \in Approvers

Goto(c, pc) == op' = [op EXCEPT ![c].pc = pc]
Return(c)   == op' = [op EXCEPT ![c] = Idle]

(* The authorization gate, store.Get and the checks on the copy it         *)
(* returned.  The refusals (403, 404, 409) change nothing.                 *)
FirstPc(action) ==
  CASE action = "release" -> "release"
    [] action = "deny"    -> "deny"
    [] OTHER              -> "cooldown"

(* Mutant: any authenticated token may decide.                             *)
BeginDecisionUngated(c, id, action) ==
  /\ op[c].pc = "idle"
  /\ Stored(id)
  /\ IF action = "release" THEN requests[id].OutputGated ELSE Pending(id)
  /\ op' = [op EXCEPT ![c] = [pc |-> FirstPc(action), id |-> id, action |-> action]]
  /\ UNCHANGED <<storeVars, sub, wd, watch, exec, rules, cooling, audit, approvals, history>>

BeginDecision(c, id, action) ==
  /\ op[c].pc = "idle"
  /\ authorizeDecision(c)
  /\ Stored(id)
  /\ IF action = "release" THEN requests[id].OutputGated ELSE Pending(id)
  /\ op' = [op EXCEPT ![c] = [pc |-> FirstPc(action), id |-> id, action |-> action]]
  /\ UNCHANGED <<storeVars, sub, wd, watch, exec, rules, cooling, audit, approvals, history>>

(* The critical section of cooldownMu: refuse with 429, or stamp.          *)
CheckCooldown(c) ==
  /\ op[c].pc = "cooldown"
  /\ IF cooling = "running" THEN Return(c) ELSE Goto(c, "approve")
  /\ cooling' = "running"
  /\ UNCHANGED <<storeVars, sub, wd, watch, exec, rules, audit, approvals, history>>

(* activeCooldown has passed since lastApproval, or turbo mode is set or   *)
(* ends and a longer cooldown is in force again (the module Cooldown).     *)
CooldownChanges ==
  /\ cooling # "never"
  /\ cooling' \in {"running", "over"} \ {cooling}
  /\ UNCHANGED <<storeVars, sub, wd, op, watch, exec, rules, audit, approvals, history>>

ApproveRequest(c) ==
  /\ op[c].pc = "approve"
  /\ LET id == op[c].id IN
       \/ /\ CanApprove(id)
          /\ Approve(id, op[c].action = "approve-gated")
          /\ consent' = [consent EXCEPT ![id] = c]
          /\ gated' = IF op[c].action = "approve-gated" THEN gated \cup {id} ELSE gated
          /\ Goto(c, "approved")
       \/ /\ ~CanApprove(id)     \* raced a concurrent decision: 409
          /\ Return(c)
          /\ UNCHANGED <<storeVars, consent, gated>>
  /\ UNCHANGED <<sub, wd, watch, exec, rules, cooling, audit, launched, grants, released, disclosed>>

(* Mutant: one arm of the switch forgets the audit line.                   *)
LogApprovedForgets(c) ==
  /\ op[c].pc = "approved"
  /\ Goto(c, "spawn")
  /\ UNCHANGED <<storeVars, sub, wd, watch, exec, rules, cooling, audit, approvals, history>>

LogApproved(c) ==
  /\ op[c].pc = "approved"
  /\ Log(op[c].id, "request_approved")
  /\ Goto(c, "spawn")
  /\ UNCHANGED <<storeVars, sub, wd, watch, exec, rules, cooling, approvals, history>>

(* Mutant: the handler answers without starting the goroutine.             *)
SpawnApprovedForgets(c) ==
  /\ op[c].pc = "spawn"
  /\ Return(c)
  /\ UNCHANGED <<storeVars, sub, wd, watch, exec, rules, cooling, audit, approvals, history>>

SpawnApproved(c) ==
  /\ op[c].pc = "spawn"
  /\ Spawn(op[c].id)
  /\ Return(c)
  /\ UNCHANGED <<storeVars, sub, wd, watch, rules, cooling, audit, consent, history>>

DenyRequest(c) ==
  /\ op[c].pc = "deny"
  /\ Deny(op[c].id)
  /\ Goto(c, "denied")
  /\ UNCHANGED <<sub, wd, watch, exec, rules, cooling, audit, approvals, history>>

LogDenied(c) ==
  /\ op[c].pc = "denied"
  /\ Log(op[c].id, "request_denied")
  /\ Return(c)
  /\ UNCHANGED <<storeVars, sub, wd, watch, exec, rules, cooling, approvals, history>>

ReleaseRequest(c) ==
  /\ op[c].pc = "release"
  /\ ReleaseOutput(op[c].id)
  /\ released' = released \cup {op[c].id}
  /\ Goto(c, "released")
  /\ UNCHANGED <<sub, wd, watch, exec, rules, cooling, audit, consent, launched, grants, gated, disclosed>>

LogReleased(c) ==
  /\ op[c].pc = "released"
  /\ Log(op[c].id, "output_released")
  /\ Return(c)
  /\ UNCHANGED <<storeVars, sub, wd, watch, exec, rules, cooling, approvals, history>>

(***************************************************************************)
(* handleWhitelist and handleWhitelistRemove.  The rule comes from a       *)
(* stored request (request_id) or from the body.  The module Whitelist is  *)
(* about the file these handlers save and about rules it holds twice:      *)
(* taking one of two out leaves rules as it is, a stuttering step here.    *)
(***************************************************************************)
HasCommand(key) == key[1] # ""

WhitelistAdd(c, key, id) ==
  /\ WhitelistEnabled
  /\ authorizeDecision(c)
  /\ IF id = NoRequest THEN key \in BodyKeys
     ELSE Stored(id) /\ key = whitelistKey(requests[id].Content)
  /\ HasCommand(key)
  /\ rules' = rules \cup {key}
  /\ grants' = grants \cup {[by |-> c, key |-> key, request |-> id]}
  /\ UNCHANGED <<storeVars, sub, wd, op, watch, exec, cooling, audit, consent, launched, gated, released, disclosed>>

WhitelistRemove(c, key) ==
  /\ WhitelistEnabled
  /\ authorizeDecision(c)
  /\ key \in rules
  /\ rules' = rules \ {key}
  /\ UNCHANGED <<storeVars, sub, wd, op, watch, exec, cooling, audit, approvals, history>>

-----------------------------------------------------------------------------
(***************************************************************************)
(* watchRequests and autoApprove.                                          *)
(***************************************************************************)
WatchGoto(pc) == watch' = [watch EXCEPT !.pc = pc]
WatchAgain    == watch' = Ready

WatchReceive ==
  /\ watch.pc = "receive"
  /\ notify # <<>>
  /\ IF WhitelistEnabled THEN watch' = [pc |-> "get", id |-> Head(notify)]
     ELSE WatchAgain
  /\ notify' = Tail(notify)
  /\ UNCHANGED <<requests, order, updates, sub, wd, op, exec, rules, cooling, audit, approvals, history>>

(* The copy: a request that is unknown or no longer pending is left alone. *)
WatchGet ==
  /\ watch.pc = "get"
  /\ IF Stored(watch.id) /\ Pending(watch.id) THEN WatchGoto("match") ELSE WatchAgain
  /\ UNCHANGED <<storeVars, sub, wd, op, exec, rules, cooling, audit, approvals, history>>

(* Mutant: the watcher returns at the first request without a rule.        *)
WatchMatchReturns ==
  /\ watch.pc = "match"
  /\ IF whitelistKey(requests[watch.id].Content) \in rules
     THEN WatchGoto("approve") ELSE WatchGoto("stopped")
  /\ UNCHANGED <<storeVars, sub, wd, op, exec, rules, cooling, audit, approvals, history>>

WatchMatch ==
  /\ watch.pc = "match"
  /\ IF whitelistKey(requests[watch.id].Content) \in rules
     THEN WatchGoto("approve") ELSE WatchAgain
  /\ UNCHANGED <<storeVars, sub, wd, op, exec, rules, cooling, audit, approvals, history>>

AutoApprove ==
  /\ watch.pc = "approve"
  /\ LET id == watch.id IN
       \/ /\ CanApprove(id)
          /\ Approve(id, FALSE)
          /\ consent' = [consent EXCEPT ![id] = Watcher]
          /\ WatchGoto("approved")
       \/ /\ ~CanApprove(id)
          /\ WatchAgain
          /\ UNCHANGED <<storeVars, consent>>
  /\ UNCHANGED <<sub, wd, op, exec, rules, cooling, audit, launched, history>>

LogAutoApproved ==
  /\ watch.pc = "approved"
  /\ Log(watch.id, "request_auto_approved")
  /\ WatchGoto("spawn")
  /\ UNCHANGED <<storeVars, sub, wd, op, exec, rules, cooling, approvals, history>>

(* Mutant: the watcher forgets to start the goroutine.                     *)
SpawnAutoApprovedForgets ==
  /\ watch.pc = "spawn"
  /\ WatchAgain
  /\ UNCHANGED <<storeVars, sub, wd, op, exec, rules, cooling, audit, approvals, history>>

SpawnAutoApproved ==
  /\ watch.pc = "spawn"
  /\ Spawn(watch.id)
  /\ WatchAgain
  /\ UNCHANGED <<storeVars, sub, wd, op, rules, cooling, audit, consent, history>>

(* watchUpdates receives and broadcasts.                                   *)
WatchUpdates ==
  /\ updates # <<>>
  /\ updates' = Tail(updates)
  /\ UNCHANGED <<requests, order, notify, sub, wd, op, watch, exec, rules, cooling, audit, approvals, history>>

-----------------------------------------------------------------------------
(***************************************************************************)
(* executeRequest.  The goroutines of one request differ only in how far   *)
(* they have got, so they are counted per stage.                           *)
(***************************************************************************)
Advance(id, from, to) ==
  /\ exec[id][from] > 0
  /\ exec' = [exec EXCEPT ![id] =
                [s \in Stage |-> IF s = from THEN @[s] - 1
                                 ELSE IF s = to THEN @[s] + 1 ELSE @[s]]]

ExecStart(id) ==
  /\ Advance(id, "spawned", "started")
  /\ SetStatus(id, "running")
  /\ UNCHANGED <<sub, wd, op, watch, rules, cooling, audit, approvals, history>>

ExecLogStart(id) ==
  /\ Advance(id, "started", "executing")
  /\ Log(id, "execution_started")
  /\ UNCHANGED <<storeVars, sub, wd, op, watch, rules, cooling, approvals, history>>

(* The command, call or script has run and returned res.                   *)
ExecFinish(id, res) ==
  /\ Advance(id, "executing",
             IF ReleasesEmpty(id, res) THEN "finishedEmpty" ELSE "finished")
  /\ SetResult(id, res, IF res.ExitCode = 0 THEN "complete" ELSE "error")
  /\ UNCHANGED <<sub, wd, op, watch, rules, cooling, audit, approvals, history>>

ExecLogFinish(id) ==
  /\ \/ /\ Advance(id, "finished", "gone")
        /\ Log(id, "execution_completed")
     \/ /\ Advance(id, "finishedEmpty", "gone")
        /\ audit' = [audit EXCEPT ![id] = @ \cup {"execution_completed",
                                                  "output_auto_released_empty"}]
  /\ UNCHANGED <<storeVars, sub, wd, op, watch, rules, cooling, approvals, history>>

-----------------------------------------------------------------------------
Agent(id) ==
  \/ \E content \in Contents : Submit(id, content)
  \/ WithdrawRequest(id)
  \/ \E viaWeb \in BOOLEAN : ReadRequest(id, viaWeb)

(* What the agent's calls still have to do once they have begun.           *)
AgentCall(id) == SubmitNotify(id) \/ SubmitLog(id) \/ WithdrawLog(id)

Operator(c) ==
  \/ \E id \in Ids, action \in OperatorActions : BeginDecision(c, id, action)
  \/ \E key \in Keys, id \in Ids \cup {NoRequest} : WhitelistAdd(c, key, id)
  \/ \E key \in Keys : WhitelistRemove(c, key)

Handler(c) ==
  \/ CheckCooldown(c) \/ ApproveRequest(c) \/ LogApproved(c) \/ SpawnApproved(c)
  \/ DenyRequest(c) \/ LogDenied(c) \/ ReleaseRequest(c) \/ LogReleased(c)

WatchRequests ==
  \/ WatchReceive \/ WatchGet \/ WatchMatch
  \/ AutoApprove \/ LogAutoApproved \/ SpawnAutoApproved

Executor(id) ==
  \/ ExecStart(id) \/ ExecLogStart(id) \/ ExecLogFinish(id)
  \/ \E res \in Results : ExecFinish(id, res)

Next ==
  \/ \E id \in Ids : Agent(id) \/ AgentCall(id) \/ Executor(id)
  \/ \E c \in Callers : Operator(c) \/ Handler(c)
  \/ WatchRequests \/ WatchUpdates \/ CooldownChanges

Spec == Init /\ [][Next]_vars

(***************************************************************************)
(* Go runs every runnable goroutine, so a handler, a tool call or a        *)
(* watcher does not stop between two of its steps.  Agents and operators   *)
(* owe nothing, and neither does a running command: ExecFinish is not fair.*)
(***************************************************************************)
Fairness ==
  /\ \A id \in Ids :
       /\ WF_vars(AgentCall(id))
       /\ WF_vars(ExecStart(id) \/ ExecLogStart(id) \/ ExecLogFinish(id))
  /\ \A c \in Callers : WF_vars(Handler(c))
  /\ WF_vars(WatchRequests)
  /\ WF_vars(WatchUpdates)

FairSpec == Spec /\ Fairness

-----------------------------------------------------------------------------
(***************************************************************************)
(* Safety.                                                                 *)
(***************************************************************************)

(* A request is launched at most once, however many approve clicks and     *)
(* whitelist matches race for it (handler.go, "can never both execute it").*)
ExecutesAtMostOnce == \A id \in Ids : launched[id] <= 1

(* Nothing runs unless a caller that passed authorizeDecision approved it, *)
(* or the watcher did on a rule that was loaded or that such a caller      *)
(* added and whose key is the request's own.                               *)
AuthorizedConsent ==
  \A id \in Ids :
    /\ launched[id] > 0 => consent[id] # Nobody
    /\ consent[id] \in Callers => authorizeDecision(consent[id])
    /\ consent[id] = Watcher =>
         LET key == whitelistKey(requests[id].Content) IN
         \/ key \in InitialRules
         \/ \E g \in grants : g.key = key /\ authorizeDecision(g.by)

(* A request whose withdrawal was reported to the agent is never approved  *)
(* and never launched, even by a decision that was already under way.      *)
WithdrawnNeverRuns ==
  \A id \in Ids : wd[id] # "no" => consent[id] = Nobody /\ launched[id] = 0

(* The order of the calls: no execution is launched before audit.Log has   *)
(* been called with the approval that allows it, and no result is recorded *)
(* before it has been called with the start.  That the lines are in the    *)
(* file does not follow: Log drops a failed write.                         *)
LogCallPrecedesRun ==
  \A id \in Ids :
    /\ launched[id] > 0 =>
         audit[id] \cap {"request_approved", "request_auto_approved"} # {}
    /\ Stored(id) /\ requests[id].Result # NoResult => "execution_started" \in audit[id]

(* What the watcher approves is the work an operator reviewed: a script    *)
(* body is the one that was whitelisted, and a registry operation is never *)
(* auto-approved (whitelistKey's comment; handleWhitelist refuses an empty *)
(* command).  Rules from the file or posted by hand are the operator's own.*)
SameWork(x, y) ==
  /\ x.Type = y.Type
  /\ x.Type # "registry_op"
  /\ x.Type \in {"script_create", "script_create_then_run"} =>
       x.ScriptName = y.ScriptName /\ x.Stdin = y.Stdin

AutoApprovedAsReviewed ==
  \A id \in Ids : consent[id] = Watcher =>
    LET content == requests[id].Content IN
    \/ whitelistKey(content) \in InitialRules \cup BodyKeys
    \/ \E g \in grants : /\ g.request \in Ids
                         /\ SameWork(requests[g.request].Content, content)

(* What that rests on: two contents with the same key, if it has a command,*)
(* are one kind of work, and a registry operation's key has none.  An agent*)
(* that submits the command "create_script" itself is outside of it.       *)
KeysTellWorkApart ==
  \A x, y \in Contents :
    whitelistKey(x) = whitelistKey(y) /\ HasCommand(whitelistKey(x))
      => x.Type = y.Type /\ x.Type # "registry_op"

(* With an approver token configured, the content of a result approved as  *)
(* gated reaches an agent only after an operator released it.              *)
GatedContentWithheld ==
  ApproverRequired => disclosed \subseteq released

(* No reader ever sees a request that is finished and gated with nothing   *)
(* to release (handler.go, "no reader ever sees it complete and gated").   *)
NoEmptyGate ==
  \A id \in Ids :
    Stored(id) /\ requests[id].Result # NoResult /\ requests[id].OutputGated
      => hasGatedContent(requests[id].Result)

(* No approval is forgotten: a request that somebody approved has been     *)
(* launched, or its approver is still between store.Approve and its go     *)
(* statement, whatever it and the others were doing meanwhile.             *)
NoApprovalIsLost ==
  \A id \in Ids :
    consent[id] # Nobody /\ launched[id] = 0
      => \/ \E c \in Callers : op[c].id = id /\ op[c].pc \in {"approved", "spawn"}
         \/ watch.id = id /\ watch.pc \in {"approved", "spawn"}

(* A stored result is never replaced by the result of another execution.   *)
ResultIsFinal ==
  [][\A id \in Ids :
       Stored(id) /\ requests[id].Result # NoResult
         => requests'[id].Result = requests[id].Result]_vars

(* The status only moves as StatusLife says: no interleaving of handlers,  *)
(* watcher and execution takes a request back to pending or approved.      *)
StatusFollowsLife ==
  [][\A id \in Ids :
       Stored(id) /\ requests'[id].Status # requests[id].Status
         => <<requests[id].Status, requests'[id].Status>> \in StatusMoves]_vars

(***************************************************************************)
(* The inductive invariant behind the safety properties and the            *)
(* refinement, in four parts.                                              *)
(***************************************************************************)

(* Goroutines only name requests that are in the store.                    *)
NamesAreStored ==
  /\ \A c \in Callers : op[c].pc # "idle" => Stored(op[c].id)
  /\ watch.pc \notin {"receive", "get"} => Stored(watch.id)
  /\ \A id \in Ids :
       sub[id] # "no" \/ consent[id] # Nobody \/ wd[id] # "no" => Stored(id)

(* Approval and withdrawal exclude one another: each needs the request     *)
(* pending, leaves it decided, and nothing makes it pending again.         *)
DecidedOnce ==
  \A id \in Ids :
    /\ Stored(id) /\ Pending(id) => consent[id] = Nobody /\ wd[id] = "no"
    /\ wd[id] # "no" => consent[id] = Nobody
    /\ consent[id] = Nobody => launched[id] = 0

(* A process that is about to launch a request is the one that approved    *)
(* it, and it has not been launched yet.                                   *)
OneLauncher ==
  /\ \A c \in Callers : op[c].pc \in {"approved", "spawn"} =>
       consent[op[c].id] = c /\ launched[op[c].id] = 0
  /\ watch.pc \in {"approved", "spawn"} =>
       consent[watch.id] = Watcher /\ launched[watch.id] = 0
  /\ \A id \in Ids : launched[id] <= 1

(* A request has at most one goroutine, at one stage, and its result is    *)
(* stored exactly when that goroutine has left "executing".                *)
OneGoroutine ==
  \A id \in Ids :
    /\ launched[id] = 0 => \A s \in Stage : exec[id][s] = 0
    /\ \A s \in Stage : exec[id][s] <= 1
    /\ \A s, t \in Stage : s # t => exec[id][s] = 0 \/ exec[id][t] = 0
    /\ Stored(id) /\ requests[id].Result # NoResult =>
         /\ launched[id] = 1
         /\ \A s \in {"spawned", "started", "executing"} : exec[id][s] = 0

(* The inductive invariant.                                                *)
IInv == TypeOK /\ NamesAreStored /\ DecidedOnce /\ OneLauncher /\ OneGoroutine

(***************************************************************************)
(* Refinement: the gate of a request, as a function of the relay's state.  *)
(***************************************************************************)
GateOf(id) ==
  IF ~Stored(id) THEN "absent"
  ELSE IF consent[id] = Nobody THEN IF Pending(id) THEN "pending" ELSE "closed"
  ELSE IF exec[id]["executing"] > 0 THEN "running"
  ELSE IF requests[id].Result # NoResult THEN "done"
  ELSE "granted"

gateBar == [id \in Ids |-> GateOf(id)]

Deciders == {c \in Callers : authorizeDecision(c)}
              \cup (IF WhitelistEnabled THEN {Watcher} ELSE {})

Gate == INSTANCE ApprovalGate WITH gate <- gateBar, by <- consent

(* The relay implements the approval gate.                                 *)
ImplementsGate == Gate!Spec

(***************************************************************************)
(* Liveness.                                                               *)
(***************************************************************************)

(* An approved request is handed to an executor, and once that returns its *)
(* completion is logged, whatever else is decided about it meanwhile.      *)
ApprovedIsCarriedOut ==
  \A id \in Ids :
    /\ consent[id] # Nobody ~> "execution_started" \in audit[id]
    /\ Stored(id) /\ requests[id].Result # NoResult
         ~> "execution_completed" \in audit[id]

(* A request that is in the notify channel while a rule for it stays in    *)
(* force is decided without an operator.                                   *)
RuleFor(id) == Stored(id) /\ whitelistKey(requests[id].Content) \in rules

Notified(id) == \E i \in DOMAIN notify : notify[i] = id

WhitelistedIsDecided ==
  \A id \in Ids :
    WhitelistEnabled /\ Notified(id) ~> ~RuleFor(id) \/ ~Pending(id)

(* What that rests on: a pending request with a rule that is on its way    *)
(* through the channel and the watcher stays on it until it is decided or  *)
(* the rule goes, although the watcher looks at the request, the rules and *)
(* the request again at three different times.                             *)
WithWatcher(id) ==
  Notified(id) \/ (watch.id = id /\ watch.pc \in {"get", "match", "approve"})

NotPassedOver ==
  [][\A id \in Ids :
       WhitelistEnabled /\ WithWatcher(id) /\ RuleFor(id) /\ Pending(id)
         => WithWatcher(id)' \/ ~RuleFor(id)' \/ ~Pending(id)']_vars

(***************************************************************************)
(* A statement of the repository that the code does not keep: the deny     *)
(* handler's pending check is stale when store.Deny runs.                  *)
(***************************************************************************)

(* A denied request must never execute (approve_race_test.go).             *)
DeniedNeverExecutes ==
  [][\A id \in Ids :
       "request_denied" \in audit[id] /\ "execution_started" \notin audit[id]
         => "execution_started" \notin audit'[id]]_vars

(* What does hold of it: a denial that came before any approval is final.  *)
(* The decisions and watcher steps that were under way change nothing any  *)
(* more: the request stays denied and is never approved, launched or begun.*)
DenialInTimeIsFinal ==
  [][\A id \in Ids :
       Stored(id) /\ requests[id].Status = "denied" /\ consent[id] = Nobody
         => /\ requests'[id].Status = "denied" /\ consent'[id] = Nobody
            /\ launched'[id] = 0 /\ "execution_started" \notin audit'[id]]_vars

=============================================================================
