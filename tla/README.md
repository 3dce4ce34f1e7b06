# A verification model of Human Relay

Human Relay stands between agents and machines. An agent submits a request (a
command, an HTTP call, a script, a change of a registry) through an MCP tool;
nothing happens until an operator approves it in the web dashboard or a
whitelist rule does; then the relay executes it and the agent reads the result
back. Everything is in one Go process; requests live in memory, and the
whitelist, the registries, the client tokens and the audit log are files.

This directory holds TLA+ models of the parts that decide, execute and persist,
the TLC runs that check them on small instances, and TLAPS proofs of their
safety properties for every instance. `PROJECT.json` lists components, runs, mutants, findings, hazards and
theorems, and maps every definition to the lines it models.

    tlc -workers 2 -config MCRelay_decisions.cfg MCRelay
    for m in *Proofs.tla; do tlapm $m; done

## The system

| Component | State | Operations | Hard part |
|---|---|---|---|
| request store (`store/store.go`) | map of requests, order, channels `notify` and `updates` | Add…, SetStatus, Deny, Withdraw, Approve, SetResult, ReleaseOutput | every caller works on copies; Deny and SetStatus do not look at the status; full channels drop |
| decisions (`web/handler.go`, `mcp/tools.go`) | handlers in flight, cooldown | approve, approve-gated, deny, release; withdraw_request | two decisions overlap; checks made on a stale copy |
| whitelist watcher (`web/handler.go`) | one goroutine, the rules | watchRequests, autoApprove | races with operators, withdrawals and rule changes |
| execution (`web/handler.go`) | one goroutine per launch | executeRequest | exactly once; after its audit call; its result against gates and late denials |
| whitelist file (`whitelist/whitelist.go`) | rules, file | Load, Add, Remove, Save | two saves at once; crash between truncate and write; a rule that is in the file twice |
| cooldown (`web/handler.go`) | lastApproval, turbo | approve, turbocharge | expiry, rounding, overflow |
| dashboard (`web/handler.go`, `index.html`) | SSE clients and channels; the page's list | broadcastEvent, handleSSE, fetchRequests | read, then send; a full channel, to the client or from the store; load order |
| submit and wait (`mcp/submit_wait.go`, `mcp/server.go`) | sessions, held calls | wait, poll, expire, cancel | timer against settlement; overflow |
| scripts (`mcp/tools.go`, `executor/script.go`) | files on disk | run_script, create_script, create_then_run | checked when queued, used when executed; two requests for one name |
| registries (`containers/`, `machines/`, `web/handler.go`) | map and file each | register, delete | partial re-register; failed save |
| client tokens (`auth/clients.go`, `main.go`) | file, the relay's copy | add, revoke, Verify, flush | several processes on one file |
| tools with a target (`mcp/tools.go`) | a call under way | request_command on a host, exec_container, exec_machine, install_relay_ssh, install_ssh_key, http_request's form_file, write_file and its probe | a record is looked up, read field by field and looked up again while it is registered anew |
| audit log (`audit/audit.go`) | a file | Log | order with respect to what it records; errors are dropped |
| executors (`executor/`) | a child process, its pipe, an HTTP response | Execute, ExecuteScript, ExecuteHTTP, ExecutePipeline | timeout against exit; descendants; output at the limit; a body cut short |
| startup and ports (`main.go`, `approver_env.go`, `reexec_*.go`, `web/middleware.go`) | environment, approver digest | read credentials, re-exec, refuse to start; AuthMiddleware | duplicate and blank entries; tokens that are two things at once |

Handlers, tool calls, watchers and executions are goroutines; they interact
through the store's mutex, its two channels, `sseMu`, `cooldownMu` and the
whitelist's mutex, and through files.

What makes the parts correct: an action needs an authorized decision and
happens at most once; a withdrawn request never runs; what runs is what was
reviewed; gated output stays back until it is released; a run is handed to the
audit log before it happens;
what was approved is carried out; what was reported saved is still there after
a restart; a waiting agent and a watching operator hear the truth, in time; a
command goes where the reviewer was told; an exit code is what happened; a
configured approver gate is up, and no agent's token opens it.

## Modules

| Module | Models | Composes |
|---|---|---|
| `StatusLife` | the statuses, `settled`, and the moves between them | |
| `RequestStore` | the store: one operator per method | `StatusLife` |
| `Relay` | submission, decisions, watcher, execution, audit, reads | `RequestStore` |
| `ApprovalGate` | what the relay promises about a request (abstract) | |
| `SubmitWait` | a held MCP call, and get_result's polling | `StatusLife` |
| `Cooldown` | the approval cooldown and turbo mode, with time | |
| `Dashboard` | SSE frames and the page | `StatusLife` |
| `Whitelist` | the rules and their file | |
| `Scripts` | script requests and the scripts directory | |
| `Registries` | container and machine registries | |
| `Targets` | the tools that send something to a registered target | `Registries` |
| `ClientRegistry` | clients.json, the relay and the client commands | |
| `Credentials` | startup, the approver credential, the roles of the ports | `ClientRegistry` |
| `Executor` | one run of a command or interpreter under its timeout | |
| `PipelineExecutor` | HTTP requests, form files, pipelines | `Executor` |
| `MC*` | instances for TLC | |
| `RelayProofs` | theorems about the store, the relay and the gate | `Relay` |
| `SubmitWaitProofs`, `WhitelistProofs`, `ScriptsProofs` | theorems about the module each is named after | that module |
| `WebProofs` | theorems about the event streams, the page and the cooldown | `Dashboard`, `Cooldown` |
| `TargetsProofs` | theorems about the registries and the tools | `Targets` |
| `CredentialsProofs` | theorems about startup, ports and client registry | `Credentials` |
| `ExecutorProofs` | theorems about the executors | `PipelineExecutor` |

**RequestStore and Relay.** `requests`, `order`, `notify` and `updates` are the
fields of `Store`. What an agent fills in is one `Content` record; the fields
that whitelisting tells apart (type, command, arguments, script name, stdin) are
kept, and an HTTP request's method and URL are its command and arguments.
The commands of the instances are not named like the tool names and methods that
`whitelistKey` uses. A handler is cut into steps where it touches shared
state: `BeginDecision` is the read, the checks and the authorization of
`handleRequestAction`, `CheckCooldown` the stamp under `cooldownMu`,
`ApproveRequest` the call of `store.Approve`, `LogApproved` the audit entry and
`SpawnApproved` the `go` statement; deny and release likewise. The watcher's
steps are `WatchReceive`, `WatchGet`, `WatchMatch`, `AutoApprove`,
`LogAutoApproved` and `SpawnAutoApproved`; the execution goroutine's are
`ExecStart`, `ExecLogStart`, `ExecFinish` and `ExecLogFinish`. `exec` counts
goroutines per stage, so that a second launch is a state and not excluded by the
model. `consent`, `launched`, `grants`, `gated`, `released` and `disclosed` are
history variables that only properties read. `audit` keeps which events were
handed to `audit.Log` for a request, not their text and not whether they reached
the file: `Log` drops the errors of encoding and writing (`audit.go:40`), and no
caller could hear of them. `cooling` says whether the cooldown is
running; `Cooldown` says when.

**ApprovalGate** is the promise: a request goes from absent to pending, then to
closed, or to granted by a decider, running and done. `GateOf` maps the relay's
state to it, and `ImplementsGate` says that every step of `Relay` is a step of
the gate or leaves it alone. The map follows the decision (`consent`), not
`Status`: a late deny changes the status of a granted request but not its gate.

**SubmitWait** counts time in poll intervals and gives Durations a width
(`Half`), so that products wrap as in Go. Time passes only when no handler can
move, except in a submission that is itself slow. A call is either held by
`wait` or a `get_result`, whose loop reads the request, answers if it is
settled, and otherwise waits for its deadline or its slower ticker (`GetPoll`);
its deadline branch answers with the copy read before the wait, and when both
are due either branch may be taken.

**Cooldown** has a clock of its own and an expiry for turbo mode. It gives
Durations a width too: cooldown_seconds has no upper bound, and its product with a
second wraps (`handler.go:446`). `asked` is what the operator posted, not what was
made of it. **Dashboard** follows one request and, per client, its stream, its
channel of capacity `ChanCap`, and the page's fetches; `FetchesInOrder` says
whether answers arrive in the order of the requests. The store's channels `notify`
and `updates` are shared with every other request, so a submission or a withdrawal
may find its channel full and be announced to nobody; `dropped` remembers that of
the last change. **Whitelist**, **Registries**, **Scripts** and **ClientRegistry** share a view
of `os.WriteFile`: it truncates and then writes, so a crash or an error in
between leaves a file that does not parse (`Torn`), which every loader refuses.

**Whitelist** has the number of copies of each rule: the code keeps a slice, `Load`
does not remove duplicates, `Add` adds none and `Remove` takes one copy away.
`limit` is what each answered and saved removal has left of its rule. `Relay`
keeps rules as a set, where taking one of two copies changes nothing.
**Scripts** has the check when a request is queued, and each file operation of its
execution. **ClientRegistry** has the relay and each client command as processes
that read the whole file, change it and write it back, at any time and beside each
other. `alone` holds the commands under way that no other process has overlapped,
and `firm` the tokens that such commands printed or revoked.

**Targets** adds tool calls to `Registries`. An `Ask` is a tool with the
arguments that name a target or a source; one operator per tool chooses among
them, refuses, and gives the route. `LookUp` is `Get`, `ChooseRoute` and `Build`
read the record's fields (one by one, for `Get` returns a pointer), `Probe` is
`fileExists` with its own lookup, `AddRequest` queues the command and the
reviewer's text. A command is the host, login, key file and shell it was built
from; quoting is left out.

**Credentials** has the environment as a sequence of entries (a variable can
occur twice, be empty, blank, padded or malformed), the re-exec that replaces the
plaintext by its digest and may fail, the checks of `main`, and then `Role`, what
each port makes of a bearer token. A token stands for its own hash.
`/proc/self/environ` is taken to be readable; see Observations.

**Executor** has os/exec's parts as they are used: the process, descendants that
inherit one of its pipes, the goroutine that copies into the `limitedWriter`, the watcher
that kills at the deadline, and the order in which `Run` reaps, takes the
watcher's error and waits for the pipe; the code then asks the context whether
the deadline has passed. **PipelineExecutor** puts `ExecuteHTTP`, the `form_file`
fetch (an `Executor` run) and `ExecutePipeline` on the same context. Responses
are of six kinds, among them an empty array and a null, which the guard against
empty input takes for one; a body that was cut does not parse.

## Runs

Passing runs:

| Run | Instance | Shows |
|---|---|---|
| `relay_decisions` | 1 request (a whitelisted command or a registry operation), 2 approvers, 1 agent token, the watcher, 3 kinds of result | `ExecutesAtMostOnce`, `AuthorizedConsent`, `WithdrawnNeverRuns`, `LogCallPrecedesRun`, `NoApprovalIsLost`, `GatedContentWithheld`, `NoEmptyGate`, `ResultIsFinal`, `StatusFollowsLife`, and the refinement `ImplementsGate` |
| `relay_rules` | 2 requests with 2 bodies under one script name, changing rules, channels of capacity 1, fairness | `AutoApprovedAsReviewed`, `WhitelistedIsDecided`, `ApprovedIsCarriedOut` |
| `submit_wait` | 1 call of either kind, cap of 6 intervals, get_result polling every 2, durations of 64 values, fairness | the answer is in time, honest, as long as asked for, and always comes |
| `dashboard` | 1 client, capacity 1, one lost connection, announcements the store drops, fairness | `QuietMeansTold`, `SettledFrameArrives`, `PageCatchesUp` |
| `web_state` | rules: 2 handlers, 3 rules, one of them twice and one gated in the first file, failed saves, crashes; or cooldown: 12 ticks, durations of 32 values, turbo of several lengths, two of which wrap | `FileMatchesRules`, `RemovalIsDurable`, `GatedRuleIsNotLoaded`; `ApprovalsAreSpaced`, `RetryAfterSuffices` |
| `scripts` | 3 requests, 3 kinds of body, 1 flat name and 2 paths, one of them taken | `RunsWhatWasReviewed`, `AcceptedScriptIsFound` |
| `targets` | 2 registry operations out of 6 registrations of 2 keys, 1 tool call out of 13, crashes and failed saves | `SuccessIsDurable`, `FieldsSurvive`, `TargetIsOneRecord`, `ProbeMirrorsWrite` |
| `credentials` | environments of up to 2 entries, 2 client names, 2 tokens, 2 commands that run beside each other, beside the relay or alone, failed saves, crashes | `ConfiguredGateIsUp`, `PlaintextIsGone`, `AgentsCannotDecide`, `RevokedTokenIsDead`, `PrintedTokenAccepted` |
| `executor` | a command, an HTTP request, a form file or any pipeline of up to 2 steps; output up to twice the limit, 2 descendants, timeouts around the default and the cap, fairness | `VerdictIsTrue`, `OutputIsAccounted`, `StepsAreEarned`, `RunReturns` |

Runs that find a difference between the code and what the repository says of it
(`findings` quotes the lines):

| Run | Property | What happens |
|---|---|---|
| `relay_denied` | `DeniedNeverExecutes` | a deny that began while the request was pending lands after an approval; the request is logged as denied and executes. The same late deny turns a withdrawn or complete request into a denied one, which `StatusMoves` therefore allows |
| `registry_restart` | `RevocationIsDurable` | a running relay does not hear of a revocation, and its next flush of last_seen_at undoes it for good |
| `scripts_collision` | `RunsItsOwnScript` | two create_then_run of one name are queued while it is free; both are approved, and one executes the other's body |

Conditions in the passing properties, each there because the program does not
keep the property without it. `RunsWhatWasReviewed` allows the body of another
approved create_then_run of the same name, since the name is checked only when a
request is queued (`tools.go:1604`); `scripts_collision` is the property without
that. `RevokedTokenIsDead` and `PrintedTokenAccepted` are about what commands that
were alone reported: a client added or revoked beside a running relay is lost to
the relay's next save (`clients.go:307`; `registry_restart` shows it of the
revocation). Once reported by a lone command, both hold whatever overlaps what
afterwards. `ApprovalsAreSpaced` exempts a turbo cooldown that does not fit a
Duration. The dashboard's properties are about news that is `Owed`: the client was
connected when the request changed, and the store did not drop the announcement.
Only submissions and withdrawals are announced through the store; approvals,
denials and executions are always owed. `LogCallPrecedesRun` is about the call of
`audit.Log`, not about the file.

Assumptions of the passing runs. `FetchesInOrder` in
`dashboard`: every frame starts a fetch of its own and `fetchRequests` shows
whichever answer arrives last, so answers out of order leave the page stale.
`PageCatchesUp` is about pages connected since before the last change:
`connectSSE` follows the first fetch and does not fetch on
reconnection, so a change in the gap is shown only at the next frame. Frames can
also arrive in another order than their reads, since `broadcastEvent` reads the
request before it takes `sseMu`; that is why the page must fetch, and the mutant
that trusts the frame's status breaks `PageCatchesUp`. `submit_wait` takes small
values of MHR_MAX_WAIT: `maxWaitFromEnv` multiplies before it compares, and an
enormous value overflows. `Cooldown` allows a turbo cooldown longer than the
configured one, as the handler does.

**Bounds.** One request is enough for races about a decision, because every
shared structure of the decision path is per request except the channels, the
cooldown and the rules; the channels and the rules get a second request in
`relay_rules`, where operators only change rules. Two operators and the watcher
give three concurrent deciders, one more than a race needs. Channels have
capacity 1 so that they overflow. `SubmitWait` needs a second of several
intervals (rounding), a cap of two seconds, and a width that makes small
products wrap. `Cooldown` has a base that is not a whole number of seconds
(rounding), a horizon that holds two approvals and a turbo, and posted values that
wrap to a negative and to a short cooldown. One rule twice in the file is what a
removal that takes one copy can be told by. Three script
requests give one that creates a script, one that is interrupted and one that
uses the outcome; in `targets` two registrations are enough to race one tool
call. The 13 calls are one or two of each tool, with the arguments that decide
between targets and those that are refused. Two environment entries are what it
takes for readers to disagree about a variable, or for token and digest to be
set together; two commands and the relay give three overlapping owners of the
client file. Pairs of entries are limited to the values that can interfere
(`Pairable`). Output can stop below, at and above the limit, and a copy of two
bytes can cross it; the first of two pipeline steps decides whether the second
is sent. `MaxTokens`, `MaxFetches`, `MaxCuts`, `LastArrival` and `Horizon` bound
counters and clocks. No run checks deadlock: every system may stop when its agents
and operators are done, and the clock of `Cooldown` stops at its horizon.

**Fairness.** Go runs every runnable goroutine, so each handler, tool call,
watcher and executing goroutine has weak fairness for its own steps. Agents,
operators, commands (`ExecFinish`) and connections owe nothing, with one
exception: a browser retries an EventSource it has lost. `submit_wait` adds that
time passes and that the timer and the ticker fire. `executor` assumes it of the
relay's goroutine, os/exec's watcher and copier, the clock, and the HTTP client,
which returns when its context ends. A command, its descendants and a server owe
nothing, so `RunReturns` is about runs whose pipe is let go: a descendant that
keeps it holds `Run` past the timeout, since no WaitDelay is set. That an
approval by an operator leads to a launch is the safety property
`NoApprovalIsLost`, with two operators and the watcher; `ApprovedIsCarriedOut`
follows the watcher's.

## Proofs

The theorems hold for every value of the constants that the `ASSUME`s of the
modules allow: any sets of requests, callers, names, keys, rules and arguments,
any capacities, timeouts, limits and clocks. Each is proved from an inductive
invariant of its module, because the properties themselves are not inductive.

| Module | Invariant | Theorems about properties |
|---|---|---|
| `RelayProofs` | `IInv`, `SInv` | `AtMostOneExecution`, `WithdrawalHolds`, `ConsentIsAuthorized`, `LogCallsPrecedeRuns`, `ApprovalsAreCarried`, `GatedIsWithheld`, `GatesAreNotEmpty`, `ResultsAreFinal`, `StatusIsFollowed`, `RelayImplementsGate`, `TypeCorrect`, `WatcherFollowsReview`, `AutoApprovalIsReviewed`, `WatcherPassesNobodyOver`, `TimelyDenialIsFinal` |
| `SubmitWaitProofs` | `SwInv` | `AnswersAreInTime`, `ExpiriesAreHonest`, `WaitsAreHonoured`, `CallsAreNotHeldLonger` |
| `WebProofs` | `DInv`, `CInv` | `NobodyIsForgotten`, `DashboardFollowsLife`; `RetryAfterHolds`, `SpacingHolds` |
| `WhitelistProofs` | `WInv` | `FileIsCurrent`, `RemovalHolds`, `GatedRulesStayOut` |
| `ScriptsProofs` | `ScInv` | `AcceptedIsFound`, `ReviewedIsRun` |
| `TargetsProofs` | `TInv` | `SuccessHolds`, `FieldsSurviveAlways`, `TargetsAreOneRecord`, `ProbesMirrorWrites` |
| `CredentialsProofs` | `CrInv` | `GateIsUp`, `NoPlaintextWhileServing`, `AgentsNeverDecide`, `RevokedStaysDead`, `PrintedIsAccepted` |
| `ExecutorProofs` | `EInv` | `VerdictsAreTrue`, `OutputsAreAccounted`, `StepsAreEarnedAlways`, `RunsLeaveNothing`, `NoRunIsStuck` |

**Relay, the decision.** A step that launches a request keeps `ExecutesAtMostOnce`
only if the launcher is the one process that approved it and has not launched it
before. `IInv` adds what that needs. `NamesAreStored`: goroutines name stored
requests. `DecidedOnce`: a pending request has been neither approved nor
withdrawn, and a withdrawn one is never approved. This is where the status check
inside `store.Approve` carries the argument, and the mutant that drops it breaks
all of these properties. `OneLauncher`: a process between its approval and its
`go` statement is the recorded approver of a request not yet launched, so two
such processes cannot hold one request. `OneGoroutine`: a request has at most one
goroutine, at one stage, and its result is stored exactly when that goroutine is
past its command. There is a lemma for each store operation ("…Effect": what it
changes and what it leaves) and one per action or group of like actions.

**Relay, the rest.** The other properties take a second invariant on top of
`IInv`. `SInv` adds that callers with a decision under way were authorized
(`DecidersAreAuthorized`), that calls of the log are ahead of the work (`LogIsAhead`), that
a request is where its approver or goroutine expects it, or denied by a late deny
(`StatusIsOnTrack`), and that gated output is gated, released or empty
(`GateIsKept`). Instead of one proof per action and conjunct, every action is
first shown to be a `RelayStep`, a relation that says what a step may do to each
part of the state together; the conjuncts, the action properties and the
refinement are then each proved from `RelayStep` once. `RelayImplementsGate` maps
initial states to initial states and each `RelayStep` to a step of `ApprovalGate`
or a stutter. `PlaceholderAssumption` says that no command prints exactly the text
a withheld result is shown as, so that a disclosure can be told from a placeholder.

**Relay, the watcher.** `GrantsAreReviewed` says of every rule an operator
added that its key was posted by hand or is still the key, with a command, of the
stored request it was taken from: a request's content never changes. With
`AuthorizedConsent`, which allows for rules that are removed between `Match` and
`Approve`, it gives `WatcherFollowsReview`: what the watcher approved has a key
from the file, a posted one, or the key of a request that an operator whitelisted.
There is no condition on that. `AutoApprovalIsReviewed` goes on from the key to the work, and there a
condition is needed: `whitelistKey` puts the name of a tool or an HTTP method
where a plain command has its command, so a command that is itself named
`create_script` shares keys with another kind of work, and the code does not
exclude it. `KeysTellWorkApart` says that the contents agents submit have no such
pair; the theorem reads `[](KeysTellWorkApart => AutoApprovedAsReviewed)`, and
`MCRelay` assumes it of its contents, so TLC evaluates it.
`WatcherPassesNobodyOver` is the other side: the channel and the watcher let go of
a pending request with a rule only when it is decided or its rule is removed.

**Relay, denials.** `DeniedNeverExecutes` is false (`relay_denied`).
`TimelyDenialIsFinal` proves what is left of it: a request that is denied before
anybody approved it is not executed by any later step, since `store.Approve`
refuses it and an execution that begins was launched by an approver
(`BegunWasLaunched`). Only a deny that lands after an approval is without effect.

**SubmitWait.** The argument is about one call. `CallFine` relates its handler to
the clock, to its request's status and to the time since which that is what it
waits for: a held handler has not passed its deadline except by a slow submission,
and get_result's last look is at most one interval old. Both survive the clock
because time passes only when no handler can move. Lemmas about `Wrap` and
`parseWait` show that a wait that is not above the cap cannot wrap. The third
theorem reads `[](NoOverflow => WaitIsHonoured)`: an MHR_MAX_WAIT whose product
exceeds a Duration makes the cap negative, and then no wait is honoured.
`CallsAreNotHeldLonger` bounds every call by its own wait, or a submission's own
time where that is longer: a handler's step keeps the call's arrival and wait, and
the clock stops for a handler whose time is up. It is what `EveryCallAnswered`
adds fairness to.

**Whitelist** and the registries rest on a lock: what a handler has encoded is
still in force when it is written (`SnapshotIsCurrent`), and one operation at a
time holds a registry (`OneHolder`). `RemovedFromFile` bounds the copies of a rule
in memory and in the file by what the last answered removal left, so that neither
a restart nor another handler's save brings one back. `FileKeepsPromise` says of the file what
`SuccessIsDurable` says of the map; a restart turns one into the other.
**Targets.** A call carries its sides, lookups, routes and probes in step, and
every route was made from one lookup, whatever the registries do in between.
**Scripts.** Nothing removes a script, so a lookup has its script still ahead of
it. From the collision check on, only a create_then_run and its approved rivals
write to its name, since create_script's names are flat (`ReviewedOnly`); so
`ReviewedIsRun` needs no condition on what is queued.

**Credentials.** `ValueSurvives`: an approver value in the environment given is,
up to hashing, in the block that `main` reads, through re-execs and their failures. `Sound` is
what holds of every copy of the client registry that may be written back, and of
the file: live tokens are usable, dead ones are not, tokens are unique and were
minted; and that the live ones include all that a lone -client-add printed, and the
dead ones all that a lone -client-revoke reported. While a command is alone there
is no other copy of the file (`LoneAreQuiet`), so what it writes is the only copy
there is, and every later one descends from it. All five theorems hold with any
commands running at any time.

**Executor.** A run returns from a pipe that is empty and that nobody can write to
(`PipeIsQuiet`), with an error that still describes the process (`ErrIsTrue`);
`LimitedWriteIsExact` shows that the buffer depends on the bytes and not on how
they were cut into writes. For pipelines, sends and responses stay in step.
`WatchIsTrue` adds os/exec's watcher: it is armed until the process is reaped or
it fires, and a process it fired at is not running. From it follow that a reported
run leaves no process and no pipe behind, and that past its timeout a run always
has a step of the relay to take unless a descendant holds its pipe: `RunReturns`
without the fairness.
**Dashboard.** The invariant says who carries the news. `ClientIsLed`: for a
client that is owed the news of a settled request and has not heard, a frame with that status
is in its channel, is held by a broadcaster, or a broadcaster has yet to read the
request; or a frame was dropped for it. `PageIsLed`: a page that is owed the news and shows an
old status has a frame (any frame, since every one starts a fetch) or a broadcast to
come, or its last fetch will be answered with the status; a channel drops a frame
only when it is full of others. `LifeIsOnTrack` ties the broadcasters to the request's
status. `QuietMeansTold` follows: nothing on its way means nobody behind who is
owed the news, and fairness then gives the two liveness properties. A drop by the
store ends the debt, and the next change that is broadcast begins a new one.

**Cooldown.** The turbo in force is the one last posted, provided it fits a
Duration, and it ends when it was asked to in any case; a refused caller was told a
time that covers the cooldown it met, rounded up to whole seconds.

Only model-checked:

- liveness (`WhitelistedIsDecided`, `ApprovedIsCarriedOut`, `EveryCallAnswered`,
  `RunReturns`, `SettledFrameArrives`, `PageCatchesUp`): the proof system does not
  handle fairness. What they rest on is proved where it is a safety property:
  `WatcherPassesNobodyOver`, `ApprovalsAreCarried`, `CallsAreNotHeldLonger`,
  `NoRunIsStuck`, `NobodyIsForgotten`;
- `DeniedNeverExecutes`, `RevocationIsDurable` and `RunsItsOwnScript`, which are
  false (see Runs).

The types of the variables are part of each invariant; no run lists a `TypeOK`,
since the other properties are what could go wrong.

## Not modelled

The text of command lines (shell and PowerShell quoting, modes, paths, content
decoding), JSON-RPC and HTTP parsing, CSRF's comparison of origins and the content
security policy: pure functions on strings, for which the repository's table
tests are the better instrument. Expansion of pipeline variables and headers, for
the same reason. Rendering and sorting of the page: `sortRequests` is an order of
display that nothing else reads. Reading ports, directories and other settings;
`reexec_other.go`, which does nothing. Runbooks, deployment files and test
helpers hold no behaviour of the program. The `note` of each component and hazard
gives the reasons.

## Observations

Met while modelling; the models follow the code in each case.

- `write_file` refuses a call without a target ("no longer defaults to the host",
  `tools.go:2279`), but with a `source_path` it is handed on before that check:
  `writeFileFromSource` ignores `machine` and takes the Proxmox host when neither
  ctid nor host is given (`tools.go:1834`).
- `maxWaitFromEnv` overflows for an enormous MHR_MAX_WAIT (`submit_wait.go:97`).
- An MHR_APPROVER_TOKEN with spaces around it is hashed as it stands, while a
  bearer token arrives trimmed: the gate is up and nobody can open it.
- `get_result` takes any timeout, without the cap of submit-and-wait, and does not
  notice that its client has gone.
- The errors of `io.Copy` from a response are dropped (`http.go:159`,
  `pipeline.go:174`), so a body cut short counts as received; in a pipeline an
  extraction then fails, which is what `StepsAreEarned` rests on.
- The direct route of `install_ssh_key` passes `sh -c` and the script as separate
  ssh arguments (`tools.go:2553`), which ssh joins with spaces: the remote shell's
  `sh -c` gets `mkdir` alone.
- The whitelist's POST handler answers success when the save has failed (`handler.go:786`).
- A rule that a hand-written file holds twice stays in force after it has been
  removed once (`whitelist.go:95`).
- A cooldown_seconds above about 9.2e9 overflows to a negative or a short cooldown
  (`handler.go:446`).
- `audit.Log` drops the errors of encoding and writing (`audit.go:40`), so an
  execution can be missing from the log.
- When `notify` or `updates` is full the dashboard is not told of a submission or
  a withdrawal (`store.go:130`, `store.go:340`) until something else makes it fetch.
- `-client-add` beside a running relay, as the repository's README shows it, is
  undone by the relay's next save of last_seen_at (`clients.go:307`); the printed
  token works only if the relay is restarted before that.
- Without a readable `/proc/self/environ` the approver variables are read from
  `os.Environ` (`approver_env.go:20`), where of two entries only one is seen.
- JSON null passes the pipeline's guard against empty input as an empty array does
  (`pipeline.go:187`).
- `Run` also waits for the goroutine that copies a command's stdin
  (`executor.go:88`), so a descendant that keeps stdin open, and does not read,
  holds it as one that keeps the output pipe does.

## Plan

Done: the core (`RequestStore`, `Relay` and the gate), the parts around it, the
executors, startup and credentials, the tools with targets and get_result; then
every safety property that the passing runs check as a theorem, the refinement,
and the safety part of the liveness properties.

Left, and not worth more modules today: the page's gap between its first fetch and
its stream (`index.html:1531`) and answers out of order (`index.html:1238`), for
which the page would have to change before there is something to prove; an
MHR_MAX_WAIT that overflows (`submit_wait.go:97`), a turbo cooldown that does
(`handler.go:446`) and announcements that the store drops, likewise.
