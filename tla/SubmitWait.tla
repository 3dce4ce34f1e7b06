----------------------------- MODULE SubmitWait -----------------------------
(***************************************************************************)
(* Submit-and-wait on an MCP session (mcp/submit_wait.go, mcp/server.go).  *)
(* A POST to /message carries a tool call; with wait > 0 the handler holds *)
(* the call until its request settles, the wait runs out or the client is  *)
(* gone, and puts the reply on the channel of the client's SSE stream.     *)
(* get_result (mcp/tools.go) polls for a decision in the same handler, on  *)
(* a slower ticker, without a cap and without an eye on the client.        *)
(*                                                                         *)
(* Time advances in steps of one poll interval.  Handlers are quick next   *)
(* to it: time stands still while a handler can move, except that a        *)
(* submission may itself take up to SubmitTime (write_file probes its      *)
(* target over SSH first).  A Duration is a signed machine integer of      *)
(* 2 * Half values, so arithmetic on it wraps.                             *)
(*                                                                         *)
(* What happens to the requests is StatusLife's moves, which Relay obeys.  *)
(***************************************************************************)
EXTENDS Integers, Sequences, StatusLife

CONSTANTS
  Calls,          \* tool calls; each submits or reads one request
  Sessions,       \* SSE streams
  Second,         \* a second, in poll intervals
  MaxSubmitWait,  \* the built-in cap on wait
  Half,           \* durations range over -Half .. Half - 1
  WaitArgs,       \* the values agents pass as wait
  GetTimeouts,    \* the values they pass as get_result's timeout
  GetPoll,        \* get_result's poll interval
  EnvWaits,       \* values of MHR_MAX_WAIT; 0 stands for unset or not a number
  SubmitTime,     \* how long a submission can take
  LastArrival,    \* bound: no call arrives later
  ChanCap         \* capacity of a session's channel

ASSUME SubmitWaitAssumption ==
  /\ Sessions # {}
  /\ Second \in Nat \ {0}
  /\ MaxSubmitWait \in Nat /\ MaxSubmitWait >= Second
  /\ Half \in Nat /\ MaxSubmitWait < Half
  /\ WaitArgs \subseteq -Half .. Half - 1
  /\ EnvWaits \subseteq -Half .. Half - 1
  /\ GetTimeouts \subseteq -Half .. Half - 1
  /\ GetPoll \in Nat \ {0}
  /\ SubmitTime \in Nat /\ LastArrival \in Nat
  /\ ChanCap \in Nat \ {0}

VARIABLES
  now,
  env,        \* MHR_MAX_WAIT
  maxWait,    \* the cap in force, fixed at startup
  stream,     \* per session: its SSE handler
  chan,       \* per session: the replies it has still to send
  call,       \* per call: its handler
  status,     \* per call: the status of the request it queued or reads
  since,      \* history: since when that is what the call waits for
  gone        \* calls whose POST connection has dropped

vars == <<now, env, maxWait, stream, chan, call, status, since, gone>>

None == -1

Larger(a, b)  == IF a > b THEN a ELSE b
Smaller(a, b) == IF a < b THEN a ELSE b

Horizon == LastArrival + Larger(MaxSubmitWait, SubmitTime)

(* Duration arithmetic: two's complement, and division towards zero.       *)
Wrap(d)    == ((d + Half) % (2 * Half)) - Half
Seconds(d) == IF d >= 0 THEN d \div Second ELSE -((-d) \div Second)

(* Bound: no get_result outlasts the model's time.                         *)
ASSUME HorizonAssumption ==
  \A secs \in GetTimeouts : Wrap(secs * Second) <= MaxSubmitWait

maxWaitFromEnv(secs) ==
  IF secs <= 0 THEN MaxSubmitWait ELSE Smaller(Wrap(secs * Second), MaxSubmitWait)

(* Mutant: multiply, then clamp.                                           *)
parseWaitWraps(secs) == Smaller(Wrap(secs * Second), maxWait)

parseWait(secs) ==
  IF secs > Seconds(maxWait) THEN maxWait ELSE Wrap(secs * Second)

-----------------------------------------------------------------------------
Pc      == {"idle", "submit", "poll", "select", "final", "get", "getwait", "reply",
            "done"}
Replies == {"none", "error", "submitted", "settled", "expired", "pending", "decided"}

(* submitted, polled and replied are the times of those steps.             *)
TypeOK ==
  /\ now \in 0 .. Horizon
  /\ env \in EnvWaits
  /\ maxWait \in -Half .. MaxSubmitWait
  /\ stream \in [Sessions -> {"none", "open", "ending", "ended"}]
  /\ chan \in [Sessions -> Seq(Calls)]
  /\ call \in [Calls -> [pc : Pc, gets : BOOLEAN, session : Sessions,
                         secs : WaitArgs \cup GetTimeouts \cup {0},
                         wait : -Half .. MaxSubmitWait, reply : Replies,
                         arrived : 0 .. Horizon, submitted : 0 .. Horizon,
                         polled : 0 .. Horizon, replied : 0 .. Horizon]]
  /\ status \in [Calls -> Status \cup {"absent"}]
  /\ since \in [Calls -> 0 .. Horizon \cup {None}]
  /\ gone \subseteq Calls

Idle == [pc |-> "idle", gets |-> FALSE, session |-> CHOOSE s \in Sessions : TRUE,
         secs |-> 0,
         wait |-> 0, reply |-> "none", arrived |-> 0, submitted |-> 0,
         polled |-> 0, replied |-> 0]

Init ==
  /\ now = 0
  /\ env \in EnvWaits
  /\ maxWait = maxWaitFromEnv(env)
  /\ stream = [s \in Sessions |-> "none"]
  /\ chan = [s \in Sessions |-> <<>>]
  /\ call = [k \in Calls |-> Idle]
  /\ status = [k \in Calls |-> "absent"]
  /\ since = [k \in Calls |-> None]
  /\ gone = {}

-----------------------------------------------------------------------------
(***************************************************************************)
(* handleSSE.  The stream's context ends before the session is deleted.    *)
(***************************************************************************)
Move(s, from, to) ==
  /\ stream[s] = from
  /\ stream' = [stream EXCEPT ![s] = to]
  /\ UNCHANGED <<now, env, maxWait, chan, call, status, since, gone>>

OpenStream(s)    == Move(s, "none", "open")
StreamBreaks(s)  == Move(s, "open", "ending")
DeleteSession(s) == Move(s, "ending", "ended")

SendMessage(s) ==
  /\ stream[s] = "open"
  /\ chan[s] # <<>>
  /\ chan' = [chan EXCEPT ![s] = Tail(@)]
  /\ UNCHANGED <<now, env, maxWait, stream, call, status, since, gone>>

(***************************************************************************)
(* handleMessage and HandleContext.  A wait that is not a number or is     *)
(* negative is refused before anything is queued.                          *)
(***************************************************************************)
Message(k, s, secs) ==
  /\ call[k].pc = "idle"
  /\ now <= LastArrival
  /\ stream[s] \in {"open", "ending"}
  /\ call' = [call EXCEPT ![k] = [Idle EXCEPT
                !.session = s, !.secs = secs, !.arrived = now,
                !.wait = IF secs < 0 THEN 0 ELSE parseWait(secs),
                !.pc = IF secs < 0 THEN "reply" ELSE "submit",
                !.reply = IF secs < 0 THEN "error" ELSE "none",
                !.replied = IF secs < 0 THEN now ELSE 0]]
  /\ UNCHANGED <<now, env, maxWait, stream, chan, status, since, gone>>

Answer(k, reply) ==
  call' = [call EXCEPT ![k].pc = "reply", ![k].reply = reply, ![k].replied = now]

(* dispatchTool queues a request, ...                                      *)
SubmitRequest(k) ==
  /\ call[k].pc = "submit"
  /\ status' = [status EXCEPT ![k] = "pending"]
  /\ call' = [call EXCEPT ![k] =
                IF @.wait <= 0
                THEN [@ EXCEPT !.pc = "reply", !.reply = "submitted",
                               !.submitted = now, !.replied = now]
                ELSE [@ EXCEPT !.pc = "poll", !.submitted = now]]
  /\ UNCHANGED <<now, env, maxWait, stream, chan, since, gone>>

(* ... or refuses its arguments, and queues nothing.                       *)
SubmitFails(k) ==
  /\ call[k].pc = "submit"
  /\ Answer(k, "error")
  /\ UNCHANGED <<now, env, maxWait, stream, chan, status, since, gone>>

(***************************************************************************)
(* awaitSettled: read the request, then select on the client's context,    *)
(* the timer and the ticker.                                               *)
(***************************************************************************)
Poll(k) ==
  /\ call[k].pc = "poll"
  /\ IF settled(status[k]) THEN Answer(k, "settled")
     ELSE call' = [call EXCEPT ![k].pc = "select", ![k].polled = now]
  /\ UNCHANGED <<now, env, maxWait, stream, chan, status, since, gone>>

ClientGone(k) == k \in gone \/ stream[call[k].session] # "open"

Cancelled(k) ==
  /\ call[k].pc = "select"
  /\ ClientGone(k)
  /\ Answer(k, "submitted")
  /\ UNCHANGED <<now, env, maxWait, stream, chan, status, since, gone>>

(* Mutant: the wait counts from the end of the submission.                 *)
DeadlineFromSubmit(k) == call[k].submitted + call[k].wait

Deadline(k) == call[k].arrived + call[k].wait

TimerFires(k) ==
  /\ call[k].pc = "select"
  /\ now >= Deadline(k)
  /\ call' = [call EXCEPT ![k].pc = "final"]
  /\ UNCHANGED <<now, env, maxWait, stream, chan, status, since, gone>>

(* Mutants: no second look at the request; the loop goes round again.      *)
FinalReadSkipped(k) ==
  /\ call[k].pc = "final"
  /\ Answer(k, "expired")
  /\ UNCHANGED <<now, env, maxWait, stream, chan, status, since, gone>>
FinalReadLoops(k) ==
  /\ call[k].pc = "final"
  /\ IF settled(status[k]) THEN Answer(k, "settled")
     ELSE call' = [call EXCEPT ![k].pc = "poll"]
  /\ UNCHANGED <<now, env, maxWait, stream, chan, status, since, gone>>

FinalRead(k) ==
  /\ call[k].pc = "final"
  /\ Answer(k, IF settled(status[k]) THEN "settled" ELSE "expired")
  /\ UNCHANGED <<now, env, maxWait, stream, chan, status, since, gone>>

TickerFires(k) ==
  /\ call[k].pc = "select"
  /\ now > call[k].polled
  /\ call' = [call EXCEPT ![k].pc = "poll"]
  /\ UNCHANGED <<now, env, maxWait, stream, chan, status, since, gone>>

(***************************************************************************)
(* getResult, about a request that an earlier call queued and that may     *)
(* have got anywhere by now.                                               *)
(***************************************************************************)
GetResult(k, s, secs) ==
  /\ call[k].pc = "idle"
  /\ now <= LastArrival
  /\ stream[s] \in {"open", "ending"}
  /\ \E st \in Status :
       /\ status' = [status EXCEPT ![k] = st]
       /\ since' = [since EXCEPT ![k] = IF st = "pending" THEN None ELSE now]
  /\ call' = [call EXCEPT ![k] = [Idle EXCEPT
                !.session = s, !.secs = secs, !.arrived = now,
                !.wait = IF secs > 0 THEN Wrap(secs * Second) ELSE 0,
                !.gets = TRUE, !.pc = "get"]]
  /\ UNCHANGED <<now, env, maxWait, stream, chan, gone>>

GetPolls(k) ==
  /\ call[k].pc = "get"
  /\ IF status[k] = "pending" /\ call[k].secs > 0
     THEN call' = [call EXCEPT ![k].pc = "getwait", ![k].polled = now]
     ELSE Answer(k, IF status[k] = "pending" THEN "pending" ELSE "decided")
  /\ UNCHANGED <<now, env, maxWait, stream, chan, status, since, gone>>

(* time.After and the ticker.  The deadline's branch answers with the copy *)
(* that was read last.                                                     *)
GetExpired(k) == now >= call[k].arrived + call[k].wait
GetTicked(k)  == now >= call[k].polled + GetPoll

GetDeadline(k) ==
  /\ call[k].pc = "getwait"
  /\ GetExpired(k)
  /\ Answer(k, "pending")
  /\ UNCHANGED <<now, env, maxWait, stream, chan, status, since, gone>>

GetTicker(k) ==
  /\ call[k].pc = "getwait"
  /\ GetTicked(k)
  /\ call' = [call EXCEPT ![k].pc = "get"]
  /\ UNCHANGED <<now, env, maxWait, stream, chan, status, since, gone>>

(* The reply is dropped when the channel is full, and sent to nobody when  *)
(* the stream has ended.                                                   *)
SendReply(k) ==
  /\ call[k].pc = "reply"
  /\ call' = [call EXCEPT ![k].pc = "done"]
  /\ chan' = [chan EXCEPT ![call[k].session] =
                IF Len(@) < ChanCap THEN Append(@, k) ELSE @]
  /\ UNCHANGED <<now, env, maxWait, stream, status, since, gone>>

(***************************************************************************)
(* The rest of the world.                                                  *)
(***************************************************************************)
DropPost(k) ==
  /\ call[k].pc \notin {"idle", "done"}
  /\ k \notin gone
  /\ gone' = gone \cup {k}
  /\ UNCHANGED <<now, env, maxWait, stream, chan, call, status, since>>

(* A held submission waits for its request to settle, get_result for it to *)
(* be decided.                                                             *)
Awaited(k, s) == IF call[k].gets THEN s # "pending" ELSE settled(s)

StatusChanges(k) ==
  \E s \in Status :
    /\ <<status[k], s>> \in StatusMoves
    /\ status' = [status EXCEPT ![k] = s]
    /\ since' = [since EXCEPT ![k] =
                   IF ~Awaited(k, s) THEN None
                   ELSE IF Awaited(k, status[k]) THEN @ ELSE now]
    /\ UNCHANGED <<now, env, maxWait, stream, chan, call, gone>>

(* A handler that has something to do other than wait.                     *)
Busy(k) ==
  \/ call[k].pc \in {"poll", "final", "get", "reply"}
  \/ call[k].pc = "getwait" /\ (GetExpired(k) \/ GetTicked(k))
  \/ call[k].pc = "submit" /\ now >= call[k].arrived + SubmitTime
  \/ /\ call[k].pc = "select"
     /\ ClientGone(k) \/ now >= Deadline(k) \/ now > call[k].polled

Tick ==
  /\ now < Horizon
  /\ \A k \in Calls : ~Busy(k)
  /\ now' = now + 1
  /\ UNCHANGED <<env, maxWait, stream, chan, call, status, since, gone>>

-----------------------------------------------------------------------------
Stream(s) == OpenStream(s) \/ StreamBreaks(s) \/ DeleteSession(s) \/ SendMessage(s)

Handler(k) ==
  \/ SubmitRequest(k) \/ SubmitFails(k)
  \/ Poll(k) \/ Cancelled(k) \/ TimerFires(k) \/ FinalRead(k) \/ TickerFires(k)
  \/ GetPolls(k) \/ GetDeadline(k) \/ GetTicker(k)
  \/ SendReply(k)

Next ==
  \/ Tick
  \/ \E s \in Sessions : Stream(s)
  \/ \E k \in Calls : Handler(k) \/ DropPost(k) \/ StatusChanges(k)
  \/ \E k \in Calls, s \in Sessions :
       \/ \E secs \in WaitArgs : Message(k, s, secs)
       \/ \E secs \in GetTimeouts : GetResult(k, s, secs)

Spec == Init /\ [][Next]_vars

(* Goroutines run, and time passes.                                        *)
FairSpec == Spec /\ WF_vars(Tick) /\ \A k \in Calls : WF_vars(Handler(k))

-----------------------------------------------------------------------------
Answered(k) == call[k].pc \in {"reply", "done"}

(* The reply leaves by the cap counted from the call's arrival, or as soon *)
(* as the submission is over if that took longer: the time spent           *)
(* submitting comes out of the wait (HandleContext).                       *)
AnsweredInTime ==
  \A k \in Calls :
    Answered(k) /\ call[k].reply \in {"submitted", "settled", "expired"} =>
    call[k].replied <= Larger(call[k].arrived + MaxSubmitWait, call[k].submitted)

(* An answer that the time ran out is true.  A held call is told so only   *)
(* if its request had not settled by then: one that settles between the    *)
(* last poll and the deadline is reported (awaitSettled's second read).    *)
(* get_result says "pending" only when its timeout has passed and of a     *)
(* request that was pending one of its poll intervals ago.                 *)
ExpiryIsHonest ==
  \A k \in Calls :
    /\ Answered(k) /\ call[k].reply = "expired" =>
         since[k] = None \/ since[k] >= call[k].arrived + call[k].wait
    /\ Answered(k) /\ call[k].reply = "pending" =>
         /\ call[k].replied >= call[k].arrived + call[k].wait
         /\ since[k] = None \/ call[k].replied <= since[k] + GetPoll

(* Every positive wait, however large, is honoured: the plain pending      *)
(* response comes back early only to a client that has gone away           *)
(* (parseWait, "the product overflows time.Duration and wraps negative").  *)
WaitIsHonoured ==
  \A k \in Calls : Answered(k) /\ call[k].reply = "submitted" =>
    call[k].secs = 0 \/ ClientGone(k)

(* No handler is still at work on a call when the call's wait is over, or  *)
(* a submission's own time where that is longer: a timer that races the    *)
(* ticker, a stream that breaks or a status that keeps changing cannot     *)
(* hold the call any longer.                                               *)
NoCallIsHeldLonger ==
  \A k \in Calls : call[k].pc \notin {"idle", "done"} =>
    now <= call[k].arrived + Larger(call[k].wait, IF call[k].gets THEN 0 ELSE SubmitTime)

(* No call is held for ever, whatever becomes of its request, its POST or  *)
(* its stream.                                                             *)
EveryCallAnswered == \A k \in Calls : call[k].pc # "idle" ~> call[k].pc = "done"

=============================================================================
