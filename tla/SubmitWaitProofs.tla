-------------------------- MODULE SubmitWaitProofs --------------------------
(***************************************************************************)
(* Proofs about SubmitWait, for every set of calls and sessions and every  *)
(* length of a second, cap, width of a duration, argument and interval.    *)
(*                                                                         *)
(* The argument is about one call at a time.  CallFine relates the call's  *)
(* handler to the clock, to the status of its request and to the time      *)
(* since which that status is what the call waits for; every step of       *)
(* anybody, the clock's included, keeps it.                                *)
(***************************************************************************)
EXTENDS SubmitWait, TLAPS

-----------------------------------------------------------------------------
(***************************************************************************)
(* Durations.                                                              *)
(***************************************************************************)

(* The constants are integers.                                             *)
LEMMA ConstantsAreInts ==
  /\ Second \in Nat /\ Second > 0 /\ MaxSubmitWait \in Nat /\ Half \in Nat
  /\ MaxSubmitWait < Half /\ GetPoll \in Nat /\ GetPoll > 0 /\ Second <= MaxSubmitWait
  /\ SubmitTime \in Nat /\ LastArrival \in Nat /\ Horizon \in Nat
  /\ WaitArgs \subseteq Int /\ EnvWaits \subseteq Int /\ GetTimeouts \subseteq Int
BY SubmitWaitAssumption DEF Horizon, Larger

(* A product is a duration again.                                          *)
LEMMA WrapType ==
  ASSUME NEW d \in Int
  PROVE  Wrap(d) \in -Half .. Half - 1
<1>1. Half \in Nat /\ Half > 0
  BY ConstantsAreInts
<1>2. PICK m \in Int : m = 2 * Half /\ m > 0
  BY <1>1
<1>3. PICK e \in Int : e = d + Half
  BY <1>1
<1>4. e % m \in 0 .. m - 1
  BY <1>2, <1>3
<1> QED BY <1>1, <1>2, <1>3, <1>4 DEF Wrap

(* What fits is not changed.                                               *)
LEMMA WrapFits ==
  ASSUME NEW d \in 0 .. MaxSubmitWait
  PROVE  Wrap(d) = d
<1>1. Half \in Nat /\ MaxSubmitWait \in Nat /\ MaxSubmitWait < Half
  BY ConstantsAreInts
<1>2. PICK m \in Int : m = 2 * Half /\ m > 0
  BY <1>1
<1>3. PICK e \in Int : e = d + Half /\ 0 <= e /\ e < m
  BY <1>1, <1>2
<1>4. e % m = e
  BY <1>2, <1>3
<1> QED BY <1>1, <1>2, <1>3, <1>4 DEF Wrap

(* Whole seconds within a duration.                                        *)
LEMMA SecondsFit ==
  ASSUME NEW max \in Nat, NEW secs \in Nat, secs <= max \div Second
  PROVE  secs * Second \in 0 .. max
<1>1. Second \in Nat /\ Second > 0
  BY ConstantsAreInts
<1>2. PICK q \in Nat : q = max \div Second
  BY <1>1
<1>3. q * Second <= max
  BY <1>1, <1>2
<1>4. secs * Second <= q * Second
  BY <1>1, <1>2
<1>5. secs * Second \in Nat
  BY <1>1
<1> QED BY <1>1, <1>2, <1>3, <1>4, <1>5

(* The cap is at most the built-in one; only an overflow makes it negative.*)
LEMMA CapType ==
  ASSUME NEW secs \in EnvWaits
  PROVE  maxWaitFromEnv(secs) \in -Half .. MaxSubmitWait
<1>1. secs * Second \in Int
  BY ConstantsAreInts
<1>2. Wrap(secs * Second) \in -Half .. Half - 1
  BY <1>1, WrapType
<1> QED BY <1>2, ConstantsAreInts DEF maxWaitFromEnv, Smaller

(* parseWait: at most the cap, and a wait is not lost on the way to it.    *)
LEMMA ParseWaitFits ==
  ASSUME maxWait \in -Half .. MaxSubmitWait, NEW secs \in Int, secs >= 0
  PROVE  /\ parseWait(secs) \in -Half .. MaxSubmitWait
         /\ maxWait > 0 /\ secs > 0 => parseWait(secs) > 0
<1>1. CASE secs > Seconds(maxWait)
  BY <1>1, ConstantsAreInts DEF parseWait
<1>2. CASE ~(secs > Seconds(maxWait)) /\ maxWait >= 0
  <2>1. Seconds(maxWait) = maxWait \div Second /\ maxWait \div Second \in Int /\ maxWait \in Nat
    BY <1>2, ConstantsAreInts DEF Seconds
  <2>2. secs \in Nat /\ secs <= maxWait \div Second
    BY <1>2, <2>1
  <2>3. secs * Second \in 0 .. maxWait
    BY <2>1, <2>2, SecondsFit
  <2>4. Wrap(secs * Second) = secs * Second
    BY <2>1, <2>3, ConstantsAreInts, WrapFits
  <2>5. secs > 0 => secs * Second > 0
    BY <2>2, ConstantsAreInts
  <2>6. parseWait(secs) = secs * Second
    BY <1>2, <2>4 DEF parseWait
  <2> QED BY <2>1, <2>3, <2>5, <2>6, ConstantsAreInts
<1>3. CASE ~(secs > Seconds(maxWait)) /\ maxWait < 0
  <2>1. PICK q \in Nat : q = (-maxWait) \div Second
    BY <1>3, ConstantsAreInts
  <2>2. Seconds(maxWait) = -q
    BY <1>3, <2>1, ConstantsAreInts DEF Seconds
  <2>3. secs = 0
    BY <1>3, <2>1, <2>2
  <2>4. secs * Second = 0
    BY <2>3, ConstantsAreInts
  <2>5. parseWait(secs) = 0
    BY <1>3, <2>4, ConstantsAreInts, WrapFits DEF parseWait
  <2> QED BY <1>3, <2>5, ConstantsAreInts
<1>4. Seconds(maxWait) \in Int
  BY ConstantsAreInts DEF Seconds
<1> QED BY <1>1, <1>2, <1>3, ConstantsAreInts

-----------------------------------------------------------------------------
(***************************************************************************)
(* The inductive invariant.                                                *)
(***************************************************************************)
Time  == 0 .. Horizon
Waits == -Half .. MaxSubmitWait
Secs  == WaitArgs \cup GetTimeouts \cup {0}

CallRecord ==
  [pc : Pc, gets : BOOLEAN, session : Sessions, secs : Secs, wait : Waits, reply : Replies,
   arrived : Time, submitted : Time, polled : Time, replied : Time]

Held(k)    == k.pc \in {"poll", "select", "final"}
Getting(k) == k.pc \in {"get", "getwait"}
Told(k)    == k.pc \in {"reply", "done"}

(* The clock has not passed what the handler saw.                          *)
TimesArePast(k, at, t) ==
  /\ k.arrived <= t /\ k.submitted <= t /\ k.polled <= t /\ k.replied <= t
  /\ at # None => at <= t

(* Submissions and reads are different handlers; one that has not read its *)
(* request has nothing to wait for.                                        *)
HandlersDiffer(k, st, at) ==
  /\ k.pc \in {"idle", "submit"} => st = "absent" /\ at = None
  /\ k.pc = "submit" \/ Held(k) => ~k.gets
  /\ Getting(k) => k.gets

(* awaitSettled: the deadline is not passed, or only by the submission.    *)
HeldIsInTime(k, st, at, t) ==
  /\ Held(k) => /\ t <= Larger(k.arrived + k.wait, k.submitted)
                /\ ~settled(st) => at = None
  /\ k.pc = "final" => t >= k.arrived + k.wait

(* getResult: the last look at the request is at most one interval old.    *)
GetIsRecent(k, st, at, t) ==
  /\ Getting(k) => /\ k.secs <= 0 => k.wait = 0
                   /\ st = "pending" => at = None
  /\ k.pc = "getwait" => t <= k.polled + GetPoll /\ (at = None \/ at >= k.polled)

(* What was answered, and when.                                            *)
AnswerIsTrue(k, at) ==
  /\ Told(k) /\ k.reply \in {"submitted", "settled", "expired"} =>
       k.replied <= Larger(k.arrived + MaxSubmitWait, k.submitted)
  /\ Told(k) /\ k.reply = "expired" =>
       /\ k.replied >= k.arrived + k.wait
       /\ at = None \/ at >= k.arrived + k.wait
  /\ Told(k) /\ k.reply = "pending" =>
       /\ k.replied >= k.arrived + k.wait
       /\ at = None \/ k.replied <= at + GetPoll

CallFine(k, st, at, t) ==
  /\ TimesArePast(k, at, t)
  /\ HandlersDiffer(k, st, at)
  /\ HeldIsInTime(k, st, at, t)
  /\ GetIsRecent(k, st, at, t)
  /\ AnswerIsTrue(k, at)

(* A call's fields have their types.                                       *)
LEMMA CallTypes ==
  ASSUME NEW k \in CallRecord
  PROVE  /\ k.pc \in Pc /\ k.session \in Sessions /\ k.secs \in Int /\ k.wait \in Int
         /\ k.wait <= MaxSubmitWait /\ k.reply \in Replies
         /\ k.arrived \in Int /\ k.submitted \in Int /\ k.polled \in Int /\ k.replied \in Int
<1>1. /\ k.pc \in Pc /\ k.session \in Sessions /\ k.secs \in Secs /\ k.wait \in Waits
      /\ k.reply \in Replies /\ k.arrived \in Time /\ k.submitted \in Time
      /\ k.polled \in Time /\ k.replied \in Time
  BY DEF CallRecord
<1>2. Secs \subseteq Int /\ Time \subseteq Int
  BY ConstantsAreInts DEF Secs, Time
<1>3. \A w \in Waits : w \in Int /\ w <= MaxSubmitWait
  BY ConstantsAreInts DEF Waits
<1> QED BY <1>1, <1>2, <1>3

(* Nothing has happened yet.                                               *)
LEMMA IdleFine ==
  ASSUME NEW t \in Time
  PROVE  Idle \in CallRecord /\ CallFine(Idle, "absent", None, t)
<1>1. (CHOOSE s \in Sessions : TRUE) \in Sessions
  BY SubmitWaitAssumption
<1>2. 0 \in Secs /\ 0 \in Waits /\ 0 \in Time
  BY ConstantsAreInts DEF Secs, Waits, Time
<1>3. FALSE \in BOOLEAN
  OBVIOUS
<1>4. Idle \in CallRecord
  BY <1>1, <1>2, <1>3 DEF Idle, CallRecord, Pc, Replies
<1>5. /\ Idle.pc = "idle" /\ Idle.arrived = 0 /\ Idle.submitted = 0 /\ Idle.polled = 0
      /\ Idle.replied = 0
  BY DEF Idle
<1>6. t \in Int /\ t >= 0
  BY ConstantsAreInts DEF Time
<1> QED BY <1>4, <1>5, <1>6
        DEF CallFine, TimesArePast, HandlersDiffer, HeldIsInTime, GetIsRecent, AnswerIsTrue,
            Held, Getting, Told

-----------------------------------------------------------------------------
(***************************************************************************)
(* What the steps do to one call k, at time t, whose request has status st *)
(* and is awaited since at (None: not yet).                                *)
(***************************************************************************)

(* A tool call arrives; a negative wait is an error.                       *)
LEMMA MessageFine ==
  ASSUME NEW t \in Time, NEW s \in Sessions, NEW secs \in WaitArgs, NEW wait \in Waits,
         NEW n, n = [Idle EXCEPT !.session = s, !.secs = secs, !.arrived = t, !.wait = wait,
                                 !.pc = IF secs < 0 THEN "reply" ELSE "submit",
                                 !.reply = IF secs < 0 THEN "error" ELSE "none",
                                 !.replied = IF secs < 0 THEN t ELSE 0]
  PROVE  n \in CallRecord /\ CallFine(n, "absent", None, t)
<1>1. PICK pc \in {"reply", "submit"} : pc = IF secs < 0 THEN "reply" ELSE "submit"
  OBVIOUS
<1>2. PICK reply \in {"error", "none"} : reply = IF secs < 0 THEN "error" ELSE "none"
  OBVIOUS
<1>3. PICK replied \in Time : replied = (IF secs < 0 THEN t ELSE 0) /\ replied <= t
  BY ConstantsAreInts DEF Time
<1>4. n = [Idle EXCEPT !.session = s, !.secs = secs, !.arrived = t, !.wait = wait,
                       !.pc = pc, !.reply = reply, !.replied = replied]
  BY <1>1, <1>2, <1>3
<1>5. secs \in Secs /\ pc \in Pc /\ reply \in Replies
  BY DEF Secs, Pc, Replies
<1>6. n \in CallRecord
  BY <1>3, <1>4, <1>5, IdleFine DEF CallRecord
<1>7. /\ n.pc = pc /\ n.reply = reply /\ n.arrived = t /\ n.replied = replied
      /\ n.submitted = 0 /\ n.polled = 0
  BY <1>4 DEF Idle
<1>8. ~n.gets
  BY <1>4 DEF Idle
<1>9. t \in Int /\ t >= 0 /\ replied \in Int /\ replied <= t
  BY <1>3, ConstantsAreInts DEF Time
<1>10. TimesArePast(n, None, t)
  BY <1>7, <1>9 DEF TimesArePast
<1>11. HandlersDiffer(n, "absent", None)
  BY <1>1, <1>7, <1>8 DEF HandlersDiffer, Getting
<1>12. HeldIsInTime(n, "absent", None, t) /\ GetIsRecent(n, "absent", None, t)
  BY <1>1, <1>7 DEF HeldIsInTime, GetIsRecent, Held, Getting
<1>13. AnswerIsTrue(n, None)
  BY <1>2, <1>7 DEF AnswerIsTrue
<1> QED BY <1>6, <1>10, <1>11, <1>12, <1>13 DEF CallFine

(* get_result arrives, about a request with any status.                    *)
LEMMA GetResultFine ==
  ASSUME NEW t \in Time, NEW s \in Sessions, NEW secs \in GetTimeouts, NEW wait \in Waits,
         secs <= 0 => wait = 0, NEW st \in Status, NEW at, NEW gets \in BOOLEAN, gets,
         at = IF st = "pending" THEN None ELSE t,
         NEW n, n = [Idle EXCEPT !.session = s, !.secs = secs, !.arrived = t, !.wait = wait,
                                 !.gets = gets, !.pc = "get"]
  PROVE  n \in CallRecord /\ CallFine(n, st, at, t)
<1>1. secs \in Secs /\ "get" \in Pc
  BY DEF Secs, Pc
<1>2. n \in CallRecord
  BY <1>1, IdleFine DEF CallRecord
<1>3. /\ n.pc = "get" /\ n.arrived = t /\ n.submitted = 0 /\ n.polled = 0 /\ n.replied = 0
      /\ n.secs = secs /\ n.wait = wait
  BY DEF Idle
<1>4. n.gets
  <2>1. n.gets = gets
    BY DEF Idle
  <2> QED BY <2>1
<1>5. t \in Int /\ t >= 0
  BY ConstantsAreInts DEF Time
<1>6. TimesArePast(n, at, t)
  BY <1>3, <1>5 DEF TimesArePast
<1>7. HandlersDiffer(n, st, at)
  BY <1>3, <1>4 DEF HandlersDiffer, Held
<1>8. HeldIsInTime(n, st, at, t) /\ GetIsRecent(n, st, at, t)
  BY <1>3 DEF HeldIsInTime, GetIsRecent, Held, Getting
<1>9. AnswerIsTrue(n, at)
  BY <1>3 DEF AnswerIsTrue, Told
<1> QED BY <1>2, <1>6, <1>7, <1>8, <1>9 DEF CallFine

(* The request is queued and the call held.                                *)
LEMMA HoldFine ==
  ASSUME NEW t \in Time, NEW k \in CallRecord, NEW st, NEW at, CallFine(k, st, at, t),
         k.pc = "submit", NEW n, n = [k EXCEPT !.pc = "poll", !.submitted = t]
  PROVE  n \in CallRecord /\ CallFine(n, "pending", at, t)
<1>1. n \in CallRecord
  BY DEF CallRecord, Pc
<1>2. /\ n.pc = "poll" /\ n.arrived = k.arrived /\ n.submitted = t /\ n.polled = k.polled
      /\ n.replied = k.replied /\ n.wait = k.wait
  BY DEF CallRecord
<1>3. n.gets = k.gets
  BY DEF CallRecord
<1>4. t \in Int /\ at = None
  BY ConstantsAreInts DEF Time, CallFine, HandlersDiffer
<1>5. TimesArePast(n, at, t)
  BY <1>2, <1>4 DEF CallFine, TimesArePast
<1>6. HandlersDiffer(n, "pending", at)
  BY <1>2, <1>3 DEF CallFine, HandlersDiffer, Getting
<1>7. HeldIsInTime(n, "pending", at, t) /\ GetIsRecent(n, "pending", at, t)
  BY <1>2, <1>4, CallTypes DEF HeldIsInTime, GetIsRecent, Getting, Larger
<1>8. AnswerIsTrue(n, at)
  BY <1>2 DEF AnswerIsTrue, Told
<1> QED BY <1>1, <1>5, <1>6, <1>7, <1>8 DEF CallFine

(* A request that is not waited for is answered as it is queued.           *)
LEMMA NotHeldFine ==
  ASSUME NEW t \in Time, NEW k \in CallRecord, NEW st, NEW at, CallFine(k, st, at, t),
         k.pc = "submit", NEW n, n = [k EXCEPT !.pc = "reply", !.reply = "submitted",
                                               !.submitted = t, !.replied = t]
  PROVE  n \in CallRecord /\ CallFine(n, "pending", at, t)
<1>1. n \in CallRecord
  BY DEF CallRecord, Pc, Replies
<1>2. /\ n.pc = "reply" /\ n.reply = "submitted" /\ n.arrived = k.arrived /\ n.submitted = t
      /\ n.polled = k.polled /\ n.replied = t
  BY DEF CallRecord
<1>3. t \in Int /\ at = None
  BY ConstantsAreInts DEF Time, CallFine, HandlersDiffer
<1>4. TimesArePast(n, at, t)
  BY <1>2, <1>3 DEF CallFine, TimesArePast
<1>5. HandlersDiffer(n, "pending", at)
  BY <1>2 DEF HandlersDiffer, Getting, Held
<1>6. HeldIsInTime(n, "pending", at, t) /\ GetIsRecent(n, "pending", at, t)
  BY <1>2 DEF HeldIsInTime, GetIsRecent, Getting, Held
<1>7. AnswerIsTrue(n, at)
  BY <1>2, <1>3, CallTypes, ConstantsAreInts DEF AnswerIsTrue, Told, Larger
<1> QED BY <1>1, <1>4, <1>5, <1>6, <1>7 DEF CallFine

(* A handler answers.                                                      *)
LEMMA AnswerFine ==
  ASSUME NEW t \in Time, NEW k \in CallRecord, NEW st, NEW at, CallFine(k, st, at, t),
         NEW reply \in Replies,
         reply \in {"submitted", "settled", "expired"} => Held(k),
         reply = "expired" => t >= k.arrived + k.wait /\ at = None,
         reply = "pending" => t >= k.arrived + k.wait /\ (at = None \/ t <= at + GetPoll),
         NEW n, n = [k EXCEPT !.pc = "reply", !.reply = reply, !.replied = t]
  PROVE  n \in CallRecord /\ CallFine(n, st, at, t)
<1>1. n \in CallRecord
  BY DEF CallRecord, Pc
<1>2. /\ n.pc = "reply" /\ n.reply = reply /\ n.arrived = k.arrived /\ n.replied = t
      /\ n.submitted = k.submitted /\ n.polled = k.polled /\ n.wait = k.wait
  BY DEF CallRecord
<1>3. t \in Int
  BY ConstantsAreInts DEF Time
<1>4. TimesArePast(n, at, t)
  BY <1>2, <1>3 DEF CallFine, TimesArePast
<1>5. HandlersDiffer(n, st, at)
  BY <1>2 DEF HandlersDiffer, Getting, Held
<1>6. HeldIsInTime(n, st, at, t) /\ GetIsRecent(n, st, at, t)
  BY <1>2 DEF HeldIsInTime, GetIsRecent, Getting, Held
<1>7. AnswerIsTrue(n, at)
  <2>1. Held(k) => t <= Larger(k.arrived + MaxSubmitWait, k.submitted)
    BY <1>3, CallTypes, ConstantsAreInts DEF CallFine, HeldIsInTime, Larger
  <2> QED BY <1>2, <2>1 DEF AnswerIsTrue
<1> QED BY <1>1, <1>4, <1>5, <1>6, <1>7 DEF CallFine

(* The steps of a handler that are no answer, with the time of its look at *)
(* the request.                                                            *)
MovesOn(k, st, t, pc, polled) ==
  \/ k.pc = "poll" /\ pc = "select" /\ polled = t
  \/ k.pc = "select" /\ pc = "final" /\ polled = k.polled /\ t >= k.arrived + k.wait
  \/ k.pc = "select" /\ pc = "poll" /\ polled = k.polled
  \/ k.pc = "get" /\ pc = "getwait" /\ polled = t /\ st = "pending"
  \/ k.pc = "getwait" /\ pc = "get" /\ polled = k.polled
  \/ k.pc = "reply" /\ pc = "done" /\ polled = k.polled

(* A handler moves on without an answer; now and then it has looked.       *)
LEMMA MoveOnFine ==
  ASSUME NEW t \in Time, NEW k \in CallRecord, NEW st, NEW at, CallFine(k, st, at, t),
         NEW pc, NEW polled \in Time, MovesOn(k, st, t, pc, polled),
         NEW n, n = [k EXCEPT !.pc = pc, !.polled = polled]
  PROVE  n \in CallRecord /\ CallFine(n, st, at, t)
<1>1. n \in CallRecord
  BY DEF CallRecord, Pc, MovesOn
<1>2. /\ n.pc = pc /\ n.reply = k.reply /\ n.arrived = k.arrived /\ n.replied = k.replied
      /\ n.submitted = k.submitted /\ n.polled = polled /\ n.wait = k.wait /\ n.secs = k.secs
  BY DEF CallRecord
<1>3. n.gets = k.gets
  BY DEF CallRecord
<1>4. t \in Int
  BY ConstantsAreInts DEF Time
<1>5. TimesArePast(n, at, t)
  BY <1>2, <1>4 DEF CallFine, TimesArePast, MovesOn
<1>6. HandlersDiffer(n, st, at)
  BY <1>2, <1>3 DEF CallFine, HandlersDiffer, MovesOn, Getting, Held
<1>7. HeldIsInTime(n, st, at, t)
  BY <1>2 DEF CallFine, HeldIsInTime, MovesOn, Held
<1>8. GetIsRecent(n, st, at, t)
  BY <1>2, <1>4, ConstantsAreInts DEF CallFine, GetIsRecent, MovesOn, Getting
<1>9. AnswerIsTrue(n, at)
  BY <1>2 DEF CallFine, AnswerIsTrue, MovesOn, Told
<1> QED BY <1>1, <1>5, <1>6, <1>7, <1>8, <1>9 DEF CallFine

(* The status of the request changes under the call.                       *)
LEMMA StatusFine ==
  ASSUME NEW t \in Time, NEW k \in CallRecord, NEW st, NEW at \in Time \cup {None},
         CallFine(k, st, at, t), NEW s \in Status, <<st, s>> \in StatusMoves, NEW a,
         a \in {None, at, t},
         ~k.gets /\ ~settled(s) => a = None,
         k.gets /\ s = "pending" => a = None
  PROVE  CallFine(k, s, a, t)
<1>1. st # "absent"
  BY DEF StatusMoves, Status
<1>2. k.pc \notin {"idle", "submit"}
  BY <1>1 DEF CallFine, HandlersDiffer
<1>3. t \in Int /\ at \in Int /\ t >= 0
  BY ConstantsAreInts DEF Time, None
<1>4. TimesArePast(k, a, t)
  BY <1>3 DEF CallFine, TimesArePast
<1>5. HandlersDiffer(k, s, a)
  BY <1>2 DEF CallFine, HandlersDiffer
<1>6. HeldIsInTime(k, s, a, t)
  <2>1. Held(k) => ~k.gets
    BY DEF CallFine, HandlersDiffer
  <2> QED BY <2>1 DEF CallFine, HeldIsInTime
<1>7. GetIsRecent(k, s, a, t)
  <2>1. Getting(k) => k.gets
    BY DEF CallFine, HandlersDiffer
  <2>2. k.polled <= t
    BY DEF CallFine, TimesArePast
  <2> QED BY <1>3, <2>1, <2>2, CallTypes DEF CallFine, GetIsRecent, Getting
<1>8. AnswerIsTrue(k, a)
  <2>1. k.replied <= t
    BY DEF CallFine, TimesArePast
  <2> QED BY <1>3, <2>1, CallTypes, ConstantsAreInts DEF CallFine, AnswerIsTrue
<1> QED BY <1>4, <1>5, <1>6, <1>7, <1>8 DEF CallFine

(* The clock advances while no handler has anything to do.                 *)
LEMMA TickFine ==
  ASSUME NEW t \in Time, NEW k \in CallRecord, NEW st, NEW at \in Time \cup {None},
         CallFine(k, st, at, t), k.pc \notin {"poll", "final", "get", "reply"},
         k.pc = "getwait" => t < k.polled + GetPoll,
         k.pc = "select" => t < k.arrived + k.wait
  PROVE  CallFine(k, st, at, t + 1)
<1>1. t \in Int /\ at \in Int
  BY ConstantsAreInts DEF Time, None
<1>2. TimesArePast(k, at, t + 1)
  BY <1>1, CallTypes DEF CallFine, TimesArePast
<1>3. HandlersDiffer(k, st, at)
  BY DEF CallFine
<1>4. HeldIsInTime(k, st, at, t + 1)
  BY <1>1, CallTypes DEF CallFine, HeldIsInTime, Held, Larger
<1>5. GetIsRecent(k, st, at, t + 1)
  BY <1>1, CallTypes, ConstantsAreInts DEF CallFine, GetIsRecent, Getting
<1> QED BY <1>2, <1>3, <1>4, <1>5 DEF CallFine

-----------------------------------------------------------------------------
(***************************************************************************)
(* The calls of a state.                                                   *)
(***************************************************************************)
CallsFine ==
  /\ now \in Time /\ maxWait \in Waits
  /\ call \in [Calls -> CallRecord]
  /\ status \in [Calls -> Status \cup {"absent"}]
  /\ since \in [Calls -> Time \cup {None}]
  /\ \A k \in Calls : CallFine(call[k], status[k], since[k], now)

(* A step of one handler that leaves its request alone.                    *)
LEMMA OneCallFine ==
  ASSUME CallsFine, NEW k \in Calls, NEW n \in CallRecord,
         CallFine(n, status[k], since[k], now), call' = [call EXCEPT ![k] = n],
         UNCHANGED <<now, maxWait, status, since>>
  PROVE  CallsFine'
BY DEF CallsFine

(* A step of one handler that gives its request a status.                  *)
LEMMA OneRequestFine ==
  ASSUME CallsFine, NEW k \in Calls, NEW n \in CallRecord, NEW st \in Status,
         NEW at \in Time \cup {None},
         CallFine(n, st, at, now), call' = [call EXCEPT ![k] = n],
         status' = [status EXCEPT ![k] = st], since' = [since EXCEPT ![k] = at],
         UNCHANGED <<now, maxWait>>
  PROVE  CallsFine'
BY DEF CallsFine

(* A handler's answer, as AnswerFine has it.                               *)
LEMMA AnsweredFine ==
  ASSUME CallsFine, NEW k \in Calls, NEW reply \in Replies, Answer(k, reply),
         UNCHANGED <<now, maxWait, status, since>>,
         reply \in {"submitted", "settled", "expired"} => Held(call[k]),
         reply = "expired" => now >= call[k].arrived + call[k].wait /\ since[k] = None,
         reply = "pending" => /\ now >= call[k].arrived + call[k].wait
                              /\ since[k] = None \/ now <= since[k] + GetPoll
  PROVE  CallsFine'
<1>1. PICK c \in CallRecord : c = call[k]
  BY DEF CallsFine
<1>2. PICK n : n = [c EXCEPT !.pc = "reply", !.reply = reply, !.replied = now]
  OBVIOUS
<1>3. now \in Time /\ CallFine(c, status[k], since[k], now)
  BY <1>1 DEF CallsFine
<1>4. call' = [call EXCEPT ![k] = n]
  BY <1>1, <1>2 DEF Answer, CallsFine, CallRecord
<1>5. n \in CallRecord /\ CallFine(n, status[k], since[k], now)
  BY <1>1, <1>2, <1>3, AnswerFine
<1> QED BY <1>4, <1>5, OneCallFine

(* A handler's next line, as MoveOnFine has it.                            *)
LEMMA MovedOnFine ==
  ASSUME CallsFine, NEW k \in Calls, NEW pc, NEW polled \in Time,
         UNCHANGED <<now, maxWait, status, since>>,
         MovesOn(call[k], status[k], now, pc, polled),
         call' = [call EXCEPT ![k] = [call[k] EXCEPT !.pc = pc, !.polled = polled]]
  PROVE  CallsFine'
<1>1. PICK c \in CallRecord : c = call[k]
  BY DEF CallsFine
<1>2. PICK n : n = [c EXCEPT !.pc = pc, !.polled = polled]
  OBVIOUS
<1>3. now \in Time /\ CallFine(c, status[k], since[k], now)
  BY <1>1 DEF CallsFine
<1>4. MovesOn(c, status[k], now, pc, polled)
  BY <1>1
<1>5. n \in CallRecord /\ CallFine(n, status[k], since[k], now)
  BY <1>2, <1>3, <1>4, MoveOnFine
<1>6. call' = [call EXCEPT ![k] = n]
  BY <1>1, <1>2
<1> QED BY <1>5, <1>6, OneCallFine

(* The same for a handler that keeps the time of its last look.           *)
LEMMA KeepsPolled ==
  ASSUME CallsFine, NEW k \in Calls, NEW pc, call' = [call EXCEPT ![k].pc = pc],
         UNCHANGED <<now, maxWait, status, since>>,
         MovesOn(call[k], status[k], now, pc, call[k].polled)
  PROVE  CallsFine'
<1>1. PICK c \in CallRecord : c = call[k]
  BY DEF CallsFine
<1>2. PICK polled \in Time : polled = c.polled
  BY DEF CallRecord
<1>3. [c EXCEPT !.pc = pc] = [c EXCEPT !.pc = pc, !.polled = polled]
  BY <1>2 DEF CallRecord
<1>4. call' = [call EXCEPT ![k] = [call[k] EXCEPT !.pc = pc, !.polled = polled]]
  BY <1>1, <1>3
<1>5. MovesOn(call[k], status[k], now, pc, polled)
  BY <1>1, <1>2
<1> QED BY <1>4, <1>5, MovedOnFine

-----------------------------------------------------------------------------
(***************************************************************************)
(* The actions.                                                            *)
(***************************************************************************)

(* handleMessage.                                                          *)
LEMMA MessageStep ==
  ASSUME CallsFine, NEW k \in Calls, NEW s \in Sessions, NEW secs \in WaitArgs,
         Message(k, s, secs)
  PROVE  CallsFine'
<1>1. now \in Time /\ call[k] \in CallRecord /\ status[k] = "absent" /\ since[k] = None
  BY DEF CallsFine, CallFine, HandlersDiffer, Message
<1>2. PICK wait \in Waits : wait = IF secs < 0 THEN 0 ELSE parseWait(secs)
  <2>1. CASE secs < 0
    BY <2>1, ConstantsAreInts DEF Waits
  <2>2. CASE ~(secs < 0)
    BY <2>2, ConstantsAreInts, ParseWaitFits DEF CallsFine, Waits
  <2> QED BY <2>1, <2>2
<1>3. PICK n : n = [Idle EXCEPT !.session = s, !.secs = secs, !.arrived = now, !.wait = wait,
                                !.pc = IF secs < 0 THEN "reply" ELSE "submit",
                                !.reply = IF secs < 0 THEN "error" ELSE "none",
                                !.replied = IF secs < 0 THEN now ELSE 0]
  OBVIOUS
<1>4. call' = [call EXCEPT ![k] = n]
  BY <1>2, <1>3 DEF Message
<1>5. n \in CallRecord /\ CallFine(n, "absent", None, now)
  BY <1>1, <1>3, MessageFine
<1>6. CallFine(n, status[k], since[k], now)
  BY <1>1, <1>5
<1>7. UNCHANGED <<now, maxWait, status, since>>
  BY DEF Message
<1> QED BY <1>4, <1>5, <1>6, <1>7, OneCallFine

(* dispatchTool queues a request.                                          *)
LEMMA SubmitRequestStep ==
  ASSUME CallsFine, NEW k \in Calls, SubmitRequest(k)
  PROVE  CallsFine'
<1>1. PICK c \in CallRecord : c = call[k]
  BY DEF CallsFine
<1>2. now \in Time /\ CallFine(c, status[k], since[k], now) /\ c.pc = "submit"
  BY <1>1 DEF CallsFine, SubmitRequest
<1>3. /\ status' = [status EXCEPT ![k] = "pending"] /\ since' = [since EXCEPT ![k] = since[k]]
      /\ since[k] \in Time \cup {None} /\ "pending" \in Status /\ UNCHANGED <<now, maxWait>>
  BY DEF SubmitRequest, CallsFine, Status
<1>4. CASE c.wait <= 0
  <2>1. PICK n : n = [c EXCEPT !.pc = "reply", !.reply = "submitted",
                               !.submitted = now, !.replied = now]
    OBVIOUS
  <2>2. call' = [call EXCEPT ![k] = n]
    BY <1>1, <1>4, <2>1 DEF SubmitRequest
  <2>3. n \in CallRecord /\ CallFine(n, "pending", since[k], now)
    BY <1>2, <2>1, NotHeldFine
  <2> QED BY <1>3, <2>2, <2>3, OneRequestFine
<1>5. CASE ~(c.wait <= 0)
  <2>1. PICK n : n = [c EXCEPT !.pc = "poll", !.submitted = now]
    OBVIOUS
  <2>2. call' = [call EXCEPT ![k] = n]
    BY <1>1, <1>5, <2>1 DEF SubmitRequest
  <2>3. n \in CallRecord /\ CallFine(n, "pending", since[k], now)
    BY <1>2, <2>1, HoldFine
  <2> QED BY <1>3, <2>2, <2>3, OneRequestFine
<1> QED BY <1>4, <1>5

(* dispatchTool refuses the arguments.                                     *)
LEMMA SubmitFailsStep ==
  ASSUME CallsFine, NEW k \in Calls, SubmitFails(k)
  PROVE  CallsFine'
BY AnsweredFine DEF SubmitFails, Replies

(* awaitSettled.                                                           *)
LEMMA AwaitStep ==
  ASSUME CallsFine, NEW k \in Calls,
         Poll(k) \/ Cancelled(k) \/ TimerFires(k) \/ FinalRead(k) \/ TickerFires(k)
  PROVE  CallsFine'
<1>1. UNCHANGED <<now, maxWait, status, since>> /\ now \in Time
  BY DEF Poll, Cancelled, TimerFires, FinalRead, TickerFires, CallsFine
<1>2. CallFine(call[k], status[k], since[k], now)
  BY DEF CallsFine
<1>3. {"settled", "submitted", "expired"} \subseteq Replies
  BY DEF Replies
<1>4. CASE Poll(k) /\ settled(status[k])
  BY <1>1, <1>3, <1>4, AnsweredFine DEF Poll, Held
<1>5. CASE Poll(k) /\ ~settled(status[k])
  <2>1. call[k].pc = "poll" /\ call' = [call EXCEPT ![k].pc = "select", ![k].polled = now]
    BY <1>5 DEF Poll
  <2>2. call' = [call EXCEPT ![k] = [call[k] EXCEPT !.pc = "select", !.polled = now]]
    BY <2>1 DEF CallsFine
  <2>3. MovesOn(call[k], status[k], now, "select", now)
    BY <2>1 DEF MovesOn
  <2> QED BY <1>1, <2>2, <2>3, MovedOnFine
<1>6. CASE Cancelled(k)
  BY <1>1, <1>3, <1>6, AnsweredFine DEF Cancelled, Held
<1>7. CASE TimerFires(k)
  <2>1. /\ call[k].pc = "select" /\ call' = [call EXCEPT ![k].pc = "final"]
        /\ now >= call[k].arrived + call[k].wait
    BY <1>7 DEF TimerFires, Deadline
  <2>2. MovesOn(call[k], status[k], now, "final", call[k].polled)
    BY <2>1 DEF MovesOn
  <2> QED BY <1>1, <2>1, <2>2, KeepsPolled
<1>8. CASE FinalRead(k) /\ settled(status[k])
  BY <1>1, <1>3, <1>8, AnsweredFine DEF FinalRead, Held
<1>9. CASE FinalRead(k) /\ ~settled(status[k])
  <2>1. call[k].pc = "final" /\ Answer(k, "expired")
    BY <1>9 DEF FinalRead
  <2>2. now >= call[k].arrived + call[k].wait /\ since[k] = None /\ Held(call[k])
    BY <1>2, <1>9, <2>1 DEF CallFine, HeldIsInTime, Held
  <2> QED BY <1>1, <1>3, <2>1, <2>2, AnsweredFine
<1>10. CASE TickerFires(k)
  <2>1. call[k].pc = "select" /\ call' = [call EXCEPT ![k].pc = "poll"]
    BY <1>10 DEF TickerFires
  <2>2. MovesOn(call[k], status[k], now, "poll", call[k].polled)
    BY <2>1 DEF MovesOn
  <2> QED BY <1>1, <2>1, <2>2, KeepsPolled
<1> QED BY <1>4, <1>5, <1>6, <1>7, <1>8, <1>9, <1>10

(* getResult's arrival.                                                    *)
LEMMA GetResultStep ==
  ASSUME CallsFine, NEW k \in Calls, NEW s \in Sessions, NEW secs \in GetTimeouts,
         GetResult(k, s, secs)
  PROVE  CallsFine'
<1>1. PICK st \in Status : /\ status' = [status EXCEPT ![k] = st]
                           /\ since' = [since EXCEPT ![k] = IF st = "pending" THEN None ELSE now]
  BY DEF GetResult
<1>2. now \in Time
  BY DEF CallsFine
<1>3. PICK at \in Time \cup {None} : at = IF st = "pending" THEN None ELSE now
  BY <1>2
<1>4. PICK wait \in Waits : /\ wait = IF secs > 0 THEN Wrap(secs * Second) ELSE 0
                            /\ secs <= 0 => wait = 0
  <2>1. CASE secs > 0
    <3>1. secs * Second \in Int
      BY ConstantsAreInts
    <3>2. Wrap(secs * Second) \in Waits
      BY <3>1, WrapType, HorizonAssumption, ConstantsAreInts DEF Waits
    <3>3. ~(secs <= 0)
      BY <2>1, ConstantsAreInts
    <3> QED BY <2>1, <3>2, <3>3
  <2>2. CASE ~(secs > 0)
    BY <2>2, ConstantsAreInts DEF Waits
  <2> QED BY <2>1, <2>2
<1>5. PICK yes \in BOOLEAN : yes = TRUE
  OBVIOUS
<1>6. PICK n : n = [Idle EXCEPT !.session = s, !.secs = secs, !.arrived = now, !.wait = wait,
                                !.gets = yes, !.pc = "get"]
  OBVIOUS
<1>7. call' = [call EXCEPT ![k] = n]
  BY <1>4, <1>5, <1>6 DEF GetResult
<1>8. n \in CallRecord /\ CallFine(n, st, at, now)
  BY <1>2, <1>3, <1>4, <1>5, <1>6, GetResultFine
<1>9. UNCHANGED <<now, maxWait>> /\ since' = [since EXCEPT ![k] = at]
  BY <1>1, <1>3 DEF GetResult
<1> QED BY <1>1, <1>7, <1>8, <1>9, OneRequestFine

(* getResult's loop.                                                       *)
LEMMA GetStep ==
  ASSUME CallsFine, NEW k \in Calls, GetPolls(k) \/ GetDeadline(k) \/ GetTicker(k)
  PROVE  CallsFine'
<1>1. UNCHANGED <<now, maxWait, status, since>> /\ now \in Time
  BY DEF GetPolls, GetDeadline, GetTicker, CallsFine
<1>2. CallFine(call[k], status[k], since[k], now) /\ call[k] \in CallRecord
  BY DEF CallsFine
<1>3. {"pending", "decided"} \subseteq Replies
  BY DEF Replies
<1>4. CASE GetPolls(k) /\ status[k] = "pending" /\ call[k].secs > 0
  <2>1. call[k].pc = "get" /\ call' = [call EXCEPT ![k].pc = "getwait", ![k].polled = now]
    BY <1>4 DEF GetPolls
  <2>2. call' = [call EXCEPT ![k] = [call[k] EXCEPT !.pc = "getwait", !.polled = now]]
    BY <2>1 DEF CallsFine
  <2>3. MovesOn(call[k], status[k], now, "getwait", now)
    BY <1>4, <2>1 DEF MovesOn
  <2> QED BY <1>1, <2>2, <2>3, MovedOnFine
<1>5. CASE GetPolls(k) /\ status[k] = "pending" /\ ~(call[k].secs > 0)
  <2>1. call[k].pc = "get" /\ Answer(k, "pending")
    BY <1>5 DEF GetPolls
  <2>2. call[k].secs <= 0
    BY <1>2, <1>5, CallTypes
  <2>3. call[k].wait = 0 /\ since[k] = None /\ call[k].arrived <= now
    BY <1>2, <1>5, <2>1, <2>2 DEF CallFine, GetIsRecent, Getting, TimesArePast
  <2>4. now >= call[k].arrived + call[k].wait
    BY <1>1, <1>2, <2>3, CallTypes, ConstantsAreInts DEF Time
  <2> QED BY <1>1, <1>3, <2>1, <2>3, <2>4, AnsweredFine
<1>6. CASE GetPolls(k) /\ status[k] # "pending"
  BY <1>1, <1>3, <1>6, AnsweredFine DEF GetPolls
<1>7. CASE GetDeadline(k)
  <2>1. /\ call[k].pc = "getwait" /\ Answer(k, "pending")
        /\ now >= call[k].arrived + call[k].wait
    BY <1>7 DEF GetDeadline, GetExpired
  <2>2. now <= call[k].polled + GetPoll /\ (since[k] = None \/ since[k] >= call[k].polled)
    BY <1>2, <2>1 DEF CallFine, GetIsRecent
  <2>3. since[k] = None \/ now <= since[k] + GetPoll
    BY <1>1, <1>2, <2>2, CallTypes, ConstantsAreInts DEF CallsFine, Time, None
  <2> QED BY <1>1, <1>3, <2>1, <2>3, AnsweredFine
<1>8. CASE GetTicker(k)
  <2>1. call[k].pc = "getwait" /\ call' = [call EXCEPT ![k].pc = "get"]
    BY <1>8 DEF GetTicker
  <2>2. MovesOn(call[k], status[k], now, "get", call[k].polled)
    BY <2>1 DEF MovesOn
  <2> QED BY <1>1, <2>1, <2>2, KeepsPolled
<1> QED BY <1>4, <1>5, <1>6, <1>7, <1>8

(* The reply is handed to the stream.                                      *)
LEMMA SendReplyStep ==
  ASSUME CallsFine, NEW k \in Calls, SendReply(k)
  PROVE  CallsFine'
<1>1. /\ call[k].pc = "reply" /\ call' = [call EXCEPT ![k].pc = "done"]
      /\ UNCHANGED <<now, maxWait, status, since>>
  BY DEF SendReply
<1>2. MovesOn(call[k], status[k], now, "done", call[k].polled)
  BY <1>1 DEF MovesOn
<1> QED BY <1>1, <1>2, KeepsPolled

(* The relay moves the request.                                            *)
LEMMA StatusChangesStep ==
  ASSUME CallsFine, NEW k \in Calls, StatusChanges(k)
  PROVE  CallsFine'
<1>1. PICK s \in Status :
        /\ <<status[k], s>> \in StatusMoves
        /\ status' = [status EXCEPT ![k] = s]
        /\ since' = [since EXCEPT ![k] = IF ~Awaited(k, s) THEN None
                                         ELSE IF Awaited(k, status[k]) THEN @ ELSE now]
        /\ UNCHANGED <<now, maxWait, call>>
  BY DEF StatusChanges
<1>2. PICK a : a = IF ~Awaited(k, s) THEN None
                   ELSE IF Awaited(k, status[k]) THEN since[k] ELSE now
  OBVIOUS
<1>3. now \in Time /\ call[k] \in CallRecord /\ since[k] \in Time \cup {None}
  BY DEF CallsFine
<1>4. a \in {None, since[k], now}
  BY <1>2
<1>5. ~call[k].gets /\ ~settled(s) => a = None
  BY <1>2 DEF Awaited
<1>6. call[k].gets /\ s = "pending" => a = None
  BY <1>2 DEF Awaited
<1>7. CallFine(call[k], status[k], since[k], now)
  BY DEF CallsFine
<1>8. CallFine(call[k], s, a, now)
  BY <1>1, <1>3, <1>4, <1>5, <1>6, <1>7, StatusFine
<1>9. since' = [since EXCEPT ![k] = a] /\ a \in Time \cup {None}
  BY <1>1, <1>2, <1>3, <1>4 DEF CallsFine
<1>10. call' = [call EXCEPT ![k] = call[k]]
  BY <1>1 DEF CallsFine
<1> QED BY <1>1, <1>3, <1>8, <1>9, <1>10, OneRequestFine

(* Time passes.                                                            *)
LEMMA TickStep ==
  ASSUME CallsFine, Tick
  PROVE  CallsFine'
<1>1. now' = now + 1 /\ UNCHANGED <<maxWait, call, status, since>> /\ now < Horizon
  BY DEF Tick
<1>2. now' \in Time
  BY <1>1, ConstantsAreInts DEF CallsFine, Time
<1>3. ASSUME NEW k \in Calls
      PROVE  CallFine(call[k], status[k], since[k], now + 1)
  <2>1. PICK c \in CallRecord : c = call[k]
    BY DEF CallsFine
  <2>2. c.pc \notin {"poll", "final", "get", "reply"}
    BY <2>1 DEF Tick, Busy
  <2>3. c.pc = "getwait" => ~(now >= c.polled + GetPoll)
    BY <2>1 DEF Tick, Busy, GetTicked
  <2>4. c.pc = "select" => ~(now >= c.arrived + c.wait)
    BY <2>1 DEF Tick, Busy, Deadline
  <2>5. now \in Int
    BY ConstantsAreInts DEF CallsFine, Time
  <2>6. /\ c.pc = "getwait" => now < c.polled + GetPoll
        /\ c.pc = "select" => now < c.arrived + c.wait
    BY <2>3, <2>4, <2>5, CallTypes, ConstantsAreInts
  <2> QED BY <2>1, <2>2, <2>6, TickFine DEF CallsFine
<1> QED BY <1>1, <1>2, <1>3 DEF CallsFine

(* Every step of anybody.                                                  *)
LEMMA NextCallsFine ==
  ASSUME CallsFine, [Next]_vars
  PROVE  CallsFine'
<1>1. CASE UNCHANGED <<now, maxWait, call, status, since>>
  BY <1>1 DEF CallsFine
<1>2. CASE UNCHANGED vars
  BY <1>1, <1>2 DEF vars
<1>3. ASSUME NEW s \in Sessions, Stream(s) PROVE CallsFine'
  BY <1>1, <1>3 DEF Stream, OpenStream, StreamBreaks, DeleteSession, Move, SendMessage
<1>4. ASSUME NEW k \in Calls, Handler(k) PROVE CallsFine'
  BY <1>4, SubmitRequestStep, SubmitFailsStep, AwaitStep, GetStep, SendReplyStep DEF Handler
<1>5. ASSUME NEW k \in Calls, DropPost(k) PROVE CallsFine'
  BY <1>1, <1>5 DEF DropPost
<1> QED BY <1>2, <1>3, <1>4, <1>5, TickStep, StatusChangesStep, MessageStep, GetResultStep
        DEF Next

-----------------------------------------------------------------------------
(***************************************************************************)
(* The streams, and the waits they cut short.                              *)
(***************************************************************************)
StreamStates == {"none", "open", "ending", "ended"}

(* MHR_MAX_WAIT, in poll intervals, is still a duration.                   *)
NoOverflow == \A secs \in EnvWaits : secs * Second < Half

(* A call came over a stream; a wait of nothing was asked for; the plain   *)
(* response went to a client that did ask for it, or has gone.             *)
HasStream(k)   == call[k].pc # "idle" => stream[call[k].session] # "none"
AskedFor(k)    == call[k].pc = "submit" /\ call[k].wait <= 0 => call[k].secs = 0
PlainToGone(k) == Told(call[k]) /\ call[k].reply = "submitted" => call[k].secs = 0 \/ ClientGone(k)

WaitsFine ==
  /\ env \in EnvWaits
  /\ stream \in [Sessions -> StreamStates]
  /\ gone \subseteq Calls
  /\ NoOverflow => maxWait > 0
  /\ \A k \in Calls : HasStream(k) /\ (maxWait > 0 => AskedFor(k) /\ PlainToGone(k))

(* A cap that does not overflow is positive.                               *)
LEMMA CapIsPositive ==
  ASSUME NEW secs \in EnvWaits, secs * Second < Half
  PROVE  maxWaitFromEnv(secs) > 0
<1>1. CASE secs <= 0
  BY <1>1, ConstantsAreInts DEF maxWaitFromEnv
<1>2. CASE ~(secs <= 0)
  <2>1. secs \in Int /\ secs > 0
    BY <1>2, ConstantsAreInts
  <2>2. PICK d \in Int : d = secs * Second /\ d > 0 /\ d < Half
    BY <2>1, ConstantsAreInts
  <2>3. Wrap(d) = d
    <3>1. PICK m \in Int : m = 2 * Half /\ m > 0
      BY ConstantsAreInts
    <3>2. PICK e \in Int : e = d + Half /\ 0 <= e /\ e < m
      BY <2>2, <3>1, ConstantsAreInts
    <3>3. e % m = e
      BY <3>1, <3>2
    <3> QED BY <2>2, <3>1, <3>2, <3>3, ConstantsAreInts DEF Wrap
  <2> QED BY <1>2, <2>2, <2>3, ConstantsAreInts DEF maxWaitFromEnv, Smaller
<1> QED BY <1>1, <1>2

(* A client that has gone stays gone.                                      *)
LEMMA GoneStaysGone ==
  ASSUME NEW k \in Calls, HasStream(k), call[k].pc # "idle", ClientGone(k),
         call'[k].session = call[k].session, gone \subseteq gone',
         \A s \in Sessions : stream[s] \in {"ending", "ended"} => stream'[s] # "open",
         call[k].session \in Sessions, stream \in [Sessions -> StreamStates]
  PROVE  ClientGone(k)'
BY DEF ClientGone, HasStream, StreamStates

(* Streams come up once and go down once.                                  *)
LEMMA StreamsEnd ==
  ASSUME WaitsFine, [Next]_vars
  PROVE  /\ env' = env /\ maxWait' = maxWait /\ stream' \in [Sessions -> StreamStates]
         /\ gone \subseteq gone' /\ gone' \subseteq Calls
         /\ \A s \in Sessions : stream[s] # "none" => stream'[s] # "none"
         /\ \A s \in Sessions : stream[s] \in {"ending", "ended"} => stream'[s] # "open"
<1>0. stream \in [Sessions -> StreamStates] /\ gone \subseteq Calls
  BY DEF WaitsFine
<1>1. CASE UNCHANGED <<env, maxWait, stream, gone>>
  BY <1>0, <1>1
<1>2. CASE UNCHANGED vars
  BY <1>1, <1>2 DEF vars
<1>3. ASSUME NEW s \in Sessions, NEW from, NEW to, Move(s, from, to), to \in StreamStates \ {"none"},
             to = "open" => from = "none"
      PROVE  /\ env' = env /\ maxWait' = maxWait /\ stream' \in [Sessions -> StreamStates]
             /\ gone' = gone
             /\ \A r \in Sessions : stream[r] # "none" => stream'[r] # "none"
             /\ \A r \in Sessions : stream[r] \in {"ending", "ended"} => stream'[r] # "open"
  BY <1>0, <1>3 DEF Move
<1>4. ASSUME NEW s \in Sessions, OpenStream(s) \/ StreamBreaks(s) \/ DeleteSession(s)
      PROVE  \E from, to : Move(s, from, to) /\ to \in StreamStates \ {"none"}
                           /\ (to = "open" => from = "none")
  BY <1>4 DEF OpenStream, StreamBreaks, DeleteSession, StreamStates
<1>5. CASE \E s \in Sessions : OpenStream(s) \/ StreamBreaks(s) \/ DeleteSession(s)
  BY <1>0, <1>3, <1>4, <1>5
<1>6. CASE \E s \in Sessions : SendMessage(s)
  BY <1>1, <1>6 DEF SendMessage
<1>7. CASE \E k \in Calls : DropPost(k)
  BY <1>0, <1>7 DEF DropPost
<1>8. CASE \E k \in Calls : Handler(k)
  BY <1>1, <1>8 DEF Handler, SubmitRequest, SubmitFails, Poll, Cancelled, TimerFires, FinalRead,
                    TickerFires, GetPolls, GetDeadline, GetTicker, SendReply
<1>9. CASE \E k \in Calls : StatusChanges(k)
  BY <1>1, <1>9 DEF StatusChanges
<1>10. CASE Tick
  BY <1>1, <1>10 DEF Tick
<1>11. CASE \E k \in Calls, s \in Sessions, secs \in Int : Message(k, s, secs)
  BY <1>1, <1>11 DEF Message
<1>12. CASE \E k \in Calls, s \in Sessions, secs \in Int : GetResult(k, s, secs)
  BY <1>1, <1>12 DEF GetResult
<1> QED BY <1>2, <1>5, <1>6, <1>7, <1>8, <1>9, <1>10, <1>11, <1>12, ConstantsAreInts
        DEF Next, Stream

(* What a step may do to a call, as far as its wait is concerned: a call   *)
(* arrives now, and then keeps its arrival and its wait.                   *)
SameCall(c, n) == n.arrived = c.arrived /\ n.wait = c.wait /\ n.gets = c.gets

Arrives(c, n) ==
  /\ n.arrived = now
  /\ c.pc = "idle" /\ stream[n.session] # "none" /\ n.reply # "submitted"
  /\ n.pc = "submit" /\ maxWait > 0 => (n.wait <= 0 => n.secs = 0)

Proceeds(c, n, cut) ==
  /\ c.pc \notin {"idle", "done"} /\ n.pc \notin {"idle", "submit"}
  /\ SameCall(c, n)
  /\ n.session = c.session /\ n.secs = c.secs
  /\ Told(n) /\ n.reply = "submitted" => \/ Told(c) /\ c.reply = "submitted"
                                         \/ c.pc = "submit" /\ c.wait <= 0
                                         \/ cut

WaitStep(k) ==
  \/ call'[k] = call[k]
  \/ Arrives(call[k], call'[k])
  \/ Proceeds(call[k], call'[k], ClientGone(k))

(* A step of call j is a stutter for the others.                           *)
LEMMA OthersWait ==
  ASSUME CallsFine, NEW j \in Calls, NEW k \in Calls, NEW n, call' = [call EXCEPT ![j] = n],
         Arrives(call[j], n) \/ Proceeds(call[j], n, ClientGone(j))
  PROVE  WaitStep(k)
<1>1. CASE k = j
  <2>1. call'[k] = n
    BY <1>1 DEF CallsFine
  <2> QED BY <1>1, <2>1 DEF WaitStep
<1>2. CASE k # j
  <2>1. call'[k] = call[k]
    BY <1>2 DEF CallsFine
  <2> QED BY <2>1 DEF WaitStep
<1> QED BY <1>1, <1>2

(* An answer: the plain response goes only to a client that has gone.      *)
LEMMA AnswerWaits ==
  ASSUME CallsFine, NEW j \in Calls, NEW k \in Calls, NEW reply, Answer(j, reply),
         call[j].pc \notin {"idle", "done"}, reply = "submitted" => ClientGone(j)
  PROVE  WaitStep(k)
<1>1. PICK c \in CallRecord : c = call[j]
  BY DEF CallsFine
<1>2. PICK n : n = [c EXCEPT !.pc = "reply", !.reply = reply, !.replied = now]
  OBVIOUS
<1>3. call' = [call EXCEPT ![j] = n]
  BY <1>1, <1>2 DEF Answer, CallsFine
<1>4. /\ n.pc = "reply" /\ n.reply = reply /\ n.session = c.session /\ n.secs = c.secs
      /\ SameCall(c, n)
  BY <1>2 DEF CallRecord, SameCall
<1>5. Proceeds(c, n, ClientGone(j))
  BY <1>1, <1>4 DEF Proceeds
<1> QED BY <1>1, <1>3, <1>5, OthersWait

(* The places a handler reaches without an answer.                         *)
GoesOn(c, pc) ==
  \/ c.pc \notin {"idle", "done"} /\ pc \in {"select", "final", "poll", "getwait", "get"}
  \/ c.pc = "reply" /\ pc = "done"

(* A step that is no answer.                                               *)
LEMMA MoveWaits ==
  ASSUME CallsFine, NEW j \in Calls, NEW k \in Calls, NEW pc, NEW polled,
         call' = [call EXCEPT ![j] = [call[j] EXCEPT !.pc = pc, !.polled = polled]],
         GoesOn(call[j], pc)
  PROVE  WaitStep(k)
<1>1. PICK c \in CallRecord : c = call[j]
  BY DEF CallsFine
<1>2. PICK n : n = [c EXCEPT !.pc = pc, !.polled = polled]
  OBVIOUS
<1>3. call' = [call EXCEPT ![j] = n]
  BY <1>1, <1>2
<1>4. /\ n.pc = pc /\ n.reply = c.reply /\ n.session = c.session /\ n.secs = c.secs
      /\ SameCall(c, n)
  BY <1>2 DEF CallRecord, SameCall
<1>5. Proceeds(c, n, ClientGone(j))
  BY <1>1, <1>4 DEF Proceeds, Told, GoesOn
<1> QED BY <1>1, <1>3, <1>5, OthersWait

(* The same for a handler that keeps the time of its last look.            *)
LEMMA MoveWaitsUnpolled ==
  ASSUME CallsFine, NEW j \in Calls, NEW k \in Calls, NEW pc, call' = [call EXCEPT ![j].pc = pc],
         GoesOn(call[j], pc)
  PROVE  WaitStep(k)
<1>1. PICK c \in CallRecord : c = call[j]
  BY DEF CallsFine
<1>2. [c EXCEPT !.pc = pc] = [c EXCEPT !.pc = pc, !.polled = c.polled]
  BY DEF CallRecord
<1>3. PICK polled : polled = c.polled
  OBVIOUS
<1>4. call' = [call EXCEPT ![j] = [call[j] EXCEPT !.pc = pc, !.polled = polled]]
  BY <1>1, <1>2, <1>3
<1> QED BY <1>4, MoveWaits

(* A tool call arrives over its stream.                                    *)
LEMMA MessageWaits ==
  ASSUME CallsFine, NEW j \in Calls, NEW k \in Calls, NEW s \in Sessions, NEW secs \in WaitArgs,
         Message(j, s, secs)
  PROVE  WaitStep(k)
<1>1. PICK w : w = IF secs < 0 THEN 0 ELSE parseWait(secs)
  OBVIOUS
<1>2. PICK pc \in {"reply", "submit"} : pc = IF secs < 0 THEN "reply" ELSE "submit"
  OBVIOUS
<1>3. PICK reply \in {"error", "none"} : reply = IF secs < 0 THEN "error" ELSE "none"
  OBVIOUS
<1>4. PICK replied : replied = IF secs < 0 THEN now ELSE 0
  OBVIOUS
<1>5. PICK n : n = [Idle EXCEPT !.session = s, !.secs = secs, !.arrived = now, !.wait = w,
                                !.pc = pc, !.reply = reply, !.replied = replied]
  OBVIOUS
<1>6. call' = [call EXCEPT ![j] = n] /\ call[j].pc = "idle" /\ stream[s] # "none"
  BY <1>1, <1>2, <1>3, <1>4, <1>5 DEF Message
<1>7. /\ n.pc = pc /\ n.reply = reply /\ n.session = s /\ n.secs = secs /\ n.wait = w
      /\ n.arrived = now
  BY <1>5 DEF Idle
<1>8. ASSUME pc = "submit", maxWait > 0, w <= 0
      PROVE  secs = 0
  <2>2. secs \in Int /\ ~(secs < 0)
    BY <1>2, <1>8, ConstantsAreInts
  <2>3. w = parseWait(secs) /\ maxWait \in -Half .. MaxSubmitWait
    BY <1>1, <2>2 DEF CallsFine, Waits
  <2>4. parseWait(secs) \in Int /\ (secs > 0 => parseWait(secs) > 0)
    BY <1>8, <2>2, <2>3, ParseWaitFits, ConstantsAreInts
  <2> QED BY <1>8, <2>2, <2>3, <2>4
<1>9. Arrives(call[j], n)
  BY <1>3, <1>6, <1>7, <1>8 DEF Arrives
<1> QED BY <1>6, <1>9, OthersWait

(* get_result arrives over its stream.                                     *)
LEMMA GetResultWaits ==
  ASSUME CallsFine, NEW j \in Calls, NEW k \in Calls, NEW s \in Sessions, NEW secs \in GetTimeouts,
         GetResult(j, s, secs)
  PROVE  WaitStep(k)
<1>1. PICK w : w = IF secs > 0 THEN Wrap(secs * Second) ELSE 0
  OBVIOUS
<1>2. PICK yes \in BOOLEAN : yes = TRUE
  OBVIOUS
<1>3. PICK n : n = [Idle EXCEPT !.session = s, !.secs = secs, !.arrived = now, !.wait = w,
                                !.gets = yes, !.pc = "get"]
  OBVIOUS
<1>4. call' = [call EXCEPT ![j] = n] /\ call[j].pc = "idle" /\ stream[s] # "none"
  BY <1>1, <1>2, <1>3 DEF GetResult
<1>5. n.pc = "get" /\ n.session = s /\ n.reply = "none" /\ n.arrived = now
  BY <1>3 DEF Idle
<1>6. Arrives(call[j], n)
  BY <1>4, <1>5 DEF Arrives
<1> QED BY <1>4, <1>6, OthersWait

(* The request is queued.                                                  *)
LEMMA SubmitWaits ==
  ASSUME CallsFine, NEW j \in Calls, NEW k \in Calls, SubmitRequest(j)
  PROVE  WaitStep(k)
<1>1. PICK c \in CallRecord : c = call[j]
  BY DEF CallsFine
<1>2. c.pc = "submit"
  BY <1>1 DEF SubmitRequest
<1>3. CASE c.wait <= 0
  <2>1. PICK n : n = [c EXCEPT !.pc = "reply", !.reply = "submitted",
                               !.submitted = now, !.replied = now]
    OBVIOUS
  <2>2. call' = [call EXCEPT ![j] = n]
    BY <1>1, <1>3, <2>1 DEF SubmitRequest
  <2>3. n.pc = "reply" /\ n.session = c.session /\ n.secs = c.secs /\ SameCall(c, n)
    BY <2>1 DEF CallRecord, SameCall
  <2>4. Proceeds(c, n, ClientGone(j))
    BY <1>2, <1>3, <2>3 DEF Proceeds
  <2> QED BY <1>1, <2>2, <2>4, OthersWait
<1>4. CASE ~(c.wait <= 0)
  <2>1. PICK n : n = [c EXCEPT !.pc = "poll", !.submitted = now]
    OBVIOUS
  <2>2. call' = [call EXCEPT ![j] = n]
    BY <1>1, <1>4, <2>1 DEF SubmitRequest
  <2>3. n.pc = "poll" /\ n.session = c.session /\ n.secs = c.secs /\ SameCall(c, n)
    BY <2>1 DEF CallRecord, SameCall
  <2>4. Proceeds(c, n, ClientGone(j))
    BY <1>2, <2>3 DEF Proceeds, Told
  <2> QED BY <1>1, <2>2, <2>4, OthersWait
<1> QED BY <1>3, <1>4

(* Every step of anybody.                                                  *)
LEMMA NextWaits ==
  ASSUME CallsFine, [Next]_vars, NEW k \in Calls
  PROVE  WaitStep(k)
<1>1. CASE UNCHANGED call
  BY <1>1 DEF WaitStep
<1>2. CASE UNCHANGED vars
  BY <1>1, <1>2 DEF vars
<1>3. CASE \E s \in Sessions : Stream(s)
  BY <1>1, <1>3 DEF Stream, OpenStream, StreamBreaks, DeleteSession, Move, SendMessage
<1>4. CASE Tick \/ \E j \in Calls : DropPost(j) \/ StatusChanges(j)
  BY <1>1, <1>4 DEF Tick, DropPost, StatusChanges
<1>5. ASSUME NEW j \in Calls, Handler(j) PROVE WaitStep(k)
  <2>1. CASE SubmitRequest(j)
    BY <2>1, SubmitWaits
  <2>2. CASE SubmitFails(j)
    BY <2>2, AnswerWaits DEF SubmitFails
  <2>3. CASE Poll(j)
    <3>1. CASE settled(status[j])
      BY <2>3, <3>1, AnswerWaits DEF Poll
    <3>2. CASE ~settled(status[j])
      <4>1. call[j].pc = "poll" /\ call' = [call EXCEPT ![j].pc = "select", ![j].polled = now]
        BY <2>3, <3>2 DEF Poll
      <4>2. call' = [call EXCEPT ![j] = [call[j] EXCEPT !.pc = "select", !.polled = now]]
        BY <4>1 DEF CallsFine
      <4>3. GoesOn(call[j], "select")
        BY <4>1 DEF GoesOn
      <4> QED BY <4>2, <4>3, MoveWaits
    <3> QED BY <3>1, <3>2
  <2>4. CASE Cancelled(j)
    BY <2>4, AnswerWaits DEF Cancelled
  <2>5. CASE TimerFires(j)
    BY <2>5, MoveWaitsUnpolled DEF TimerFires, GoesOn
  <2>6. CASE FinalRead(j)
    BY <2>6, AnswerWaits DEF FinalRead
  <2>7. CASE TickerFires(j)
    BY <2>7, MoveWaitsUnpolled DEF TickerFires, GoesOn
  <2>8. CASE GetPolls(j)
    <3>1. CASE ~(status[j] = "pending" /\ call[j].secs > 0)
      BY <2>8, <3>1, AnswerWaits DEF GetPolls
    <3>2. CASE status[j] = "pending" /\ call[j].secs > 0
      <4>1. call[j].pc = "get" /\ call' = [call EXCEPT ![j].pc = "getwait", ![j].polled = now]
        BY <2>8, <3>2 DEF GetPolls
      <4>2. call' = [call EXCEPT ![j] = [call[j] EXCEPT !.pc = "getwait", !.polled = now]]
        BY <4>1 DEF CallsFine
      <4>3. GoesOn(call[j], "getwait")
        BY <4>1 DEF GoesOn
      <4> QED BY <4>2, <4>3, MoveWaits
    <3> QED BY <3>1, <3>2
  <2>9. CASE GetDeadline(j)
    BY <2>9, AnswerWaits DEF GetDeadline
  <2>10. CASE GetTicker(j)
    BY <2>10, MoveWaitsUnpolled DEF GetTicker, GoesOn
  <2>11. CASE SendReply(j)
    BY <2>11, MoveWaitsUnpolled DEF SendReply, GoesOn
  <2> QED BY <1>5, <2>1, <2>2, <2>3, <2>4, <2>5, <2>6, <2>7, <2>8, <2>9, <2>10, <2>11 DEF Handler
<1> QED BY <1>2, <1>3, <1>4, <1>5, MessageWaits, GetResultWaits DEF Next

(* ... keeps the waits honoured.                                           *)
LEMMA NextWaitsFine ==
  ASSUME CallsFine, WaitsFine, [Next]_vars
  PROVE  WaitsFine'
<1>1. /\ env' = env /\ maxWait' = maxWait /\ stream' \in [Sessions -> StreamStates]
      /\ gone \subseteq gone' /\ gone' \subseteq Calls
      /\ \A s \in Sessions : stream[s] # "none" => stream'[s] # "none"
      /\ \A s \in Sessions : stream[s] \in {"ending", "ended"} => stream'[s] # "open"
  BY StreamsEnd
<1>2. ASSUME NEW k \in Calls
      PROVE  HasStream(k)' /\ (maxWait > 0 => AskedFor(k)' /\ PlainToGone(k)')
  <2>1. HasStream(k) /\ (maxWait > 0 => AskedFor(k) /\ PlainToGone(k))
    BY DEF WaitsFine
  <2>2. call[k].session \in Sessions /\ call'[k].session \in Sessions
    <3>1. call[k] \in CallRecord /\ call'[k] \in CallRecord
      BY NextCallsFine DEF CallsFine
    <3> QED BY <3>1, CallTypes
  <2>3. ASSUME call'[k].session = call[k].session, call[k].pc # "idle", ClientGone(k)
        PROVE  ClientGone(k)'
    BY <1>1, <2>1, <2>2, <2>3, GoneStaysGone DEF WaitsFine
  <2>4. CASE call'[k] = call[k]
    <3>1. HasStream(k)'
      BY <1>1, <2>1, <2>2, <2>4 DEF HasStream
    <3>2. AskedFor(k) => AskedFor(k)'
      BY <2>4 DEF AskedFor
    <3>3. PlainToGone(k) => PlainToGone(k)'
      BY <2>3, <2>4 DEF PlainToGone, Told
    <3> QED BY <2>1, <3>1, <3>2, <3>3
  <2>5. CASE Arrives(call[k], call'[k])
    <3>1. HasStream(k)'
      BY <1>1, <2>2, <2>5 DEF HasStream, Arrives
    <3>2. maxWait > 0 => AskedFor(k)'
      BY <2>5 DEF AskedFor, Arrives
    <3>3. PlainToGone(k)'
      BY <2>5 DEF PlainToGone, Arrives
    <3> QED BY <3>1, <3>2, <3>3
  <2>6. CASE Proceeds(call[k], call'[k], ClientGone(k))
    <3>1. HasStream(k)'
      BY <1>1, <2>1, <2>2, <2>6 DEF HasStream, Proceeds
    <3>2. AskedFor(k)'
      BY <2>6 DEF AskedFor, Proceeds
    <3>3. AskedFor(k) /\ PlainToGone(k) => PlainToGone(k)'
      BY <2>3, <2>6 DEF PlainToGone, AskedFor, Proceeds
    <3> QED BY <2>1, <3>1, <3>2, <3>3
  <2>7. WaitStep(k)
    BY NextWaits
  <2> QED BY <2>4, <2>5, <2>6, <2>7 DEF WaitStep
<1> QED BY <1>1, <1>2 DEF WaitsFine

-----------------------------------------------------------------------------
(***************************************************************************)
(* The theorems.                                                           *)
(***************************************************************************)
SwInv == CallsFine /\ WaitsFine

(* It holds initially.                                                     *)
LEMMA InitSwInv == Init => SwInv
<1>1. SUFFICES ASSUME Init PROVE SwInv
  OBVIOUS
<1>2. now \in Time /\ maxWait \in Waits /\ 0 \in Time
  BY <1>1, CapType, ConstantsAreInts DEF Init, Time, Waits
<1>3. Idle \in CallRecord /\ CallFine(Idle, "absent", None, now)
  BY <1>2, IdleFine
<1>4. CallsFine
  BY <1>1, <1>2, <1>3 DEF Init, CallsFine
<1>5. NoOverflow => maxWait > 0
  BY <1>1, CapIsPositive DEF Init, NoOverflow
<1>6. ASSUME NEW k \in Calls PROVE call[k].pc = "idle"
  BY <1>1 DEF Init, Idle
<1>7. ASSUME NEW k \in Calls PROVE HasStream(k) /\ AskedFor(k) /\ PlainToGone(k)
  BY <1>6 DEF HasStream, AskedFor, PlainToGone, Told
<1>8. env \in EnvWaits /\ stream \in [Sessions -> StreamStates] /\ gone \subseteq Calls
  BY <1>1 DEF Init, StreamStates
<1> QED BY <1>4, <1>5, <1>7, <1>8 DEF SwInv, WaitsFine

(* At every moment the handlers of awaitSettled and getResult are within   *)
(* their time, and what they have answered is true.                        *)
THEOREM SubmitWaitInvariant == Spec => []SwInv
<1>1. SwInv /\ [Next]_vars => SwInv'
  BY NextCallsFine, NextWaitsFine DEF SwInv
<1> QED BY <1>1, InitSwInv, PTL DEF Spec

(* HandleContext: the reply leaves by the cap counted from the arrival, or *)
(* as soon as a longer submission is over.                                 *)
THEOREM AnswersAreInTime == Spec => []AnsweredInTime
<1>1. SwInv => AnsweredInTime
  BY DEF SwInv, CallsFine, CallFine, AnswerIsTrue, AnsweredInTime, Answered, Told
<1> QED BY <1>1, SubmitWaitInvariant, PTL

(* awaitSettled's second read and getResult's deadline branch: an answer   *)
(* that the time ran out is true.                                          *)
THEOREM ExpiriesAreHonest == Spec => []ExpiryIsHonest
<1>1. SwInv => ExpiryIsHonest
  BY DEF SwInv, CallsFine, CallFine, AnswerIsTrue, ExpiryIsHonest, Answered, Told
<1> QED BY <1>1, SubmitWaitInvariant, PTL

(* parseWait: every positive wait is honoured, whatever the arithmetic on  *)
(* it would give, in a process whose MHR_MAX_WAIT did not overflow.        *)
THEOREM WaitsAreHonoured == Spec => [](NoOverflow => WaitIsHonoured)
<1>1. SwInv => (NoOverflow => WaitIsHonoured)
  BY DEF SwInv, WaitsFine, PlainToGone, WaitIsHonoured, Answered, Told
<1> QED BY <1>1, SubmitWaitInvariant, PTL

-----------------------------------------------------------------------------
(***************************************************************************)
(* How long a call is held.                                                *)
(***************************************************************************)
Allowance(c) == Larger(c.wait, IF c.gets THEN 0 ELSE SubmitTime)

HeldWithin(c, t) == c.pc \notin {"idle", "done"} => t <= c.arrived + Allowance(c)

(* An allowance is a number, and not negative.                             *)
LEMMA AllowanceType ==
  ASSUME NEW c \in CallRecord
  PROVE  /\ Allowance(c) \in Nat /\ c.wait <= Allowance(c)
         /\ ~c.gets => SubmitTime <= Allowance(c)
<1>1. c.wait \in Int /\ SubmitTime \in Nat
  BY CallTypes, ConstantsAreInts
<1> QED BY <1>1 DEF Allowance, Larger

(* Only Tick moves the clock.                                              *)
LEMMA ClockStands ==
  ASSUME [Next]_vars
  PROVE  Tick \/ now' = now
<1>1. ASSUME NEW j \in Calls, Handler(j) PROVE now' = now
  BY <1>1 DEF Handler, SubmitRequest, SubmitFails, Poll, Cancelled, TimerFires, FinalRead,
              TickerFires, GetPolls, GetDeadline, GetTicker, SendReply
<1>2. ASSUME NEW s \in Sessions, Stream(s) PROVE now' = now
  BY <1>2 DEF Stream, OpenStream, StreamBreaks, DeleteSession, Move, SendMessage
<1>3. CASE \E j \in Calls : DropPost(j) \/ StatusChanges(j)
  BY <1>3 DEF DropPost, StatusChanges
<1>4. CASE \E j \in Calls, s \in Sessions :
             \/ \E secs \in WaitArgs : Message(j, s, secs)
             \/ \E secs \in GetTimeouts : GetResult(j, s, secs)
  BY <1>4 DEF Message, GetResult
<1>5. CASE UNCHANGED vars
  BY <1>5 DEF vars
<1> QED BY <1>1, <1>2, <1>3, <1>4, <1>5 DEF Next

(* A step of anybody but the clock leaves a call within its allowance: it  *)
(* has only just arrived, or keeps what it was allowed.                    *)
LEMMA StepHolds ==
  ASSUME CallsFine, NEW k \in Calls, call' \in [Calls -> CallRecord], WaitStep(k),
         HeldWithin(call[k], now)
  PROVE  HeldWithin(call'[k], now)
<1>1. PICK c \in CallRecord : c = call[k]
  BY DEF CallsFine
<1>2. PICK n \in CallRecord : n = call'[k]
  OBVIOUS
<1>3. now \in Int /\ c.arrived \in Int /\ n.arrived \in Int /\ Allowance(n) \in Nat
  BY CallTypes, AllowanceType, ConstantsAreInts DEF CallsFine, Time
<1>4. CASE n = c
  BY <1>1, <1>2, <1>4
<1>5. CASE Arrives(c, n)
  <2>1. now <= n.arrived + Allowance(n)
    BY <1>3, <1>5 DEF Arrives
  <2> QED BY <1>2, <2>1 DEF HeldWithin
<1>6. CASE Proceeds(c, n, ClientGone(k))
  <2>1. n.arrived = c.arrived /\ Allowance(n) = Allowance(c) /\ c.pc \notin {"idle", "done"}
    BY <1>6 DEF Proceeds, SameCall, Allowance
  <2>2. now <= c.arrived + Allowance(c)
    BY <1>1, <2>1 DEF HeldWithin
  <2> QED BY <1>2, <2>1, <2>2 DEF HeldWithin
<1> QED BY <1>1, <1>2, <1>4, <1>5, <1>6 DEF WaitStep

(* Time does not pass a call by: it stops while a handler can move.        *)
LEMMA TickHolds ==
  ASSUME CallsFine, Tick, NEW k \in Calls, HeldWithin(call[k], now)
  PROVE  HeldWithin(call[k], now')
<1>1. PICK c \in CallRecord : c = call[k]
  BY DEF CallsFine
<1>2. now' = now + 1 /\ now \in Int
  BY ConstantsAreInts DEF Tick, CallsFine, Time
<1>3. /\ c.arrived \in Int /\ c.wait \in Int /\ c.pc \in Pc /\ SubmitTime \in Int
      /\ Allowance(c) \in Int /\ c.wait <= Allowance(c)
      /\ ~c.gets => SubmitTime <= Allowance(c)
  BY CallTypes, AllowanceType, ConstantsAreInts
<1>4. c.pc \notin {"poll", "final", "get", "reply"}
  BY <1>1 DEF Tick, Busy
<1>5. /\ c.pc = "getwait" => ~(now >= c.arrived + c.wait)
      /\ c.pc = "select" => ~(now >= c.arrived + c.wait)
      /\ c.pc = "submit" => ~(now >= c.arrived + SubmitTime)
  BY <1>1 DEF Tick, Busy, GetExpired, Deadline
<1>6. c.pc = "submit" => SubmitTime <= Allowance(c)
  BY <1>1, <1>3 DEF CallsFine, CallFine, HandlersDiffer
<1>7. c.pc \in {"getwait", "select", "submit"} => now + 1 <= c.arrived + Allowance(c)
  BY <1>2, <1>3, <1>5, <1>6
<1> QED BY <1>1, <1>2, <1>3, <1>4, <1>7 DEF HeldWithin, Pc

(* The safety part of EveryCallAnswered: when its wait is over, or a       *)
(* longer submission's own time, no handler is still at work on a call     *)
(* (HandleContext, awaitSettled, getResult).                               *)
THEOREM CallsAreNotHeldLonger == Spec => []NoCallIsHeldLonger
<1> DEFINE AllHeld == \A k \in Calls : HeldWithin(call[k], now)
<1>1. Init => AllHeld
  BY DEF Init, Idle, HeldWithin
<1>2. ASSUME SwInv, AllHeld, [Next]_vars PROVE AllHeld'
  <2> SUFFICES ASSUME NEW k \in Calls PROVE HeldWithin(call'[k], now')
    OBVIOUS
  <2>1. CallsFine /\ call' \in [Calls -> CallRecord] /\ WaitStep(k) /\ HeldWithin(call[k], now)
    BY <1>2, NextCallsFine, NextWaits DEF SwInv, CallsFine
  <2>2. CASE Tick
    BY <2>1, <2>2, TickHolds DEF Tick
  <2>3. CASE now' = now
    BY <2>1, <2>3, StepHolds
  <2> QED BY <1>2, <2>2, <2>3, ClockStands
<1>3. AllHeld => NoCallIsHeldLonger
  BY DEF HeldWithin, Allowance, NoCallIsHeldLonger
<1> HIDE DEF AllHeld
<1>4. SwInv /\ AllHeld /\ [Next]_vars => AllHeld'
  BY <1>2
<1> QED BY <1>1, <1>3, <1>4, SubmitWaitInvariant, PTL DEF Spec

=============================================================================
