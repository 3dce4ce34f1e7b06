------------------------------ MODULE Cooldown ------------------------------
(***************************************************************************)
(* The approval cooldown and turbo mode of the web handler                 *)
(* (web/handler.go): approvals are spaced by activeCooldown, which is the  *)
(* configured cooldown or, until it expires, the one an operator asked for *)
(* with POST /api/turbocharge.  Everything here happens under cooldownMu.  *)
(*                                                                         *)
(* Relay models what a refused approval means for a request; this module   *)
(* is about the clock.  Time advances in ticks, Second of them a second.   *)
(* A duration is an integer of 2 * Half values, and a product that does    *)
(* not fit wraps: cooldown_seconds has no upper bound.                     *)
(***************************************************************************)
EXTENDS Integers

CONSTANTS
  Callers,           \* operators: callers that pass authorizeDecision
  Base,              \* approvalCooldown, in ticks; none unless positive
  Half,              \* durations range over -Half .. Half - 1
  Second, Minute,    \* in ticks
  PostedSeconds,     \* values of cooldown_seconds; 0 stands for missing
  PostedMinutes,     \* values of duration_minutes; 0 stands for missing
  DefaultSeconds, DefaultMinutes, MaxMinutes,
  Horizon            \* bound: the clock stops here

ASSUME CooldownAssumption ==
  /\ Half \in Nat \ {0} /\ Base \in -Half .. Half - 1 /\ Horizon \in Nat
  /\ Second \in Nat \ {0} /\ Minute \in Nat \ {0}
  /\ PostedSeconds \subseteq Int /\ PostedMinutes \subseteq Int
  /\ DefaultSeconds \in Nat \ {0}
  /\ DefaultMinutes \in 1 .. MaxMinutes /\ MaxMinutes \in Nat

VARIABLES
  now,
  lastApproval,     \* Never before the first approval
  turboCooldown,
  turboExpiry,      \* Never while turbo is off
  \* history variables
  asked,            \* the operators' last word on turbo
  told              \* per caller: the last refusal it got

cooldownVars == <<now, lastApproval, turboCooldown, turboExpiry, asked, told>>

Never == -1

NothingAsked == [from |-> 0, until |-> 0, cooldown |-> 0]
NotTold      == [stamp |-> Never, cooldown |-> 0, retryAt |-> 0]

(* The clock, the mutex's fields, and a turbo that ends in time.           *)
CooldownTypeOK ==
  /\ now \in 0 .. Horizon
  /\ lastApproval \in {Never} \cup 0 .. now
  /\ turboCooldown \in -Half .. Half - 1
  /\ turboExpiry \in {Never} \cup 0 .. now + MaxMinutes * Minute
  /\ asked \in [from : 0 .. now, until : Nat, cooldown : Nat]
  /\ told \in [Callers -> [stamp : {Never} \cup 0 .. now, cooldown : Nat, retryAt : Nat]]

CooldownInit ==
  /\ now = 0
  /\ lastApproval = Never
  /\ turboCooldown = 0
  /\ turboExpiry = Never
  /\ asked = NothingAsked
  /\ told = [c \in Callers |-> NotTold]

-----------------------------------------------------------------------------
TurboActive == turboExpiry # Never /\ now < turboExpiry

(* Mutant: turbo lasts until it is switched off.                           *)
activeCooldownSticky == IF turboExpiry # Never THEN turboCooldown ELSE Base

activeCooldown == IF TurboActive THEN turboCooldown ELSE Base

CoolingFor == activeCooldown - (now - lastApproval)

Cooling == lastApproval # Never /\ CoolingFor > 0

(* The approve case of handleRequestAction passes the cooldown and stamps. *)
(* The stamp stays even when store.Approve then finds the request decided. *)
Stamp(c) ==
  /\ ~Cooling
  /\ lastApproval' = now
  /\ UNCHANGED <<now, turboCooldown, turboExpiry, asked, told>>

(* Retry-After, in whole seconds.  Mutant: rounded down.                   *)
RetryAfterFloor(remaining) == remaining \div Second

RetryAfter(remaining) == remaining \div Second + 1

(* ... or refuses with 429.                                                *)
Refuse(c) ==
  /\ Cooling
  /\ told' = [told EXCEPT ![c] =
                [stamp |-> lastApproval, cooldown |-> activeCooldown,
                 retryAt |-> now + RetryAfter(CoolingFor) * Second]]
  /\ UNCHANGED <<now, lastApproval, turboCooldown, turboExpiry, asked>>

(* POST /api/turbocharge.                                                  *)
Minutes(minutes) ==
  IF minutes <= 0 THEN DefaultMinutes
  ELSE IF minutes > MaxMinutes THEN MaxMinutes ELSE minutes

Seconds(seconds) == IF seconds <= 0 THEN DefaultSeconds ELSE seconds

DurationWrap(d) == ((d + Half) % (2 * Half)) - Half

TurboOn(seconds, minutes) ==
  /\ turboCooldown' = DurationWrap(Seconds(seconds) * Second)
  /\ turboExpiry' = now + Minutes(minutes) * Minute
  /\ asked' = [from |-> now, until |-> turboExpiry',
               cooldown |-> Seconds(seconds) * Second]
  /\ UNCHANGED <<now, lastApproval, told>>

(* DELETE /api/turbocharge.  turboCooldown keeps its value.                *)
TurboOff ==
  /\ turboExpiry' = Never
  /\ asked' = NothingAsked
  /\ UNCHANGED <<now, lastApproval, turboCooldown, told>>

Tick ==
  /\ now < Horizon
  /\ now' = now + 1
  /\ UNCHANGED <<lastApproval, turboCooldown, turboExpiry, asked, told>>

CooldownNext ==
  \/ \E c \in Callers : Stamp(c) \/ Refuse(c)
  \/ \E s \in PostedSeconds, m \in PostedMinutes : TurboOn(s, m)
  \/ TurboOff \/ Tick

CooldownSpec == CooldownInit /\ [][CooldownNext]_cooldownVars

-----------------------------------------------------------------------------
(* The turbo an operator asked for is on, and its own cooldown has passed  *)
(* or is too long for a duration: such a cooldown wraps, to a short or a   *)
(* negative one, and spaces nothing reliably.                              *)
TurboAllows(gap) ==
  /\ now \in asked.from .. asked.until - 1
  /\ gap >= asked.cooldown \/ asked.cooldown >= Half

(* Two approvals are never closer than the configured cooldown unless an   *)
(* operator asked for another one, the time asked for is not over, turbo   *)
(* was not switched off, and what was asked for has passed (README, "30-   *)
(* second cooldown between approvals", "temporarily reduce cooldown") or   *)
(* does not fit a duration.                                                *)
ApprovalsAreSpaced ==
  [][lastApproval' # lastApproval /\ lastApproval # Never =>
       LET gap == lastApproval' - lastApproval
       IN gap >= Base \/ TurboAllows(gap)]_cooldownVars

(* A refused caller that comes back after Retry-After is not refused       *)
(* again, unless another approval or another cooldown came in between: the *)
(* header is whole seconds and the cooldown is not.                        *)
RetryAfterSuffices ==
  \A c \in Callers :
    /\ told[c].stamp # Never
    /\ told[c].stamp = lastApproval
    /\ told[c].cooldown = activeCooldown
    /\ now >= told[c].retryAt
    => ~Cooling

=============================================================================
