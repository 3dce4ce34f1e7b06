--------------------------- MODULE TargetsProofs ----------------------------
(***************************************************************************)
(* Proofs about the registries and the tools that use them (Targets, which *)
(* extends Registries), for every set of requests, calls, keys, records    *)
(* and arguments.                                                          *)
(*                                                                         *)
(* The registries: one operation at a time holds a registry (OneHolder),   *)
(* and a promise made is kept by the file as well as by the map            *)
(* (FileKeepsPromise), which is what a restart relies on.  The tools: a    *)
(* call carries its lookups, its routes and its probes in step             *)
(* (CallIsInStep), and each route was made from one lookup.                *)
(***************************************************************************)
EXTENDS Targets, TLAPS

-----------------------------------------------------------------------------
(***************************************************************************)
(* The inductive invariant of the tool calls.                              *)
(***************************************************************************)
Maybe   == Record \cup {NoRecord}
Side    == [kind : Kinds, at : Keys] \cup [kind : {"host"}, at : Hosts]
Routes  == {RouteVia(side, direct, rec) : side \in Side, direct \in BOOLEAN, rec \in Maybe}
Probes  == {ProbeRoute(side, rec) : side \in Side, rec \in Maybe} \cup {None}
CallPcs == {"none", "refused", "get", "route", "build", "probe", "add", "queued"}

CallRecord ==
  [pc : CallPcs, tool : Tools, sides : Seq(Side), held : Maybe, direct : BOOLEAN,
   routes : Seq(Routes), from : Seq(Maybe), probed : Seq(Probes), asked : Seq(Maybe)]

(* has_relay_ssh counts for a container, except in install_relay_ssh.      *)
GoesDirect(tool, side, rec) ==
  side.kind = "containers" /\ tool # "install_relay_ssh" /\ Direct(rec)

(* Lookups, routes and probes follow the sides, and each route and each    *)
(* probe is what its own lookup says.                                      *)
CallIsInStep(k) ==
  /\ k.pc \in {"get", "route", "build"} => Len(k.routes) < Len(k.sides)
  /\ k.pc \in {"none", "get", "route", "build"} => k.probed = << >> /\ k.asked = << >>
  /\ k.pc \in {"none", "get"} => Len(k.from) = Len(k.routes)
  /\ k.pc \in {"route", "build"} =>
       Len(k.from) = Len(k.routes) + 1 /\ k.held = k.from[Len(k.from)]
  /\ k.pc = "build" =>
       (k.direct <=> GoesDirect(k.tool, k.sides[Len(k.routes) + 1], k.held))
  /\ k.pc = "probe" => Len(k.probed) < Len(k.sides) /\ Len(k.routes) = Len(k.sides)
  /\ Len(k.from) >= Len(k.routes) /\ Len(k.sides) >= Len(k.routes)
  /\ k.pc \notin {"none", "refused"} /\ k.tool = "write_file" =>
       \A i \in 1 .. Len(k.sides) - 1 : k.sides[i].kind # "machines"
  /\ k.pc = "probe" \/ k.probed # << >> =>
       k.tool = "write_file" /\ \A i \in 1 .. Len(k.sides) : k.sides[i].kind # "machines"

RoutesAreMade(k) ==
  \A i \in 1 .. Len(k.routes) :
    k.routes[i] = RouteVia(k.sides[i], GoesDirect(k.tool, k.sides[i], k.from[i]), k.from[i])

ProbesAreMade(k) ==
  /\ Len(k.asked) = Len(k.probed) /\ Len(k.probed) <= Len(k.routes)
  /\ \A i \in 1 .. Len(k.probed) :
       k.probed[i] # None => k.probed[i] = ProbeRoute(k.sides[i], k.asked[i])

CallInv(k) == k \in CallRecord /\ CallIsInStep(k) /\ RoutesAreMade(k) /\ ProbesAreMade(k)

-----------------------------------------------------------------------------
(* What a tool takes its arguments to mean: sides that exist, and a        *)
(* machine only as the last one.                                           *)
LEMMA SidesType ==
  ASSUME NEW a \in Asks
  PROVE  /\ a.tool \in Tools /\ Sides(a) \in Seq(Side)
         /\ \A i \in 1 .. Len(Sides(a)) - 1 : Sides(a)[i].kind # "machines"
<1>1. a \in Ask
  BY TargetsAssumption
<1>2. \A key \in Keys : Container(key) \in Side /\ Machine(key) \in Side
  BY DEF Container, Machine, Side, Kinds
<1>3. \A host \in Hosts \cup {None} : Host(host) \in Side /\ Host(host).kind = "host"
  BY DEF Host, Side, Hosts
<1>4. ~TwoSources(a) => SourceSide(a) \in Side /\ SourceSide(a).kind # "machines"
  BY <1>1, <1>2, <1>3 DEF SourceSide, Ask, Container
<1>5. Sides(a) = << >> \/ (\E x \in Side : Sides(a) = <<x>>)
        \/ (\E x, y \in Side : Sides(a) = <<x, y>> /\ x.kind # "machines")
  <2>1. ASSUME a.tool # "write_file"
        PROVE  Sides(a) = << >> \/ \E x \in Side : Sides(a) = <<x>>
    BY <1>1, <1>2, <1>3, <1>4, <2>1
    DEF Sides, Ask, Tools, requestCommandForHost, execContainer, execMachine, installRelaySSH,
        installSSHKey, buildFormFile
  <2>2. CASE a.tool = "write_file"
    <3>1. Sides(a) = writeFile(a)
      BY <2>2 DEF Sides
    <3>2. CASE a.source /\ ~TwoSources(a)
      <4>1. writeFile(a) = writeFileFromSource(a)
        BY <3>2 DEF writeFile
      <4>2. \E y \in Side : writeFileFromSource(a) = <<SourceSide(a), y>>
        BY <1>1, <1>2, <1>3 DEF writeFileFromSource, Ask
      <4> QED BY <1>4, <3>1, <3>2, <4>1, <4>2
    <3>3. CASE a.source /\ TwoSources(a)
      BY <3>1, <3>3 DEF writeFile
    <3>4. CASE ~a.source
      <4>1. writeFile(a) = << >> \/ \E x \in Side : writeFile(a) = <<x>>
        BY <1>1, <1>2, <1>3, <3>4 DEF writeFile, Ask
      <4> QED BY <3>1, <4>1
    <3> QED BY <3>2, <3>3, <3>4
  <2> QED BY <2>1, <2>2
<1>6. a.tool \in Tools
  BY <1>1 DEF Ask
<1> DEFINE Fit(s) == s \in Seq(Side) /\ \A i \in 1 .. Len(s) - 1 : s[i].kind # "machines"
<1>7. Fit(<< >>)
  OBVIOUS
<1>8. ASSUME NEW x \in Side
      PROVE  Fit(<<x>>)
  BY <1>8
<1>9. ASSUME NEW x \in Side, NEW y \in Side, x.kind # "machines"
      PROVE  Fit(<<x, y>>)
  <2>1. <<x, y>> \in Seq(Side) /\ Len(<<x, y>>) = 2 /\ <<x, y>>[1] = x
    OBVIOUS
  <2>2. \A i \in 1 .. 2 - 1 : i = 1
    OBVIOUS
  <2> QED BY <1>9, <2>1, <2>2
<1> HIDE DEF Fit
<1>10. Fit(Sides(a))
  BY <1>5, <1>7, <1>8, <1>9
<1> QED BY <1>6, <1>10 DEF Fit

(* Nothing has been looked up, built or asked yet.                         *)
LEMMA EmptyCallInv ==
  ASSUME NEW n \in CallRecord, n.pc \in {"none", "refused", "get"},
         n.routes = << >>, n.from = << >>, n.probed = << >>, n.asked = << >>,
         n.pc = "get" => 0 < Len(n.sides),
         \A i \in 1 .. Len(n.sides) - 1 : n.sides[i].kind # "machines"
  PROVE  CallInv(n)
<1>1. n.sides \in Seq(Side) /\ Len(n.sides) \in Nat
  BY DEF CallRecord
<1>2. CallIsInStep(n)
  BY <1>1 DEF CallIsInStep
<1>3. RoutesAreMade(n)
  BY DEF RoutesAreMade
<1>4. ProbesAreMade(n)
  BY DEF ProbesAreMade
<1> QED BY <1>2, <1>3, <1>4 DEF CallInv

(* The type of a call that has not begun.                                  *)
LEMMA FreshType ==
  Fresh \in CallRecord
<1>1. << >> \in Seq(Routes) /\ << >> \in Seq(Probes) /\ << >> \in Seq(Maybe) /\ << >> \in Seq(Side)
  OBVIOUS
<1>2. NoRecord \in Maybe /\ "none" \in CallPcs /\ "write_file" \in Tools
  BY DEF Maybe, CallPcs, Tools
<1>3. FALSE \in BOOLEAN
  OBVIOUS
<1> QED BY <1>1, <1>2, <1>3 DEF CallRecord, Fresh

(* A call that has not begun, or that a crash ended.                       *)
LEMMA FreshInv ==
  ASSUME NEW pc \in {"none", "refused"}
  PROVE  [Fresh EXCEPT !.pc = pc] \in CallRecord /\ CallInv([Fresh EXCEPT !.pc = pc])
<1>1. PICK n : n = [Fresh EXCEPT !.pc = pc]
  OBVIOUS
<1>2. n \in CallRecord /\ n.pc = pc
  BY <1>1, FreshType DEF CallRecord, CallPcs
<1>3. /\ n.routes = << >> /\ n.from = << >> /\ n.probed = << >> /\ n.asked = << >>
      /\ n.sides = << >>
  BY <1>1 DEF Fresh
<1>4. CallInv(n)
  BY <1>2, <1>3, EmptyCallInv
<1> QED BY <1>1, <1>2, <1>4

(* The tool's arguments were read.                                         *)
LEMMA BegunInv ==
  ASSUME NEW a \in Asks, NEW n,
         n = [Fresh EXCEPT !.pc = IF Sides(a) = << >> THEN "refused" ELSE "get",
                           !.tool = a.tool, !.sides = Sides(a)]
  PROVE  n \in CallRecord /\ CallInv(n)
<1>1. PICK sides : sides = Sides(a)
  OBVIOUS
<1>2. /\ a.tool \in Tools /\ sides \in Seq(Side)
      /\ \A i \in 1 .. Len(sides) - 1 : sides[i].kind # "machines"
  BY <1>1, SidesType
<1>3. PICK pc \in {"refused", "get"} : pc = IF sides = << >> THEN "refused" ELSE "get"
  OBVIOUS
<1>4. n = [Fresh EXCEPT !.pc = pc, !.tool = a.tool, !.sides = sides]
  BY <1>1, <1>3
<1>5. n \in CallRecord /\ n.pc = pc /\ n.sides = sides
  BY <1>2, <1>4, FreshType DEF CallRecord, CallPcs
<1>6. n.routes = << >> /\ n.from = << >> /\ n.probed = << >> /\ n.asked = << >>
  BY <1>4 DEF Fresh
<1>7. pc = "get" => 0 < Len(sides)
  BY <1>2, <1>3
<1> QED BY <1>2, <1>5, <1>6, <1>7, EmptyCallInv

(* A call's fields have their types.                                       *)
LEMMA CallTypes ==
  ASSUME NEW k \in CallRecord
  PROVE  /\ k.pc \in CallPcs /\ k.tool \in Tools /\ k.sides \in Seq(Side) /\ k.held \in Maybe
         /\ k.routes \in Seq(Routes) /\ k.from \in Seq(Maybe) /\ k.probed \in Seq(Probes)
         /\ k.asked \in Seq(Maybe)
         /\ Len(k.sides) \in Nat /\ Len(k.routes) \in Nat /\ Len(k.from) \in Nat
         /\ Len(k.probed) \in Nat /\ Len(k.asked) \in Nat
BY DEF CallRecord

(* The next side was looked up.                                            *)
LEMMA LookUpInv ==
  ASSUME NEW k \in CallRecord, CallInv(k), k.pc = "get",
         NEW rec \in Maybe, NEW pc \in {"route", "refused"}, NEW n,
         n = [k EXCEPT !.pc = pc, !.held = rec, !.from = Append(@, rec)]
  PROVE  n \in CallRecord /\ CallInv(n)
<1>1. /\ n.pc = pc /\ n.held = rec /\ n.from = Append(k.from, rec) /\ n.tool = k.tool
      /\ n.sides = k.sides /\ n.routes = k.routes /\ n.probed = k.probed /\ n.asked = k.asked
  BY DEF CallRecord
<1>2. n \in CallRecord
  <2>1. Append(k.from, rec) \in Seq(Maybe) /\ pc \in CallPcs
    BY CallTypes DEF CallPcs
  <2>2. n = [k EXCEPT !.pc = pc, !.held = rec, !.from = Append(k.from, rec)]
    OBVIOUS
  <2> QED BY <2>1, <2>2 DEF CallRecord
<1>3. Len(k.from) = Len(k.routes) /\ Len(k.routes) < Len(k.sides)
  BY DEF CallInv, CallIsInStep
<1>4. /\ Len(n.from) = Len(k.from) + 1 /\ n.from[Len(n.from)] = rec
      /\ \A i \in 1 .. Len(k.from) : n.from[i] = k.from[i]
  BY <1>1, CallTypes
<1>5. CallIsInStep(n)
  BY <1>1, <1>3, <1>4, CallTypes DEF CallInv, CallIsInStep
<1>6. RoutesAreMade(n)
  BY <1>1, <1>3, <1>4, CallTypes DEF CallInv, RoutesAreMade
<1>7. ProbesAreMade(n)
  BY <1>1 DEF CallInv, ProbesAreMade
<1> QED BY <1>2, <1>5, <1>6, <1>7 DEF CallInv

(* has_relay_ssh was read.                                                 *)
LEMMA ChooseRouteInv ==
  ASSUME NEW k \in CallRecord, CallInv(k), k.pc = "route", NEW direct \in BOOLEAN,
         direct <=> GoesDirect(k.tool, k.sides[Len(k.routes) + 1], k.held), NEW n,
         n = [k EXCEPT !.pc = "build", !.direct = direct]
  PROVE  n \in CallRecord /\ CallInv(n)
<1>1. /\ n.pc = "build" /\ n.held = k.held /\ n.from = k.from /\ n.tool = k.tool
      /\ n.sides = k.sides /\ n.routes = k.routes /\ n.probed = k.probed /\ n.asked = k.asked
  BY DEF CallRecord
<1>2. n.direct = direct
  BY DEF CallRecord
<1>3. n \in CallRecord
  BY DEF CallRecord, CallPcs
<1>4. n.direct <=> GoesDirect(n.tool, n.sides[Len(n.routes) + 1], n.held)
  BY <1>1, <1>2
<1>5. CallIsInStep(n)
  BY <1>1, <1>4 DEF CallInv, CallIsInStep
<1>6. RoutesAreMade(n)
  BY <1>1 DEF CallInv, RoutesAreMade
<1>7. ProbesAreMade(n)
  BY <1>1 DEF CallInv, ProbesAreMade
<1> QED BY <1>3, <1>5, <1>6, <1>7 DEF CallInv

(* The command was built from what the lookup returned.                    *)
LEMMA BuildInv ==
  ASSUME NEW k \in CallRecord, CallInv(k), k.pc = "build", NEW n, NEW next,
         next = IF Len(k.routes) + 1 < Len(k.sides) THEN "get"
                ELSE IF /\ k.tool = "write_file"
                        /\ k.sides[Len(k.routes) + 1].kind # "machines" THEN "probe"
                ELSE "add",
         n = [k EXCEPT !.routes = Append(@, RouteVia(k.sides[Len(k.routes) + 1], k.direct, k.held)),
                       !.held = NoRecord, !.pc = next]
  PROVE  n \in CallRecord /\ CallInv(n)
<1>1. PICK j \in Nat : j = Len(k.routes) + 1
  BY CallTypes
<1>2. PICK route : route = RouteVia(k.sides[j], k.direct, k.held)
  OBVIOUS
<1>3. /\ n.pc = next /\ n.held = NoRecord /\ n.from = k.from /\ n.tool = k.tool
      /\ n.sides = k.sides /\ n.routes = Append(k.routes, route)
      /\ n.probed = k.probed /\ n.asked = k.asked
  BY <1>1, <1>2 DEF CallRecord
<1>4. /\ Len(k.from) = j /\ k.held = k.from[j] /\ j <= Len(k.sides) /\ j >= 1
      /\ k.probed = << >> /\ k.asked = << >>
      /\ k.tool = "write_file" => \A i \in 1 .. Len(k.sides) - 1 : k.sides[i].kind # "machines"
  BY <1>1, CallTypes DEF CallInv, CallIsInStep
<1>5. k.direct \in BOOLEAN
  BY DEF CallRecord
<1>6. k.direct = GoesDirect(k.tool, k.sides[j], k.held)
  BY <1>1, <1>5 DEF CallInv, CallIsInStep, GoesDirect
<1>7. route \in Routes
  <2>1. k.sides[j] \in Side /\ k.held \in Maybe
    BY <1>1, <1>4, CallTypes
  <2> QED BY <1>2, <1>5, <2>1 DEF Routes
<1>8. n \in CallRecord
  <2>1. NoRecord \in Maybe /\ next \in CallPcs
    BY DEF Maybe, CallPcs
  <2>2. Append(k.routes, route) \in Seq(Routes)
    BY <1>7, CallTypes
  <2>3. n = [k EXCEPT !.routes = Append(k.routes, route), !.held = NoRecord, !.pc = next]
    BY <1>1, <1>2
  <2> QED BY <2>1, <2>2, <2>3 DEF CallRecord
<1>9. /\ Len(n.routes) = j /\ n.routes[j] = route
      /\ \A i \in 1 .. j - 1 : n.routes[i] = k.routes[i]
  BY <1>1, <1>3, <1>7, CallTypes
<1>10. CallIsInStep(n)
  <2>1. CASE next = "get"
    BY <1>1, <1>3, <1>4, <1>9, <2>1, CallTypes DEF CallIsInStep
  <2>2. CASE next = "probe"
    <3>1. Len(k.sides) = j /\ k.tool = "write_file" /\ k.sides[j].kind # "machines"
      BY <1>1, <1>4, <2>2, CallTypes
    <3>2. \A i \in 1 .. Len(k.sides) : k.sides[i].kind # "machines"
      BY <1>1, <1>4, <3>1, CallTypes
    <3> QED BY <1>1, <1>3, <1>4, <1>9, <2>2, <3>1, <3>2, CallTypes DEF CallIsInStep
  <2>3. CASE next = "add"
    BY <1>1, <1>3, <1>4, <1>9, <2>3, CallTypes DEF CallIsInStep
  <2> QED BY <2>1, <2>2, <2>3
<1>11. RoutesAreMade(n)
  <2>1. ASSUME NEW i \in 1 .. j
        PROVE  n.routes[i] = RouteVia(k.sides[i], GoesDirect(k.tool, k.sides[i], k.from[i]), k.from[i])
    <3>1. CASE i = j
      BY <1>2, <1>4, <1>6, <1>9, <3>1
    <3>2. CASE i < j
      BY <1>1, <1>9, <3>2, CallTypes DEF CallInv, RoutesAreMade
    <3> QED BY <1>1, <3>1, <3>2
  <2> QED BY <1>3, <1>9, <2>1 DEF RoutesAreMade
<1>12. ProbesAreMade(n)
  BY <1>3, <1>4, <1>9, <1>1 DEF ProbesAreMade
<1> QED BY <1>8, <1>10, <1>11, <1>12 DEF CallInv

(* The next side was asked, or could not be.                               *)
LEMMA ProbeInv ==
  ASSUME NEW k \in CallRecord, CallInv(k), k.pc = "probe", NEW n, NEW rec \in Maybe,
         NEW route, NEW next \in {"probe", "add", "refused"},
         next = "probe" => Len(k.probed) + 1 < Len(k.sides),
         route = None \/ route = ProbeRoute(k.sides[Len(k.probed) + 1], rec),
         n = [k EXCEPT !.probed = Append(@, route), !.asked = Append(@, rec), !.pc = next]
  PROVE  n \in CallRecord /\ CallInv(n)
<1>1. PICK j \in Nat : j = Len(k.probed) + 1
  BY CallTypes
<1>2. /\ n.pc = next /\ n.from = k.from /\ n.tool = k.tool
      /\ n.sides = k.sides /\ n.routes = k.routes
      /\ n.probed = Append(k.probed, route) /\ n.asked = Append(k.asked, rec)
  BY DEF CallRecord
<1>3. /\ j <= Len(k.sides) /\ j >= 1 /\ Len(k.asked) = j - 1 /\ Len(k.routes) = Len(k.sides)
      /\ Len(k.from) >= Len(k.routes) /\ k.tool = "write_file"
      /\ \A i \in 1 .. Len(k.sides) : k.sides[i].kind # "machines"
  BY <1>1, CallTypes DEF CallInv, CallIsInStep, ProbesAreMade
<1>4. route \in Probes
  <2>1. k.sides[j] \in Side
    BY <1>1, <1>3, CallTypes
  <2>2. route = None \/ route = ProbeRoute(k.sides[j], rec)
    BY <1>1
  <2> QED BY <2>1, <2>2 DEF Probes
<1>5. n \in CallRecord
  <2>1. Append(k.probed, route) \in Seq(Probes) /\ Append(k.asked, rec) \in Seq(Maybe)
    BY <1>4, CallTypes
  <2>2. next \in CallPcs
    BY DEF CallPcs
  <2>3. n = [k EXCEPT !.probed = Append(k.probed, route), !.asked = Append(k.asked, rec), !.pc = next]
    OBVIOUS
  <2> QED BY <2>1, <2>2, <2>3 DEF CallRecord
<1>6. /\ Len(n.probed) = j /\ n.probed[j] = route
      /\ \A i \in 1 .. j - 1 : n.probed[i] = k.probed[i]
  BY <1>1, <1>2, <1>4, CallTypes
<1>7. /\ Len(n.asked) = j /\ n.asked[j] = rec
      /\ \A i \in 1 .. j - 1 : n.asked[i] = k.asked[i]
  BY <1>1, <1>2, <1>3, CallTypes
<1>8. CallIsInStep(n)
  BY <1>1, <1>2, <1>3, <1>6, CallTypes DEF CallIsInStep
<1>9. RoutesAreMade(n)
  BY <1>2 DEF CallInv, RoutesAreMade
<1>10. ProbesAreMade(n)
  <2>1. ASSUME NEW i \in 1 .. j, n.probed[i] # None
        PROVE  n.probed[i] = ProbeRoute(k.sides[i], n.asked[i])
    <3>1. CASE i = j
      BY <1>1, <1>6, <1>7, <2>1, <3>1
    <3>2. CASE i < j
      BY <1>1, <1>6, <1>7, <2>1, <3>2, CallTypes DEF CallInv, ProbesAreMade
    <3>3. i = j \/ i < j
      BY <1>1
    <3> QED BY <3>1, <3>2, <3>3
  <2> QED BY <1>2, <1>3, <1>6, <1>7, <2>1 DEF ProbesAreMade
<1> QED BY <1>5, <1>8, <1>9, <1>10 DEF CallInv

(* The request was queued.                                                 *)
LEMMA AddRequestInv ==
  ASSUME NEW k \in CallRecord, CallInv(k), k.pc = "add", NEW n, n = [k EXCEPT !.pc = "queued"]
  PROVE  n \in CallRecord /\ CallInv(n)
<1>1. /\ n.pc = "queued" /\ n.from = k.from /\ n.tool = k.tool /\ n.held = k.held
      /\ n.sides = k.sides /\ n.routes = k.routes /\ n.probed = k.probed /\ n.asked = k.asked
  BY DEF CallRecord
<1>2. n \in CallRecord
  BY DEF CallRecord, CallPcs
<1>3. CallIsInStep(n)
  BY <1>1 DEF CallInv, CallIsInStep
<1>4. RoutesAreMade(n)
  BY <1>1 DEF CallInv, RoutesAreMade
<1>5. ProbesAreMade(n)
  BY <1>1 DEF CallInv, ProbesAreMade
<1> QED BY <1>2, <1>3, <1>4, <1>5 DEF CallInv

-----------------------------------------------------------------------------
(* The calls of a state.                                                   *)
CallsHold == call \in [Calls -> CallRecord] /\ \A c \in Calls : CallInv(call[c])

(* A step of one call.                                                     *)
LEMMA OneCallHolds ==
  ASSUME CallsHold, NEW c \in Calls, NEW n \in CallRecord, CallInv(n),
         call' = [call EXCEPT ![c] = n]
  PROVE  CallsHold'
BY DEF CallsHold

(* A lookup returns a record or nothing.                                   *)
LEMMA GetType ==
  ASSUME TypeOK, NEW side \in Side
  PROVE  Get(side) \in Maybe
BY DEF TypeOK, Registry, Get, Side, Maybe, Kinds

(* The steps of a call, on the calls of a state.                           *)
LEMMA BeginHolds ==
  ASSUME CallsHold, NEW c \in Calls, NEW a \in Asks, Begin(c, a)
  PROVE  CallsHold'
<1>1. PICK n : n = [Fresh EXCEPT !.pc = IF Sides(a) = << >> THEN "refused" ELSE "get",
                                 !.tool = a.tool, !.sides = Sides(a)]
  OBVIOUS
<1>2. n \in CallRecord /\ CallInv(n)
  BY <1>1, BegunInv
<1>3. call' = [call EXCEPT ![c] = n]
  BY <1>1 DEF Begin
<1> QED BY <1>2, <1>3, OneCallHolds

(* A lookup, whatever the registry holds at the time.                      *)
LEMMA LookUpHolds ==
  ASSUME CallsHold, TypeOK, NEW c \in Calls, LookUp(c)
  PROVE  CallsHold'
<1>1. PICK k \in CallRecord : k = call[c]
  BY DEF CallsHold
<1>2. CallInv(k) /\ k.pc = "get"
  BY <1>1 DEF CallsHold, LookUp
<1>3. Current(c) \in Side
  <2>1. Len(k.routes) < Len(k.sides)
    BY <1>2 DEF CallInv, CallIsInStep
  <2>2. k.sides[Len(k.routes) + 1] \in Side
    BY <2>1, CallTypes
  <2> QED BY <1>1, <2>2 DEF Current
<1>4. PICK rec \in Maybe : rec = Get(Current(c))
  BY <1>3, GetType
<1>5. PICK pc \in {"route", "refused"} :
        call' = [call EXCEPT ![c].pc = pc, ![c].held = rec, ![c].from = Append(@, rec)]
  BY <1>4 DEF LookUp
<1>6. PICK n : n = [k EXCEPT !.pc = pc, !.held = rec, !.from = Append(@, rec)]
  OBVIOUS
<1>7. call' = [call EXCEPT ![c] = n]
  BY <1>1, <1>5, <1>6 DEF CallsHold, CallRecord
<1>8. n \in CallRecord /\ CallInv(n)
  BY <1>2, <1>6, LookUpInv
<1> QED BY <1>7, <1>8, OneCallHolds

(* has_relay_ssh is read from the record that was looked up.               *)
LEMMA ChooseRouteHolds ==
  ASSUME CallsHold, NEW c \in Calls, ChooseRoute(c)
  PROVE  CallsHold'
<1>1. PICK k \in CallRecord : k = call[c]
  BY DEF CallsHold
<1>2. CallInv(k) /\ k.pc = "route"
  BY <1>1 DEF CallsHold, ChooseRoute
<1>3. PICK direct \in BOOLEAN :
        direct = GoesDirect(k.tool, k.sides[Len(k.routes) + 1], k.held)
  BY DEF GoesDirect
<1>4. call' = [call EXCEPT ![c].pc = "build", ![c].direct = direct]
  BY <1>1, <1>3 DEF ChooseRoute, GoesDirect, Current
<1>5. PICK n : n = [k EXCEPT !.pc = "build", !.direct = direct]
  OBVIOUS
<1>6. call' = [call EXCEPT ![c] = n]
  BY <1>1, <1>4, <1>5 DEF CallsHold, CallRecord
<1>7. n \in CallRecord /\ CallInv(n)
  BY <1>2, <1>3, <1>5, ChooseRouteInv
<1> QED BY <1>6, <1>7, OneCallHolds

(* The command for one side is built.                                      *)
LEMMA BuildHolds ==
  ASSUME CallsHold, NEW c \in Calls, Build(c)
  PROVE  CallsHold'
<1>1. PICK k \in CallRecord : k = call[c]
  BY DEF CallsHold
<1>2. CallInv(k) /\ k.pc = "build"
  BY <1>1 DEF CallsHold, Build
<1>3. PICK next : next = IF Len(k.routes) + 1 < Len(k.sides) THEN "get"
                         ELSE IF /\ k.tool = "write_file"
                                 /\ k.sides[Len(k.routes) + 1].kind # "machines" THEN "probe"
                         ELSE "add"
  OBVIOUS
<1>4. next = AfterBuild(c)
  BY <1>1, <1>3 DEF AfterBuild, Current
<1>5. PICK route : route = RouteVia(k.sides[Len(k.routes) + 1], k.direct, k.held)
  OBVIOUS
<1>6. call' = [call EXCEPT ![c].routes = Append(@, route), ![c].held = NoRecord, ![c].pc = next]
  BY <1>1, <1>4, <1>5 DEF Build, Current
<1>7. PICK n : n = [k EXCEPT !.routes = Append(@, route), !.held = NoRecord, !.pc = next]
  OBVIOUS
<1>8. call' = [call EXCEPT ![c] = n]
  BY <1>1, <1>6, <1>7 DEF CallsHold, CallRecord
<1>9. n \in CallRecord /\ CallInv(n)
  BY <1>2, <1>3, <1>5, <1>7, BuildInv
<1> QED BY <1>8, <1>9, OneCallHolds

(* A probe makes a lookup of its own, or fails.                            *)
LEMMA ProbeHolds ==
  ASSUME CallsHold, TypeOK, NEW c \in Calls, Probe(c)
  PROVE  CallsHold'
<1>1. PICK k \in CallRecord : k = call[c]
  BY DEF CallsHold
<1>2. CallInv(k) /\ k.pc = "probe"
  BY <1>1 DEF CallsHold, Probe
<1>3. PICK side \in Side : side = k.sides[Len(k.probed) + 1]
  <2>1. Len(k.probed) < Len(k.sides)
    BY <1>2 DEF CallInv, CallIsInStep
  <2> QED BY <2>1, CallTypes
<1>4. ASSUME NEW rec \in Maybe, NEW route, NEW next \in {"probe", "add", "refused"},
             next = "probe" => Len(k.probed) + 1 < Len(k.sides),
             route = None \/ route = ProbeRoute(side, rec),
             Probed(c, route, rec, next)
      PROVE  CallsHold'
  <2>1. PICK n : n = [k EXCEPT !.probed = Append(@, route), !.asked = Append(@, rec), !.pc = next]
    OBVIOUS
  <2>2. call' = [call EXCEPT ![c] = n]
    BY <1>1, <1>4, <2>1 DEF Probed, CallsHold, CallRecord
  <2>3. n \in CallRecord /\ CallInv(n)
    BY <1>2, <1>3, <1>4, <2>1, ProbeInv
  <2> QED BY <2>2, <2>3, OneCallHolds
<1>5. Get(side) \in Maybe /\ NoRecord \in Maybe
  BY GetType DEF Maybe
<1>6. PICK next \in {"probe", "add"} :
        next = IF Len(k.probed) + 1 < Len(k.sides) THEN "probe" ELSE "add"
  OBVIOUS
<1>7. \/ Probed(c, None, NoRecord, next)
      \/ Probed(c, ProbeRoute(side, Get(side)), Get(side), next)
      \/ Probed(c, ProbeRoute(side, Get(side)), Get(side), "refused")
  BY <1>1, <1>3, <1>6 DEF Probe
<1> QED BY <1>4, <1>5, <1>6, <1>7

(* The request is queued.                                                  *)
LEMMA AddRequestHolds ==
  ASSUME CallsHold, NEW c \in Calls, AddRequest(c)
  PROVE  CallsHold'
<1>1. PICK k \in CallRecord : k = call[c]
  BY DEF CallsHold
<1>2. CallInv(k) /\ k.pc = "add"
  BY <1>1 DEF CallsHold, AddRequest
<1>3. PICK n : n = [k EXCEPT !.pc = "queued"]
  OBVIOUS
<1>4. call' = [call EXCEPT ![c] = n]
  BY <1>1, <1>3 DEF AddRequest
<1>5. n \in CallRecord /\ CallInv(n)
  BY <1>2, <1>3, AddRequestInv
<1> QED BY <1>4, <1>5, OneCallHolds

(* A step of a tool, whatever the registries hold.                         *)
LEMMA ToolCallHolds ==
  ASSUME CallsHold, TypeOK, NEW c \in Calls, ToolCall(c)
  PROVE  CallsHold'
<1>1. CASE \E a \in Asks : Begin(c, a)
  BY <1>1, BeginHolds
<1>2. CASE LookUp(c)
  BY <1>2, LookUpHolds
<1>3. CASE ChooseRoute(c)
  BY <1>3, ChooseRouteHolds
<1>4. CASE Build(c)
  BY <1>4, BuildHolds
<1>5. CASE Probe(c)
  BY <1>5, ProbeHolds
<1>6. CASE AddRequest(c)
  BY <1>6, AddRequestHolds
<1> QED BY <1>1, <1>2, <1>3, <1>4, <1>5, <1>6 DEF ToolCall

(* A crash ends the calls that had not queued their request.               *)
LEMMA CallsEndHolds ==
  ASSUME CallsHold, CallsEnd
  PROVE  CallsHold'
<1>1. PICK n : n = [Fresh EXCEPT !.pc = "refused"]
  OBVIOUS
<1>2. n \in CallRecord /\ CallInv(n)
  BY <1>1, FreshInv
<1>3. call' = [c \in Calls |-> IF call[c].pc \in {"none", "queued"} THEN call[c] ELSE n]
  BY <1>1 DEF CallsEnd
<1> QED BY <1>2, <1>3 DEF CallsHold

(* Before the first call.                                                  *)
LEMMA InitCallsHold ==
  ASSUME call = [c \in Calls |-> Fresh]
  PROVE  CallsHold
<1>1. Fresh \in CallRecord /\ CallInv(Fresh)
  <2>1. /\ Fresh.pc = "none" /\ Fresh.sides = << >> /\ Fresh.routes = << >>
        /\ Fresh.from = << >> /\ Fresh.probed = << >> /\ Fresh.asked = << >>
    BY DEF Fresh
  <2> QED BY <2>1, FreshType, EmptyCallInv
<1> QED BY <1>1 DEF CallsHold

-----------------------------------------------------------------------------
(* The routes of a call that is in step are each of one lookup.            *)
LEMMA RoutesOfOneRecord ==
  CallsHold => TargetIsOneRecord
<1> SUFFICES ASSUME CallsHold, NEW c \in Calls, NEW i \in DOMAIN call[c].routes
             PROVE  call[c].routes[i] =
                      RouteVia(call[c].sides[i],
                               GoesDirect(call[c].tool, call[c].sides[i], call[c].from[i]),
                               call[c].from[i])
  BY DEF TargetIsOneRecord, GoesDirect
<1>1. PICK k \in CallRecord : k = call[c]
  BY DEF CallsHold
<1>2. RoutesAreMade(k)
  BY <1>1 DEF CallsHold, CallInv
<1>3. i \in 1 .. Len(k.routes)
  BY <1>1, CallTypes
<1> QED BY <1>1, <1>2, <1>3 DEF RoutesAreMade

(* A probe and a route of the same record take the same way.               *)
LEMMA ProbesMirror ==
  CallsHold => ProbeMirrorsWrite
<1> SUFFICES ASSUME CallsHold, NEW c \in Calls, NEW i \in DOMAIN call[c].probed,
                    call[c].probed[i] # None, call[c].asked[i] = call[c].from[i]
             PROVE  call[c].probed[i] = call[c].routes[i]
  BY DEF ProbeMirrorsWrite
<1>1. PICK k \in CallRecord : k = call[c]
  BY DEF CallsHold
<1>2. CallInv(k)
  BY <1>1 DEF CallsHold
<1>3. i \in 1 .. Len(k.probed)
  BY <1>1, CallTypes
<1>4. i \in 1 .. Len(k.routes)
  BY <1>2, <1>3, CallTypes DEF CallInv, ProbesAreMade
<1>5. k.probed[i] = ProbeRoute(k.sides[i], k.asked[i])
  BY <1>1, <1>2, <1>3 DEF CallInv, ProbesAreMade
<1>6. k.routes[i] = RouteVia(k.sides[i], GoesDirect(k.tool, k.sides[i], k.from[i]), k.from[i])
  BY <1>2, <1>4 DEF CallInv, RoutesAreMade
<1>7. k.tool = "write_file" /\ k.sides[i].kind # "machines" /\ k.sides[i] \in Side
  <2>1. k.probed # << >>
    BY <1>3
  <2>2. i \in 1 .. Len(k.sides)
    BY <1>2, <1>4, CallTypes DEF CallInv, CallIsInStep
  <2> QED BY <1>2, <2>1, <2>2, CallTypes DEF CallInv, CallIsInStep
<1>8. k.sides[i].kind \in {"host", "containers"}
  BY <1>7 DEF Side, Kinds
<1>9. ProbeRoute(k.sides[i], k.from[i]) =
        RouteVia(k.sides[i], GoesDirect(k.tool, k.sides[i], k.from[i]), k.from[i])
  <2>1. CASE k.sides[i].kind = "host"
    <3>1. ProbeRoute(k.sides[i], k.from[i]) = HostRoute(k.sides[i].at)
      BY <2>1 DEF ProbeRoute
    <3>2. ASSUME NEW direct
          PROVE  RouteVia(k.sides[i], direct, k.from[i]) = HostRoute(k.sides[i].at)
      BY <2>1 DEF RouteVia
    <3> QED BY <3>1, <3>2
  <2>2. CASE k.sides[i].kind = "containers" /\ Direct(k.from[i])
    <3>1. GoesDirect(k.tool, k.sides[i], k.from[i])
      BY <1>7, <2>2 DEF GoesDirect
    <3>2. ProbeRoute(k.sides[i], k.from[i]) = DirectRoute(k.from[i])
      BY <2>2 DEF ProbeRoute
    <3> QED BY <2>2, <3>1, <3>2 DEF RouteVia
  <2>3. CASE k.sides[i].kind = "containers" /\ ~Direct(k.from[i])
    <3>1. ~GoesDirect(k.tool, k.sides[i], k.from[i])
      BY <2>3 DEF GoesDirect
    <3>2. ProbeRoute(k.sides[i], k.from[i]) = PctRoute(k.sides[i].at)
      BY <2>3 DEF ProbeRoute
    <3> QED BY <2>3, <3>1, <3>2 DEF RouteVia
  <2> QED BY <1>8, <2>1, <2>2, <2>3
<1> QED BY <1>1, <1>5, <1>6, <1>9

USE RegistriesAssumption, RegistryTornAssumption, TargetsAssumption

-----------------------------------------------------------------------------
(***************************************************************************)
(* The inductive invariant of the registries.                              *)
(***************************************************************************)
Holding(r) == req[r].pc \in {"truncate", "write"}

(* The mutex of a registry.                                                *)
OneHolder ==
  \A r, q \in Reqs : Holding(r) /\ Holding(q) /\ req[r].kind = req[q].kind => r = q

(* A relay that is down has nothing in memory and runs nothing.            *)
DownIsIdle ==
  ~up => /\ mem = [kind \in Kinds |-> Empty]
         /\ \A r \in Reqs : req[r].pc \in {"none", "failure"}

FileKeepsPromise ==
  \A kind \in Kinds, k \in Keys :
    file[kind] # Torn => promised[kind][k] \in {Unsure, file[kind][k]}

NotBlank(value) == value # ""

(* A registered machine has a shell, in the map and in the file.           *)
ShellsAreSet ==
  \A k \in Keys :
    /\ mem["machines"][k] # NoRecord => NotBlank(mem["machines"][k].shell)
    /\ file["machines"] # Torn /\ file["machines"][k] # NoRecord =>
         NotBlank(file["machines"][k].shell)

(* SuccessIsDurable, of one key.                                           *)
Kept(kind, k) ==
  \/ promised[kind][k] \in {Unsure, mem[kind][k]}
  \/ \E r \in Reqs : req[r].kind = kind /\ req[r].key = k /\ Holding(r)

Request == [pc : Pc, kind : Kinds, op : {"register", "delete"}, key : Keys, rec : Record]

RInv ==
  TypeOK /\ OneHolder /\ DownIsIdle /\ FileKeepsPromise /\ SuccessIsDurable /\ ShellsAreSet

-----------------------------------------------------------------------------
(* The types of an unused request and of an empty registry.                *)
LEMMA BlankType ==
  /\ AnyRec \in Record
  /\ Blank \in [pc : Pc, kind : Kinds, op : {"register", "delete"}, key : Keys, rec : Record]
  /\ Empty \in Registry
  /\ \A k \in Keys : Empty[k] = NoRecord
<1>1. \E r : r \in Record
  <2>1. PICK a \in Addrs : TRUE
    OBVIOUS
  <2>2. [addr |-> a, user |-> "", ident |-> "", shell |-> ""] \in Record
    BY DEF Record, Shells
  <2> QED BY <2>2
<1>2. AnyRec \in Record
  BY <1>1 DEF AnyRec
<1>3. (CHOOSE k \in Keys : TRUE) \in Keys
  OBVIOUS
<1>4. Blank \in [pc : Pc, kind : Kinds, op : {"register", "delete"}, key : Keys, rec : Record]
  BY <1>2, <1>3 DEF Blank, Pc, Kinds
<1> QED BY <1>2, <1>4 DEF Empty, Registry

(* The types of the data, without the flag.                                *)
LEMMA DataTypes ==
  ASSUME TypeOK
  PROVE  /\ mem \in [Kinds -> Registry]
         /\ file \in [Kinds -> Registry \cup {Torn}]
         /\ req \in [Reqs -> Request]
         /\ promised \in [Kinds -> [Keys -> Record \cup {NoRecord, Unsure}]]
BY DEF TypeOK, Request

(* SuccessIsDurable, key by key.                                           *)
LEMMA KeptIsDurable == SuccessIsDurable <=> (up => \A kind \in Kinds, k \in Keys : Kept(kind, k))
BY DEF SuccessIsDurable, Kept, Holding

(* Empty registries and files, no request.                                 *)
LEMMA InitRInv == Init => RInv
<1> SUFFICES ASSUME Init PROVE RInv
  OBVIOUS
<1>1. \A r \in Reqs : req[r].pc = "none"
  BY DEF Init, Blank
<1>2. TypeOK
  <2>1. up \in BOOLEAN
    BY DEF Init
  <2>2. \A k \in Keys : Empty[k] \in Record \cup {NoRecord, Unsure}
    BY BlankType
  <2> QED BY <2>1, <2>2, BlankType DEF Init, TypeOK, Empty
<1>3. \A kind \in Kinds : mem[kind] = Empty /\ file[kind] = Empty /\ promised[kind] = Empty
  BY DEF Init
<1>4. ShellsAreSet
  BY <1>3, BlankType DEF ShellsAreSet, Kinds
<1> QED BY <1>1, <1>2, <1>3, <1>4
        DEF Init, RInv, OneHolder, Holding, DownIsIdle, FileKeepsPromise, SuccessIsDurable

(* NewStore: what the file kept is what the relay starts with.             *)
LEMMA NewStoreRInv ==
  ASSUME RInv, NewStore
  PROVE  RInv'
<1>1. /\ up' /\ ~up /\ mem' = file /\ UNCHANGED <<file, req, promised>>
      /\ \A kind \in Kinds : file[kind] # Torn
  BY DEF NewStore
<1>2. TypeOK'
  <2>1. up' \in BOOLEAN
    BY DEF NewStore
  <2> QED BY <1>1, <2>1 DEF RInv, TypeOK
<1>3. OneHolder' /\ FileKeepsPromise' /\ ShellsAreSet'
  BY <1>1 DEF RInv, OneHolder, Holding, FileKeepsPromise, ShellsAreSet, Kinds
<1>4. SuccessIsDurable'
  BY <1>1 DEF RInv, FileKeepsPromise, SuccessIsDurable
<1> QED BY <1>1, <1>2, <1>3, <1>4 DEF RInv, DownIsIdle

(* A crash: an operation it cuts short promises nothing.                   *)
LEMMA CrashRInv ==
  ASSUME RInv, Crash
  PROVE  RInv'
<1>1. /\ ~up' /\ file' = file /\ mem' = [kind \in Kinds |-> Empty]
      /\ req' = [r \in Reqs |-> IF req[r].pc = "none" THEN req[r]
                                ELSE [req[r] EXCEPT !.pc = "failure"]]
  BY DEF Crash
<1>kept. \A kind \in Kinds, k \in Keys : promised'[kind][k] \in {Unsure, promised[kind][k]}
  BY DEF Crash
<1>2. \A r \in Reqs : req'[r].pc \in {"none", "failure"}
  BY <1>1 DEF RInv, TypeOK
<1>3. TypeOK'
  <2>1. up' \in BOOLEAN
    BY Zenon DEF Crash
  <2>2. req' \in [Reqs -> [pc : Pc, kind : Kinds, op : {"register", "delete"},
                           key : Keys, rec : Record]]
    BY <1>1 DEF RInv, TypeOK, Pc
  <2>3. promised' \in [Kinds -> [Keys -> Record \cup {NoRecord, Unsure}]]
    <3>1. promised \in [Kinds -> [Keys -> Record \cup {NoRecord, Unsure}]]
      BY DEF RInv, TypeOK
    <3> QED BY <1>kept, <3>1 DEF Crash
  <2> QED BY <1>1, <2>1, <2>2, <2>3, BlankType DEF RInv, TypeOK
<1>4. OneHolder' /\ DownIsIdle'
  BY <1>1, <1>2 DEF OneHolder, Holding, DownIsIdle
<1>5. FileKeepsPromise'
  BY <1>1, <1>kept DEF RInv, FileKeepsPromise
<1>6. ShellsAreSet'
  BY <1>1, BlankType DEF RInv, ShellsAreSet, Kinds
<1>7. SuccessIsDurable'
  BY <1>1 DEF SuccessIsDurable
<1> QED BY <1>3, <1>4, <1>5, <1>6, <1>7 DEF RInv

(* A request is queued, approved, or fails before it changes anything.     *)
LEMMA RequestRInv ==
  ASSUME RInv, NEW r \in Reqs, NEW v \in Request, req' = [req EXCEPT ![r] = v],
         up, UNCHANGED <<up, mem, file, promised>>,
         v.pc \notin {"truncate", "write"}, ~Holding(r)
  PROVE  RInv'
<1>1. TypeOK
  BY DEF RInv
<1>2. \A q \in Reqs : /\ Holding(q)' <=> Holding(q)
                      /\ Holding(q) => req'[q] = req[q]
  BY <1>1 DEF TypeOK, Holding
<1>3. TypeOK'
  BY <1>1 DEF TypeOK, Request
<1>4. OneHolder'
  BY <1>2 DEF RInv, OneHolder
<1>5. SuccessIsDurable'
  <2>1. \A kind \in Kinds, k \in Keys : Kept(kind, k)
    BY KeptIsDurable DEF RInv
  <2>2. \A kind \in Kinds, k \in Keys : Kept(kind, k)'
    <3> SUFFICES ASSUME NEW kind \in Kinds, NEW k \in Keys
                 PROVE  Kept(kind, k)'
      OBVIOUS
    <3>1. CASE promised[kind][k] \in {Unsure, mem[kind][k]}
      BY <3>1 DEF Kept
    <3>2. ASSUME NEW q \in Reqs, req[q].kind = kind, req[q].key = k, Holding(q)
          PROVE  Kept(kind, k)'
      BY <1>2, <3>2 DEF Kept
    <3>3. \/ promised[kind][k] \in {Unsure, mem[kind][k]}
          \/ \E q \in Reqs : req[q].kind = kind /\ req[q].key = k /\ Holding(q)
      BY <2>1 DEF Kept
    <3> QED BY <3>1, <3>2, <3>3
  <2> QED BY <2>2, KeptIsDurable DEF SuccessIsDurable, Kept, Holding
<1> QED BY <1>3, <1>4, <1>5 DEF RInv, DownIsIdle, FileKeepsPromise, ShellsAreSet

(* The tools that queue registrations and deletions.                       *)
LEMMA AgentRInv ==
  ASSUME RInv, NEW r \in Reqs, Agent(r)
  PROVE  RInv'
<1>1. ASSUME NEW kind \in Kinds, NEW op \in {"register", "delete"}, NEW key \in Keys,
             NEW rec \in Record, Queue(r, kind, op, key, rec)
      PROVE  RInv'
  <2> DEFINE v == [pc |-> "pending", kind |-> kind, op |-> op, key |-> key, rec |-> rec]
  <2>1. v \in Request /\ v.pc \notin {"truncate", "write"}
    BY DEF Request, Pc
  <2>2. /\ up /\ req' = [req EXCEPT ![r] = v] /\ UNCHANGED <<up, mem, file, promised>>
        /\ ~Holding(r)
    BY <1>1 DEF Queue, Holding
  <2> QED BY <2>1, <2>2, RequestRInv
<1>2. ASSUME NEW o \in Offers, registerContainer(r, o) \/ registerMachine(r, o)
      PROVE  RInv'
  <2>1. o.key \in Keys /\ o.rec \in Record
    OBVIOUS
  <2> QED BY <1>1, <1>2, <2>1 DEF registerContainer, registerMachine, Kinds
<1>3. ASSUME NEW key \in Keys, deleteContainer(r, key) \/ deleteMachine(r, key)
      PROVE  RInv'
  BY <1>1, <1>3, BlankType DEF deleteContainer, deleteMachine, Kinds
<1> QED BY <1>2, <1>3 DEF Agent

(* A human approves.                                                       *)
LEMMA ApproveRInv ==
  ASSUME RInv, NEW r \in Reqs, Approve(r)
  PROVE  RInv'
<1> DEFINE v == [req[r] EXCEPT !.pc = "approved"]
<1>1. v \in Request /\ v.pc \notin {"truncate", "write"}
  BY DataTypes DEF RInv, Request, Pc
<1>2. /\ up /\ req' = [req EXCEPT ![r] = v] /\ UNCHANGED <<up, mem, file, promised>>
      /\ ~Holding(r)
  BY DEF Approve, Holding
<1> QED BY <1>1, <1>2, RequestRInv

(* A registry's map changes under its mutex.                               *)
LEMMA ChangeRInv ==
  ASSUME RInv, NEW r \in Reqs, req[r].pc = "approved", Free(req[r].kind),
         NEW value \in Record \cup {NoRecord}, Change(r, value),
         req[r].kind = "machines" /\ value # NoRecord => NotBlank(value.shell)
  PROVE  RInv'
<1> DEFINE kind == req[r].kind
           key  == req[r].key
<1>1. /\ TypeOK /\ kind \in Kinds /\ key \in Keys
      /\ req \in [Reqs -> Request] /\ mem \in [Kinds -> [Keys -> Record \cup {NoRecord}]]
  BY DataTypes DEF RInv, Request, Registry
<1>2. /\ mem' = [mem EXCEPT ![kind][key] = value]
      /\ req' = [req EXCEPT ![r].pc = "truncate"]
      /\ UNCHANGED <<up, file, promised>>
  BY DEF Change
<1>3. up
  BY DEF RInv, DownIsIdle
<1>4. /\ req'[r] = [req[r] EXCEPT !.pc = "truncate"]
      /\ \A q \in Reqs : q # r => req'[q] = req[q]
      /\ \A q \in Reqs : Holding(q) => q # r /\ req[q].kind # kind
      /\ req'[r].kind = kind /\ req'[r].key = key /\ req'[r].pc = "truncate"
  BY <1>1, <1>2 DEF Request, Free, Holding
<1>5. /\ mem'[kind][key] = value
      /\ \A d \in Kinds, k \in Keys : d # kind \/ k # key => mem'[d][k] = mem[d][k]
  BY <1>1, <1>2
<1>6. TypeOK'
  <2>1. mem' \in [Kinds -> Registry]
    BY <1>1, <1>2 DEF Registry
  <2>2. req' \in [Reqs -> Request]
    BY <1>1, <1>2 DEF Request, Pc
  <2> QED BY <1>1, <1>2, <2>1, <2>2 DEF TypeOK, Request
<1>7. OneHolder'
  <2> SUFFICES ASSUME NEW a \in Reqs, NEW b \in Reqs, Holding(a)', Holding(b)',
                      req'[a].kind = req'[b].kind
               PROVE  a = b
    BY DEF OneHolder
  <2>1. CASE a # r /\ b # r
    BY <1>4, <2>1 DEF RInv, OneHolder, Holding
  <2>2. ASSUME NEW q \in Reqs, q # r, Holding(q)'
        PROVE  req'[q].kind # req'[r].kind
    <3>1. req'[q] = req[q] /\ Holding(q)
      BY <1>4, <2>2 DEF Holding
    <3> QED BY <1>4, <3>1
  <2> QED BY <2>1, <2>2
<1>8. SuccessIsDurable'
  <2>1. \A d \in Kinds, k \in Keys : Kept(d, k)
    BY <1>3, KeptIsDurable DEF RInv
  <2>2. ASSUME NEW d \in Kinds, NEW k \in Keys
        PROVE  Kept(d, k)'
    <3>1. CASE d = kind /\ k = key
      BY <1>4, <3>1 DEF Kept, Holding
    <3>2. CASE (d # kind \/ k # key) /\ promised[d][k] \in {Unsure, mem[d][k]}
      BY <1>2, <1>5, <3>2 DEF Kept
    <3>3. ASSUME NEW q \in Reqs, req[q].kind = d, req[q].key = k, Holding(q)
          PROVE  Kept(d, k)'
      BY <1>4, <3>3 DEF Kept, Holding
    <3> QED BY <2>1, <3>1, <3>2, <3>3 DEF Kept
  <2> QED BY <2>2 DEF SuccessIsDurable, Kept, Holding
<1>9. ShellsAreSet'
  BY <1>2, <1>5 DEF RInv, ShellsAreSet, Kinds
<1> QED BY <1>2, <1>3, <1>6, <1>7, <1>8, <1>9 DEF RInv, DownIsIdle, FileKeepsPromise

(* Register's upsert makes a whole record; a machine has a shell.          *)
LEMMA UpsertType ==
  ASSUME NEW kind \in Kinds, NEW old \in Record \cup {NoRecord}, NEW rec \in Record
  PROVE  /\ Upsert(kind, old, rec) \in Record
         /\ kind = "machines" => NotBlank(Upsert(kind, old, rec).shell)
BY DEF NotBlank, Upsert, Record, Shells

(* Register and Delete.                                                    *)
LEMMA RegisterRInv ==
  ASSUME RInv, NEW r \in Reqs, Register(r)
  PROVE  RInv'
<1> DEFINE value == Upsert(req[r].kind, mem[req[r].kind][req[r].key], req[r].rec)
<1>1. /\ req[r].kind \in Kinds /\ req[r].rec \in Record
      /\ mem[req[r].kind][req[r].key] \in Record \cup {NoRecord}
  <2>1. req \in [Reqs -> Request] /\ mem \in [Kinds -> [Keys -> Record \cup {NoRecord}]]
    BY DataTypes DEF RInv, Registry
  <2>2. req[r].kind \in Kinds /\ req[r].key \in Keys /\ req[r].rec \in Record
    BY <2>1 DEF Request
  <2> QED BY <2>1, <2>2
<1>2. value \in Record /\ (req[r].kind = "machines" => NotBlank(value.shell))
  BY <1>1, UpsertType
<1>3. req[r].pc = "approved" /\ Free(req[r].kind) /\ Change(r, value)
  BY DEF Register
<1> HIDE DEF value
<1> QED BY <1>2, <1>3, ChangeRInv

(* Delete: a record that is there goes, one that is not is an error.       *)
LEMMA DeleteRInv ==
  ASSUME RInv, NEW r \in Reqs, Delete(r)
  PROVE  RInv'
<1>1. CASE Change(r, NoRecord)
  BY <1>1, ChangeRInv DEF Delete
<1>2. CASE req' = [req EXCEPT ![r].pc = "failure"] /\ UNCHANGED <<up, mem, file, promised>>
  <2> DEFINE v == [req[r] EXCEPT !.pc = "failure"]
  <2>1. v \in Request /\ v.pc \notin {"truncate", "write"}
    BY DataTypes DEF RInv, Request, Pc
  <2>2. up /\ ~Holding(r)
    BY DEF Delete, RInv, DownIsIdle, Holding
  <2> QED BY <1>2, <2>1, <2>2, RequestRInv
<1> QED BY <1>1, <1>2 DEF Delete

(* save: the file is damaged while it is written.                          *)
LEMMA TruncateRInv ==
  ASSUME RInv, NEW r \in Reqs, Truncate(r)
  PROVE  RInv'
<1>1. /\ req \in [Reqs -> Request] /\ file \in [Kinds -> Registry \cup {Torn}]
      /\ req[r].pc = "truncate" /\ file' = [file EXCEPT ![req[r].kind] = Torn]
      /\ req' = [req EXCEPT ![r].pc = "write"] /\ UNCHANGED <<up, mem, promised>>
  BY DataTypes DEF RInv, Truncate
<1>2. \A q \in Reqs : /\ Holding(q)' <=> Holding(q)
                      /\ req'[q].kind = req[q].kind /\ req'[q].key = req[q].key
  BY <1>1 DEF Request, Holding
<1>3. TypeOK'
  <2>1. file' \in [Kinds -> Registry \cup {Torn}]
    BY <1>1
  <2>2. req' \in [Reqs -> Request]
    BY <1>1 DEF Request, Pc
  <2> QED BY <1>1, <2>1, <2>2 DEF RInv, TypeOK, Request
<1>4. OneHolder'
  BY <1>2 DEF RInv, OneHolder
<1>5. up
  BY <1>1 DEF RInv, DownIsIdle
<1>6. \A kind \in Kinds : file'[kind] \in {Torn, file[kind]}
  BY <1>1
<1>7. FileKeepsPromise'
  BY <1>1, <1>6 DEF RInv, FileKeepsPromise
<1>8. ShellsAreSet'
  BY <1>1, <1>6 DEF RInv, ShellsAreSet, Kinds
<1>9. \A kind \in Kinds, k \in Keys : Kept(kind, k)'
  <2>1. \A kind \in Kinds, k \in Keys : Kept(kind, k)
    BY <1>5, KeptIsDurable DEF RInv
  <2> SUFFICES ASSUME NEW kind \in Kinds, NEW k \in Keys
               PROVE  Kept(kind, k)'
    OBVIOUS
  <2>2. CASE promised[kind][k] \in {Unsure, mem[kind][k]}
    BY <1>1, <2>2 DEF Kept
  <2>3. ASSUME NEW q \in Reqs, req[q].kind = kind, req[q].key = k, Holding(q)
        PROVE  Kept(kind, k)'
    BY <1>2, <2>3 DEF Kept
  <2>4. \/ promised[kind][k] \in {Unsure, mem[kind][k]}
        \/ \E q \in Reqs : req[q].kind = kind /\ req[q].key = k /\ Holding(q)
    BY <2>1 DEF Kept
  <2> QED BY <2>2, <2>3, <2>4
<1>10. SuccessIsDurable'
  BY <1>9 DEF SuccessIsDurable, Kept, Holding
<1> QED BY <1>1, <1>3, <1>4, <1>5, <1>7, <1>8, <1>10 DEF RInv, DownIsIdle

(* save: all of the map is in the file, and so are all earlier promises.   *)
LEMMA WriteRInv ==
  ASSUME RInv, NEW r \in Reqs, Write(r)
  PROVE  RInv'
<1> DEFINE kind == req[r].kind
           key  == req[r].key
<1>0. req \in [Reqs -> Request] /\ req[r].pc = "write" /\ req' = [req EXCEPT ![r].pc = "success"]
  BY DataTypes DEF RInv, Write
<1>1. UNCHANGED <<up, mem>>
  BY DEF Write
<1>2. kind \in Kinds /\ key \in Keys /\ Holding(r)
  BY <1>0 DEF Request, Holding
<1>3. /\ \A q \in Reqs : q # r => req'[q] = req[q]
      /\ ~Holding(r)'
  BY <1>0 DEF Request, Holding
<1>mem. mem \in [Kinds -> [Keys -> Record \cup {NoRecord}]]
  BY DataTypes DEF RInv, Registry
<1>file. file \in [Kinds -> Registry \cup {Torn}] /\ file' = [file EXCEPT ![kind] = mem[kind]]
  BY DataTypes DEF RInv, Write
<1>promised. /\ promised \in [Kinds -> [Keys -> Record \cup {NoRecord, Unsure}]]
             /\ promised' = [promised EXCEPT ![kind][key] = mem[kind][key]]
  BY DataTypes DEF RInv, Write
<1>4. TypeOK'
  <2>1. file' \in [Kinds -> Registry \cup {Torn}]
    BY <1>2, <1>mem, <1>file DEF Registry
  <2>2. req' \in [Reqs -> Request]
    <3>1. [req[r] EXCEPT !.pc = "success"] \in Request
      BY <1>0 DEF Request, Pc
    <3> QED BY <1>0, <3>1
  <2>3. promised' \in [Kinds -> [Keys -> Record \cup {NoRecord, Unsure}]]
    <3>1. mem[kind][key] \in Record \cup {NoRecord, Unsure}
      BY <1>2, <1>mem
    <3> QED BY <1>2, <1>promised, <3>1
  <2> QED BY <1>1, <2>1, <2>2, <2>3 DEF RInv, TypeOK, Request
<1>5. OneHolder'
  BY <1>3 DEF RInv, OneHolder, Holding
<1>6. up
  BY <1>0 DEF RInv, DownIsIdle
<1>7. /\ promised'[kind][key] = mem[kind][key]
      /\ \A d \in Kinds, k \in Keys : d # kind \/ k # key => promised'[d][k] = promised[d][k]
      /\ file'[kind] = mem[kind]
      /\ \A d \in Kinds : d # kind => file'[d] = file[d]
  BY <1>2, <1>file, <1>promised
<1>8. \A d \in Kinds, k \in Keys : Kept(d, k)
  BY <1>6, KeptIsDurable DEF RInv
<1>9. \A k \in Keys : promised'[kind][k] \in {Unsure, mem[kind][k]}
  <2> SUFFICES ASSUME NEW k \in Keys, k # key
               PROVE  promised[kind][k] \in {Unsure, mem[kind][k]}
    BY <1>2, <1>7
  <2>1. \A q \in Reqs : Holding(q) /\ req[q].kind = kind => q = r
    BY <1>2 DEF RInv, OneHolder
  <2>2. \A q \in Reqs : ~(req[q].kind = kind /\ req[q].key = k /\ Holding(q))
    BY <2>1
  <2>3. Kept(kind, k)
    BY <1>2, <1>8
  <2> QED BY <2>2, <2>3 DEF Kept
<1>10. FileKeepsPromise'
  <2> SUFFICES ASSUME NEW d \in Kinds, NEW k \in Keys, file'[d] # Torn
               PROVE  promised'[d][k] \in {Unsure, file'[d][k]}
    BY DEF FileKeepsPromise
  <2>1. CASE d = kind
    BY <1>7, <1>9, <2>1
  <2>2. CASE d # kind
    BY <1>7, <2>2 DEF RInv, FileKeepsPromise
  <2> QED BY <2>1, <2>2
<1>11. ShellsAreSet'
  <2>1. "machines" \in Kinds
    BY DEF Kinds
  <2>2. file'["machines"] = mem["machines"] \/ file'["machines"] = file["machines"]
    BY <1>7, <2>1
  <2> QED BY <1>1, <2>2 DEF RInv, ShellsAreSet
<1>12. ASSUME NEW d \in Kinds, NEW k \in Keys
       PROVE  Kept(d, k)'
  <2>1. CASE d = kind
    BY <1>1, <1>9, <2>1 DEF Kept
  <2>2. CASE d # kind /\ promised[d][k] \in {Unsure, mem[d][k]}
    BY <1>1, <1>7, <2>2 DEF Kept
  <2>3. ASSUME NEW q \in Reqs, d # kind, req[q].kind = d, req[q].key = k, Holding(q)
        PROVE  Kept(d, k)'
    <3>1. req'[q] = req[q]
      BY <1>3, <2>3
    <3> QED BY <2>3, <3>1 DEF Kept, Holding
  <2>4. \/ promised[d][k] \in {Unsure, mem[d][k]}
        \/ \E q \in Reqs : req[q].kind = d /\ req[q].key = k /\ Holding(q)
    BY <1>8 DEF Kept
  <2> QED BY <2>1, <2>2, <2>3, <2>4
<1>13. SuccessIsDurable'
  BY <1>12 DEF SuccessIsDurable, Kept, Holding
<1> QED BY <1>1, <1>4, <1>5, <1>6, <1>10, <1>11, <1>13 DEF RInv, DownIsIdle

(* os.WriteFile fails: nothing is promised of this key, and the others     *)
(* keep what they were promised, in the map and in the file.               *)
LEMMA SaveFailsRInv ==
  ASSUME RInv, NEW r \in Reqs, SaveFails(r)
  PROVE  RInv'
<1> DEFINE kind == req[r].kind
           key  == req[r].key
<1>1. /\ req \in [Reqs -> Request] /\ Holding(r) /\ req' = [req EXCEPT ![r].pc = "failure"]
      /\ UNCHANGED <<up, mem, file>>
  BY DataTypes DEF RInv, SaveFails, Holding
<1>2. kind \in Kinds /\ key \in Keys
  BY <1>1 DEF Request
<1>3. /\ \A q \in Reqs : q # r => req'[q] = req[q]
      /\ ~Holding(r)'
  BY <1>1 DEF Request, Holding
<1>4. /\ promised \in [Kinds -> [Keys -> Record \cup {NoRecord, Unsure}]]
      /\ promised' = [promised EXCEPT ![kind][key] = Unsure]
  BY DataTypes DEF RInv, SaveFails
<1>5. /\ promised'[kind][key] = Unsure
      /\ \A d \in Kinds, k \in Keys : d # kind \/ k # key => promised'[d][k] = promised[d][k]
  BY <1>2, <1>4
<1>6. TypeOK'
  <2>1. req' \in [Reqs -> Request]
    <3>1. [req[r] EXCEPT !.pc = "failure"] \in Request
      BY <1>1 DEF Request, Pc
    <3> QED BY <1>1, <3>1
  <2>2. promised' \in [Kinds -> [Keys -> Record \cup {NoRecord, Unsure}]]
    BY <1>2, <1>4
  <2> QED BY <1>1, <2>1, <2>2 DEF RInv, TypeOK, Request
<1>7. OneHolder'
  BY <1>3 DEF RInv, OneHolder, Holding
<1>8. up
  BY <1>1 DEF RInv, DownIsIdle, Holding
<1>9. FileKeepsPromise'
  <2>1. \A d \in Kinds, k \in Keys : promised'[d][k] \in {Unsure, promised[d][k]}
    BY <1>5
  <2> QED BY <1>1, <2>1 DEF RInv, FileKeepsPromise
<1>10. \A d \in Kinds, k \in Keys : Kept(d, k)
  BY <1>8, KeptIsDurable DEF RInv
<1>11. ASSUME NEW d \in Kinds, NEW k \in Keys
       PROVE  Kept(d, k)'
  <2>1. CASE d = kind /\ k = key
    BY <1>5, <2>1 DEF Kept
  <2>2. CASE (d # kind \/ k # key) /\ promised[d][k] \in {Unsure, mem[d][k]}
    BY <1>1, <1>5, <2>2 DEF Kept
  <2>3. ASSUME NEW q \in Reqs, d # kind \/ k # key,
               req[q].kind = d, req[q].key = k, Holding(q)
        PROVE  Kept(d, k)'
    <3>1. req'[q] = req[q]
      BY <1>3, <2>3
    <3> QED BY <2>3, <3>1 DEF Kept, Holding
  <2>4. \/ promised[d][k] \in {Unsure, mem[d][k]}
        \/ \E q \in Reqs : req[q].kind = d /\ req[q].key = k /\ Holding(q)
    BY <1>10 DEF Kept
  <2> QED BY <2>1, <2>2, <2>3, <2>4
<1>12. SuccessIsDurable'
  BY <1>11 DEF SuccessIsDurable, Kept, Holding
<1>13. ShellsAreSet'
  BY <1>1 DEF RInv, ShellsAreSet
<1> QED BY <1>1, <1>6, <1>7, <1>8, <1>9, <1>12, <1>13 DEF RInv, DownIsIdle

(* Every step of the registries keeps their invariant.                     *)
LEMMA RegistryStepRInv == RInv /\ [Next]_vars => RInv'
<1> SUFFICES ASSUME RInv, [Next]_vars PROVE RInv'
  OBVIOUS
<1>1. CASE UNCHANGED vars
  <2>1. UNCHANGED <<up, mem, file, req, promised>>
    BY <1>1 DEF vars
  <2>2. TypeOK' /\ OneHolder' /\ FileKeepsPromise' /\ ShellsAreSet' /\ DownIsIdle'
    BY <2>1 DEF RInv, TypeOK, OneHolder, Holding, FileKeepsPromise, ShellsAreSet, DownIsIdle
  <2>3. SuccessIsDurable'
    <3>1. up' = up /\ \A kind \in Kinds, k \in Keys : Kept(kind, k)' <=> Kept(kind, k)
      BY <2>1 DEF Kept, Holding
    <3>2. SuccessIsDurable' <=> (up' => \A kind \in Kinds, k \in Keys : Kept(kind, k)')
      BY DEF SuccessIsDurable, Kept, Holding
    <3> QED BY <3>1, <3>2, KeptIsDurable DEF RInv
  <2> QED BY <2>2, <2>3 DEF RInv
<1>2. CASE Next
  BY <1>2, NewStoreRInv, CrashRInv, AgentRInv, ApproveRInv, RegisterRInv, DeleteRInv,
     TruncateRInv, WriteRInv, SaveFailsRInv
  DEF Next, executeRegistryOp
<1> QED BY <1>1, <1>2

Fields == {"user", "ident", "shell"}

(* Register's upsert: a field that changes was given by the caller.        *)
LEMMA UpsertKeeps ==
  ASSUME NEW kind \in Kinds, NEW old \in Record, NEW rec \in Record,
         kind = "machines" => NotBlank(old.shell)
  PROVE  \A field \in Fields :
           LET new == Upsert(kind, old, rec)
           IN new[field] # old[field] => new[field] = rec[field] /\ NotBlank(rec[field])
<1>1. ASSUME NEW field \in Fields, Upsert(kind, old, rec)[field] # old[field]
      PROVE  Upsert(kind, old, rec)[field] = rec[field] /\ NotBlank(rec[field])
  BY <1>1 DEF Fields, Upsert, Record, Shells, NotBlank
<1> QED BY <1>1

(* An approved registration of this record.                                *)
Registers(r, kind, k) ==
  /\ req[r].pc = "approved" /\ req[r].op = "register"
  /\ req[r].kind = kind /\ req[r].key = k /\ req[r].rec \in Record

(* A step that changes a record that stays registered is a registration.   *)
LEMMA RecordStep ==
  ASSUME RInv, Next, NEW kind \in Kinds, NEW k \in Keys,
         mem[kind][k] # NoRecord, mem'[kind][k] # NoRecord, mem'[kind][k] # mem[kind][k]
  PROVE  /\ mem[kind][k] \in Record
         /\ kind = "machines" => NotBlank(mem[kind][k].shell)
         /\ \E r \in Reqs : /\ Registers(r, kind, k)
                            /\ mem'[kind][k] = Upsert(kind, mem[kind][k], req[r].rec)
<1>1. ~NewStore
  <2> SUFFICES ASSUME NewStore PROVE FALSE
    OBVIOUS
  <2>1. ~up
    BY DEF NewStore
  <2>2. mem[kind][k] = NoRecord
    BY <2>1, BlankType DEF RInv, DownIsIdle
  <2> QED BY <2>2
<1>2. ~Crash
  BY BlankType DEF Crash
<1>3. PICK r \in Reqs : Register(r) \/ Delete(r)
  <2>1. ASSUME NEW r \in Reqs, Agent(r) \/ Approve(r) \/ Truncate(r) \/ Write(r) \/ SaveFails(r)
        PROVE  mem' = mem
    BY <2>1 DEF Agent, registerContainer, registerMachine, deleteContainer, deleteMachine,
                Queue, Approve, Truncate, Write, SaveFails
  <2> QED BY <1>1, <1>2, <2>1 DEF Next, vars, executeRegistryOp
<1>4. PICK value :
         /\ Change(r, value) /\ req[r].pc = "approved"
         /\ value # NoRecord =>
              /\ req[r].op = "register"
              /\ value = Upsert(req[r].kind, mem[req[r].kind][req[r].key], req[r].rec)
  BY <1>3 DEF Register, Delete
<1>5. req \in [Reqs -> Request] /\ mem \in [Kinds -> [Keys -> Record \cup {NoRecord}]]
  BY DataTypes DEF RInv, Registry
<1>6. req[r].kind \in Kinds /\ req[r].key \in Keys /\ req[r].rec \in Record
  BY <1>5 DEF Request
<1>7. mem' = [mem EXCEPT ![req[r].kind][req[r].key] = value]
  BY <1>4 DEF Change
<1>8. req[r].kind = kind /\ req[r].key = k /\ mem'[kind][k] = value
  <2>1. /\ mem'[req[r].kind][req[r].key] = value
        /\ req[r].kind # kind \/ req[r].key # k => mem'[kind][k] = mem[kind][k]
    BY <1>5, <1>6, <1>7
  <2> QED BY <2>1
<1>9. mem[kind][k] \in Record
  BY <1>5
<1>10. kind = "machines" => NotBlank(mem[kind][k].shell)
  BY DEF RInv, ShellsAreSet
<1> QED BY <1>4, <1>6, <1>8, <1>9, <1>10 DEF Registers

(* Some approved registration of the record gave the field this value.     *)
Given(kind, k, field, value) ==
  \E r \in Reqs : /\ req[r].pc = "approved" /\ req[r].op = "register"
                  /\ req[r].kind = kind /\ req[r].key = k
                  /\ req[r].rec[field] = value
                  /\ NotBlank(value)

(* So a field that changes was given by that registration.                 *)
LEMMA FieldStep ==
  ASSUME RInv, Next, NEW kind \in Kinds, NEW k \in Keys,
         mem[kind][k] # NoRecord, mem'[kind][k] # NoRecord, mem'[kind][k] # mem[kind][k]
  PROVE  \A field \in Fields :
           mem'[kind][k][field] # mem[kind][k][field]
             => Given(kind, k, field, mem'[kind][k][field])
<1>1. PICK old : old = mem[kind][k]
  OBVIOUS
<1>2. PICK new : new = mem'[kind][k]
  OBVIOUS
<1>3. PICK r \in Reqs : Registers(r, kind, k) /\ new = Upsert(kind, old, req[r].rec)
  BY <1>1, <1>2, RecordStep
<1>4. old \in Record /\ (kind = "machines" => NotBlank(old.shell))
  BY <1>1, RecordStep
<1>5. \A field \in Fields :
        new[field] # old[field] => new[field] = req[r].rec[field] /\ NotBlank(req[r].rec[field])
  <2>1. PICK rec : rec = req[r].rec
    OBVIOUS
  <2>2. rec \in Record /\ new = Upsert(kind, old, rec)
    BY <1>3, <2>1 DEF Registers
  <2>3. \A field \in Fields :
          new[field] # old[field] => new[field] = rec[field] /\ NotBlank(rec[field])
    BY <1>4, <2>2, UpsertKeeps
  <2> QED BY <2>1, <2>3
<1>6. \A field \in Fields :
        new[field] # old[field] => Given(kind, k, field, new[field])
  BY <1>3, <1>5 DEF Registers, Given
<1> QED BY <1>1, <1>2, <1>6

-----------------------------------------------------------------------------
(* The registries and the calls.                                           *)
TInv == RInv /\ CallsHold

(* Nothing is registered and no call has begun.                            *)
LEMMA InitTInv ==
  TargetsInit => TInv
BY InitRInv, InitCallsHold DEF TargetsInit, TInv

(* A step of the composition is a step of the registries, or leaves them.  *)
LEMMA StepOfRegistries ==
  ASSUME [TargetsNext]_targetVars
  PROVE  [Next]_vars
BY DEF TargetsNext, targetVars, ToolCall, Next

(* Every step of the composition.                                          *)
LEMMA NextTInv ==
  ASSUME TInv, [TargetsNext]_targetVars
  PROVE  TInv'
<1>1. RInv'
  BY StepOfRegistries, RegistryStepRInv DEF TInv
<1>2. CallsHold'
  <2>1. ASSUME NEW c \in Calls, ToolCall(c)
        PROVE  CallsHold'
    BY <2>1, ToolCallHolds DEF TInv, RInv
  <2>2. CASE CallsEnd
    BY <2>2, CallsEndHolds DEF TInv
  <2>3. CASE UNCHANGED call
    BY <2>3 DEF TInv, CallsHold
  <2>4. (\E c \in Calls : ToolCall(c)) \/ CallsEnd \/ UNCHANGED call
    BY DEF TargetsNext, targetVars, ReplaceRecord
  <2> QED BY <2>1, <2>2, <2>3, <2>4
<1> QED BY <1>1, <1>2 DEF TInv

(* The registries and the calls keep their inductive invariant.            *)
THEOREM TargetsInvariant == TargetsSpec => []TInv
<1>1. TargetsInit => TInv
  BY InitTInv
<1>2. TInv /\ [TargetsNext]_targetVars => TInv'
  BY NextTInv
<1> QED BY <1>1, <1>2, PTL DEF TargetsSpec

(* What an approved registration or deletion reported is what the registry *)
(* holds, through crashes, restarts and other operations' failed saves.    *)
THEOREM SuccessHolds == TargetsSpec => []SuccessIsDurable
<1>1. TInv => SuccessIsDurable
  BY DEF TInv, RInv
<1> QED BY <1>1, TargetsInvariant, PTL

(* The command put before the reviewer was built from one lookup of its    *)
(* target, whatever is registered meanwhile.                               *)
THEOREM TargetsAreOneRecord == TargetsSpec => []TargetIsOneRecord
<1>1. TInv => TargetIsOneRecord
  BY RoutesOfOneRecord DEF TInv
<1> QED BY <1>1, TargetsInvariant, PTL

(* write_file asks about its file where its command will write it.         *)
THEOREM ProbesMirrorWrites == TargetsSpec => []ProbeMirrorsWrite
<1>1. TInv => ProbeMirrorsWrite
  BY ProbesMirror DEF TInv
<1> QED BY <1>1, TargetsInvariant, PTL

(* A registered record's field changes only to a value that an approved    *)
(* registration of that record gave.                                       *)
THEOREM FieldsSurviveAlways == TargetsSpec => FieldsSurvive
<1> DEFINE Gave(kind, k, field) ==
      \E r \in Reqs : /\ req[r].pc = "approved" /\ req[r].op = "register"
                      /\ req[r].kind = kind /\ req[r].key = k
                      /\ req[r].rec[field] = mem'[kind][k][field]
                      /\ mem'[kind][k][field] # ""
<1> DEFINE Survive ==
      \A kind \in Kinds, k \in Keys, field \in {"user", "ident", "shell"} :
        NoRecord \notin {mem[kind][k], mem'[kind][k]}
          /\ mem'[kind][k][field] # mem[kind][k][field] => Gave(kind, k, field)
<1>1. ASSUME TInv, Next
      PROVE  Survive
  <2>1. ASSUME NEW kind \in Kinds, NEW k \in Keys, NEW field \in Fields,
               NoRecord \notin {mem[kind][k], mem'[kind][k]},
               mem'[kind][k][field] # mem[kind][k][field]
        PROVE  Gave(kind, k, field)
    <3>1. Given(kind, k, field, mem'[kind][k][field])
      BY <1>1, <2>1, FieldStep DEF TInv
    <3> QED BY <3>1, Zenon DEF Given, NotBlank
  <2> HIDE DEF Gave
  <2> QED BY <2>1, Zenon DEF Fields
<1>2. TInv /\ [TargetsNext]_targetVars => [Survive]_vars
  <2> HIDE DEF Survive
  <2> QED BY <1>1, StepOfRegistries
<1> QED BY <1>2, TargetsInvariant, PTL DEF TargetsSpec, FieldsSurvive

=============================================================================
