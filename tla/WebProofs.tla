----------------------------- MODULE WebProofs ------------------------------
(***************************************************************************)
(* Proofs about the two parts of the web handler that have a state of      *)
(* their own: the broadcasts to the dashboards (Dashboard), for any number *)
(* of clients, fetches and cuts and every channel capacity, and the        *)
(* cooldown (Cooldown), for every cooldown, every length of a second and   *)
(* of a minute, and every posted value.                                    *)
(***************************************************************************)
EXTENDS Dashboard, Cooldown, SequenceTheorems, TLAPS

-----------------------------------------------------------------------------
(***************************************************************************)
(* Dashboard: the inductive invariant.                                     *)
(***************************************************************************)

(* Where the approval and the execution are says where the status is, a    *)
(* stale deny apart.                                                       *)
LifeIsOnTrack ==
  /\ grantee = "nobody" => run = "no"
  /\ grantee # "nobody" /\ run = "no" => status \in {"approved", "denied"}
  /\ run = "running" => status \in {"running", "denied"}
  /\ run = "done" => status \in {"complete", "denied"}
  /\ denying => status # "absent"

(* A steady client has a channel, and the request has changed.             *)
SteadyIsOpen == steady \subseteq open /\ (status = "absent" => steady = {})

Coming(c) == BroadcastDue \/ chan[c] # <<>>

(* A page that is owed the news shows the status unless something makes it *)
(* fetch once more, or its last fetch will be answered with the status.    *)
PageIsLed(c) ==
  Owed(c) /\ FetchesInOrder /\ ~Coming(c) =>
    IF fetches[c] = <<>> THEN view[c] = status
    ELSE fetches[c][Len(fetches[c])] \in {"asked", status}

(* A settled request is on its way to a client that is owed the news:      *)
(* somebody will read it, holds it in a frame, or has queued one, unless   *)
(* it arrived or the client's channel was full.                            *)
ReadDue == update \/ \E p \in Procs : at[p] = "get"

FrameDue == \E p \in Procs : at[p] = "send" /\ settled(frame[p])

FrameQueued(c) == \E i \in 1 .. Len(chan[c]) : settled(chan[c][i])

ClientIsLed(c) ==
  Owed(c) /\ settled(status) =>
    ReadDue \/ FrameDue \/ FrameQueued(c) \/ c \in informed \cup missed

DInv ==
  /\ TypeOK /\ LifeIsOnTrack /\ SteadyIsOpen
  /\ \A c \in Clients : PageIsLed(c) /\ ClientIsLed(c)

-----------------------------------------------------------------------------
(***************************************************************************)
(* Dashboard: sequences.                                                   *)
(***************************************************************************)

(* Removing one element keeps the last, unless it was the one removed.     *)
LEMMA RemoveAtKeepsLast ==
  ASSUME NEW S, NEW s \in Seq(S), NEW i \in 1 .. Len(s)
  PROVE  /\ RemoveAt(s, i) \in Seq(S)
         /\ Len(RemoveAt(s, i)) = Len(s) - 1
         /\ i < Len(s) => RemoveAt(s, i)[Len(s) - 1] = s[Len(s)]
<1> DEFINE a == SubSeq(s, 1, i - 1)
           b == SubSeq(s, i + 1, Len(s))
<1>1. /\ i \in Nat /\ Len(s) \in Nat /\ 1 <= i /\ i <= Len(s)
      /\ \A j \in 1 .. Len(s) : s[j] \in S
  OBVIOUS
<1>2. a \in Seq(S) /\ Len(a) = i - 1
  BY <1>1, SubSeqProperties
<1>3. b \in Seq(S) /\ Len(b) = Len(s) - i /\ \A j \in 1 .. Len(s) - i : b[j] = s[i + j]
  BY <1>1, SubSeqProperties
<1> HIDE DEF a, b
<1>4. /\ a \o b \in Seq(S) /\ Len(a \o b) = Len(a) + Len(b)
      /\ \A j \in 1 .. Len(a) + Len(b) :
           (a \o b)[j] = IF j <= Len(a) THEN a[j] ELSE b[j - Len(a)]
  BY <1>2, <1>3, ConcatProperties
<1>5. RemoveAt(s, i) = a \o b
  BY DEF RemoveAt, a, b
<1>6. ASSUME i < Len(s)
      PROVE  (a \o b)[Len(s) - 1] = s[Len(s)]
  <2>1. (a \o b)[Len(s) - 1] = b[Len(s) - i]
    BY <1>1, <1>2, <1>3, <1>4, <1>6
  <2>2. Len(s) - i \in 1 .. Len(s) - i /\ i + (Len(s) - i) = Len(s)
    BY <1>1, <1>6
  <2> QED BY <1>3, <2>1, <2>2
<1>7. Len(a) + Len(b) = Len(s) - 1
  BY <1>1, <1>2, <1>3
<1> QED BY <1>4, <1>5, <1>6, <1>7

-----------------------------------------------------------------------------
(***************************************************************************)
(* Dashboard: the invariant is kept.                                       *)
(***************************************************************************)

(* Nothing has been submitted, and nobody is connected.                    *)
LEMMA InitDInv == Init => DInv
<1> SUFFICES ASSUME Init PROVE DInv
  OBVIOUS
<1>1. TypeOK
  <2>1. "absent" \in Shown /\ "asked" \in Shown \cup {"asked"} /\ "nothing" \in Shown \cup {"nothing"}
    BY DEF Shown
  <2>2. chan \in [Clients -> Seq(Shown)] /\ \A c \in Clients : Len(chan[c]) <= ChanCap
    BY DashboardAssumption DEF Init
  <2>3. fetches \in [Clients -> Seq(Shown \cup {"asked"})]
    BY <2>1 DEF Init
  <2>4. view \in [Clients -> Shown \cup {"nothing"}] /\ cuts \in 0 .. MaxCuts
    BY <2>1, DashboardAssumption DEF Init
  <2>5. at \in [Procs -> {"idle", "get", "send"}] /\ frame \in [Procs -> Shown]
    BY <2>1 DEF Init
  <2>6. update \in BOOLEAN /\ denying \in BOOLEAN /\ dropped \in BOOLEAN
    BY DEF Init
  <2> QED BY <2>1, <2>2, <2>3, <2>4, <2>5, <2>6 DEF Init, TypeOK
<1>2. LifeIsOnTrack /\ SteadyIsOpen
  BY DEF Init, LifeIsOnTrack, SteadyIsOpen
<1>3. \A c \in Clients : PageIsLed(c) /\ ClientIsLed(c)
  BY DEF Init, PageIsLed, ClientIsLed, Owed
<1> QED BY <1>1, <1>2, <1>3 DEF DInv

(* A process that owes a broadcast has to read the request.                *)
LEMMA OwesEffect ==
  ASSUME TypeOK, NEW p \in Procs, Owes(p)
  PROVE  /\ at' \in [Procs -> {"idle", "get", "send"}]
         /\ ReadDue' /\ BroadcastDue'
<1>1. at' \in [Procs -> {"idle", "get", "send"}] /\ at'[p] = "get"
  BY DEF TypeOK, Owes
<1> QED BY <1>1 DEF ReadDue, BroadcastDue

(* The steps that change the request.                                      *)
RequestMoves ==
  \/ Submit \/ Deny \/ Withdraw \/ ExecStart \/ ExecFinish
  \/ \E p \in {"watcher", "approver"} : Approve(p)

(* A change of the request makes everybody who is connected steady, and    *)
(* leaves a broadcast due or was not announced; one that settles it and is *)
(* announced leaves a read due.                                            *)
LEMMA MoveEffect ==
  ASSUME TypeOK, LifeIsOnTrack, RequestMoves
  PROVE  /\ IF status = "absent" THEN status' = "pending"
            ELSE status' = status \/ <<status, status'>> \in StatusMoves
         /\ LifeIsOnTrack' /\ status' # "absent"
         /\ dropped' \/ BroadcastDue'
         /\ dropped' \/ (settled(status') => ReadDue')
<1> USE DEF LifeIsOnTrack, Becomes, Changes, settled
<1>0. status \in Shown /\ run \in {"no", "running", "done"}
  BY DEF TypeOK
<1>1. CASE Submit
  <2>1. dropped' \/ BroadcastDue'
    BY <1>1 DEF Submit, BroadcastDue
  <2> QED BY <1>0, <1>1, <2>1 DEF Submit
<1>2. CASE Deny
  <2>1. ReadDue' /\ BroadcastDue'
    BY <1>2, OwesEffect DEF Deny, Procs
  <2>2. status \in Status
    BY <1>0, <1>2 DEF Deny, Shown
  <2>3. status' = status \/ <<status, status'>> \in StatusMoves
    BY <1>2, <2>2 DEF Deny, StatusMoves
  <2>4. LifeIsOnTrack' /\ status' # "absent"
    BY <1>2 DEF Deny
  <2> QED BY <1>2, <2>1, <2>2, <2>3, <2>4 DEF Deny
<1>3. CASE Withdraw
  <2>1. dropped' \/ (ReadDue' /\ BroadcastDue')
    BY <1>3 DEF Withdraw, ReadDue, BroadcastDue
  <2> QED BY <1>0, <1>3, <2>1 DEF Withdraw, StatusMoves
<1>4. CASE ExecStart
  <2>1. ReadDue' /\ BroadcastDue'
    BY <1>4, OwesEffect DEF ExecStart, Procs
  <2> QED BY <1>4, <2>1 DEF ExecStart, StatusMoves
<1>5. CASE ExecFinish
  <2>1. ReadDue' /\ BroadcastDue'
    BY <1>5, OwesEffect DEF ExecFinish, Procs
  <2> QED BY <1>5, <2>1 DEF ExecFinish, StatusMoves
<1>6. ASSUME NEW p \in {"watcher", "approver"}, Approve(p)
      PROVE  /\ IF status = "absent" THEN status' = "pending"
                ELSE status' = status \/ <<status, status'>> \in StatusMoves
             /\ LifeIsOnTrack' /\ status' # "absent"
             /\ dropped' \/ BroadcastDue'
             /\ dropped' \/ (settled(status') => ReadDue')
  <2>1. ReadDue' /\ BroadcastDue'
    BY <1>6, OwesEffect DEF Approve, Procs
  <2> QED BY <1>0, <1>6, <2>1 DEF Approve, StatusMoves
<1> QED BY <1>1, <1>2, <1>3, <1>4, <1>5, <1>6 DEF RequestMoves

(* It keeps the types.                                                     *)
LEMMA MoveTypes ==
  ASSUME TypeOK, RequestMoves
  PROVE  /\ TypeOK' /\ steady' = open
         /\ UNCHANGED <<frame, open, chan, fetches, view, cuts, informed, missed>>
<1>1. /\ steady' = open
      /\ UNCHANGED <<frame, open, chan, fetches, view, cuts, informed, missed>>
  BY DEF RequestMoves, Submit, Deny, Withdraw, ExecStart, ExecFinish, Approve, Becomes,
         Changes, pages
<1>2. at' \in [Procs -> {"idle", "get", "send"}]
  <2>1. at' = at \/ \E p \in Procs : Owes(p)
    BY DEF RequestMoves, Submit, Deny, Withdraw, ExecStart, ExecFinish, Approve, Procs
  <2> QED BY <2>1, OwesEffect DEF TypeOK
<1>3. /\ status' \in Shown /\ newId' \in {"none", "queued", "taken"}
      /\ grantee' \in Procs \cup {"nobody"} /\ run' \in {"no", "running", "done"}
  BY DEF TypeOK, RequestMoves, Submit, Deny, Withdraw, ExecStart, ExecFinish, Approve, Becomes,
         Changes, Shown, Status, Procs
<1>4. update' \in BOOLEAN /\ denying' \in BOOLEAN /\ dropped' \in BOOLEAN
  BY DEF TypeOK, RequestMoves, Submit, Deny, Withdraw, ExecStart, ExecFinish, Approve, Becomes
<1> QED BY <1>1, <1>2, <1>3, <1>4 DEF TypeOK

(* Every change of the request keeps the invariant.                        *)
LEMMA MovesDInv ==
  ASSUME DInv, RequestMoves
  PROVE  DInv'
<1>1. /\ LifeIsOnTrack' /\ status' # "absent"
      /\ dropped' \/ BroadcastDue'
      /\ dropped' \/ (settled(status') => ReadDue')
  BY MoveEffect DEF DInv
<1>2. TypeOK' /\ steady' = open /\ open' = open
  BY MoveTypes DEF DInv
<1>3. \A c \in Clients : PageIsLed(c)' /\ ClientIsLed(c)'
  BY <1>1 DEF PageIsLed, Coming, ClientIsLed, Owed
<1>4. SteadyIsOpen'
  BY <1>1, <1>2 DEF SteadyIsOpen
<1> QED BY <1>1, <1>2, <1>3, <1>4 DEF DInv

(* What a step leaves alone when only the broadcasters move.               *)
ClientsRest ==
  UNCHANGED <<status, open, fetches, view, cuts, informed, steady, dropped>>

(* A watcher that takes an id owes a broadcast; a read makes a frame of    *)
(* the status.                                                             *)
LEMMA BroadcasterDInv ==
  ASSUME DInv, WatchNew \/ WatchUpdates \/ BeginDeny \/ \E p \in Procs : Get(p)
  PROVE  DInv'
<1> USE DEF DInv
<1>1. ClientsRest /\ chan' = chan /\ missed' = missed /\ grantee' = grantee /\ run' = run
  BY DEF WatchNew, WatchUpdates, BeginDeny, Get, ClientsRest, flow, pages
<1>2. /\ at' \in [Procs -> {"idle", "get", "send"}] /\ frame' \in [Procs -> Shown]
      /\ newId' \in {"none", "queued", "taken"}
  <2>1. CASE WatchNew \/ WatchUpdates
    BY <2>1, OwesEffect DEF WatchNew, WatchUpdates, TypeOK, Procs
  <2>2. CASE BeginDeny \/ \E p \in Procs : Get(p)
    BY <2>2 DEF BeginDeny, Get, flow, TypeOK
  <2> QED BY <2>1, <2>2
<1>3. update' \in BOOLEAN /\ denying' \in BOOLEAN
  BY DEF WatchNew, WatchUpdates, BeginDeny, Get, flow, TypeOK
<1>4. TypeOK'
  BY <1>1, <1>2, <1>3 DEF TypeOK, ClientsRest
<1>5. SteadyIsOpen'
  BY <1>1 DEF SteadyIsOpen, ClientsRest
<1>6. LifeIsOnTrack'
  <2>1. denying' = denying \/ status = "pending"
    BY DEF WatchNew, WatchUpdates, BeginDeny, Get, flow
  <2> QED BY <1>1, <2>1 DEF LifeIsOnTrack, ClientsRest
<1>7. \/ BroadcastDue'
      \/ BeginDeny
  <2>1. ASSUME NEW p \in Procs, Get(p) PROVE BroadcastDue'
    <3>1. at'[p] = "send"
      BY <2>1 DEF Get, TypeOK
    <3> QED BY <3>1 DEF BroadcastDue
  <2> QED BY <2>1, OwesEffect DEF WatchNew, WatchUpdates, Procs
<1>8. ReadDue \/ FrameDue => ReadDue' \/ FrameDue' \/ ~settled(status)
  <2>1. CASE WatchNew \/ WatchUpdates
    BY <2>1, OwesEffect DEF WatchNew, WatchUpdates, Procs
  <2>2. CASE BeginDeny
    BY <2>2 DEF BeginDeny, ReadDue, FrameDue
  <2>3. ASSUME NEW p \in Procs, Get(p), settled(status) PROVE FrameDue'
    <3>1. at'[p] = "send" /\ frame'[p] = status
      BY <2>3 DEF Get, TypeOK
    <3> QED BY <2>3, <3>1 DEF FrameDue
  <2> QED BY <2>1, <2>2, <2>3
<1>9. ASSUME NEW c \in Clients
      PROVE  PageIsLed(c)' /\ ClientIsLed(c)'
  <2>1. PageIsLed(c)'
    <3>1. CASE BroadcastDue'
      BY <3>1 DEF PageIsLed, Coming
    <3>2. CASE BeginDeny
      <4>1. BroadcastDue' = BroadcastDue
        BY <3>2 DEF BeginDeny, BroadcastDue
      <4> QED BY <1>1, <4>1 DEF PageIsLed, Owed, Coming, ClientsRest
    <3> QED BY <1>7, <3>1, <3>2
  <2>2. ClientIsLed(c)'
    <3>1. FrameQueued(c)' = FrameQueued(c)
      BY <1>1 DEF FrameQueued
    <3>2. ClientIsLed(c)
      OBVIOUS
    <3> QED BY <1>1, <1>8, <3>1, <3>2 DEF ClientIsLed, Owed, ClientsRest
  <2> QED BY <2>1, <2>2
<1> QED BY <1>4, <1>5, <1>6, <1>9

(* The sends: every steady client has something in its channel afterwards, *)
(* and a settled frame is queued for it or was dropped.                    *)
LEMMA SendDInv ==
  ASSUME DInv, NEW p \in Procs, Send(p)
  PROVE  DInv'
<1> USE DEF DInv
<1>1. /\ ClientsRest /\ UNCHANGED <<newId, update, denying, grantee, run>>
      /\ at[p] = "send" /\ at' = [at EXCEPT ![p] = "idle"]
      /\ frame' = [frame EXCEPT ![p] = "absent"]
  BY DEF Send, ClientsRest, flow, pages
<1>2. /\ chan' \in [Clients -> Seq(Shown)]
      /\ \A c \in Clients :
           /\ Len(chan'[c]) <= ChanCap
           /\ c \notin open => chan'[c] = chan[c]
           /\ c \in open /\ HasRoom(c) => chan'[c] = Append(chan[c], frame[p])
           /\ c \in open /\ ~HasRoom(c) => chan'[c] = chan[c] /\ c \in missed'
  <2>1. frame[p] \in Shown
    BY DEF TypeOK
  <2>2. ASSUME NEW c \in Clients
        PROVE  /\ chan'[c] \in Seq(Shown) /\ Len(chan'[c]) <= ChanCap
               /\ c \notin open => chan'[c] = chan[c]
               /\ c \in open /\ HasRoom(c) => chan'[c] = Append(chan[c], frame[p])
               /\ c \in open /\ ~HasRoom(c) => chan'[c] = chan[c] /\ c \in missed'
    BY <2>1, DashboardAssumption DEF Send, TypeOK, HasRoom
  <2>3. chan' = [c \in Clients |-> chan'[c]]
    BY DEF Send
  <2> QED BY <2>2, <2>3
<1>3. missed \subseteq missed' /\ missed' \subseteq Clients
  BY DEF Send, TypeOK
<1>4. TypeOK'
  <2>1. at' \in [Procs -> {"idle", "get", "send"}] /\ frame' \in [Procs -> Shown]
    BY <1>1 DEF TypeOK, Shown
  <2> QED BY <1>1, <1>2, <1>3, <2>1 DEF TypeOK, ClientsRest
<1>5. LifeIsOnTrack' /\ SteadyIsOpen'
  BY <1>1 DEF LifeIsOnTrack, SteadyIsOpen, ClientsRest
<1>6. ASSUME NEW c \in Clients, c \in steady
      PROVE  /\ chan'[c] # <<>>
             /\ FrameQueued(c) => FrameQueued(c)'
             /\ settled(frame[p]) => FrameQueued(c)' \/ c \in missed'
  <2>1. c \in open
    BY <1>6 DEF SteadyIsOpen
  <2>2. CASE HasRoom(c)
    <3>1. chan'[c] = Append(chan[c], frame[p]) /\ chan[c] \in Seq(Shown) /\ frame[p] \in Shown
      BY <1>2, <2>1, <2>2 DEF TypeOK
    <3>2. /\ chan'[c] # <<>> /\ Len(chan'[c]) = Len(chan[c]) + 1
          /\ \A i \in 1 .. Len(chan[c]) : chan'[c][i] = chan[c][i]
          /\ chan'[c][Len(chan[c]) + 1] = frame[p]
      BY <3>1, AppendProperties
    <3>3. Len(chan[c]) \in Nat
      BY <3>1
    <3> QED BY <3>2, <3>3 DEF FrameQueued
  <2>3. CASE ~HasRoom(c)
    <3>1. chan'[c] = chan[c] /\ c \in missed' /\ chan[c] \in Seq(Shown) /\ Len(chan[c]) >= ChanCap
      BY <1>2, <2>1, <2>3, DashboardAssumption DEF HasRoom, TypeOK
    <3> QED BY <3>1, DashboardAssumption DEF FrameQueued
  <2> QED BY <2>2, <2>3
<1>7. ReadDue => ReadDue'
  BY <1>1 DEF ReadDue, TypeOK
<1>8. FrameDue => FrameDue' \/ settled(frame[p])
  BY <1>1 DEF FrameDue, TypeOK
<1>9. ASSUME NEW c \in Clients
      PROVE  PageIsLed(c)' /\ ClientIsLed(c)'
  <2>1. CASE c \notin steady
    BY <1>1, <2>1 DEF PageIsLed, ClientIsLed, Owed, ClientsRest
  <2>2. CASE c \in steady
    <3>1. PageIsLed(c)'
      BY <1>6, <2>2 DEF PageIsLed, Owed, Coming
    <3>2. ClientIsLed(c)
      OBVIOUS
    <3>3. ClientIsLed(c)'
      BY <1>1, <1>3, <1>6, <1>7, <1>8, <2>2, <3>2 DEF ClientIsLed, Owed, ClientsRest
    <3> QED BY <3>1, <3>3
  <2> QED BY <2>1, <2>2
<1> QED BY <1>4, <1>5, <1>9

(* The handlers and broadcasters rest while a client or its page moves.    *)
ServerRests ==
  UNCHANGED <<status, at, frame, newId, update, denying, grantee, run, missed, dropped>>

(* Nothing changes for a client whose channel and page are left alone.     *)
LEMMA OthersAreLed ==
  ASSUME ServerRests, NEW d \in Clients, PageIsLed(d), ClientIsLed(d),
         d \in steady' => d \in steady, informed \subseteq informed',
         chan'[d] = chan[d], fetches'[d] = fetches[d], view'[d] = view[d]
  PROVE  PageIsLed(d)' /\ ClientIsLed(d)'
<1>1. BroadcastDue' = BroadcastDue /\ ReadDue' = ReadDue /\ FrameDue' = FrameDue
  BY DEF ServerRests, BroadcastDue, ReadDue, FrameDue
<1>2. FrameQueued(d)' = FrameQueued(d)
  BY DEF FrameQueued
<1>3. PageIsLed(d)'
  BY <1>1 DEF PageIsLed, Owed, Coming, ServerRests
<1> QED BY <1>1, <1>2, <1>3 DEF ClientIsLed, Owed, ServerRests

(* A stream opens or is cut.                                               *)
LEMMA StreamDInv ==
  ASSUME DInv, NEW c \in Clients, Connect(c) \/ Cut(c)
  PROVE  DInv'
<1> USE DEF DInv
<1>1. /\ ServerRests /\ view' = view /\ informed' = informed
      /\ steady' \subseteq steady
      /\ \A d \in Clients \ {c} : chan'[d] = chan[d] /\ fetches'[d] = fetches[d]
  BY DEF Connect, Cut, ServerRests, flow, pages, TypeOK
<1>2. /\ (chan' = chan /\ fetches' = fetches) \/ c \notin steady'
      /\ steady' \subseteq open'
  BY DEF Connect, Cut, pages, SteadyIsOpen
<1>3. TypeOK'
  <2>1. CASE Connect(c)
    BY <1>1, <2>1 DEF TypeOK, Connect, pages, flow
  <2>2. CASE Cut(c)
    <3>1. /\ chan' \in [Clients -> Seq(Shown)] /\ \A d \in Clients : Len(chan'[d]) <= ChanCap
          /\ fetches' \in [Clients -> Seq(Shown \cup {"asked"})]
      BY <2>2, DashboardAssumption DEF Cut, TypeOK
    <3>2. cuts' \in 0 .. MaxCuts
      BY <2>2, DashboardAssumption DEF Cut, TypeOK
    <3> QED BY <1>1, <2>2, <3>1, <3>2 DEF TypeOK, Cut, ServerRests
  <2> QED BY <2>1, <2>2
<1>4. LifeIsOnTrack' /\ SteadyIsOpen'
  BY <1>1, <1>2 DEF LifeIsOnTrack, SteadyIsOpen, ServerRests
<1>5. ASSUME NEW d \in Clients
      PROVE  PageIsLed(d)' /\ ClientIsLed(d)'
  <2>1. CASE d \notin steady'
    BY <2>1 DEF PageIsLed, ClientIsLed, Owed
  <2>2. CASE chan'[d] = chan[d] /\ fetches'[d] = fetches[d]
    BY <1>1, <2>2, OthersAreLed
  <2> QED BY <1>1, <1>2, <2>1, <2>2
<1> QED BY <1>3, <1>4, <1>5

(* A frame is received: the page asks once more, and a settled frame has   *)
(* informed the client.                                                    *)
LEMMA OnMessageDInv ==
  ASSUME DInv, NEW c \in Clients, OnMessage(c)
  PROVE  DInv'
<1> USE DEF DInv
<1>1. /\ ServerRests /\ UNCHANGED <<open, view, cuts, steady>>
      /\ informed \subseteq informed' /\ informed' \subseteq Clients
      /\ settled(Head(chan[c])) => c \in informed'
  BY DEF OnMessage, ServerRests, flow, TypeOK
<1>2. chan[c] \in Seq(Shown) /\ chan[c] # <<>> /\ fetches[c] \in Seq(Shown \cup {"asked"})
  BY DEF OnMessage, TypeOK
<1>3. /\ Tail(chan[c]) \in Seq(Shown) /\ Len(Tail(chan[c])) = Len(chan[c]) - 1
      /\ \A i \in 1 .. Len(Tail(chan[c])) : Tail(chan[c])[i] = chan[c][i + 1]
      /\ Head(chan[c]) = chan[c][1]
  BY <1>2, HeadTailProperties
<1>4. /\ Append(fetches[c], "asked") \in Seq(Shown \cup {"asked"})
      /\ Append(fetches[c], "asked") # <<>>
      /\ Append(fetches[c], "asked")[Len(Append(fetches[c], "asked"))] = "asked"
  BY <1>2, AppendProperties
<1>5. /\ chan' \in [Clients -> Seq(Shown)] /\ chan'[c] = Tail(chan[c])
      /\ fetches' \in [Clients -> Seq(Shown \cup {"asked"})]
      /\ fetches'[c] = Append(fetches[c], "asked")
      /\ \A d \in Clients \ {c} : chan'[d] = chan[d] /\ fetches'[d] = fetches[d]
  BY <1>3, <1>4 DEF OnMessage, TypeOK
<1>6. \A d \in Clients : Len(chan'[d]) <= ChanCap
  <2>1. Len(chan[c]) \in Nat /\ \A d \in Clients : Len(chan[d]) <= ChanCap
    BY <1>2 DEF TypeOK
  <2>2. Len(chan'[c]) <= ChanCap
    BY <1>3, <1>5, <2>1, DashboardAssumption
  <2> QED BY <1>5, <2>1, <2>2
<1>7. TypeOK' /\ LifeIsOnTrack' /\ SteadyIsOpen'
  BY <1>1, <1>5, <1>6 DEF TypeOK, LifeIsOnTrack, SteadyIsOpen, ServerRests
<1>8. PageIsLed(c)'
  BY <1>4, <1>5 DEF PageIsLed
<1>9. ClientIsLed(c)'
  <2>1. FrameQueued(c) => FrameQueued(c)' \/ c \in informed'
    <3> SUFFICES ASSUME NEW i \in 1 .. Len(chan[c]), settled(chan[c][i])
                 PROVE  FrameQueued(c)' \/ c \in informed'
      BY DEF FrameQueued
    <3>1. CASE i = 1
      BY <1>1, <1>3, <3>1
    <3>2. CASE i # 1
      <4>1. i - 1 \in 1 .. Len(Tail(chan[c])) /\ Tail(chan[c])[i - 1] = chan[c][i]
        BY <1>2, <1>3, <3>2
      <4> QED BY <1>5, <4>1 DEF FrameQueued
    <3> QED BY <3>1, <3>2
  <2>2. ReadDue' = ReadDue /\ FrameDue' = FrameDue /\ ClientIsLed(c)
    BY <1>1 DEF ServerRests, ReadDue, FrameDue
  <2> QED BY <1>1, <2>1, <2>2 DEF ClientIsLed, Owed, ServerRests
<1>10. \A d \in Clients \ {c} : PageIsLed(d)' /\ ClientIsLed(d)'
  BY <1>1, <1>5, OthersAreLed
<1> QED BY <1>7, <1>8, <1>9, <1>10

(* A fetch is answered with the status, or an answer is shown.             *)
LEMMA FetchDInv ==
  ASSUME DInv, NEW c \in Clients, ListRequests(c) \/ Render(c)
  PROVE  DInv'
<1> USE DEF DInv
<1> DEFINE old == fetches[c]
<1>0. \A n \in Nat : 1 <= n => n = 1 \/ n > 1
  OBVIOUS
<1>1. /\ ServerRests /\ UNCHANGED <<open, chan, cuts, informed, steady>>
      /\ old \in Seq(Shown \cup {"asked"}) /\ status \in Shown
  BY DEF ListRequests, Render, ServerRests, flow, TypeOK
<1>2. /\ fetches' \in [Clients -> Seq(Shown \cup {"asked"})]
      /\ view' \in [Clients -> Shown \cup {"nothing"}]
      /\ \A d \in Clients \ {c} : fetches'[d] = fetches[d] /\ view'[d] = view[d]
      /\ FetchesInOrder /\ (old # <<>> => old[Len(old)] \in {"asked", status})
           => /\ old # <<>>
              /\ IF fetches'[c] = <<>> THEN view'[c] = status
                 ELSE fetches'[c][Len(fetches'[c])] \in {"asked", status}
  <2>1. CASE ListRequests(c)
    <3> PICK i \in DOMAIN old : fetches' = [fetches EXCEPT ![c][i] = status]
      BY <2>1 DEF ListRequests
    <3> DEFINE new == [old EXCEPT ![i] = status]
    <3>1. /\ new \in Seq(Shown \cup {"asked"}) /\ Len(new) = Len(old) /\ old # <<>>
          /\ new # <<>> /\ (i # Len(old) => new[Len(old)] = old[Len(old)])
          /\ (i = Len(old) => new[Len(old)] = status)
      BY <1>1
    <3>2. /\ fetches' \in [Clients -> Seq(Shown \cup {"asked"})]
          /\ fetches'[c] = new /\ \A d \in Clients \ {c} : fetches'[d] = fetches[d]
      BY <3>1 DEF TypeOK
    <3>3. view' = view
      BY <2>1 DEF ListRequests
    <3> HIDE DEF new, old
    <3> QED BY <3>1, <3>2, <3>3 DEF TypeOK, old
  <2>2. CASE Render(c)
    <3> PICK i \in DOMAIN old :
               /\ old[i] # "asked" /\ (FetchesInOrder => i = 1)
               /\ view' = [view EXCEPT ![c] = old[i]]
               /\ fetches' = [fetches EXCEPT ![c] = RemoveAt(old, i)]
      BY <2>2 DEF Render
    <3> DEFINE new == RemoveAt(old, i)
    <3>1. i \in 1 .. Len(old) /\ old[i] \in Shown /\ Len(old) \in Nat /\ old # <<>>
      BY <1>1
    <3>2. /\ new \in Seq(Shown \cup {"asked"}) /\ Len(new) = Len(old) - 1
          /\ (i < Len(old) => new[Len(old) - 1] = old[Len(old)])
      BY <1>1, <3>1, RemoveAtKeepsLast
    <3>3. /\ fetches' \in [Clients -> Seq(Shown \cup {"asked"})]
          /\ fetches'[c] = new /\ view'[c] = old[i]
          /\ view' \in [Clients -> Shown \cup {"nothing"}]
          /\ \A d \in Clients \ {c} : fetches'[d] = fetches[d] /\ view'[d] = view[d]
      BY <3>1, <3>2 DEF TypeOK
    <3> HIDE DEF new, old
    <3>4. ASSUME FetchesInOrder, old[Len(old)] \in {"asked", status}
          PROVE  IF new = <<>> THEN old[i] = status
                 ELSE new[Len(new)] \in {"asked", status}
      <4>1. i = 1
        BY <3>4
      <4>2. CASE Len(old) = 1
        BY <3>2, <3>4, <4>1, <4>2
      <4>3. CASE Len(old) > 1
        BY <3>2, <3>4, <4>1, <4>3
      <4>4. Len(old) = 1 \/ Len(old) > 1
        <5>1. Len(old) \in Nat /\ 1 <= Len(old)
          BY <3>1, <4>1
        <5> QED BY <1>0, <5>1, Zenon
      <4> QED BY <4>2, <4>3, <4>4
    <3> QED BY <3>1, <3>3, <3>4
  <2> QED BY <2>1, <2>2
<1>3. TypeOK' /\ LifeIsOnTrack' /\ SteadyIsOpen'
  BY <1>1, <1>2 DEF TypeOK, LifeIsOnTrack, SteadyIsOpen, ServerRests
<1>4. ReadDue' = ReadDue /\ FrameDue' = FrameDue /\ BroadcastDue' = BroadcastDue
      /\ FrameQueued(c)' = FrameQueued(c)
  BY <1>1 DEF ServerRests, ReadDue, FrameDue, BroadcastDue, FrameQueued
<1>5. PageIsLed(c)' /\ ClientIsLed(c)'
  <2>1. PageIsLed(c) /\ ClientIsLed(c)
    OBVIOUS
  <2>2. ClientIsLed(c)'
    BY <1>1, <1>4, <2>1 DEF ClientIsLed, Owed, ServerRests
  <2>3. PageIsLed(c)'
    <3> HIDE DEF DInv
    <3> QED BY <1>1, <1>2, <1>4, <2>1 DEF PageIsLed, Owed, Coming, ServerRests
  <2> QED BY <2>2, <2>3
<1>6. \A d \in Clients \ {c} : PageIsLed(d)' /\ ClientIsLed(d)'
  BY <1>1, <1>2, OthersAreLed
<1> QED BY <1>3, <1>5, <1>6

(* Every step keeps the invariant.                                         *)
LEMMA NextDInv == DInv /\ [Next]_vars => DInv'
<1> SUFFICES ASSUME DInv, [Next]_vars PROVE DInv'
  OBVIOUS
<1>1. CASE UNCHANGED vars
  <2>1. ServerRests /\ UNCHANGED <<open, chan, fetches, view, cuts, informed, steady>>
    BY <1>1 DEF vars, flow, pages, ServerRests
  <2>2. TypeOK' /\ LifeIsOnTrack' /\ SteadyIsOpen'
    BY <2>1 DEF DInv, TypeOK, LifeIsOnTrack, SteadyIsOpen, ServerRests
  <2>3. \A d \in Clients : PageIsLed(d)' /\ ClientIsLed(d)'
    BY <2>1, OthersAreLed DEF DInv
  <2> QED BY <2>2, <2>3 DEF DInv
<1>2. CASE Next
  BY <1>2, MovesDInv, BroadcasterDInv, SendDInv, StreamDInv, OnMessageDInv, FetchDInv
     DEF Next, RequestMoves, Broadcast, Page
<1> QED BY <1>1, <1>2

-----------------------------------------------------------------------------
(***************************************************************************)
(* Dashboard: the theorems.                                                *)
(***************************************************************************)

(* The dashboards' invariant holds in every state.                         *)
THEOREM DashboardInvariant == Spec => []DInv
<1> QED BY InitDInv, NextDInv, PTL DEF Spec

(* When nothing is on its way, no client and no page that is owed the news *)
(* of the last change has been forgotten, whatever the capacity of the     *)
(* channels and however reads, sends, drops, fetches and changes of the    *)
(* request interleave.  The news the store gave up announcing is owed to   *)
(* nobody.                                                                 *)
THEOREM NobodyIsForgotten == Spec => []QuietMeansTold
<1>1. DInv => QuietMeansTold
  <2> SUFFICES ASSUME DInv, NEW c \in Clients, Owed(c), ~BroadcastDue, chan[c] = <<>>
               PROVE  /\ settled(status) => c \in informed \cup missed
                      /\ FetchesInOrder /\ fetches[c] = <<>> => view[c] = status
    BY DEF QuietMeansTold
  <2>1. PageIsLed(c) /\ ClientIsLed(c)
    BY DEF DInv
  <2>2. ~ReadDue /\ ~FrameDue
    BY DEF BroadcastDue, ReadDue, FrameDue
  <2>3. ~FrameQueued(c)
    BY DEF FrameQueued
  <2> QED BY <2>1, <2>2, <2>3 DEF PageIsLed, Coming, ClientIsLed
<1> QED BY <1>1, DashboardInvariant, PTL

(* The request the dashboards follow moves as the relay's requests do.     *)
THEOREM DashboardFollowsLife == Spec => MovesAsRelay
<1> DEFINE Moves == status' # status =>
                      IF status = "absent" THEN status' = "pending"
                      ELSE <<status, status'>> \in StatusMoves
<1>1. DInv /\ [Next]_vars => [Moves]_vars
  <2> SUFFICES ASSUME DInv, Next, status' # status
               PROVE  IF status = "absent" THEN status' = "pending"
                      ELSE <<status, status'>> \in StatusMoves
    BY DEF vars
  <2>1. RequestMoves
    BY DEF Next, RequestMoves, Broadcast, Page, WatchNew, BeginDeny, WatchUpdates, Get, Send,
           Connect, Cut, OnMessage, ListRequests, Render
  <2> QED BY <2>1, MoveEffect DEF DInv
<1> QED BY <1>1, DashboardInvariant, PTL DEF Spec, MovesAsRelay

-----------------------------------------------------------------------------
USE CooldownAssumption

-----------------------------------------------------------------------------
(***************************************************************************)
(* Cooldown: the inductive invariant.                                      *)
(***************************************************************************)

(* The turbo in force is the one an operator last asked for, if its        *)
(* cooldown fits a duration.                                               *)
TurboIsAsked ==
  turboExpiry # Never =>
    /\ asked.from <= now /\ asked.until = turboExpiry
    /\ asked.cooldown < Half => turboCooldown = asked.cooldown

(* A refused caller was told to wait until the cooldown it met had passed. *)
ToldEnough ==
  \A c \in Callers :
    told[c].stamp # Never => told[c].retryAt >= told[c].stamp + told[c].cooldown

CInv == CooldownTypeOK /\ TurboIsAsked /\ ToldEnough

-----------------------------------------------------------------------------
(* Products of durations: natural, and monotonic.                          *)
LEMMA Product ==
  ASSUME NEW a \in Nat, NEW b \in Nat, NEW c \in Nat, a <= b
  PROVE  a * c \in Nat /\ b * c \in Nat /\ a * c <= b * c
OBVIOUS

(* A posted duration is replaced or capped, and never reaches zero.        *)
LEMMA MinutesInRange ==
  ASSUME NEW m \in Int
  PROVE  Minutes(m) \in Nat /\ Minutes(m) <= MaxMinutes /\ Minutes(m) * Minute \in Nat
         /\ MaxMinutes * Minute \in Nat /\ Minutes(m) * Minute <= MaxMinutes * Minute
<1>1. Minutes(m) \in Nat /\ Minutes(m) <= MaxMinutes
  BY DEF Minutes
<1> QED BY <1>1, Product

(* A posted cooldown is natural.                                           *)
LEMMA SecondsInRange ==
  ASSUME NEW s \in PostedSeconds
  PROVE  Seconds(s) * Second \in Nat
<1>1. Seconds(s) \in Nat
  BY DEF Seconds
<1> QED BY <1>1, Product

(* A product is a duration again, and the same number if it fits.          *)
LEMMA DurationWraps ==
  ASSUME NEW d \in Nat
  PROVE  /\ DurationWrap(d) \in -Half .. Half - 1
         /\ d < Half => DurationWrap(d) = d
<1>1. Half \in Nat /\ Half > 0
  OBVIOUS
<1>2. PICK m \in Int : m = 2 * Half /\ m > 0
  BY <1>1
<1>3. PICK e \in Int : e = d + Half /\ 0 <= e
  BY <1>1
<1>4. e % m \in 0 .. m - 1 /\ (e < m => e % m = e)
  BY <1>2, <1>3
<1> QED BY <1>1, <1>2, <1>3, <1>4 DEF DurationWrap

(* Retry-After, in whole seconds, is not shorter than what remains.        *)
LEMMA RetryAfterCovers ==
  ASSUME NEW r \in Nat
  PROVE  RetryAfter(r) * Second \in Nat /\ RetryAfter(r) * Second >= r
<1>1. /\ r \div Second \in Nat
      /\ r < Second * (r \div Second) + Second
  BY SMT
<1>2. (r \div Second + 1) * Second = Second * (r \div Second) + Second
  BY <1>1
<1>3. (r \div Second + 1) * Second \in Nat
  BY <1>1, Product
<1> QED BY <1>1, <1>2, <1>3 DEF RetryAfter

-----------------------------------------------------------------------------
(* Turbo is off and nobody has been refused.                               *)
LEMMA InitCInv == CooldownInit => CInv
<1> SUFFICES ASSUME CooldownInit PROVE CInv
  OBVIOUS
<1>1. MaxMinutes * Minute \in Nat
  BY Product
<1>2. CooldownTypeOK
  BY <1>1 DEF CooldownInit, CooldownTypeOK, NothingAsked, NotTold, Never
<1>3. TurboIsAsked /\ ToldEnough
  BY DEF CooldownInit, TurboIsAsked, ToldEnough, NotTold, Never
<1> QED BY <1>2, <1>3 DEF CInv

(* A refusal tells its caller to wait long enough.                         *)
LEMMA RefuseCInv ==
  ASSUME CInv, NEW c \in Callers, Refuse(c)
  PROVE  CInv'
<1> USE DEF CInv
<1>1. activeCooldown \in Int
  BY DEF activeCooldown, CooldownTypeOK
<1>2. /\ lastApproval \in Nat /\ lastApproval <= now /\ now \in Nat
      /\ CoolingFor \in Nat /\ activeCooldown \in Nat
      /\ now + CoolingFor = lastApproval + activeCooldown
  BY <1>1 DEF Refuse, Cooling, CoolingFor, CooldownTypeOK, Never
<1> DEFINE wait == RetryAfter(CoolingFor) * Second
<1>3. wait \in Nat /\ wait >= CoolingFor
  BY <1>2, RetryAfterCovers
<1> HIDE DEF wait
<1>4. told' = [told EXCEPT ![c] = [stamp |-> lastApproval, cooldown |-> activeCooldown,
                                   retryAt |-> now + wait]]
  BY DEF Refuse, wait
<1>5. UNCHANGED <<now, lastApproval, turboCooldown, turboExpiry, asked>>
  BY DEF Refuse
<1>6. CooldownTypeOK'
  BY <1>2, <1>3, <1>4, <1>5 DEF CooldownTypeOK
<1>7. TurboIsAsked'
  BY <1>5 DEF TurboIsAsked
<1>8. ToldEnough'
  BY <1>2, <1>3, <1>4 DEF ToldEnough, CooldownTypeOK
<1> QED BY <1>6, <1>7, <1>8

(* The other steps under cooldownMu.                                       *)
LEMMA StepCInv ==
  ASSUME CInv, CooldownNext, \A c \in Callers : ~Refuse(c)
  PROVE  CInv'
<1> USE DEF CInv
<1>1. MaxMinutes * Minute \in Nat
  BY Product
<1>2. CASE \E c \in Callers : Stamp(c)
  BY <1>1, <1>2 DEF Stamp, CooldownTypeOK, TurboIsAsked, ToldEnough
<1>3. ASSUME NEW s \in PostedSeconds, NEW m \in PostedMinutes, TurboOn(s, m)
      PROVE  CInv'
  <2> DEFINE cooldown == Seconds(s) * Second
             wrapped == DurationWrap(cooldown)
             length == Minutes(m) * Minute
  <2>1. cooldown \in Nat
    BY SecondsInRange
  <2>2. wrapped \in -Half .. Half - 1 /\ (cooldown < Half => wrapped = cooldown)
    BY <2>1, DurationWraps
  <2>3. length \in Nat /\ length <= MaxMinutes * Minute
    BY MinutesInRange
  <2> HIDE DEF cooldown, wrapped, length
  <2>4. /\ turboCooldown' = wrapped /\ turboExpiry' = now + length
        /\ asked' = [from |-> now, until |-> now + length, cooldown |-> cooldown]
        /\ UNCHANGED <<now, lastApproval, told>>
    BY <1>3 DEF TurboOn, cooldown, wrapped, length
  <2>5. CooldownTypeOK'
    BY <1>1, <2>2, <2>1, <2>3, <2>4 DEF CooldownTypeOK
  <2>6. TurboIsAsked' /\ ToldEnough'
    BY <2>2, <2>1, <2>4 DEF CooldownTypeOK, TurboIsAsked, ToldEnough
  <2> QED BY <2>5, <2>6
<1>4. CASE TurboOff
  BY <1>1, <1>4 DEF TurboOff, CooldownTypeOK, TurboIsAsked, ToldEnough, NothingAsked
<1>5. CASE Tick
  BY <1>1, <1>5 DEF Tick, CooldownTypeOK, TurboIsAsked, ToldEnough
<1> QED BY <1>2, <1>3, <1>4, <1>5 DEF CooldownNext

(* Every step keeps the invariant.                                         *)
LEMMA NextCInv == CInv /\ [CooldownNext]_cooldownVars => CInv'
<1> SUFFICES ASSUME CInv, [CooldownNext]_cooldownVars PROVE CInv'
  OBVIOUS
<1>1. CASE \E c \in Callers : Refuse(c)
  BY <1>1, RefuseCInv
<1>2. CASE CooldownNext /\ \A c \in Callers : ~Refuse(c)
  BY <1>2, StepCInv
<1>3. CASE UNCHANGED cooldownVars
  BY <1>3 DEF cooldownVars, CInv, CooldownTypeOK, TurboIsAsked, ToldEnough
<1> QED BY <1>1, <1>2, <1>3

(* The cooldown's invariant holds in every state.                          *)
THEOREM CooldownInvariant == CooldownSpec => []CInv
<1> QED BY InitCInv, NextCInv, PTL DEF CooldownSpec

(* A caller that comes back after Retry-After meets no cooldown but a new  *)
(* one, whatever the lengths of a second and of the cooldown.              *)
THEOREM RetryAfterHolds == CooldownSpec => []RetryAfterSuffices
<1>1. CInv => RetryAfterSuffices
  BY DEF CInv, CooldownTypeOK, ToldEnough, RetryAfterSuffices, Cooling, CoolingFor, Never
<1> QED BY <1>1, CooldownInvariant, PTL

(* Two approvals are closer than the configured cooldown only inside the   *)
(* time and by the gap an operator last asked for, or while the cooldown   *)
(* asked for is too long for a duration (handler.go's multiplication by    *)
(* time.Second, which wraps).                                              *)
THEOREM SpacingHolds == CooldownSpec => ApprovalsAreSpaced
<1> DEFINE Spaced == lastApproval' # lastApproval /\ lastApproval # Never =>
                       LET gap == lastApproval' - lastApproval
                       IN gap >= Base \/ TurboAllows(gap)
<1>1. CInv /\ [CooldownNext]_cooldownVars => [Spaced]_cooldownVars
  <2> SUFFICES ASSUME CInv, [CooldownNext]_cooldownVars, lastApproval' # lastApproval, lastApproval # Never
               PROVE  LET gap == lastApproval' - lastApproval
                      IN gap >= Base \/ TurboAllows(gap)
    OBVIOUS
  <2>1. PICK c \in Callers : Stamp(c)
    BY DEF CooldownNext, cooldownVars, Refuse, TurboOn, TurboOff, Tick
  <2>2. activeCooldown \in Int
    BY DEF CInv, CooldownTypeOK, activeCooldown
  <2>3. /\ lastApproval' = now /\ now \in Nat /\ lastApproval \in Nat
        /\ now - lastApproval >= activeCooldown
    BY <2>1, <2>2 DEF CInv, CooldownTypeOK, Stamp, Cooling, CoolingFor
  <2> QED BY <2>3 DEF CInv, CooldownTypeOK, TurboIsAsked, TurboAllows, activeCooldown, TurboActive
<1> QED BY <1>1, CooldownInvariant, PTL DEF CooldownSpec, ApprovalsAreSpaced

=============================================================================
