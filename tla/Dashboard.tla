----------------------------- MODULE Dashboard ------------------------------
(***************************************************************************)
(* How a client of /events follows a request (web/handler.go) and what the *)
(* dashboard page does with the frames (web/templates/index.html).         *)
(*                                                                         *)
(* Each process that changes the request broadcasts afterwards: it reads   *)
(* the request, makes a frame, and puts it on the channel of every client  *)
(* that has room.  The page answers each frame by fetching the list.       *)
(* There is one request; the moves of its status are Relay's, with the     *)
(* steps between two broadcasts of one process taken together.             *)
(*                                                                         *)
(* The store's channels to the two watchers are shared with every other    *)
(* request, and a send to a full one is given up: the news of a submission *)
(* or of a withdrawal may be lost before anyone broadcasts it.             *)
(***************************************************************************)
EXTENDS Naturals, Sequences, SequencesExt, StatusLife

CONSTANTS
  Clients,         \* browsers
  ChanCap,         \* capacity of a client's channel
  FetchesInOrder,  \* a page's fetches are answered in order
  MaxFetches,      \* bound: fetches of a page under way
  MaxCuts          \* bound: times a client loses its connection

ASSUME DashboardAssumption ==
  /\ ChanCap \in Nat \ {0} /\ MaxFetches \in Nat \ {0} /\ MaxCuts \in Nat
  /\ FetchesInOrder \in BOOLEAN

(* The goroutines that broadcast: watchRequests, two operators' handlers,  *)
(* watchUpdates and executeRequest.                                        *)
Procs == {"watcher", "approver", "denier", "updates", "executor"}

VARIABLES
  status,     \* the request; "absent" before it is submitted
  at, frame,  \* per process: where it is in broadcastEvent, and its frame
  newId,      \* the request's id in notify
  update,     \* its id is in updates
  denying,    \* a deny handler has found it pending
  grantee,    \* the process that approved it
  run,        \* its execution
  open, chan, \* the clients registered with handleSSE, and their channels
  fetches,    \* per page: its fetches under way
  view,       \* per page: the status it shows
  cuts,
  \* history variables
  informed,   \* clients that received a frame with a settled status
  missed,     \* clients that a frame was dropped for
  steady,     \* clients connected since before the last change
  dropped     \* the store gave up announcing the last change

flow == <<newId, update, denying, grantee, run>>
pages == <<fetches, view, cuts>>
vars == <<status, at, frame, flow, open, chan, pages, informed, missed, steady, dropped>>

Shown == Status \cup {"absent"}

(* One type for each variable; a channel never exceeds its capacity.       *)
TypeOK ==
  /\ status \in Shown
  /\ at \in [Procs -> {"idle", "get", "send"}]
  /\ frame \in [Procs -> Shown]
  /\ newId \in {"none", "queued", "taken"}
  /\ update \in BOOLEAN /\ denying \in BOOLEAN
  /\ grantee \in Procs \cup {"nobody"}
  /\ run \in {"no", "running", "done"}
  /\ open \subseteq Clients
  /\ chan \in [Clients -> Seq(Shown)] /\ \A c \in Clients : Len(chan[c]) <= ChanCap
  /\ fetches \in [Clients -> Seq(Shown \cup {"asked"})]
  /\ view \in [Clients -> Shown \cup {"nothing"}]
  /\ cuts \in 0 .. MaxCuts
  /\ informed \subseteq Clients /\ missed \subseteq Clients /\ steady \subseteq Clients
  /\ dropped \in BOOLEAN

(* The pages are loaded and have asked for the list; see Connect.          *)
Init ==
  /\ status = "absent"
  /\ at = [p \in Procs |-> "idle"]
  /\ frame = [p \in Procs |-> "absent"]
  /\ newId = "none" /\ update = FALSE /\ denying = FALSE
  /\ grantee = "nobody" /\ run = "no"
  /\ open = {}
  /\ chan = [c \in Clients |-> <<>>]
  /\ fetches = [c \in Clients |-> <<"asked">>]
  /\ view = [c \in Clients |-> "nothing"]
  /\ cuts = 0
  /\ informed = {} /\ missed = {} /\ steady = {} /\ dropped = FALSE

-----------------------------------------------------------------------------
(***************************************************************************)
(* The request changes, which p tells by a broadcast or the store by one   *)
(* of its channels.                                                        *)
(***************************************************************************)
Changes(s) ==
  /\ status' = s
  /\ steady' = open
  /\ UNCHANGED <<frame, open, chan, pages, informed, missed>>

Owes(p) ==
  /\ at[p] = "idle"
  /\ at' = [at EXCEPT ![p] = "get"]

Becomes(s) ==
  /\ Changes(s)
  /\ dropped' = FALSE

(* Store.Add sends the id to notify if there is room.                      *)
Submit ==
  /\ status = "absent"
  /\ Changes("pending")
  /\ \/ newId' = "queued" /\ dropped' = FALSE
     \/ newId' = newId /\ dropped' = TRUE
  /\ UNCHANGED <<at, update, denying, grantee, run>>

(* watchRequests broadcasts "new" before it looks at the whitelist.        *)
WatchNew ==
  /\ newId = "queued"
  /\ Owes("watcher")
  /\ newId' = "taken"
  /\ UNCHANGED <<status, frame, update, denying, grantee, run, open, chan, pages,
                 informed, missed, steady, dropped>>

(* An operator's approval, or autoApprove after the "new" broadcast.       *)
Approve(p) ==
  /\ status = "pending"
  /\ p = "watcher" => newId = "taken"
  /\ Owes(p)
  /\ Becomes("approved")
  /\ grantee' = p
  /\ UNCHANGED <<newId, update, denying, run>>

BeginDeny ==
  /\ status = "pending"
  /\ ~denying /\ at["denier"] = "idle"
  /\ denying' = TRUE
  /\ UNCHANGED <<status, at, frame, newId, update, grantee, run, open, chan, pages,
                 informed, missed, steady, dropped>>

(* Mutant: the handler answers without telling anyone.                     *)
DenyQuietly ==
  /\ denying
  /\ denying' = FALSE
  /\ Becomes("denied")
  /\ UNCHANGED <<at, newId, update, grantee, run>>

Deny ==
  /\ denying
  /\ denying' = FALSE
  /\ Owes("denier")
  /\ Becomes("denied")
  /\ UNCHANGED <<newId, update, grantee, run>>

(* Store.Withdraw tells watchUpdates through updates, if there is room.    *)
Withdraw ==
  /\ status = "pending"
  /\ Changes("withdrawn")
  /\ \/ update' = TRUE /\ dropped' = FALSE
     \/ update' = update /\ dropped' = TRUE
  /\ UNCHANGED <<at, newId, denying, grantee, run>>

WatchUpdates ==
  /\ update
  /\ Owes("updates")
  /\ update' = FALSE
  /\ UNCHANGED <<status, frame, newId, denying, grantee, run, open, chan, pages,
                 informed, missed, steady, dropped>>

(* The goroutine starts once the approval has been broadcast.              *)
ExecStart ==
  /\ grantee # "nobody" /\ at[grantee] = "idle"
  /\ run = "no"
  /\ Owes("executor")
  /\ Becomes("running")
  /\ run' = "running"
  /\ UNCHANGED <<newId, update, denying, grantee>>

(* "error" and "complete" are told apart by nothing here.                 *)
ExecFinish ==
  /\ run = "running"
  /\ Owes("executor")
  /\ Becomes("complete")
  /\ run' = "done"
  /\ UNCHANGED <<newId, update, denying, grantee>>

-----------------------------------------------------------------------------
(***************************************************************************)
(* broadcastEvent: store.Get, then the sends under sseMu.                  *)
(***************************************************************************)
Get(p) ==
  /\ at[p] = "get"
  /\ frame' = [frame EXCEPT ![p] = status]
  /\ at' = [at EXCEPT ![p] = "send"]
  /\ UNCHANGED <<status, flow, open, chan, pages, informed, missed, steady, dropped>>

HasRoom(c) == Len(chan[c]) < ChanCap

Send(p) ==
  LET served == {c \in open : HasRoom(c)} IN
  /\ at[p] = "send"
  /\ at' = [at EXCEPT ![p] = "idle"]
  /\ frame' = [frame EXCEPT ![p] = "absent"]
  /\ chan' = [c \in Clients |->
                IF c \in served THEN Append(chan[c], frame[p]) ELSE chan[c]]
  /\ missed' = missed \cup (open \ served)
  /\ UNCHANGED <<status, flow, open, pages, informed, steady, dropped>>

(***************************************************************************)
(* handleSSE.  The page opens the stream while its first fetch may already *)
(* have been answered, and again after the browser lost it; it does not    *)
(* fetch when the stream opens.                                            *)
(***************************************************************************)
Connect(c) ==
  /\ c \notin open
  /\ open' = open \cup {c}
  /\ UNCHANGED <<status, at, frame, flow, chan, pages, informed, missed, steady, dropped>>

(* The connection is cut; the fetches under way fail with it.              *)
Cut(c) ==
  /\ c \in open
  /\ cuts < MaxCuts
  /\ cuts' = cuts + 1
  /\ open' = open \ {c}
  /\ chan' = [chan EXCEPT ![c] = <<>>]
  /\ fetches' = [fetches EXCEPT ![c] = <<>>]
  /\ steady' = steady \ {c}
  /\ UNCHANGED <<status, at, frame, flow, view, informed, missed, dropped>>

(***************************************************************************)
(* The page: onmessage starts fetchRequests; the server lists the request; *)
(* the page shows the answer.                                              *)
(***************************************************************************)
(* Mutant: the page shows what the frame says instead of fetching.         *)
OnMessageTrusts(c) ==
  /\ chan[c] # <<>>
  /\ Len(fetches[c]) < MaxFetches
  /\ chan' = [chan EXCEPT ![c] = Tail(@)]
  /\ informed' = IF settled(Head(chan[c])) THEN informed \cup {c} ELSE informed
  /\ view' = [view EXCEPT ![c] = Head(chan[c])]
  /\ UNCHANGED <<status, at, frame, flow, open, fetches, cuts, missed, steady, dropped>>

OnMessage(c) ==
  /\ chan[c] # <<>>
  /\ Len(fetches[c]) < MaxFetches
  /\ chan' = [chan EXCEPT ![c] = Tail(@)]
  /\ informed' = IF settled(Head(chan[c])) THEN informed \cup {c} ELSE informed
  /\ fetches' = [fetches EXCEPT ![c] = Append(@, "asked")]
  /\ UNCHANGED <<status, at, frame, flow, open, view, cuts, missed, steady, dropped>>

ListRequests(c) ==
  /\ \E i \in DOMAIN fetches[c] :
       /\ fetches[c][i] = "asked"
       /\ FetchesInOrder => \A j \in 1 .. i - 1 : fetches[c][j] # "asked"
       /\ fetches' = [fetches EXCEPT ![c][i] = status]
  /\ UNCHANGED <<status, at, frame, flow, open, chan, view, cuts, informed, missed, steady, dropped>>

Render(c) ==
  /\ \E i \in DOMAIN fetches[c] :
       /\ fetches[c][i] # "asked"
       /\ FetchesInOrder => i = 1
       /\ view' = [view EXCEPT ![c] = fetches[c][i]]
       /\ fetches' = [fetches EXCEPT ![c] = RemoveAt(@, i)]
  /\ UNCHANGED <<status, at, frame, flow, open, chan, cuts, informed, missed, steady, dropped>>

-----------------------------------------------------------------------------
Broadcast(p) == Get(p) \/ Send(p)
Page(c)      == OnMessage(c) \/ ListRequests(c) \/ Render(c)

Next ==
  \/ Submit \/ WatchNew \/ BeginDeny \/ Deny \/ Withdraw \/ WatchUpdates
  \/ ExecStart \/ ExecFinish
  \/ \E p \in {"watcher", "approver"} : Approve(p)
  \/ \E p \in Procs : Broadcast(p)
  \/ \E c \in Clients : Connect(c) \/ Cut(c) \/ Page(c)

Spec == Init /\ [][Next]_vars

(* Goroutines and pages that have something to do get on with it; agents,  *)
(* operators, commands and connections owe nothing, except that a browser  *)
(* retries a stream it has lost.                                           *)
Fairness ==
  /\ \A p \in Procs : WF_vars(Broadcast(p))
  /\ WF_vars(WatchNew) /\ WF_vars(WatchUpdates) /\ WF_vars(Deny) /\ WF_vars(ExecStart)
  /\ \A c \in Clients : /\ WF_vars(OnMessage(c)) /\ WF_vars(ListRequests(c))
                        /\ WF_vars(Render(c)) /\ WF_vars(Connect(c))

FairSpec == Spec /\ Fairness

-----------------------------------------------------------------------------
(* Someone still has to broadcast.                                         *)
BroadcastDue == newId = "queued" \/ update \/ \E p \in Procs : at[p] # "idle"

(* The news of the last change is owed to a client that was connected when *)
(* it happened and still is, unless the store gave up announcing it: a     *)
(* dropped submission or withdrawal reaches nobody until something else    *)
(* makes a broadcast.                                                      *)
Owed(c) == c \in steady /\ ~dropped

(* When nothing is on its way any more, nobody who is owed the news has    *)
(* been forgotten: a client received a frame with the settled status or a  *)
(* frame was dropped for it, and a page shows the request as it is,        *)
(* although a broadcast reads the request once and sends later and the     *)
(* status may have changed, or the channel filled up, in between.          *)
QuietMeansTold ==
  \A c \in Clients : Owed(c) /\ ~BroadcastDue /\ chan[c] = <<>> =>
    /\ settled(status) => c \in informed \cup missed
    /\ FetchesInOrder /\ fetches[c] = <<>> => view[c] = status

(* The request moves as Relay's does: it is submitted pending and follows  *)
(* StatusLife, with an approval, a stale deny, a withdrawal and an         *)
(* execution under way at the same time.                                   *)
MovesAsRelay ==
  [][status' # status =>
       IF status = "absent" THEN status' = "pending"
       ELSE <<status, status'>> \in StatusMoves]_vars

(* A client that is owed the news when the request settles, and for which  *)
(* no frame was dropped, receives a frame with a settled status, whoever   *)
(* settled it (broadcastEvent: a session parked on an approval learns that *)
(* it has been decided).  A denial, a failure and a completion are always  *)
(* owed to those who are connected; a withdrawal may be dropped.           *)
SettledFrameArrives ==
  \A c \in Clients :
    Owed(c) /\ settled(status)
      ~> c \in informed \/ ~Owed(c) \/ c \in missed \/ ~settled(status)

(* A page that is owed the news of the last change and stays connected     *)
(* ends up showing the request as it is, although frames are dropped when  *)
(* its channel is full and frames of two processes can swap places.        *)
PageCatchesUp ==
  \A c \in Clients :
    <>[]Owed(c) => <>[](view[c] = status)

=============================================================================
