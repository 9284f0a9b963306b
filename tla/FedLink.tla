------------------------------- MODULE FedLink -------------------------------
(***************************************************************************)
(* The link from a hub to one federated peer, and the pane it proxies.      *)
(*                                                                         *)
(* The hub is ONE client of its peer and speaks for several of its own.     *)
(* A request that has an id goes up under an id of the hub's (Routes); an   *)
(* answer without one belongs to the sender of the oldest run the peer may  *)
(* still be answering, which the hub keeps apart with barrier pings.  The   *)
(* pane's input lock is arbitrated twice, by the hub among its clients and  *)
(* by the peer among its own, over a link on which requests, grants and     *)
(* give-backs cross.  The link breaks and is opened again.                  *)
(*                                                                         *)
(* A requester is the hub or <<client, channel>>; a client that resumes     *)
(* keeps its id on a new channel.  `conn` is the PeerConnection behind its  *)
(* mutex: every action below is one critical section of it.  Every message  *)
(* on the link carries who it is for (`by`), which only the properties      *)
(* read.  The peer daemon (its lock is Clients' too) is modelled from what  *)
(* the hub may assume of it: it answers one connection's messages in order. *)
(***************************************************************************)
EXTENDS Integers, Sequences, FiniteSets, FiniteSetsExt, SequencesExt, Functions, TLC

CONSTANTS
  Clients,      \* the hub's own clients
  MaxChannels,  \* bound: channels a client opens, one after another
  Sizes,        \* window sizes, ordered by what they show
  Scenarios     \* what may happen, and how often, in one behaviour

AllEvents == {"forward", "lock", "resume", "lag", "other", "close", "size"}
Nobody == "nobody"
Hub == <<Nobody, 0>>
None == <<Nobody, -1>>
NoBarrier == -1
Absent == -1      \* the size the hub has at a peer whose pane it does not view

ASSUME ConstantsAssumption ==
  /\ IsFiniteSet(Clients) /\ Clients # {}
  /\ MaxChannels \in Nat \ {0}
  /\ Sizes \subseteq Nat \ {0} /\ IsFiniteSet(Sizes) /\ Sizes # {}
  /\ \A s \in Scenarios :
       s \in [events : SUBSET AllEvents, sizes : SUBSET Sizes, ops : Nat, pings : Nat, links : Nat]
  /\ Nobody \notin Clients

VARIABLES
  scenario, \* bounds: the optional events, operations, keepalives and links
  conn,     \* the hub's PeerConnection
  down,     \* what the peer has sent and the feed loop has not read
  peer,     \* the peer daemon: the pane as it has it
  chans,    \* per client: the channel it uses now, those whose loop still runs, and
            \* those that attached the pane (state.attached)
  ops,      \* operations started, and per request how often it was answered
  history   \* what the properties remember (see Remembered)

vars == <<scenario, conn, down, peer, chans, ops, history>>

ClientIds == 1 .. MaxChannels
ClientOf(from) == from[1]

(***************************************************************************)
(* Routes: runs, barriers and ids.                                          *)
(***************************************************************************)

NewRoutes == [nextId |-> 2, nextPing |-> 0, routes |-> <<>>, runs |-> <<>>]

\* The connection on a fresh link, proxying a session nobody views yet.
NewConn ==
  [wire |-> "up", up |-> <<>>, mapped |-> TRUE, pane |-> FALSE, viewers |-> <<>>,
   size |-> 0, lock |-> None, routes |-> NewRoutes]

OpenRun(r) == r.runs # <<>> /\ Last(r.runs).barrier = NoBarrier

\* Routes::ping: the next seq, which closes the open run.
Pinged(r) ==
  [r EXCEPT !.nextPing = @ + 1,
            !.runs = IF OpenRun(r) THEN [@ EXCEPT ![Len(@)].barrier = r.nextPing] ELSE @]

Transmit(k, m) == [k EXCEPT !.up = IF k.wire = "up" THEN Append(@, m) ELSE @]

\* The keepalive ping, and the ping between two senders' runs.
Ping(k) == Transmit([k EXCEPT !.routes = Pinged(@)],
                    [op |-> "ping", by |-> Hub, id |-> k.routes.nextPing, arg |-> 0])

\* PeerConnection::barrier over Routes::sent.
Barrier_NoPing(k, from) ==
  IF OpenRun(k.routes) /\ Last(k.routes.runs).from = from THEN k
  ELSE [k EXCEPT !.routes.runs = Append(@, [from |-> from, routed |-> {}, barrier |-> NoBarrier])]
Barrier(k, from) ==
  LET joins == OpenRun(k.routes) /\ Last(k.routes.runs).from = from
      apart == IF OpenRun(k.routes) THEN Ping(k) ELSE k
  IN IF joins THEN k
     ELSE [apart EXCEPT !.routes.runs =
             Append(@, [from |-> from, routed |-> {}, barrier |-> NoBarrier])]

\* PeerConnection::send: a link that is closed drops the message.
Send(k, from, op, arg) ==
  Transmit(Barrier(k, from), [op |-> op, by |-> from, id |-> 0, arg |-> arg])

\* Routes::route: the id the request goes up under, noted in the open run.
Routed(k, from, request) ==
  LET id == k.routes.nextId
      runs == k.routes.runs
  IN [k EXCEPT !.routes.nextId = id + 1,
               !.routes.runs[Len(runs)].routed = @ \union {id},
               !.routes.routes = (id :> [from |-> from, request |-> request]) @@ @]

Taken(k, id) == [k EXCEPT !.routes.routes = Restrict(@, DOMAIN @ \ {id})]

\* Routes::ponged: the runs closed by a ping up to `seq` are done, and their routes.
Ponged(k, seq) ==
  LET runs == k.routes.runs
      done == {i \in 1 .. Len(runs) :
                 \A j \in 1 .. i : runs[j].barrier # NoBarrier /\ runs[j].barrier =< seq}
      ids == UNION {runs[i].routed : i \in done}
  IN [k EXCEPT !.routes.runs = SubSeq(@, Cardinality(done) + 1, Len(@)),
               !.routes.routes = Restrict(@, DOMAIN @ \ ids)]

\* Routes::front
Oldest(k) == IF k.routes.runs = <<>> THEN None ELSE Head(k.routes.runs).from

(***************************************************************************)
(* The pane's viewers, its size and its lock.                               *)
(***************************************************************************)

\* ProxiedPane::effective_size: the smallest viewer wins; 0, which the hub does pass
\* on, when there is none.
EffectiveSize(viewers) ==
  IF DOMAIN viewers = {} THEN 0 ELSE Min({viewers[c].size : c \in DOMAIN viewers})

ReconcileSize(k) ==
  LET eff == EffectiveSize(k.viewers)
  IN IF ~k.pane \/ eff = k.size THEN k
     ELSE Send([k EXCEPT !.size = eff], Hub, "resize", eff)

\* PeerConnection::resync
Resync(k) == IF k.pane /\ k.mapped THEN Send(k, Hub, "attach", k.size) ELSE k

\* PeerConnection::release_viewer
ReleaseViewer(k, c) ==
  LET freed == IF ClientOf(k.lock) = c
               THEN Send([k EXCEPT !.lock = None], Hub, "unlock", 0) ELSE k
      left == Restrict(k.viewers, DOMAIN k.viewers \ {c})
  IN IF ~k.mapped THEN k
     ELSE IF ~k.pane THEN freed
     ELSE IF DOMAIN left = {}
       THEN Send([freed EXCEPT !.viewers = left, !.pane = FALSE, !.size = 0], Hub, "detach", 0)
     ELSE ReconcileSize([freed EXCEPT !.viewers = left])

ReleaseLocksOf(k, from) ==
  IF k.lock # from THEN k
  ELSE LET freed == [k EXCEPT !.lock = None]
       IN IF k.mapped THEN Send(freed, Hub, "unlock", 0) ELSE freed

\* unregister_session: the mapping, the panes and their locks go.
Unregistered(k) ==
  [k EXCEPT !.mapped = FALSE, !.pane = FALSE, !.viewers = <<>>, !.size = 0, !.lock = None]

LockGranted(k, from) ==
  IF ClientOf(k.lock) \notin {Nobody, ClientOf(from)} THEN k
  ELSE IF ClientOf(from) \in DOMAIN k.viewers THEN [k EXCEPT !.lock = from]
  ELSE IF k.mapped THEN Send(k, Hub, "unlock", 0) ELSE k

\* PeerConnection::lock_released, relock: the holder's own release frees the lock;
\* the hub's give-back may have undone the holder's grant, so it asks again.
LockReleased_NoRelock(k, from) ==
  IF k.lock # None /\ ClientOf(from) = ClientOf(k.lock) THEN [k EXCEPT !.lock = None] ELSE k
LockReleased(k, from) ==
  IF k.lock = None THEN k
  ELSE IF ClientOf(from) = ClientOf(k.lock) THEN [k EXCEPT !.lock = None]
  ELSE IF from = Hub /\ k.mapped THEN Send(k, Hub, "lock", 0) ELSE k

\* PeerConnection::lock_refused: to the hub asking again, or to the holder.
LockRefused(k, from) ==
  IF from = Hub \/ ClientOf(from) = ClientOf(k.lock) THEN [k EXCEPT !.lock = None] ELSE k

OnLockReply(k, from, re) ==
  CASE re = "granted" -> LockGranted(k, from)
    [] re = "released" -> LockReleased(k, from)
    [] re = "denied" -> LockRefused(k, from)
    [] OTHER -> k

(***************************************************************************)
(* The clients' operations.                                                 *)
(***************************************************************************)

Live(c) == chans[c].now \in chans[c].live
Me(c) == <<c, chans[c].now>>

\* One more operation; `requests` holds the requests with an id among them.
Started(answered) ==
  /\ ops.count < scenario.ops
  /\ ops' = [ops EXCEPT !.count = @ + 1, !.answers = @ \o answered]

Answer(request) == ops' = [ops EXCEPT !.answers[request] = @ + 1]

\* PeerManager::forward of a request with an id, from dispatch::federated::route:
\* refused at once, or on its way.  A link that closed under it takes the route back.
ForwardRequest(c) ==
  LET request == Len(ops.answers) + 1
      sent == Routed(Barrier(conn, Me(c)), Me(c), request)
  IN /\ "forward" \in scenario.events /\ Live(c)
     /\ IF ~conn.mapped \/ conn.wire = "down"
        THEN conn' = conn /\ Started(<<1>>)
        ELSE IF conn.wire = "broken"
        THEN conn' = Taken(sent, conn.routes.nextId) /\ Started(<<1>>)
        ELSE /\ conn' = Transmit(sent, [op |-> "request", by |-> Me(c),
                                        id |-> conn.routes.nextId, arg |-> request])
             /\ Started(<<0>>)
     /\ UNCHANGED <<down, peer, chans, history>>

\* PeerManager::forward of input, which has no id: refused when another client
\* holds the hub's lock (retarget).
ForwardInput(c) ==
  LET locked == conn.lock # None /\ ClientOf(conn.lock) # c
  IN /\ "forward" \in scenario.events /\ Live(c)
     /\ conn' = IF ~conn.mapped \/ conn.wire = "down" \/ locked THEN conn
                ELSE Send(conn, Me(c), "input", 0)
     /\ Started(<<>>)
     /\ UNCHANGED <<down, peer, chans, history>>

\* PeerManager::request_input_lock: denied here when another of the hub's
\* clients holds the lock, else asked of the peer.
RequestInputLock(c) ==
  /\ "lock" \in scenario.events /\ Live(c)
  /\ conn' = IF conn.mapped /\ ClientOf(conn.lock) \in {Nobody, c}
             THEN Send(conn, Me(c), "lock", 0) ELSE conn
  /\ Started(<<>>)
  /\ UNCHANGED <<down, peer, chans, history>>

\* PeerManager::release_input_lock: passed up for the holder only.
ReleaseInputLock(c) ==
  /\ "lock" \in scenario.events /\ Live(c) /\ ClientOf(conn.lock) = c
  /\ conn' = IF conn.mapped THEN Send(conn, Me(c), "unlock", 0) ELSE conn
  /\ Started(<<>>)
  /\ UNCHANGED <<down, peer, chans, history>>

\* on_attach, PeerManager::attach_viewer, on a channel that has not attached the
\* pane, or has just detached it (DetachViewer).  A client on a new channel takes its
\* lock there; the first viewer attaches upstream, a later one has the mirror.
AttachViewer(c, size) ==
  LET moved == [conn EXCEPT !.lock = IF ClientOf(@) = c THEN Me(c) ELSE @]
      viewers == (c :> [ch |-> chans[c].now, size |-> size]) @@ conn.viewers
  IN /\ Live(c) /\ conn.mapped /\ chans[c].now \notin chans[c].held
     /\ conn' = IF conn.pane
                THEN ReconcileSize([moved EXCEPT !.viewers = viewers])
                ELSE Send([moved EXCEPT !.viewers = viewers, !.pane = TRUE, !.size = size],
                          Me(c), "attach", size)
     /\ chans' = [chans EXCEPT ![c].held = @ \union {chans[c].now}]
     /\ history' = [history EXCEPT !.unsized = FALSE]
     /\ Started(<<>>)
     /\ UNCHANGED <<down, peer>>

\* PeerManager::resize_viewer
ResizeViewer(c, size) ==
  LET viewers == IF c \in DOMAIN conn.viewers
                 THEN [conn.viewers EXCEPT ![c].size = size] ELSE conn.viewers
  IN /\ "size" \in scenario.events /\ Live(c) /\ conn.mapped
     /\ conn' = ReconcileSize([conn EXCEPT !.viewers = viewers])
     /\ history' = [history EXCEPT !.unsized = FALSE]
     /\ Started(<<>>)
     /\ UNCHANGED <<down, peer, chans>>

\* Only for the properties: the pane was detached upstream while the lock was
\* held, or asked for, by a client that is not the one leaving; and whether the
\* size was reconciled.
Remembered(k, released) ==
  history' = [history EXCEPT !.unsized = @ /\ ~released, !.unlocked =
    \/ @
    \/ /\ conn.pane /\ ~k.pane
       /\ \/ k.lock # None
          \/ \E i \in DOMAIN conn.up : conn.up[i].op = "lock"
          \/ \E i \in DOMAIN down : down[i].re = "granted"]

\* on_detach, the first half of an on_attach that finds the pane attached, and
\* release_closing_panes before a forwarded close: PeerManager::detach_viewer, also
\* for a viewer that fan_out has dropped.
DetachViewer(c) ==
  /\ Live(c) /\ chans[c].now \in chans[c].held
  /\ chans' = [chans EXCEPT ![c].held = @ \ {chans[c].now}]
  /\ conn' = ReleaseViewer(conn, c)
  /\ Remembered(ReleaseViewer(conn, c), TRUE)
  /\ Started(<<>>)
  /\ UNCHANGED <<down, peer>>

\* A client resumes on a new channel while the old one's loop may still run.
Resume(c) ==
  /\ "resume" \in scenario.events /\ chans[c].now < MaxChannels
  /\ chans' = [chans EXCEPT ![c].now = @ + 1, ![c].live = @ \union {chans[c].now + 1}]
  /\ Started(<<>>)
  /\ UNCHANGED <<conn, down, peer, history>>

\* PeerManager::detach_channel: a channel's loop ended.
DetachChannel(c, ch) ==
  LET views == c \in DOMAIN conn.viewers /\ conn.viewers[c].ch = ch
      released == IF views THEN ReleaseViewer(conn, c) ELSE conn
  IN /\ "resume" \in scenario.events /\ ch \in chans[c].live
     /\ chans' = [chans EXCEPT ![c].live = @ \ {ch}, ![c].held = @ \ {ch}]
     /\ conn' = ReleaseLocksOf(released, <<c, ch>>)
     /\ Remembered(ReleaseLocksOf(released, <<c, ch>>), views)
     /\ UNCHANGED <<down, peer, ops>>

(***************************************************************************)
(* The feed loop.                                                           *)
(***************************************************************************)

\* The keepalive tick.
PingTick ==
  /\ conn.wire # "down" /\ conn.routes.nextPing < scenario.pings
  /\ conn' = Ping(conn)
  /\ UNCHANGED <<down, peer, chans, ops, history>>

Unrequested == {"error", "granted", "denied", "released"}

\* on_upstream: the next message of the peer, one action per kind of it.
Reads(re) ==
  /\ conn.wire # "down" /\ down # <<>> /\ Head(down).re \in re
  /\ down' = Tail(down)
  /\ UNCHANGED <<peer, chans, history>>

OnPong ==
  /\ Reads({"pong"})
  /\ conn' = Ponged(conn, Head(down).id)
  /\ UNCHANGED ops

\* answer_routed: to the route's sender, once; an answer nobody waits for is dropped.
AnswerRouted ==
  LET id == Head(down).id
  IN /\ Reads({"reply"})
     /\ conn' = Taken(conn, id)
     /\ IF id \in DOMAIN conn.routes.routes
        THEN Answer(conn.routes.routes[id].request) ELSE UNCHANGED ops

\* answer_unrequested: to the oldest run's sender.
AnswerUnrequested ==
  LET from == Oldest(conn)
  IN /\ Reads(Unrequested)
     /\ conn' = IF from = None THEN conn ELSE OnLockReply(conn, from, Head(down).re)
     /\ UNCHANGED ops

\* on_remote_session_closed
OnRemoteSessionClosed ==
  /\ Reads({"closed"})
  /\ conn' = IF conn.mapped THEN Unregistered(conn) ELSE conn
  /\ UNCHANGED ops

\* on_pane_frame of an upstream Lagged (or of a digest the mirror disowns).
OnLagged ==
  /\ Reads({"lagged"})
  /\ conn' = Resync(conn)
  /\ UNCHANGED ops

\* on_pane_frame, fan_out: viewers whose data channel is full are told Lagged
\* and dropped, and keep what else they hold; the size is not reconciled.
FanOut(dropped) ==
  /\ "lag" \in scenario.events /\ conn.wire # "down" /\ conn.pane
  /\ dropped # {} /\ dropped \subseteq DOMAIN conn.viewers
  /\ conn' = [conn EXCEPT !.viewers = Restrict(@, DOMAIN @ \ dropped)]
  /\ history' = [history EXCEPT !.dropped = @ \union dropped, !.unsized = TRUE]
  /\ UNCHANGED <<down, peer, chans, ops>>

\* The transport fails: what was on its way up is lost, sends fail from now on.
LinkBreaks ==
  /\ conn.wire = "up" /\ ops.links < scenario.links
  /\ conn' = [conn EXCEPT !.wire = "broken", !.up = <<>>]
  /\ peer' = [peer EXCEPT !.holder = IF @ = "hub" THEN "old" ELSE @, !.size = Absent]
  /\ UNCHANGED <<down, chans, ops, history>>

FailInFlight(k) ==
  [k EXCEPT !.wire = "down", !.lock = None, !.routes.routes = <<>>, !.routes.runs = <<>>]

\* feed ends (closed, or silent too long) and link_down with fail_in_flight: each
\* waiting request is answered with an Error, and each lock is lost.
LinkDown ==
  LET waiting == {conn.routes.routes[id].request : id \in DOMAIN conn.routes.routes}
  IN /\ conn.wire = "broken"
     /\ conn' = FailInFlight(conn)
     /\ down' = <<>>
     /\ ops' = [ops EXCEPT !.answers =
                  [r \in DOMAIN @ |-> IF r \in waiting THEN @[r] + 1 ELSE @[r]]]
     /\ UNCHANGED <<peer, chans, history>>

\* relink: a new link in the old one's place, the sessions reconciled with the
\* peer's list, and every pane still held attached again.
Relink ==
  LET fresh == [conn EXCEPT !.wire = "up", !.up = <<>>, !.routes = NewRoutes]
  IN /\ conn.wire = "down"
     /\ conn' = IF conn.mapped /\ ~peer.hosts THEN Unregistered(fresh) ELSE Resync(fresh)
     /\ ops' = [ops EXCEPT !.links = @ + 1]
     /\ UNCHANGED <<down, peer, chans, history>>

(***************************************************************************)
(* The peer daemon.                                                         *)
(***************************************************************************)

Says(m, re) == Append(down, [re |-> re, by |-> m.by, id |-> m.id])

\* What the peer makes of a lock request, a release and a detach of the hub's.
PeerLock(m) ==
  IF peer.holder \in {"none", "hub"}
  THEN peer' = [peer EXCEPT !.holder = "hub"] /\ down' = Says(m, "granted")
  ELSE peer' = peer /\ down' = Says(m, "denied")

PeerUnlock(m) ==
  IF peer.holder = "hub"
  THEN peer' = [peer EXCEPT !.holder = "none"] /\ down' = Says(m, "released")
  ELSE UNCHANGED <<peer, down>>

PeerDetach ==
  /\ peer' = [peer EXCEPT !.size = Absent, !.holder = IF @ = "hub" THEN "none" ELSE @]
  /\ UNCHANGED down

\* The peer takes the hub's next message, in order, and answers it or not.
PeerServes ==
  LET m == Head(conn.up)
  IN /\ conn.wire = "up" /\ conn.up # <<>>
     /\ conn' = [conn EXCEPT !.up = Tail(@)]
     /\ \/ m.op = "ping" /\ down' = Says(m, "pong") /\ UNCHANGED peer
        \/ m.op = "request" /\ down' = Says(m, "reply") /\ UNCHANGED peer
        \/ m.op = "input" /\ down' \in {down, Says(m, "error")} /\ UNCHANGED peer
        \/ m.op # "ping" /\ m.op # "request" /\ m.op # "input"
           /\ ~peer.hosts /\ down' = Says(m, "error") /\ UNCHANGED peer
        \/ m.op = "lock" /\ peer.hosts /\ PeerLock(m)
        \/ m.op = "unlock" /\ peer.hosts /\ PeerUnlock(m)
        \/ m.op = "detach" /\ peer.hosts /\ PeerDetach
        \/ m.op \in {"attach", "resize"} /\ peer.hosts
           /\ peer' = [peer EXCEPT !.size = IF m.op = "attach" \/ @ # Absent THEN m.arg ELSE @]
           /\ UNCHANGED down
     /\ UNCHANGED <<chans, ops, history>>

\* Another client of the peer takes the lock, or gives it back; the peer ends
\* the loop of a link that broke, and the lock it held goes with it.
OtherLocks ==
  /\ "other" \in scenario.events
  /\ \/ peer.holder = "none" /\ peer.others > 0
        /\ peer' = [peer EXCEPT !.holder = "other", !.others = @ - 1]
     \/ peer.holder \in {"other", "old"} /\ peer' = [peer EXCEPT !.holder = "none"]
  /\ UNCHANGED <<conn, down, chans, ops, history>>

\* The peer's own user closes the session; the pane's stream overflows.
PeerCloses ==
  /\ "close" \in scenario.events /\ peer.hosts
  /\ peer' = [peer EXCEPT !.hosts = FALSE, !.holder = "none", !.size = Absent]
  /\ down' = IF conn.wire = "up"
             THEN Append(down, [re |-> "closed", by |-> Hub, id |-> 0]) ELSE down
  /\ UNCHANGED <<conn, chans, ops, history>>

PeerLags ==
  /\ "lag" \in scenario.events /\ conn.wire = "up" /\ peer.hosts /\ peer.size # Absent /\ peer.lags > 0
  /\ peer' = [peer EXCEPT !.lags = @ - 1]
  /\ down' = Append(down, [re |-> "lagged", by |-> Hub, id |-> 0])
  /\ UNCHANGED <<conn, chans, ops, history>>

(***************************************************************************)
(* The specification.                                                       *)
(***************************************************************************)

Init ==
  /\ scenario \in Scenarios
  /\ conn = NewConn
  /\ down = <<>>
  /\ peer = [hosts |-> TRUE, holder |-> "none", size |-> Absent, others |-> 1, lags |-> 1]
  /\ chans = [c \in Clients |-> [now |-> 1, live |-> {1}, held |-> {}]]
  /\ ops = [count |-> 0, links |-> 0, answers |-> <<>>]
  /\ history = [dropped |-> {}, unsized |-> FALSE, unlocked |-> FALSE]

ClientStep ==
  \E c \in Clients :
    \/ ForwardRequest(c) \/ ForwardInput(c)
    \/ RequestInputLock(c) \/ ReleaseInputLock(c)
    \/ \E size \in scenario.sizes : AttachViewer(c, size) \/ ResizeViewer(c, size)
    \/ DetachViewer(c)
    \/ Resume(c)
    \/ \E ch \in ClientIds : DetachChannel(c, ch)

Step ==
  \/ ClientStep
  \/ OnPong \/ AnswerRouted \/ AnswerUnrequested \/ OnRemoteSessionClosed \/ OnLagged
  \/ PingTick \/ LinkBreaks \/ LinkDown \/ Relink
  \/ \E dropped \in SUBSET Clients : FanOut(dropped)
  \/ PeerServes \/ OtherLocks \/ PeerCloses \/ PeerLags

Next == Step /\ UNCHANGED scenario

Spec == Init /\ [][Next]_vars

(***************************************************************************)
(* Properties.                                                              *)
(***************************************************************************)

\* Nothing is on its way between the hub and the peer.
Quiet == conn.up = <<>> /\ down = <<>> /\ conn.wire # "broken"

\* An answer without a request id is for the sender of the oldest run: when the
\* feed loop reads one, that is the client (and channel) whose message the peer
\* answered, whatever else the hub sent for others meanwhile.  A request is answered
\* at most once, by the peer, by a refusal or by the link's end; and once nothing is
\* on its way, it has been answered.
AnswerReachesAsker ==
  /\ (conn.wire # "down" /\ down # <<>> /\ Head(down).re \in Unrequested)
       => Oldest(conn) = Head(down).by
  /\ \A r \in DOMAIN ops.answers : ops.answers[r] =< 1
  /\ Quiet => \A r \in DOMAIN ops.answers : ops.answers[r] = 1

\* The hub and the peer agree on a proxied pane.  Once nothing is on its way, a
\* client that holds the hub's lock has the peer's behind it ("the hub holds the
\* peer's lock for it"), unless the last viewer's detach, which frees the peer's lock
\* silently, crossed the request; the peer's lock is not left with the hub when no
\* client of the hub holds it; and the peer has the size the smallest viewer wants,
\* across detaches, resizes and a link that was opened again, unless fan_out has
\* dropped a viewer since an attach, a resize or a detach last reconciled the size
\* (fan_out does not, and the end of a dropped viewer's channel finds no viewer to
\* release: the peer keeps the size of one that is gone).  No lock outlives the link
\* it was granted on, nor the channels of its holder (excepted a client that fan_out
\* dropped AND had resumed: the grant of the old channel's request is released with
\* that channel).
PaneAgrees ==
  LET c == ClientOf(conn.lock)
  IN /\ Quiet /\ conn.wire = "up" =>
          /\ conn.lock # None /\ ~history.unlocked => peer.holder = "hub"
          /\ peer.holder = "hub" => conn.lock # None
          /\ conn.pane /\ ~history.unsized => peer.size = EffectiveSize(conn.viewers)
     /\ conn.lock # None =>
          /\ conn.wire # "down"
          /\ chans[c].live # {} \/ (c \in history.dropped /\ chans[c].now > 1)
=============================================================================
