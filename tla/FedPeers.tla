------------------------------ MODULE FedPeers ------------------------------
(***************************************************************************)
(* The hub's peers: opening and closing them, their sessions under local   *)
(* words, and the task that keeps each link up.                            *)
(*                                                                         *)
(* Two GUIs may open one peer at once: each connects (an await), draws a   *)
(* word per session from the pool it shares with local sessions, and only  *)
(* then is the winner decided.  A peer's link task reads its frames and    *)
(* re-opens the link; close_peer aborts it, which takes effect only where  *)
(* the task awaits, so a frame already read is still handled.  The         *)
(* membership gate orders what adds or removes sessions, except a publish. *)
(*                                                                         *)
(* A PeerConnection is a record of `conns`, numbered as it is made; `next` *)
(* is the Upstream its link task has opened and not put in place yet.      *)
(* `seen` is what a client that follows the broadcasts lists.              *)
(***************************************************************************)
EXTENDS Integers, Sequences, FiniteSets, FiniteSetsExt, Functions

CONSTANTS
  Peers,      \* remote daemons
  Remotes,    \* session words a peer may use
  Words,      \* the hub's word pool
  Guis,       \* clients that open peers
  FpScenarios   \* bounds: GUI requests, peer and local session changes, link losses, restarts

NoPeer == "none"
NoLink == 0

ASSUME FpAssumption ==
  /\ IsFiniteSet(Peers) /\ IsFiniteSet(Remotes) /\ IsFiniteSet(Words) /\ IsFiniteSet(Guis)
  /\ NoPeer \notin Peers
  /\ \A s \in FpScenarios : s \in [hosted : [Peers -> SUBSET Remotes], words : SUBSET Words,
                                 guis : SUBSET Guis, requests : Nat, changes : Nat, locals : Nat, losses : Nat,
                                 restarts : Nat]

VARIABLES
  fpScenario,
  left,     \* what the fpScenario still allows
  pool,     \* per word: how often it is in the pool (`available` may repeat one)
  local,    \* words of the hub's own sessions
  remote,   \* per peer: the session words it hosts, and its token
  conns,    \* the PeerConnections
  peers,    \* PeerManager.peers: peer -> connection
  index,    \* PeerManager.word_index: word -> peer
  guis,     \* per GUI: its open_peer call
  gate,     \* the connection close_peer is taking down, under the membership gate
  tunnels,  \* SSH tunnels that are running, by link
  seen,     \* words a client lists
  lapses    \* for the properties: a closed peer's frame was handled; the pool ran empty;
            \* a session closed before its creation was answered

fpVars == <<fpScenario, left, pool, local, remote, conns, peers, index, guis, gate, tunnels, seen, lapses>>

(***************************************************************************)
(* Words, sessions and the gate.                                           *)
(***************************************************************************)

\* The map `f` with `x` inserted; `g` with the entries of `f` inserted.
Put(f, x, y) == [z \in DOMAIN f \union {x} |-> IF z = x THEN y ELSE f[z]]
Over(f, g) == [x \in DOMAIN f \union DOMAIN g |-> IF x \in DOMAIN f THEN f[x] ELSE g[x]]

Drawn(w) == [pool EXCEPT ![w] = @ - 1]
Released(p, ws) == [w \in Words |-> p[w] + (IF w \in ws THEN 1 ELSE 0)]
Available == {w \in Words : pool[w] > 0}

GateFree == gate = NoLink
IsOpen(i) == conns[i].peer \in DOMAIN peers /\ peers[conns[i].peer] = i

\* conn_for_word, by way of the word index
ConnForWord(w) ==
  IF w \in DOMAIN index /\ index[w] \in DOMAIN peers THEN peers[index[w]] ELSE NoLink

Locals(i) == Range(conns[i].words)
Listed == local \union UNION {Locals(peers[p]) : p \in DOMAIN peers}

\* unregister_session: nothing for a word that is not federated (any more).
UnregisterSession(cs, w) ==
  IF ConnForWord(w) = NoLink THEN cs
  ELSE [cs EXCEPT ![ConnForWord(w)].words = Restrict(@, {r \in DOMAIN @ : @[r] # w})]

(***************************************************************************)
(* open_peer                                                               *)
(***************************************************************************)

IdleGui == [at |-> "idle", peer |-> NoPeer, conn |-> NoLink]
Spend(what) == left[what] > 0 /\ left' = [left EXCEPT ![what] = @ - 1]

\* on_open_peer, reuse_peer: an open peer is reused; an unreachable one's next
\* attempt goes to the target given now.
OpenPeer(g, p, token) ==
  /\ guis[g].at = "idle" /\ Spend("requests")
  /\ IF p \in DOMAIN peers
     THEN /\ conns' = IF conns[peers[p]].dead
                      THEN [conns EXCEPT ![peers[p]].target = token] ELSE conns
          /\ UNCHANGED guis
     ELSE /\ guis' = [guis EXCEPT ![g] = [at |-> "connecting", peer |-> p, conn |-> token]]
          /\ UNCHANGED conns
  /\ UNCHANGED <<pool, local, remote, peers, index, gate, tunnels, seen, lapses>>

\* connect_upstream: the tunnel runs, the peer takes the token, and its list is a
\* snapshot; what changes there from now on comes down the link.
NewTunnel == Max(tunnels \union {NoLink}) + 1
Connects(p, token) == token = remote[p].token /\ tunnels' = tunnels \union {NewTunnel}

Connected(g) ==
  LET p == guis[g].peer
  IN /\ guis[g].at = "connecting" /\ Connects(p, guis[g].conn)
     /\ conns' = Append(conns,
          [peer |-> p, target |-> guis[g].conn, dead |-> FALSE, tunnel |-> NewTunnel, wire |-> TRUE,
           queue |-> <<>>, asked |-> 0, owed |-> {}, list |-> remote[p].hosts, words |-> <<>>,
           task |-> "none", hand |-> <<>>, next |-> <<>>, aborted |-> FALSE])
     /\ guis' = [guis EXCEPT ![g].at = "drawing", ![g].conn = Len(conns) + 1]
     /\ UNCHANGED <<left, pool, local, remote, peers, index, gate, seen, lapses>>

\* Any error of the handshake kills the tunnel of the attempt: PeerError.
ConnectFails(g) ==
  /\ guis[g].at = "connecting"
  /\ guis' = [guis EXCEPT ![g] = IdleGui]
  /\ UNCHANGED <<left, pool, local, remote, conns, peers, index, gate, tunnels, seen, lapses>>

DrawWord(g) ==
  LET i == guis[g].conn
  IN /\ guis[g].at = "drawing"
     /\ \E r \in conns[i].list \ DOMAIN conns[i].words, w \in Available :
          /\ conns' = [conns EXCEPT ![i].words = Put(@, r, w)]
          /\ pool' = Drawn(w)
     /\ UNCHANGED <<left, local, remote, peers, index, guis, gate, tunnels, seen, lapses>>

\* The connection is dropped: what it drew goes back, and its Drop kills the tunnel.
Discarded(i) ==
  /\ pool' = Released(pool, Locals(i))
  /\ tunnels' = tunnels \ {conns[i].tunnel}
  /\ conns' = [conns EXCEPT ![i].tunnel = NoLink, ![i].wire = FALSE, ![i].words = <<>>,
                            ![i].task = "ended"]

\* "local session word pool exhausted"
PoolExhausted(g) ==
  LET i == guis[g].conn
  IN /\ guis[g].at = "drawing" /\ Available = {} /\ conns[i].list # DOMAIN conns[i].words
     /\ Discarded(i)
     /\ guis' = [guis EXCEPT ![g] = IdleGui]
     /\ UNCHANGED <<left, local, remote, peers, index, gate, seen, lapses>>

\* publish_peer: under the peers lock, not the gate.  The first wins; its task
\* starts and its words are indexed.  A loser gives everything back.
PublishPeer(g) ==
  LET i == guis[g].conn
      p == guis[g].peer
  IN /\ guis[g].at = "drawing" /\ conns[i].list = DOMAIN conns[i].words
     /\ IF p \in DOMAIN peers
        THEN Discarded(i) /\ UNCHANGED <<peers, index>>
        ELSE /\ conns' = [conns EXCEPT ![i].task = "feeding"]
             /\ peers' = Put(peers, p, i)
             /\ index' = Over([w \in Locals(i) |-> p], index)
             /\ UNCHANGED <<pool, tunnels>>
     /\ guis' = [guis EXCEPT ![g] = IdleGui]
     /\ UNCHANGED <<left, local, remote, gate, seen, lapses>>

(***************************************************************************)
(* close_peer                                                              *)
(***************************************************************************)

\* It holds the gate throughout.  First the peer goes from the map, ...
CloseTakes(p) ==
  /\ GateFree /\ p \in DOMAIN peers /\ Spend("requests")
  /\ gate' = peers[p]
  /\ peers' = Restrict(peers, DOMAIN peers \ {p})
  /\ UNCHANGED <<pool, local, remote, conns, index, guis, tunnels, seen, lapses>>

CloseReleases ==
  LET words == Locals(gate)
  IN /\ ~GateFree
     /\ conns' = [conns EXCEPT ![gate].aborted = TRUE, ![gate].tunnel = NoLink, ![gate].wire = FALSE]
     /\ tunnels' = tunnels \ {conns[gate].tunnel}
     /\ index' = Restrict(index, DOMAIN index \ words)
     /\ pool' = Released(pool, words)
     /\ seen' = seen \ words
     /\ gate' = NoLink
     /\ UNCHANGED <<left, local, remote, peers, guis, lapses>>

(***************************************************************************)
(* The link task                                                           *)
(***************************************************************************)

\* The task is at an await: an abort takes effect, an Upstream it waits for is
\* dropped with it.
Awaits(i) == conns[i].task \in {"feeding", "listing", "reopening"}
TaskAborted(i) ==
  /\ Awaits(i) /\ conns[i].aborted
  /\ conns' = [conns EXCEPT ![i].task = "ended"]
  /\ UNCHANGED <<left, pool, local, remote, peers, index, guis, gate, tunnels, seen, lapses>>

\* feed: the next frame of the peer.
FeedReads(i) ==
  /\ conns[i].task = "feeding" /\ ~conns[i].aborted /\ conns[i].queue # <<>>
  /\ conns' = [conns EXCEPT ![i].task = "handling", ![i].hand = <<Head(conns[i].queue)>>,
                            ![i].queue = Tail(@)]
  /\ UNCHANGED <<left, pool, local, remote, peers, index, guis, gate, tunnels, seen, lapses>>


Done(i, then) == [conns EXCEPT ![i].task = then, ![i].hand = <<>>]
Frame(i, re) == conns[i].task = "handling" /\ conns[i].hand[1].re = re

\* on_session_frame of a session or tab that came, or was renamed: the peer is
\* asked for its list (request_session_list).
OnSessionFrame_NoRefresh(i) ==
  /\ Frame(i, "created")
  /\ conns' = Done(i, "feeding")
  /\ UNCHANGED <<left, pool, local, remote, peers, index, guis, gate, tunnels, seen, lapses>>
OnSessionFrame(i) ==
  /\ Frame(i, "created")
  /\ conns' = [Done(i, "feeding") EXCEPT ![i].asked = @ + (IF conns[i].wire THEN 1 ELSE 0)]
  /\ UNCHANGED <<left, pool, local, remote, peers, index, guis, gate, tunnels, seen, lapses>>

\* on_remote_session_closed: under the gate, whether or not the peer is still open.
OnSessionClosed(i) ==
  LET r == conns[i].hand[1].word
  IN /\ Frame(i, "closed") /\ GateFree
     /\ IF r \in DOMAIN conns[i].words
        THEN LET w == conns[i].words[r]
                 j == ConnForWord(w)
             IN /\ conns' = UnregisterSession(Done(i, "feeding"), w)
                /\ index' = IF j = NoLink THEN index ELSE Restrict(index, DOMAIN index \ {w})
                /\ pool' = IF j = NoLink THEN pool ELSE Released(pool, {w})
                /\ seen' = seen \ {w}
                /\ lapses' = lapses \union (IF IsOpen(i) THEN {} ELSE {"closed peer"})
        ELSE conns' = Done(i, "feeding") /\ UNCHANGED <<index, pool, seen, lapses>>
     /\ UNCHANGED <<left, local, remote, peers, guis, gate, tunnels>>

Reconciled(cs, i, listed) ==
  LET words == conns[i].words
      gone == {words[r] : r \in DOMAIN words \ listed}
      kept == Restrict(words, DOMAIN words \cap listed)
      back == Released(pool, gone)
      fresh == listed \ DOMAIN words
      free == {w \in Words : back[w] > 0}
  IN \E new \in SUBSET fresh :
       /\ Cardinality(new) = Min({Cardinality(fresh), Cardinality(free)})
       /\ lapses' = lapses \union (IF new = fresh THEN {} ELSE {"no words"})
       /\ \E draws \in Injection(new, free) :
            /\ pool' = [w \in Words |-> back[w] - (IF w \in Range(draws) THEN 1 ELSE 0)]
            /\ index' = Over([w \in Range(draws) |-> conns[i].peer],
                             Restrict(index, DOMAIN index \ gone))
            /\ conns' = [cs EXCEPT ![i].words = Over(draws, kept)]
       /\ seen' = seen \ gone

\* on_session_list, reconcile_sessions: nothing once the user has closed the peer.
OnSessionList(i) ==
  /\ Frame(i, "list") /\ GateFree
  /\ IF IsOpen(i) THEN Reconciled(Done(i, "listing"), i, conns[i].hand[1].words)
     ELSE conns' = Done(i, "listing") /\ UNCHANGED <<pool, index, seen, lapses>>
  /\ UNCHANGED <<left, local, remote, peers, guis, gate, tunnels>>

\* register_created, for the answer to a forwarded SessionCreate: under the word a
\* refresh gave it already, or a fresh one.
RegisterCreated_Twice(i) ==
  LET r == conns[i].hand[1].word
  IN /\ Frame(i, "answer") /\ GateFree
     /\ IF IsOpen(i) /\ Available # {}
        THEN \E w \in Available :
               /\ pool' = Drawn(w)
               /\ index' = Put(index, w, conns[i].peer)
               /\ conns' = [Done(i, "feeding") EXCEPT ![i].words = Put(@, r, w)]
        ELSE conns' = Done(i, "feeding") /\ UNCHANGED <<pool, index>>
     /\ lapses' = lapses \union (IF Available = {} THEN {"no words"} ELSE {})
     /\ UNCHANGED <<left, local, remote, peers, guis, gate, tunnels, seen>>
RegisterCreated(i) ==
  LET r == conns[i].hand[1].word
  IN /\ Frame(i, "answer") /\ GateFree
     /\ IF IsOpen(i) /\ r \notin DOMAIN conns[i].words /\ Available # {}
        THEN \E w \in Available :
               /\ pool' = Drawn(w)
               /\ index' = Put(index, w, conns[i].peer)
               /\ conns' = [Done(i, "feeding") EXCEPT ![i].words = Put(@, r, w)]
        ELSE conns' = Done(i, "feeding") /\ UNCHANGED <<pool, index>>
     /\ lapses' = lapses \union (IF Available = {} THEN {"no words"} ELSE {})
     /\ UNCHANGED <<left, local, remote, peers, guis, gate, tunnels, seen>>

\* broadcast_session_list, under the gate; the task goes on to what the link needs.
BroadcastList(i) ==
  /\ conns[i].task = "listing" /\ GateFree
  /\ seen' = Listed
  /\ conns' = [conns EXCEPT ![i].task = IF conns[i].dead THEN "reopening" ELSE "feeding"]
  /\ UNCHANGED <<left, pool, local, remote, peers, index, guis, gate, tunnels, lapses>>

\* feed ends once it has drained a closed link (or the peer was silent too long);
\* link_down marks the peer unreachable and keeps its sessions and their words.
LinkTornDown(i) ==
  /\ conns[i].task = "feeding" /\ ~conns[i].aborted /\ ~conns[i].wire /\ conns[i].queue = <<>>
  /\ conns' = [conns EXCEPT ![i].dead = TRUE, ![i].asked = 0, ![i].owed = {}, ![i].task = "listing"]
  /\ UNCHANGED <<left, pool, local, remote, peers, index, guis, gate, tunnels, seen, lapses>>

Reopen(i) ==
  /\ conns[i].task = "reopening" /\ ~conns[i].aborted
  /\ Connects(conns[i].peer, conns[i].target)
  /\ conns' = [conns EXCEPT ![i].task = "reopened",
                 ![i].next = <<[tunnel |-> NewTunnel, list |-> remote[conns[i].peer].hosts]>>,
                 ![i].queue = <<>>]
  /\ UNCHANGED <<left, pool, local, remote, peers, index, guis, gate, seen, lapses>>

\* relink: under the gate, with the peer still open, the new link takes the dead
\* one's place and its tunnel the old one's; otherwise it is dropped.
RelinkSessions_OldTunnelRuns(i) ==
  LET up == conns[i].next[1]
  IN /\ conns[i].task = "reopened" /\ GateFree
     /\ IF IsOpen(i)
        THEN /\ UNCHANGED tunnels
             /\ Reconciled([conns EXCEPT ![i].tunnel = up.tunnel, ![i].next = <<>>, ![i].dead = FALSE,
                                         ![i].wire = TRUE, ![i].task = "listing"], i, up.list)
        ELSE /\ tunnels' = tunnels \ {up.tunnel}
             /\ conns' = [conns EXCEPT ![i].task = "ended", ![i].next = <<>>]
             /\ UNCHANGED <<pool, index, seen, lapses>>
     /\ UNCHANGED <<left, local, remote, peers, guis, gate>>
RelinkSessions(i) ==
  LET up == conns[i].next[1]
  IN /\ conns[i].task = "reopened" /\ GateFree
     /\ IF IsOpen(i)
        THEN /\ tunnels' = tunnels \ {conns[i].tunnel}
             /\ Reconciled([conns EXCEPT ![i].tunnel = up.tunnel, ![i].next = <<>>, ![i].dead = FALSE,
                                         ![i].wire = TRUE, ![i].task = "listing"], i, up.list)
        ELSE /\ tunnels' = tunnels \ {up.tunnel}
             /\ conns' = [conns EXCEPT ![i].task = "ended", ![i].next = <<>>]
             /\ UNCHANGED <<pool, index, seen, lapses>>
     /\ UNCHANGED <<left, local, remote, peers, guis, gate>>

(***************************************************************************)
(* What happens around the hub                                             *)
(***************************************************************************)

\* A frame of `p` reaches every link to it that is up, or being put in place.
Linked(i) == conns[i].wire \/ conns[i].task = "reopened"
Told(p, frames) ==
  [i \in DOMAIN conns |->
     IF conns[i].peer = p /\ Linked(i) THEN [conns[i] EXCEPT !.queue = @ \o frames[i]] ELSE conns[i]]

\* A session is created at the peer, by one of its own clients or for the hub, which
\* is answered later; a word it used is not used again.
RemoteCreates(p, r, asker) ==
  LET told == Told(p, [i \in DOMAIN conns |-> <<[re |-> "created", word |-> r]>>])
  IN /\ r \notin remote[p].used /\ Spend("changes")
     /\ asker # NoLink => conns[asker].peer = p /\ conns[asker].wire
     /\ remote' = [remote EXCEPT ![p].hosts = @ \union {r}, ![p].used = @ \union {r}]
     /\ conns' = IF asker = NoLink THEN told ELSE [told EXCEPT ![asker].owed = @ \union {r}]
     /\ UNCHANGED <<pool, local, peers, index, guis, gate, tunnels, seen, lapses>>

RemoteAnswers(i) ==
  /\ conns[i].wire
  /\ \E r \in conns[i].owed :
       conns' = [conns EXCEPT ![i].owed = @ \ {r},
                              ![i].queue = Append(@, [re |-> "answer", word |-> r])]
  /\ UNCHANGED <<left, pool, local, remote, peers, index, guis, gate, tunnels, seen, lapses>>

RemoteCloses(p, r) ==
  /\ r \in remote[p].hosts /\ Spend("changes")
  /\ remote' = [remote EXCEPT ![p].hosts = @ \ {r}]
  /\ conns' = Told(p, [i \in DOMAIN conns |-> <<[re |-> "closed", word |-> r]>>])
  /\ lapses' = lapses \union
                  (IF \E i \in DOMAIN conns : r \in conns[i].owed THEN {"unanswered"} ELSE {})
  /\ UNCHANGED <<pool, local, peers, index, guis, gate, tunnels, seen>>

\* All the peer hosts: its answer to the hub's SessionList, or its own resync of a
\* link that lagged.
Lists(i) == [conns EXCEPT ![i].queue =
               Append(@, [re |-> "list", words |-> remote[conns[i].peer].hosts])]

RemoteLists(i) ==
  /\ conns[i].asked > 0 /\ conns[i].wire
  /\ conns' = [Lists(i) EXCEPT ![i].asked = @ - 1]
  /\ UNCHANGED <<left, pool, local, remote, peers, index, guis, gate, tunnels, seen, lapses>>

RemoteResyncs(i) ==
  /\ conns[i].wire /\ Spend("changes")
  /\ conns' = Lists(i)
  /\ UNCHANGED <<pool, local, remote, peers, index, guis, gate, tunnels, seen, lapses>>

\* The network, or the peer daemon, goes: a peer started outright has a new token.
LinkLost(i) ==
  /\ conns[i].wire /\ Spend("losses")
  /\ conns' = [conns EXCEPT ![i].wire = FALSE]
  /\ UNCHANGED <<pool, local, remote, peers, index, guis, gate, tunnels, seen, lapses>>

PeerRestarts(p) ==
  /\ Spend("restarts")
  /\ remote' = [remote EXCEPT ![p].token = @ + 1]
  /\ conns' = [i \in DOMAIN conns |->
                 IF conns[i].peer = p THEN [conns[i] EXCEPT !.wire = FALSE] ELSE conns[i]]
  /\ UNCHANGED <<pool, local, peers, index, guis, gate, tunnels, seen, lapses>>

\* The hub's own sessions share the pool.
LocalCreates(w) ==
  /\ w \in Available /\ Spend("locals")
  /\ pool' = Drawn(w) /\ local' = local \union {w} /\ seen' = seen \union {w}
  /\ UNCHANGED <<remote, conns, peers, index, guis, gate, tunnels, lapses>>

LocalCloses(w) ==
  /\ w \in local /\ Spend("locals")
  /\ pool' = Released(pool, {w}) /\ local' = local \ {w} /\ seen' = seen \ {w}
  /\ UNCHANGED <<remote, conns, peers, index, guis, gate, tunnels, lapses>>

\* send_session_list: a client asks, and is answered under the gate.
SendSessionList ==
  /\ GateFree /\ seen' = Listed
  /\ UNCHANGED <<left, pool, local, remote, conns, peers, index, guis, gate, tunnels, lapses>>

(***************************************************************************)
(* The specification                                                       *)
(***************************************************************************)

FpInit ==
  /\ fpScenario \in FpScenarios
  /\ left = Restrict(fpScenario, DOMAIN fpScenario \ {"hosted", "words", "guis"})
  /\ pool = [w \in Words |-> IF w \in fpScenario.words THEN 1 ELSE 0]
  /\ local = {} /\ seen = {} /\ lapses = {}
  /\ remote = [p \in Peers |-> [hosts |-> fpScenario.hosted[p], used |-> fpScenario.hosted[p], token |-> 1]]
  /\ conns = <<>> /\ peers = <<>> /\ index = <<>>
  /\ guis = [g \in Guis |-> IdleGui]
  /\ gate = NoLink /\ tunnels = {}

LinkTask(i) ==
  \/ TaskAborted(i) \/ FeedReads(i) \/ OnSessionFrame(i) \/ OnSessionClosed(i)
  \/ OnSessionList(i) \/ RegisterCreated(i) \/ BroadcastList(i)
  \/ LinkTornDown(i) \/ Reopen(i) \/ RelinkSessions(i)

Opening(g) == Connected(g) \/ ConnectFails(g) \/ DrawWord(g) \/ PoolExhausted(g) \/ PublishPeer(g)

FpStep ==
  \/ \E g \in fpScenario.guis : Opening(g) \/ \E p \in Peers : OpenPeer(g, p, remote[p].token)
  \/ \E p \in Peers : CloseTakes(p) \/ PeerRestarts(p)
  \/ CloseReleases
  \/ \E i \in DOMAIN conns : LinkTask(i) \/ RemoteAnswers(i) \/ RemoteLists(i) \/ RemoteResyncs(i) \/ LinkLost(i)
  \/ \E p \in Peers, r \in Remotes :
       RemoteCloses(p, r) \/ \E asker \in {NoLink} \union DOMAIN conns : RemoteCreates(p, r, asker)
  \/ \E w \in Words : LocalCreates(w) \/ LocalCloses(w)
  \/ SendSessionList

FpNext == FpStep /\ UNCHANGED fpScenario

FpSpec == FpInit /\ [][FpNext]_fpVars

(***************************************************************************)
(* Properties                                                              *)
(***************************************************************************)

InFlight(i) == \E g \in Guis : guis[g].at = "drawing" /\ guis[g].conn = i

\* A word is in the pool once, or names one session: a local one, one of an open (or
\* closing) peer, or one being registered.  No race of openers, closers and lists
\* loses a word or returns it twice, after which two sessions would share an id; and
\* the word index names the open peers' words and no others, so that a request is
\* routed to the connection that maps it.
WordOwnedOnce ==
  /\ \A w \in fpScenario.words :
       LET owners == {i \in DOMAIN conns : w \in Locals(i) /\ (IsOpen(i) \/ gate = i \/ InFlight(i))}
           uses == {u \in owners \X Remotes : u[2] \in DOMAIN conns[u[1]].words /\ conns[u[1]].words[u[2]] = w}
       IN pool[w] + Cardinality(uses) + (IF w \in local THEN 1 ELSE 0) = 1
  /\ GateFree => index = [w \in UNION {Locals(peers[p]) : p \in DOMAIN peers} |->
                            CHOOSE p \in DOMAIN peers : w \in Locals(peers[p])]

\* "a PeerConnection never leaks its tunnel": a tunnel that runs is parked on an open
\* connection, or held by an opener or a link task that is not done with it.
NoTunnelLeak ==
  \A t \in tunnels : \E i \in DOMAIN conns :
    \/ conns[i].tunnel = t /\ (IsOpen(i) \/ gate = i \/ InFlight(i))
    \/ conns[i].task = "reopened" /\ conns[i].next[1].tunnel = t

\* A client never lists a session the hub no longer has: a list cannot arrive after
\* the close it does not know of, and a closed peer's sessions are not registered
\* again by its link task.  Once a link is up and nothing is on its way, the hub lists
\* exactly what the peer hosts, whatever was created or closed while the link was
\* opened, lost or re-opened (as long as there are words, and no session closed before
\* its answer).
ListingConverges ==
  /\ "closed peer" \notin lapses =>
       seen \subseteq Listed \union (IF GateFree THEN {} ELSE Locals(gate))
  /\ \A i \in DOMAIN conns :
       (IsOpen(i) /\ conns[i].wire /\ conns[i].task = "feeding" /\ conns[i].queue = <<>>
          /\ conns[i].asked = 0 /\ lapses = {})
         => DOMAIN conns[i].words = remote[conns[i].peer].hosts
=============================================================================
