--------------------------- MODULE FedPeersShares ---------------------------
(***************************************************************************)
(* The invariant behind NoTunnelLeak and WordOwnedOnce of FedPeers, and    *)
(* the steps that leave the same connections live on the same tunnels.     *)
(*                                                                         *)
(* A connection is live while it is open, being closed or being opened,    *)
(* and these three exclude each other: the task of a connection that is    *)
(* being opened has not started, and the one close_peer holds is no longer *)
(* in the map.  The words of live connections, the local sessions' words   *)
(* and the pool share out the word list between them; a connection that is *)
(* not live keeps stale words, which count for nothing.                    *)
(***************************************************************************)
EXTENDS FedPeers, TLAPS

-----------------------------------------------------------------------------
(* Types. *)

FrameType == [re : {"created", "answer", "closed"}, word : Remotes] \union [re : {"list"}, words : SUBSET Remotes]

UpType == [tunnel : Nat, list : SUBSET Remotes]

\* A peer's session words, mapped to local ones.
WordsType == UNION {[S -> Words] : S \in SUBSET Remotes}

ConnType ==
  [peer : Peers, target : Int, dead : BOOLEAN, tunnel : Nat, wire : BOOLEAN, queue : Seq(FrameType),
   asked : Int, owed : SUBSET Remotes, list : SUBSET Remotes, words : WordsType,
   task : {"none", "feeding", "handling", "listing", "reopening", "reopened", "ended"},
   hand : Seq(FrameType), next : Seq(UpType), aborted : BOOLEAN]

GuiType == [at : {"idle", "connecting", "drawing"}, peer : Peers \union {NoPeer}, conn : Int]

PeerType == [hosts : SUBSET Remotes, used : SUBSET Remotes, token : Int]

\* Any set of tunnels' numbers has a largest one.
TunnelNumbers ==
  tunnels \subseteq Nat /\ \A T \in SUBSET tunnels : T # {} => \E m \in T : \A t \in T : t <= m

FpTypeOK ==
  /\ fpScenario \in FpScenarios
  /\ pool \in [Words -> Int] /\ local \subseteq Words
  /\ remote \in [Peers -> PeerType]
  /\ conns \in Seq(ConnType)
  /\ guis \in [Guis -> GuiType]
  /\ gate \in Int
  /\ TunnelNumbers

-----------------------------------------------------------------------------
(* Which connections are live. *)

Live(i) == IsOpen(i) \/ gate = i \/ InFlight(i)

\* The task holds the frame it handles, or the Upstream it opened.
InHand(i) ==
  /\ conns[i].task = "handling" => conns[i].hand # <<>>
  /\ conns[i].task = "reopened" => conns[i].next # <<>>

Owners ==
  /\ DOMAIN peers \subseteq Peers
  /\ \A p \in DOMAIN peers : peers[p] \in DOMAIN conns /\ conns[peers[p]].peer = p /\ conns[peers[p]].task # "none"
  /\ ~GateFree => gate \in DOMAIN conns /\ ~IsOpen(gate) /\ conns[gate].task # "none"
  /\ \A g \in Guis : guis[g].at # "idle" => guis[g].peer \in Peers
  /\ \A g \in Guis : guis[g].at = "drawing" =>
        guis[g].conn \in DOMAIN conns /\ conns[guis[g].conn].peer = guis[g].peer /\ conns[guis[g].conn].task = "none"
  /\ \A g, h \in Guis : guis[g].at = "drawing" /\ guis[h].at = "drawing" /\ guis[g].conn = guis[h].conn => g = h
  /\ \A i \in DOMAIN conns : InHand(i)

-----------------------------------------------------------------------------
(* Who has a word. *)

Uses(w, i, r) == Live(i) /\ r \in DOMAIN conns[i].words /\ conns[i].words[r] = w

WordInv ==
  /\ \A w \in Words : pool[w] \in {0, 1}
  /\ \A w \in Words : pool[w] = 1 => w \notin local
  /\ \A w \in Words : pool[w] = 1 \/ w \in local => \A i \in DOMAIN conns, r \in Remotes : ~Uses(w, i, r)
  /\ \A i, j \in DOMAIN conns, r, s \in Remotes, w \in Words : Uses(w, i, r) /\ Uses(w, j, s) => i = j /\ r = s
  /\ \A w \in fpScenario.words : pool[w] = 0 /\ w \notin local =>
        \E i \in DOMAIN conns, r \in Remotes : Uses(w, i, r)

\* The index has the words of the open peers, and those of the one being closed.
IndexInv ==
  /\ index = [w \in DOMAIN index |-> index[w]]
  /\ \A p \in DOMAIN peers : \A w \in Locals(peers[p]) : w \in DOMAIN index /\ index[w] = p
  /\ \A w \in DOMAIN index : \/ index[w] \in DOMAIN peers /\ w \in Locals(peers[index[w]])
                             \/ ~GateFree /\ w \in Locals(gate)

FpInv == FpTypeOK /\ Owners /\ WordInv /\ IndexInv /\ NoTunnelLeak
-----------------------------------------------------------------------------
(* Facts about the operators. *)

LEMMA Typed ==
  ASSUME conns \in Seq(ConnType)
  PROVE  /\ \A i \in DOMAIN conns : conns[i] \in ConnType /\ i \in Nat /\ i # NoLink
         /\ DOMAIN conns = 1 .. Len(conns) /\ Len(conns) \in Nat
BY DEF NoLink

LEMMA OneConn ==
  ASSUME conns \in Seq(ConnType), NEW i \in DOMAIN conns, NEW new \in ConnType,
         conns' = [conns EXCEPT ![i] = new]
  PROVE  /\ conns' \in Seq(ConnType) /\ DOMAIN conns' = DOMAIN conns
         /\ conns'[i] = new /\ \A j \in DOMAIN conns : j # i => conns'[j] = conns[j]
<1>1. i \in 1 .. Len(conns)
  BY Typed, Zenon
<1>2. conns' \in Seq(ConnType)
  BY <1>1
<1> QED BY <1>2, Zenon

LEMMA AllConns ==
  ASSUME conns \in Seq(ConnType), DOMAIN conns' = DOMAIN conns, conns' = [i \in DOMAIN conns' |-> conns'[i]],
         \A i \in DOMAIN conns : conns'[i] \in ConnType
  PROVE  conns' \in Seq(ConnType)
<1>1. DOMAIN conns = 1 .. Len(conns) /\ Len(conns) \in Nat
  BY Typed, Zenon
<1>2. conns' \in [1 .. Len(conns) -> ConnType]
  BY <1>1, Zenon
<1> QED BY <1>1, <1>2

LEMMA WordsIn ==
  ASSUME NEW f \in WordsType
  PROVE  /\ DOMAIN f \subseteq Remotes /\ \A r \in DOMAIN f : f[r] \in Words
         /\ Range(f) = {f[r] : r \in DOMAIN f} /\ Range(f) \subseteq Words
BY DEF WordsType, Range

LEMMA WordsOut ==
  ASSUME NEW S \in SUBSET Remotes, NEW f \in [S -> Words]
  PROVE  f \in WordsType
BY Zenon DEF WordsType

LEMMA PutWords ==
  ASSUME NEW f \in WordsType, NEW r \in Remotes, NEW w \in Words
  PROVE  /\ Put(f, r, w) \in WordsType /\ DOMAIN Put(f, r, w) = DOMAIN f \union {r}
         /\ Put(f, r, w)[r] = w /\ \A s \in DOMAIN f : s # r => Put(f, r, w)[s] = f[s]
<1>1. DOMAIN f \subseteq Remotes /\ \A s \in DOMAIN f : f[s] \in Words
  BY WordsIn, Zenon
<1>2. Put(f, r, w) \in [DOMAIN f \union {r} -> Words]
  BY <1>1, Zenon DEF Put
<1>3. Put(f, r, w) \in WordsType
  BY <1>1, <1>2, WordsOut, Zenon
<1> QED BY <1>3, Zenon DEF Put

LEMMA RestrictWords ==
  ASSUME NEW f \in WordsType, NEW S \in SUBSET DOMAIN f
  PROVE  /\ Restrict(f, S) \in WordsType /\ DOMAIN Restrict(f, S) = S
         /\ \A s \in S : Restrict(f, S)[s] = f[s]
<1>1. DOMAIN f \subseteq Remotes /\ \A s \in DOMAIN f : f[s] \in Words
  BY WordsIn, Zenon
<1>2. Restrict(f, S) \in [S -> Words]
  BY <1>1, Zenon DEF Restrict
<1>3. Restrict(f, S) \in WordsType
  BY <1>1, <1>2, WordsOut, Zenon
<1> QED BY <1>3, Zenon DEF Restrict

LEMMA OverWords ==
  ASSUME NEW f \in WordsType, NEW g \in WordsType
  PROVE  /\ Over(f, g) \in WordsType /\ DOMAIN Over(f, g) = DOMAIN f \union DOMAIN g
         /\ \A s \in DOMAIN f : Over(f, g)[s] = f[s]
         /\ \A s \in DOMAIN g : s \notin DOMAIN f => Over(f, g)[s] = g[s]
<1>1. /\ DOMAIN f \subseteq Remotes /\ \A s \in DOMAIN f : f[s] \in Words
      /\ DOMAIN g \subseteq Remotes /\ \A s \in DOMAIN g : g[s] \in Words
  BY WordsIn, Zenon
<1>2. Over(f, g) \in [DOMAIN f \union DOMAIN g -> Words]
  BY <1>1, Zenon DEF Over
<1>3. Over(f, g) \in WordsType
  BY <1>1, <1>2, WordsOut, Zenon
<1> QED BY <1>3, Zenon DEF Over

LEMMA NoWords == << >> \in WordsType /\ DOMAIN << >> = {}
<1>1. DOMAIN << >> = {} /\ << >> \in [{} -> Words]
  OBVIOUS
<1> QED BY <1>1, WordsOut, Zenon

\* A connection with one field replaced.
LEMMA SetDead ==
  ASSUME NEW c \in ConnType, NEW x \in BOOLEAN
  PROVE  /\ [c EXCEPT !.dead = x] \in ConnType
         /\ [c EXCEPT !.dead = x].peer = c.peer /\ [c EXCEPT !.dead = x].tunnel = c.tunnel
         /\ [c EXCEPT !.dead = x].words = c.words /\ [c EXCEPT !.dead = x].task = c.task
         /\ [c EXCEPT !.dead = x].hand = c.hand /\ [c EXCEPT !.dead = x].next = c.next
<1>1. [c EXCEPT !.dead = x] \in ConnType
  BY Zenon DEF ConnType
<1> QED BY <1>1, Zenon DEF ConnType

LEMMA SetWire ==
  ASSUME NEW c \in ConnType, NEW x \in BOOLEAN
  PROVE  /\ [c EXCEPT !.wire = x] \in ConnType
         /\ [c EXCEPT !.wire = x].peer = c.peer /\ [c EXCEPT !.wire = x].tunnel = c.tunnel
         /\ [c EXCEPT !.wire = x].words = c.words /\ [c EXCEPT !.wire = x].task = c.task
         /\ [c EXCEPT !.wire = x].hand = c.hand /\ [c EXCEPT !.wire = x].next = c.next
<1>1. [c EXCEPT !.wire = x] \in ConnType
  BY Zenon DEF ConnType
<1> QED BY <1>1, Zenon DEF ConnType

LEMMA SetAsked ==
  ASSUME NEW c \in ConnType, NEW x \in Int
  PROVE  /\ [c EXCEPT !.asked = x] \in ConnType
         /\ [c EXCEPT !.asked = x].peer = c.peer /\ [c EXCEPT !.asked = x].tunnel = c.tunnel
         /\ [c EXCEPT !.asked = x].words = c.words /\ [c EXCEPT !.asked = x].task = c.task
         /\ [c EXCEPT !.asked = x].hand = c.hand /\ [c EXCEPT !.asked = x].next = c.next
<1>1. [c EXCEPT !.asked = x] \in ConnType
  BY Zenon DEF ConnType
<1> QED BY <1>1, Zenon DEF ConnType

LEMMA SetTarget ==
  ASSUME NEW c \in ConnType, NEW x \in Int
  PROVE  /\ [c EXCEPT !.target = x] \in ConnType
         /\ [c EXCEPT !.target = x].peer = c.peer /\ [c EXCEPT !.target = x].tunnel = c.tunnel
         /\ [c EXCEPT !.target = x].words = c.words /\ [c EXCEPT !.target = x].task = c.task
         /\ [c EXCEPT !.target = x].hand = c.hand /\ [c EXCEPT !.target = x].next = c.next
<1>1. [c EXCEPT !.target = x] \in ConnType
  BY Zenon DEF ConnType
<1> QED BY <1>1, Zenon DEF ConnType

\* The tunnels' numbers have a largest one, so the next is a number and is new.
LEMMA TunnelIsNew ==
  ASSUME TunnelNumbers
  PROVE  NewTunnel \in Nat /\ tunnels \subseteq Nat /\ \A t \in tunnels : t < NewTunnel
<1> DEFINE S == tunnels \union {NoLink}
<1>1. PICK m \in S : \A t \in S : m >= t
  <2>1. CASE tunnels = {}
    BY <2>1 DEF NoLink
  <2>2. CASE tunnels # {}
    <3>1. PICK m \in tunnels : \A t \in tunnels : t <= m
      BY <2>2, Zenon DEF TunnelNumbers
    <3>2. m \in Nat /\ tunnels \subseteq Nat
      BY <3>1, Zenon DEF TunnelNumbers
    <3>3. \A t \in S : m >= t
      BY <3>1, <3>2 DEF NoLink
    <3> QED BY <3>3, Zenon
  <2> QED BY <2>1, <2>2, Zenon
<1>2. S \subseteq Nat /\ tunnels \subseteq S
  BY DEF TunnelNumbers, NoLink
<1>3. NewTunnel = Max(S) + 1
  BY Zenon DEF NewTunnel
<1> HIDE DEF S
<1>4. Max(S) \in S /\ \A t \in S : Max(S) >= t
  BY <1>1, Zenon DEF Max
<1>5. Max(S) \in Nat /\ \A t \in tunnels : t \in Nat /\ Max(S) >= t
  BY <1>2, <1>4, Zenon
<1> QED BY <1>3, <1>5

LEMMA FewerTunnels ==
  ASSUME TunnelNumbers, tunnels' \subseteq tunnels
  PROVE  TunnelNumbers'
BY Zenon DEF TunnelNumbers

LEMMA OneMoreTunnel ==
  ASSUME TunnelNumbers, tunnels' = tunnels \union {NewTunnel}
  PROVE  TunnelNumbers'
<1>1. NewTunnel \in Nat /\ tunnels \subseteq Nat /\ \A t \in tunnels : t < NewTunnel
  BY TunnelIsNew, Zenon
<1>2. ASSUME NEW T \in SUBSET tunnels', T # {}
      PROVE  \E m \in T : \A t \in T : t <= m
  <2>1. CASE NewTunnel \in T
    <3>1. \A t \in T : t <= NewTunnel
      BY <1>1
    <3> QED BY <2>1, <3>1, Zenon
  <2>2. CASE NewTunnel \notin T
    <3>1. T \in SUBSET tunnels
      BY <2>2, Zenon
    <3> QED BY <1>2, <3>1, Zenon DEF TunnelNumbers
  <2> QED BY <2>1, <2>2, Zenon
<1> QED BY <1>1, <1>2, Zenon DEF TunnelNumbers

-----------------------------------------------------------------------------
(* Steps after which the same connections are live. *)

Still ==
  /\ UNCHANGED <<fpScenario, peers, gate>>
  /\ pool' \in [Words -> Int] /\ local' \subseteq Words
  /\ remote' \in [Peers -> PeerType]
  /\ conns' \in Seq(ConnType) /\ DOMAIN conns' = DOMAIN conns
  /\ \A i \in DOMAIN conns : /\ conns'[i].peer = conns[i].peer
                             /\ conns'[i].task = "none" <=> conns[i].task = "none"
                             /\ InHand(i)'
  /\ guis' \in [Guis -> GuiType]
  /\ \A g \in Guis : /\ guis'[g].at # "idle" => guis'[g].peer \in Peers
                     /\ guis'[g].at = "drawing" <=> guis[g].at = "drawing"
                     /\ guis[g].at = "drawing" => guis'[g] = guis[g]
  /\ TunnelNumbers'

LEMMA StillOwners ==
  ASSUME FpInv, Still
  PROVE  /\ FpTypeOK' /\ Owners'
         /\ \A i \in DOMAIN conns : (Live(i)' <=> Live(i)) /\ (IsOpen(i)' <=> IsOpen(i))
<1>1. FpTypeOK'
  BY Zenon DEF FpInv, FpTypeOK, Still
<1>2. \A i \in DOMAIN conns : IsOpen(i)' <=> IsOpen(i)
  BY Zenon DEF IsOpen, Still
<1>3. \A i \in DOMAIN conns : InFlight(i)' <=> InFlight(i)
  BY Zenon DEF InFlight, Still
<1>4. \A i \in DOMAIN conns : Live(i)' <=> Live(i)
  BY <1>2, <1>3, Zenon DEF Live, Still
<1>5. Owners'
  <2>1. Owners
    BY Zenon DEF FpInv
  <2>2. DOMAIN peers' \subseteq Peers /\ \A p \in DOMAIN peers' :
          peers'[p] \in DOMAIN conns' /\ conns'[peers'[p]].peer = p /\ conns'[peers'[p]].task # "none"
    BY <2>1 DEF Owners, Still
  <2>3. ~GateFree' => gate' \in DOMAIN conns' /\ ~IsOpen(gate)' /\ conns'[gate'].task # "none"
    BY <1>2, <2>1, Zenon DEF Owners, Still, GateFree, IsOpen
  <2>4. \A g \in Guis : guis'[g].at # "idle" => guis'[g].peer \in Peers
    BY Zenon DEF Still
  <2>5. \A g \in Guis : guis'[g].at = "drawing" =>
          guis'[g].conn \in DOMAIN conns' /\ conns'[guis'[g].conn].peer = guis'[g].peer /\ conns'[guis'[g].conn].task = "none"
    <3> SUFFICES ASSUME NEW g \in Guis, guis'[g].at = "drawing"
                 PROVE  LET k == guis'[g].conn IN
                        k \in DOMAIN conns' /\ conns'[k].peer = guis'[g].peer /\ conns'[k].task = "none"
      BY Zenon
    <3>1. guis'[g] = guis[g] /\ guis[g].at = "drawing"
      BY Zenon DEF Still
    <3>2. LET k == guis[g].conn IN k \in DOMAIN conns /\ conns[k].peer = guis[g].peer /\ conns[k].task = "none"
      BY <2>1, <3>1, Zenon DEF Owners
    <3> QED BY <3>1, <3>2, Zenon DEF Still
  <2>6. \A g, h \in Guis : guis'[g].at = "drawing" /\ guis'[h].at = "drawing" /\ guis'[g].conn = guis'[h].conn => g = h
    BY <2>1 DEF Owners, Still
  <2>7. \A i \in DOMAIN conns' : InHand(i)'
    BY Zenon DEF Still
  <2> QED BY <2>2, <2>3, <2>4, <2>5, <2>6, <2>7, Zenon DEF Owners
<1> QED BY <1>1, <1>2, <1>4, <1>5, Zenon

\* The words, the pool and the index are left alone too.
SameWords ==
  /\ UNCHANGED <<pool, local, index>>
  /\ \A i \in DOMAIN conns : conns'[i].words = conns[i].words

LEMMA SameWordsKept ==
  ASSUME FpInv, Still, SameWords
  PROVE  WordInv' /\ IndexInv'
<1>1. \A i \in DOMAIN conns : Live(i)' <=> Live(i)
  BY StillOwners, Zenon
<1>2. \A w, i, r : i \in DOMAIN conns => (Uses(w, i, r)' <=> Uses(w, i, r))
  BY <1>1, Zenon DEF Uses, SameWords
<1>3. WordInv'
  <2>1. WordInv /\ DOMAIN conns' = DOMAIN conns /\ UNCHANGED <<pool, local, fpScenario>>
    BY Zenon DEF FpInv, Still, SameWords
  <2> QED BY <1>2, <2>1 DEF WordInv
<1>4. IndexInv'
  <2>1. IndexInv /\ Owners
    BY Zenon DEF FpInv
  <2>2. \A i \in DOMAIN conns : Locals(i)' = Locals(i)
    BY Zenon DEF SameWords, Locals
  <2>3. \A p \in DOMAIN peers : peers[p] \in DOMAIN conns /\ Locals(peers[p])' = Locals(peers[p])
    BY <2>1, <2>2, Zenon DEF Owners, Still, Locals, SameWords
  <2>4. ~GateFree => Locals(gate)' = Locals(gate)
    BY <2>1, Zenon DEF Owners, Still, Locals, SameWords
  <2> QED BY <2>1, <2>3, <2>4 DEF IndexInv, Still, SameWords, GateFree
<1> QED BY <1>3, <1>4, Zenon

\* Connection i holds tunnel t.
Holds(i, t) ==
  \/ conns[i].tunnel = t /\ Live(i)
  \/ conns[i].task = "reopened" /\ conns[i].next[1].tunnel = t

LEMMA HeldIsNoLeak ==
  /\ NoTunnelLeak <=> \A t \in tunnels : \E i \in DOMAIN conns : Holds(i, t)
  /\ NoTunnelLeak' <=> \A t \in tunnels' : \E i \in DOMAIN conns' : Holds(i, t)'
<1>1. NoTunnelLeak <=> \A t \in tunnels : \E i \in DOMAIN conns : Holds(i, t)
  BY Zenon DEF NoTunnelLeak, Holds, Live
<1>2. NoTunnelLeak' <=> \A t \in tunnels' : \E i \in DOMAIN conns' : Holds(i, t)'
  BY Zenon DEF NoTunnelLeak, Holds, Live
<1> QED BY <1>1, <1>2, Zenon

\* Every tunnel that runs is held as it was.
SameTunnels ==
  /\ UNCHANGED tunnels
  /\ \A i \in DOMAIN conns : /\ conns'[i].tunnel = conns[i].tunnel
                             /\ conns[i].task = "reopened" => conns'[i].task = "reopened" /\ conns'[i].next = conns[i].next

LEMMA SameTunnelsKept ==
  ASSUME FpInv, Still, SameTunnels
  PROVE  NoTunnelLeak'
<1>1. \A t, i : i \in DOMAIN conns /\ Holds(i, t) => Holds(i, t)'
  BY StillOwners, Zenon DEF Holds, SameTunnels
<1>2. \A t \in tunnels : \E i \in DOMAIN conns : Holds(i, t)
  BY HeldIsNoLeak, Zenon DEF FpInv
<1> QED BY <1>1, <1>2, HeldIsNoLeak, Zenon DEF Still, SameTunnels

LEMMA QuietKeeps ==
  ASSUME FpInv, Still, SameWords, SameTunnels
  PROVE  FpInv'
BY StillOwners, SameWordsKept, SameTunnelsKept, Zenon DEF FpInv

\* The GUIs and the peers are left alone.
LEMMA UnchangedGuis ==
  ASSUME FpInv, UNCHANGED guis
  PROVE  /\ guis' \in [Guis -> GuiType]
         /\ \A g \in Guis : /\ guis'[g].at # "idle" => guis'[g].peer \in Peers
                            /\ guis'[g].at = "drawing" <=> guis[g].at = "drawing"
                            /\ guis[g].at = "drawing" => guis'[g] = guis[g]
BY Zenon DEF FpInv, FpTypeOK, Owners

\* A step of one connection, which keeps its peer, its words and its tunnel.
Keeps(new, old) ==
  /\ new \in ConnType /\ new.peer = old.peer /\ new.words = old.words /\ new.tunnel = old.tunnel
  /\ new.task = "none" <=> old.task = "none"
  /\ old.task = "reopened" => new.task = "reopened" /\ new.next = old.next
  /\ new.task = "handling" => new.hand # <<>>
  /\ new.task = "reopened" => new.next # <<>>

LEMMA QuietConn ==
  ASSUME FpInv, NEW i \in DOMAIN conns, NEW new, Keeps(new, conns[i]), conns' = [conns EXCEPT ![i] = new],
         UNCHANGED <<fpScenario, pool, local, remote, peers, index, guis, gate, tunnels>>
  PROVE  FpInv'
<1>1. conns \in Seq(ConnType) /\ new \in ConnType
  BY Zenon DEF FpInv, FpTypeOK, Keeps
<1>2. /\ conns' \in Seq(ConnType) /\ DOMAIN conns' = DOMAIN conns
      /\ conns'[i] = new /\ \A j \in DOMAIN conns : j # i => conns'[j] = conns[j]
  BY <1>1, OneConn, Zenon
<1>3. \A j \in DOMAIN conns : InHand(j)
  BY Zenon DEF FpInv, Owners
<1>4. \A j \in DOMAIN conns : /\ conns'[j].peer = conns[j].peer
                              /\ conns'[j].task = "none" <=> conns[j].task = "none"
                              /\ InHand(j)'
  BY <1>2, <1>3, Zenon DEF Keeps, InHand
<1>5. Still
  <2>1. /\ guis' \in [Guis -> GuiType]
        /\ \A g \in Guis : /\ guis'[g].at # "idle" => guis'[g].peer \in Peers
                           /\ guis'[g].at = "drawing" <=> guis[g].at = "drawing"
                           /\ guis[g].at = "drawing" => guis'[g] = guis[g]
    BY UnchangedGuis, Zenon
  <2>2. /\ pool' \in [Words -> Int] /\ local' \subseteq Words /\ remote' \in [Peers -> PeerType]
        /\ TunnelNumbers'
    BY FewerTunnels, Zenon DEF FpInv, FpTypeOK
  <2> QED BY <1>2, <1>4, <2>1, <2>2, Zenon DEF Still
<1>6. SameWords /\ SameTunnels
  BY <1>2, Zenon DEF SameWords, SameTunnels, Keeps
<1> QED BY <1>5, <1>6, QuietKeeps, Zenon

\* A step of the link task or of its peer at connection i, as above.
LEMMA QuietTask ==
  ASSUME FpInv, NEW i \in DOMAIN conns, UNCHANGED fpScenario,
         TaskAborted(i) \/ FeedReads(i) \/ OnSessionFrame(i) \/ BroadcastList(i) \/ LinkTornDown(i)
  PROVE  FpInv'
<1>1. conns[i] \in ConnType /\ InHand(i) /\ conns \in Seq(ConnType)
  <2>1. conns \in Seq(ConnType) /\ InHand(i)
    BY Zenon DEF FpInv, FpTypeOK, Owners
  <2> QED BY <2>1, Typed, Zenon
<1>2. UNCHANGED <<fpScenario, pool, local, remote, peers, index, guis, gate, tunnels>>
  BY Zenon DEF TaskAborted, FeedReads, OnSessionFrame, BroadcastList, LinkTornDown
<1>3. CASE TaskAborted(i)
  <2> DEFINE new == [conns[i] EXCEPT !.task = "ended"]
  <2>1. conns' = [conns EXCEPT ![i] = new] /\ conns[i].task \in {"feeding", "listing", "reopening"}
    BY <1>3, Zenon DEF TaskAborted, Awaits
  <2>2. Keeps(new, conns[i])
    BY <1>1, <2>1, Zenon DEF Keeps, ConnType
  <2> HIDE DEF new
  <2> QED BY <1>2, <2>1, <2>2, QuietConn, Zenon
<1>4. CASE FeedReads(i)
  <2> DEFINE h == <<Head(conns[i].queue)>>
             q == Tail(conns[i].queue)
             new == [conns[i] EXCEPT !.task = "handling", !.hand = h, !.queue = q]
  <2>1. conns' = [conns EXCEPT ![i] = new] /\ conns[i].task = "feeding" /\ conns[i].queue # <<>>
    BY <1>1, <1>4, Zenon DEF FeedReads
  <2>2. h \in Seq(FrameType) /\ h # <<>> /\ q \in Seq(FrameType)
    <3>1. conns[i].queue \in Seq(FrameType)
      BY <1>1, Zenon DEF ConnType
    <3> QED BY <2>1, <3>1
  <2> HIDE DEF h, q
  <2>3. Keeps(new, conns[i])
    BY <1>1, <2>1, <2>2, Zenon DEF Keeps, ConnType
  <2> HIDE DEF new
  <2> QED BY <1>2, <2>1, <2>3, QuietConn, Zenon
<1>5. CASE OnSessionFrame(i)
  <2> DEFINE a == conns[i].asked + (IF conns[i].wire THEN 1 ELSE 0)
             new == [conns[i] EXCEPT !.task = "feeding", !.hand = <<>>, !.asked = a]
  <2>1. conns' = [conns EXCEPT ![i] = new] /\ conns[i].task = "handling"
    <3>1. /\ conns' = [Done(i, "feeding") EXCEPT ![i].asked = @ + (IF conns[i].wire THEN 1 ELSE 0)]
          /\ conns[i].task = "handling"
      BY <1>5, Zenon DEF OnSessionFrame, Frame
    <3>2. Done(i, "feeding") = [conns EXCEPT ![i] = [conns[i] EXCEPT !.task = "feeding", !.hand = <<>>]]
      BY <1>1, Zenon DEF Done
    <3>3. [conns[i] EXCEPT !.task = "feeding", !.hand = <<>>].asked = conns[i].asked
      BY <1>1, Zenon DEF ConnType
    <3> QED BY <1>1, <3>1, <3>2, <3>3, Zenon
  <2>2. a \in Int /\ << >> \in Seq(FrameType)
    <3>1. conns[i].asked \in Int
      BY <1>1, Zenon DEF ConnType
    <3> QED BY <3>1
  <2> HIDE DEF a
  <2>3. Keeps(new, conns[i])
    BY <1>1, <2>1, <2>2, Zenon DEF Keeps, ConnType
  <2> HIDE DEF new
  <2> QED BY <1>2, <2>1, <2>3, QuietConn, Zenon
<1>6. CASE BroadcastList(i)
  <2> DEFINE s == IF conns[i].dead THEN "reopening" ELSE "feeding"
             new == [conns[i] EXCEPT !.task = s]
  <2>1. conns' = [conns EXCEPT ![i] = new] /\ conns[i].task = "listing"
    BY <1>6, Zenon DEF BroadcastList
  <2>2. s \in {"reopening", "feeding"}
    BY Zenon
  <2> HIDE DEF s
  <2>3. Keeps(new, conns[i])
    BY <1>1, <2>1, <2>2, Zenon DEF Keeps, ConnType
  <2> HIDE DEF new
  <2> QED BY <1>2, <2>1, <2>3, QuietConn, Zenon
<1>7. CASE LinkTornDown(i)
  <2> DEFINE one == [conns[i] EXCEPT !.dead = TRUE]
             two == [one EXCEPT !.asked = 0]
             new == [two EXCEPT !.owed = {}, !.task = "listing"]
  <2>1. conns' = [conns EXCEPT ![i] = new] /\ conns[i].task = "feeding"
    BY <1>1, <1>7, Zenon DEF LinkTornDown
  <2>2. /\ one \in ConnType /\ one.peer = conns[i].peer /\ one.words = conns[i].words
        /\ one.tunnel = conns[i].tunnel
    BY <1>1, SetDead, Zenon
  <2> HIDE DEF one
  <2>3. two \in ConnType /\ two.peer = one.peer /\ two.words = one.words /\ two.tunnel = one.tunnel
    BY <2>2, SetAsked
  <2> HIDE DEF two
  <2>4. /\ new \in ConnType /\ new.peer = two.peer /\ new.words = two.words
        /\ new.tunnel = two.tunnel /\ new.task = "listing"
    BY <2>3, Zenon DEF ConnType
  <2>5. Keeps(new, conns[i])
    BY <2>1, <2>2, <2>3, <2>4, Zenon DEF Keeps
  <2> HIDE DEF new
  <2> QED BY <1>2, <2>1, <2>5, QuietConn, Zenon
<1> QED BY <1>3, <1>4, <1>5, <1>6, <1>7, Zenon

LEMMA KeepsSelf ==
  ASSUME FpInv, NEW i \in DOMAIN conns
  PROVE  Keeps(conns[i], conns[i]) /\ conns[i] \in ConnType
<1>1. conns \in Seq(ConnType) /\ InHand(i)
  BY Zenon DEF FpInv, FpTypeOK, Owners
<1>2. conns[i] \in ConnType
  BY <1>1, Typed, Zenon
<1> QED BY <1>1, <1>2, Zenon DEF Keeps, InHand

\* A step of any number of connections, of the GUIs and of the peers.
LEMMA QuietAll ==
  ASSUME FpInv, DOMAIN conns' = DOMAIN conns, conns' = [i \in DOMAIN conns' |-> conns'[i]],
         \A i \in DOMAIN conns : Keeps(conns'[i], conns[i]),
         guis' \in [Guis -> GuiType],
         \A g \in Guis : /\ guis'[g].at # "idle" => guis'[g].peer \in Peers
                         /\ guis'[g].at = "drawing" <=> guis[g].at = "drawing"
                         /\ guis[g].at = "drawing" => guis'[g] = guis[g],
         remote' \in [Peers -> PeerType],
         UNCHANGED <<fpScenario, pool, local, peers, index, gate, tunnels>>
  PROVE  FpInv'
<1>1. conns' \in Seq(ConnType)
  BY AllConns, Zenon DEF FpInv, FpTypeOK, Keeps
<1>2. \A j \in DOMAIN conns : /\ conns'[j].peer = conns[j].peer
                              /\ conns'[j].task = "none" <=> conns[j].task = "none"
                              /\ InHand(j)'
  BY Zenon DEF Keeps, InHand
<1>3. /\ pool' \in [Words -> Int] /\ local' \subseteq Words
      /\ TunnelNumbers'
  BY FewerTunnels, Zenon DEF FpInv, FpTypeOK
<1>4. Still
  BY <1>1, <1>2, <1>3, Zenon DEF Still
<1>5. SameWords /\ SameTunnels
  BY Zenon DEF SameWords, SameTunnels, Keeps
<1> QED BY <1>4, <1>5, QuietKeeps, Zenon


\* The peer's frames, and the loss of its link.
LEMMA QuietPeer ==
  ASSUME FpInv, NEW i \in DOMAIN conns, UNCHANGED fpScenario,
         RemoteAnswers(i) \/ RemoteLists(i) \/ RemoteResyncs(i) \/ LinkLost(i)
  PROVE  FpInv'
<1>1. conns[i] \in ConnType /\ Keeps(conns[i], conns[i])
  BY KeepsSelf, Zenon
<1>2. UNCHANGED <<fpScenario, pool, local, remote, peers, index, guis, gate, tunnels>>
  BY Zenon DEF RemoteAnswers, RemoteLists, RemoteResyncs, LinkLost
<1>3. conns[i].queue \in Seq(FrameType) /\ conns[i].peer \in Peers /\ conns[i].owed \in SUBSET Remotes /\ conns[i].asked \in Int
  BY <1>1, Zenon DEF ConnType
<1>4. CASE RemoteAnswers(i)
  <2>1. PICK r \in conns[i].owed :
          conns' = [conns EXCEPT ![i].owed = @ \ {r}, ![i].queue = Append(@, [re |-> "answer", word |-> r])]
    BY <1>4, Zenon DEF RemoteAnswers
  <2> DEFINE f == [re |-> "answer", word |-> r]
             q == Append(conns[i].queue, f)
             o == conns[i].owed \ {r}
             new == [conns[i] EXCEPT !.owed = o, !.queue = q]
  <2>2. r \in Remotes /\ o \in SUBSET Remotes
    BY <1>3, Zenon
  <2>3. f \in FrameType
    BY <2>2, Zenon DEF FrameType
  <2>4. conns' = [conns EXCEPT ![i] = new]
    BY <1>1, <2>1, Zenon DEF ConnType
  <2> HIDE DEF f, o
  <2>5. q \in Seq(FrameType)
    BY <1>3, <2>3
  <2> HIDE DEF q
  <2>6. Keeps(new, conns[i])
    BY <1>1, <2>2, <2>5, Zenon DEF Keeps, ConnType
  <2> HIDE DEF new
  <2> QED BY <1>2, <2>4, <2>6, QuietConn, Zenon
<1>5. ASSUME NEW q, q = Append(conns[i].queue, [re |-> "list", words |-> remote[conns[i].peer].hosts])
      PROVE  [conns[i] EXCEPT !.queue = q] \in ConnType /\ Keeps([conns[i] EXCEPT !.queue = q], conns[i])
  <2>1. remote[conns[i].peer].hosts \in SUBSET Remotes
    BY <1>3, Zenon DEF FpInv, FpTypeOK, PeerType
  <2>2. [re |-> "list", words |-> remote[conns[i].peer].hosts] \in FrameType
    BY <2>1, Zenon DEF FrameType
  <2>3. q \in Seq(FrameType)
    BY <1>3, <1>5, <2>2
  <2>4. Keeps([conns[i] EXCEPT !.queue = q], conns[i])
    BY <1>1, <2>3, Zenon DEF Keeps, ConnType
  <2> QED BY <2>4, Zenon DEF Keeps
<1>6. Lists(i) = [conns EXCEPT ![i] = [conns[i] EXCEPT
                    !.queue = Append(conns[i].queue, [re |-> "list", words |-> remote[conns[i].peer].hosts])]]
  BY Zenon DEF Lists
<1>7. CASE RemoteLists(i)
  <2> DEFINE q == Append(conns[i].queue, [re |-> "list", words |-> remote[conns[i].peer].hosts])
             one == [conns[i] EXCEPT !.queue = q]
             new == [one EXCEPT !.asked = conns[i].asked - 1]
  <2>1. one \in ConnType /\ Keeps(one, conns[i])
    BY <1>5, Zenon
  <2>2. one.asked = conns[i].asked
    BY <1>1, Zenon DEF ConnType
  <2>3. conns' = [conns EXCEPT ![i] = new]
    BY <1>6, <1>7, <2>2, Zenon DEF RemoteLists
  <2> HIDE DEF one
  <2>4. conns[i].asked - 1 \in Int
    BY <1>3
  <2>5. /\ new \in ConnType /\ new.peer = one.peer /\ new.words = one.words /\ new.tunnel = one.tunnel
        /\ new.task = one.task /\ new.next = one.next /\ new.hand = one.hand
    BY <2>1, <2>4, SetAsked, Zenon
  <2> HIDE DEF new
  <2>6. Keeps(new, conns[i])
    BY <2>1, <2>5, Zenon DEF Keeps
  <2> QED BY <1>2, <2>3, <2>6, QuietConn, Zenon
<1>8. CASE RemoteResyncs(i)
  <2> DEFINE q == Append(conns[i].queue, [re |-> "list", words |-> remote[conns[i].peer].hosts])
             new == [conns[i] EXCEPT !.queue = q]
  <2>1. Keeps(new, conns[i])
    BY <1>5, Zenon
  <2>2. conns' = [conns EXCEPT ![i] = new]
    BY <1>6, <1>8, Zenon DEF RemoteResyncs
  <2> HIDE DEF new
  <2> QED BY <1>2, <2>1, <2>2, QuietConn, Zenon
<1>9. CASE LinkLost(i)
  <2> DEFINE new == [conns[i] EXCEPT !.wire = FALSE]
  <2>1. conns' = [conns EXCEPT ![i] = new]
    BY <1>9, Zenon DEF LinkLost
  <2>2. /\ new \in ConnType /\ new.peer = conns[i].peer /\ new.words = conns[i].words /\ new.tunnel = conns[i].tunnel
        /\ new.task = conns[i].task /\ new.next = conns[i].next /\ new.hand = conns[i].hand
    BY <1>1, SetWire, Zenon
  <2> HIDE DEF new
  <2>3. Keeps(new, conns[i])
    BY <1>1, <2>2, Zenon DEF Keeps
  <2> QED BY <1>2, <2>1, <2>3, QuietConn, Zenon
<1> QED BY <1>4, <1>7, <1>8, <1>9, Zenon

LEMMA ToldKeeps ==
  ASSUME FpInv, NEW p, NEW frames, \A i \in DOMAIN conns : frames[i] \in Seq(FrameType), NEW t, t = Told(p, frames)
  PROVE  /\ DOMAIN t = DOMAIN conns /\ t = [i \in DOMAIN t |-> t[i]]
         /\ \A i \in DOMAIN conns : Keeps(t[i], conns[i]) /\ t[i].owed = conns[i].owed
<1>1. t = [i \in DOMAIN conns |->
             IF conns[i].peer = p /\ Linked(i) THEN [conns[i] EXCEPT !.queue = @ \o frames[i]] ELSE conns[i]]
  BY Zenon DEF Told
<1>2. DOMAIN t = DOMAIN conns /\ t = [i \in DOMAIN t |-> t[i]]
  BY <1>1, Zenon
<1>3. ASSUME NEW i \in DOMAIN conns
      PROVE  Keeps(t[i], conns[i]) /\ t[i].owed = conns[i].owed
  <2> DEFINE q == conns[i].queue \o frames[i]
  <2>1. conns[i] \in ConnType /\ Keeps(conns[i], conns[i])
    BY KeepsSelf, Zenon
  <2>3. t[i] = [conns[i] EXCEPT !.queue = q] \/ t[i] = conns[i]
    BY <1>1, Zenon
  <2>4. conns[i].queue \in Seq(FrameType)
    BY <2>1, Zenon DEF ConnType
  <2>5. q \in Seq(FrameType)
    BY <2>4
  <2> HIDE DEF q
  <2>6. Keeps([conns[i] EXCEPT !.queue = q], conns[i]) /\ [conns[i] EXCEPT !.queue = q].owed = conns[i].owed
    BY <2>1, <2>5, Zenon DEF Keeps, ConnType
  <2> QED BY <2>1, <2>3, <2>6, Zenon
<1> QED BY <1>2, <1>3, Zenon

LEMMA RemoteCreatesKeeps ==
  ASSUME FpInv, NEW p \in Peers, NEW r \in Remotes, NEW asker \in {NoLink} \union DOMAIN conns,
         UNCHANGED fpScenario, RemoteCreates(p, r, asker)
  PROVE  FpInv'
<1> DEFINE f == <<[re |-> "created", word |-> r]>>
           frames == [i \in DOMAIN conns |-> f]
           t == Told(p, frames)
<1>1. /\ remote' = [remote EXCEPT ![p].hosts = @ \union {r}, ![p].used = @ \union {r}]
      /\ conns' = (IF asker = NoLink THEN t ELSE [t EXCEPT ![asker].owed = @ \union {r}])
      /\ UNCHANGED <<fpScenario, pool, local, peers, index, guis, gate, tunnels>>
  BY Zenon DEF RemoteCreates
<1>2. /\ DOMAIN t = DOMAIN conns /\ t = [i \in DOMAIN t |-> t[i]]
      /\ \A i \in DOMAIN conns : Keeps(t[i], conns[i]) /\ t[i].owed = conns[i].owed
  <2>1. [re |-> "created", word |-> r] \in FrameType
    BY Zenon DEF FrameType
  <2>2. f \in Seq(FrameType)
    BY <2>1
  <2> HIDE DEF f
  <2>3. t = Told(p, frames) /\ \A i \in DOMAIN conns : frames[i] \in Seq(FrameType)
    BY <2>2, Zenon
  <2> HIDE DEF t, frames
  <2> QED BY <2>3, ToldKeeps
<1> HIDE DEF t
<1>3. remote' \in [Peers -> PeerType]
  <2> DEFINE new == [remote[p] EXCEPT !.hosts = @ \union {r}, !.used = @ \union {r}]
  <2>1. remote \in [Peers -> PeerType] /\ remote[p] \in PeerType
    BY Zenon DEF FpInv, FpTypeOK
  <2>2. new \in PeerType
    BY <2>1, Zenon DEF PeerType
  <2>3. remote' = [remote EXCEPT ![p] = new]
    BY <1>1, <2>1, Zenon DEF PeerType
  <2> HIDE DEF new
  <2> QED BY <2>1, <2>2, <2>3, Zenon
<1>4. /\ DOMAIN conns' = DOMAIN conns /\ conns' = [i \in DOMAIN conns' |-> conns'[i]]
      /\ \A i \in DOMAIN conns : Keeps(conns'[i], conns[i])
  <2>1. CASE asker = NoLink
    <3>1. conns' = t
      BY <1>1, <2>1, Zenon
    <3> QED BY <1>2, <3>1, Zenon
  <2>2. CASE asker # NoLink
    <3> DEFINE o == t[asker].owed \union {r}
               new == [t[asker] EXCEPT !.owed = o]
    <3>1. asker \in DOMAIN conns /\ conns' = [t EXCEPT ![asker] = new]
      BY <1>1, <2>2, Zenon
    <3>2. t[asker] \in ConnType /\ Keeps(t[asker], conns[asker])
      BY <1>2, <3>1, Zenon DEF Keeps
    <3>3. o \in SUBSET Remotes
      BY <3>2, Zenon DEF ConnType
    <3> HIDE DEF o
    <3>4. /\ new \in ConnType /\ new.peer = t[asker].peer /\ new.words = t[asker].words /\ new.tunnel = t[asker].tunnel
          /\ new.task = t[asker].task /\ new.next = t[asker].next /\ new.hand = t[asker].hand
      BY <3>2, <3>3, Zenon DEF ConnType
    <3> HIDE DEF new
    <3>5. Keeps(new, conns[asker])
      BY <3>2, <3>4, Zenon DEF Keeps
    <3> QED BY <1>2, <3>1, <3>5, Zenon
  <2> QED BY <2>1, <2>2, Zenon
<1> QED BY <1>1, <1>3, <1>4, QuietAll, UnchangedGuis, Zenon

LEMMA RemoteClosesKeeps ==
  ASSUME FpInv, NEW p \in Peers, NEW r \in Remotes, UNCHANGED fpScenario, RemoteCloses(p, r)
  PROVE  FpInv'
<1> DEFINE f == <<[re |-> "closed", word |-> r]>>
           frames == [i \in DOMAIN conns |-> f]
           t == Told(p, frames)
<1>1. /\ remote' = [remote EXCEPT ![p].hosts = @ \ {r}] /\ conns' = t
      /\ UNCHANGED <<fpScenario, pool, local, peers, index, guis, gate, tunnels>>
  BY Zenon DEF RemoteCloses
<1>2. /\ DOMAIN t = DOMAIN conns /\ t = [i \in DOMAIN t |-> t[i]]
      /\ \A i \in DOMAIN conns : Keeps(t[i], conns[i]) /\ t[i].owed = conns[i].owed
  <2>1. [re |-> "closed", word |-> r] \in FrameType
    BY Zenon DEF FrameType
  <2>2. f \in Seq(FrameType)
    BY <2>1
  <2> HIDE DEF f
  <2>3. t = Told(p, frames) /\ \A i \in DOMAIN conns : frames[i] \in Seq(FrameType)
    BY <2>2, Zenon
  <2> HIDE DEF t, frames
  <2> QED BY <2>3, ToldKeeps
<1> HIDE DEF t
<1>3. remote' \in [Peers -> PeerType]
  BY <1>1, Zenon DEF FpInv, FpTypeOK, PeerType
<1>4. /\ DOMAIN conns' = DOMAIN conns /\ conns' = [i \in DOMAIN conns' |-> conns'[i]]
      /\ \A i \in DOMAIN conns : Keeps(conns'[i], conns[i])
  BY <1>1, <1>2, Zenon
<1> QED BY <1>1, <1>3, <1>4, QuietAll, UnchangedGuis, Zenon

LEMMA PeerRestartsKeeps ==
  ASSUME FpInv, NEW p \in Peers, UNCHANGED fpScenario, PeerRestarts(p)
  PROVE  FpInv'
<1>1. /\ remote' = [remote EXCEPT ![p].token = @ + 1]
      /\ conns' = [i \in DOMAIN conns |->
                     IF conns[i].peer = p THEN [conns[i] EXCEPT !.wire = FALSE] ELSE conns[i]]
      /\ UNCHANGED <<fpScenario, pool, local, peers, index, guis, gate, tunnels>>
  BY Zenon DEF PeerRestarts
<1>2. DOMAIN conns' = DOMAIN conns /\ conns' = [i \in DOMAIN conns' |-> conns'[i]]
  BY <1>1, Zenon
<1>3. remote' \in [Peers -> PeerType]
  <2> DEFINE k == remote[p].token + 1
  <2>1. remote \in [Peers -> PeerType] /\ remote[p] \in PeerType
    BY Zenon DEF FpInv, FpTypeOK
  <2>2. k \in Int
    BY <2>1 DEF PeerType
  <2>3. remote' = [remote EXCEPT ![p] = [remote[p] EXCEPT !.token = k]]
    BY <1>1, Zenon
  <2> HIDE DEF k
  <2>4. [remote[p] EXCEPT !.token = k] \in PeerType
    BY <2>1, <2>2, Zenon DEF PeerType
  <2> QED BY <2>1, <2>3, <2>4, Zenon
<1>4. ASSUME NEW i \in DOMAIN conns PROVE Keeps(conns'[i], conns[i])
  <2> DEFINE new == [conns[i] EXCEPT !.wire = FALSE]
  <2>1. conns[i] \in ConnType /\ Keeps(conns[i], conns[i])
    BY KeepsSelf, Zenon
  <2>2. conns'[i] = new \/ conns'[i] = conns[i]
    BY <1>1, Zenon
  <2>3. /\ new \in ConnType /\ new.peer = conns[i].peer /\ new.words = conns[i].words /\ new.tunnel = conns[i].tunnel
        /\ new.task = conns[i].task /\ new.next = conns[i].next /\ new.hand = conns[i].hand
    BY <2>1, SetWire, Zenon
  <2> HIDE DEF new
  <2>4. Keeps(new, conns[i])
    BY <2>1, <2>3, Zenon DEF Keeps
  <2> QED BY <2>1, <2>2, <2>4, Zenon
<1> QED BY <1>1, <1>2, <1>3, <1>4, QuietAll, UnchangedGuis, Zenon

LEMMA SameConns ==
  ASSUME FpInv, UNCHANGED conns
  PROVE  /\ DOMAIN conns' = DOMAIN conns /\ conns' = [i \in DOMAIN conns' |-> conns'[i]]
         /\ \A i \in DOMAIN conns : Keeps(conns'[i], conns[i])
<1>1. conns \in Seq(ConnType)
  BY Zenon DEF FpInv, FpTypeOK
<1>2. conns = [i \in DOMAIN conns |-> conns[i]]
  BY <1>1
<1> QED BY <1>2, KeepsSelf, Zenon

\* One GUI goes idle or connects.
LEMMA QuietGui ==
  ASSUME FpInv, NEW g \in Guis, guis[g].at # "drawing", NEW new \in GuiType, new.at # "drawing",
         new.at # "idle" => new.peer \in Peers, guis' = [guis EXCEPT ![g] = new],
         UNCHANGED <<fpScenario, pool, local, remote, conns, peers, index, gate, tunnels>>
  PROVE  FpInv'
<1>1. guis \in [Guis -> GuiType] /\ remote' \in [Peers -> PeerType]
  BY Zenon DEF FpInv, FpTypeOK
<1>2. \A h \in Guis : guis[h].at # "idle" => guis[h].peer \in Peers
  BY Zenon DEF FpInv, Owners
<1>3. guis' \in [Guis -> GuiType] /\ guis'[g] = new /\ \A h \in Guis : h # g => guis'[h] = guis[h]
  BY <1>1, Zenon
<1>4. \A h \in Guis : /\ guis'[h].at # "idle" => guis'[h].peer \in Peers
                      /\ guis'[h].at = "drawing" <=> guis[h].at = "drawing"
                      /\ guis[h].at = "drawing" => guis'[h] = guis[h]
  BY <1>2, <1>3, Zenon
<1> QED BY <1>1, <1>3, <1>4, SameConns, QuietAll, Zenon

LEMMA IdleType == IdleGui \in GuiType /\ IdleGui.at = "idle"
BY DEF IdleGui, GuiType, NoLink

LEMMA OpenPeerKeeps ==
  ASSUME FpInv, NEW g \in Guis, NEW p \in Peers, NEW token, token = remote[p].token,
         UNCHANGED fpScenario, OpenPeer(g, p, token)
  PROVE  FpInv'
<1>1. /\ guis[g].at = "idle" /\ UNCHANGED <<fpScenario, pool, local, remote, peers, index, gate, tunnels>>
  BY Zenon DEF OpenPeer
<1>2. token \in Int /\ remote' \in [Peers -> PeerType]
  BY <1>1, Zenon DEF FpInv, FpTypeOK, PeerType
<1>3. CASE p \in DOMAIN peers
  <2> DEFINE i == peers[p]
             new == [conns[i] EXCEPT !.target = token]
  <2>1. guis' = guis /\ (conns' = [conns EXCEPT ![i] = new] \/ conns' = conns)
    BY <1>3, Zenon DEF OpenPeer
  <2>2. i \in DOMAIN conns
    BY <1>3, Zenon DEF FpInv, Owners
  <2>3. CASE conns' = conns
    BY <1>1, <1>2, <2>1, <2>3, SameConns, UnchangedGuis, QuietAll, Zenon
  <2>4. CASE conns' = [conns EXCEPT ![i] = new]
    <3>1. conns[i] \in ConnType /\ Keeps(conns[i], conns[i])
      BY <2>2, KeepsSelf, Zenon
    <3>2. /\ new \in ConnType /\ new.peer = conns[i].peer /\ new.words = conns[i].words /\ new.tunnel = conns[i].tunnel
          /\ new.task = conns[i].task /\ new.next = conns[i].next /\ new.hand = conns[i].hand
      BY <1>2, <3>1, SetTarget
    <3> HIDE DEF new, i
    <3>3. Keeps(new, conns[i])
      BY <3>1, <3>2, Zenon DEF Keeps
    <3> QED BY <1>1, <2>1, <2>2, <2>4, <3>3, QuietConn, Zenon
  <2> QED BY <2>1, <2>3, <2>4, Zenon
<1>4. CASE p \notin DOMAIN peers
  <2> DEFINE new == [at |-> "connecting", peer |-> p, conn |-> token]
  <2>1. guis' = [guis EXCEPT ![g] = new] /\ conns' = conns
    BY <1>4, Zenon DEF OpenPeer
  <2>2. new \in GuiType /\ new.at = "connecting" /\ new.peer = p
    BY <1>2, Zenon DEF GuiType
  <2> HIDE DEF new
  <2> QED BY <1>1, <2>1, <2>2, QuietGui, Zenon
<1> QED BY <1>3, <1>4, Zenon

LEMMA ConnectFailsKeeps ==
  ASSUME FpInv, NEW g \in Guis, UNCHANGED fpScenario, ConnectFails(g)
  PROVE  FpInv'
BY IdleType, QuietGui, Zenon DEF ConnectFails

LEMMA StutterKeeps ==
  ASSUME FpInv, UNCHANGED <<fpScenario, pool, local, remote, conns, peers, index, guis, gate, tunnels>>
  PROVE  FpInv'
<1>1. remote' \in [Peers -> PeerType]
  BY Zenon DEF FpInv, FpTypeOK
<1> QED BY <1>1, SameConns, UnchangedGuis, QuietAll, Zenon

\* A frame has been handled, with nothing else changed.
LEMMA DoneKeeps ==
  ASSUME FpInv, NEW i \in DOMAIN conns, conns[i].task = "handling", NEW then \in {"feeding", "listing"}
  PROVE  /\ Done(i, then) = [conns EXCEPT ![i] = [conns[i] EXCEPT !.task = then, !.hand = <<>>]]
         /\ [conns[i] EXCEPT !.task = then, !.hand = <<>>].task = then
         /\ Keeps([conns[i] EXCEPT !.task = then, !.hand = <<>>], conns[i])
<1>1. conns[i] \in ConnType
  BY KeepsSelf, Zenon
<1>2. << >> \in Seq(FrameType)
  OBVIOUS
<1>3. [conns[i] EXCEPT !.task = then, !.hand = <<>>].task = then
  BY <1>1, Zenon DEF ConnType
<1>4. Keeps([conns[i] EXCEPT !.task = then, !.hand = <<>>], conns[i])
  BY <1>1, <1>2, Zenon DEF Keeps, ConnType
<1> QED BY <1>3, <1>4, Zenon DEF Done

LEMMA DoneOnly ==
  ASSUME FpInv, NEW i \in DOMAIN conns, conns[i].task = "handling", NEW then \in {"feeding", "listing"},
         conns' = Done(i, then),
         UNCHANGED <<fpScenario, pool, local, remote, peers, index, guis, gate, tunnels>>
  PROVE  FpInv'
<1> DEFINE new == [conns[i] EXCEPT !.task = then, !.hand = <<>>]
<1>1. conns' = [conns EXCEPT ![i] = new] /\ Keeps(new, conns[i])
  BY DoneKeeps, Zenon
<1> HIDE DEF new
<1> QED BY <1>1, QuietConn, Zenon

-----------------------------------------------------------------------------
(* One live connection gets other words: what it takes comes out of the pool, *)
(* and what it gives up goes back.                                            *)

Shares(W, old) ==
  /\ \A r, s \in DOMAIN W : W[r] = W[s] => r = s
  /\ \A w \in Words : pool'[w] \in {0, 1}
  /\ \A w \in Words : w \in Range(W) => (w \in Range(old) \/ pool[w] = 1) /\ pool'[w] = 0
  /\ \A w \in Words : w \in Range(old) /\ w \notin Range(W) => pool'[w] = 1
  /\ \A w \in Words : w \notin Range(old) /\ w \notin Range(W) => pool'[w] = pool[w]

LEMMA UsesLocal ==
  ASSUME conns \in Seq(ConnType), NEW i \in DOMAIN conns, NEW w
  PROVE  /\ w \in Locals(i) <=> \E r \in Remotes : r \in DOMAIN conns[i].words /\ conns[i].words[r] = w
         /\ w \in Range(conns[i].words) <=> w \in Locals(i)
         /\ w \in Locals(i) => w \in Words
<1>1. conns[i].words \in WordsType
  <2>1. conns[i] \in ConnType
    BY Typed, Zenon
  <2> QED BY <2>1, Zenon DEF ConnType
<1> QED BY <1>1, WordsIn, Zenon DEF Locals

LEMMA SharesWords ==
  ASSUME FpInv, Still, UNCHANGED local, NEW k \in DOMAIN conns, Live(k),
         \A j \in DOMAIN conns : j # k => conns'[j].words = conns[j].words,
         Shares(conns'[k].words, conns[k].words)
  PROVE  WordInv'
<1> DEFINE W == conns'[k].words
           old == conns[k].words
<1>1. WordInv /\ DOMAIN conns' = DOMAIN conns /\ UNCHANGED <<local, fpScenario>>
  BY Zenon DEF FpInv, Still
<1>2. W \in WordsType /\ old \in WordsType
  <2>1. conns \in Seq(ConnType) /\ conns' \in Seq(ConnType) /\ k \in DOMAIN conns'
    BY <1>1, Zenon DEF FpInv, FpTypeOK, Still
  <2>2. conns[k] \in ConnType /\ conns'[k] \in ConnType
    BY <2>1
  <2> QED BY <2>2, Zenon DEF ConnType
<1>3. \A i \in DOMAIN conns : Live(i)' <=> Live(i)
  BY StillOwners, Zenon
<1>4. \A w, i, r : i \in DOMAIN conns /\ i # k => (Uses(w, i, r)' <=> Uses(w, i, r))
  BY <1>3, Zenon DEF Uses
<1>5. \A w, r : (Uses(w, k, r)' <=> r \in DOMAIN W /\ W[r] = w) /\ (Uses(w, k, r) <=> r \in DOMAIN old /\ old[r] = w)
  BY <1>3, Zenon DEF Uses
<1>6. /\ DOMAIN W \subseteq Remotes /\ DOMAIN old \subseteq Remotes
      /\ \A w : w \in Range(W) <=> \E r \in Remotes : Uses(w, k, r)'
      /\ \A w : w \in Range(old) <=> \E r \in Remotes : Uses(w, k, r)
  BY <1>2, <1>5, WordsIn
<1>7. /\ \A r, s \in DOMAIN W : W[r] = W[s] => r = s
      /\ \A w \in Words : pool'[w] \in {0, 1}
      /\ \A w \in Words : w \in Range(W) => (w \in Range(old) \/ pool[w] = 1) /\ pool'[w] = 0
      /\ \A w \in Words : w \in Range(old) /\ w \notin Range(W) => pool'[w] = 1
      /\ \A w \in Words : w \notin Range(old) /\ w \notin Range(W) => pool'[w] = pool[w]
  BY Zenon DEF Shares
<1>8. \A w \in Words, r, s \in Remotes : Uses(w, k, r)' /\ Uses(w, k, s)' => r = s
  BY <1>5, <1>7
<1> HIDE DEF W, old
<1> USE DEF WordInv
<1>9. \A w \in Words : pool'[w] = 1 => w \notin local'
  BY <1>1, <1>6, <1>7, Zenon
<1>10. ASSUME NEW w \in Words, pool'[w] = 1 \/ w \in local', NEW i \in DOMAIN conns', NEW r \in Remotes
       PROVE  ~Uses(w, i, r)'
  <2>1. w \notin Range(W)
    BY <1>1, <1>6, <1>7, <1>10
  <2>2. CASE i = k
    BY <1>6, <2>1, <2>2, Zenon
  <2>3. CASE i # k
    <3>1. SUFFICES ASSUME Uses(w, i, r) PROVE FALSE
      BY <1>1, <1>4, <2>3, Zenon
    <3>2. w \in Range(old)
      BY <1>1, <1>7, <1>10, <2>1, <3>1, Zenon
    <3> QED BY <1>1, <1>6, <2>3, <3>1, <3>2, Zenon
  <2> QED BY <2>2, <2>3, Zenon
<1>11. ASSUME NEW i \in DOMAIN conns', NEW j \in DOMAIN conns', NEW r \in Remotes, NEW s \in Remotes,
              NEW w \in Words, Uses(w, i, r)', Uses(w, j, s)'
       PROVE  i = j /\ r = s
  <2>1. \A n \in DOMAIN conns, x, y \in Remotes : n # k /\ Uses(w, n, x)' /\ Uses(w, k, y)' => FALSE
    BY <1>1, <1>4, <1>6, <1>7
  <2> QED BY <1>1, <1>4, <1>8, <1>11, <2>1, SMTT(20)
<1>12. ASSUME NEW w \in fpScenario.words, pool'[w] = 0, w \notin local'
       PROVE  \E i \in DOMAIN conns', r \in Remotes : Uses(w, i, r)'
  <2>1. w \in Words
    BY FpAssumption, Zenon DEF FpInv, FpTypeOK
  <2>2. CASE w \in Range(W)
    BY <1>1, <1>6, <2>2, Zenon
  <2>3. CASE w \notin Range(W)
    <3>1. w \notin Range(old) /\ pool[w] = 0
      BY <1>7, <1>12, <2>1, <2>3
    <3>2. PICK i \in DOMAIN conns, r \in Remotes : Uses(w, i, r)
      BY <1>1, <1>12, <3>1, Zenon
    <3> QED BY <1>1, <1>4, <1>6, <3>1, <3>2
  <2> QED BY <2>2, <2>3, Zenon
<1> QED BY <1>1, <1>7, <1>9, <1>10, <1>11, <1>12

\* Open, closing and opening exclude each other.
LEMMA Apart ==
  ASSUME FpInv
  PROVE  /\ \A p \in DOMAIN peers : IsOpen(peers[p]) /\ Live(peers[p]) /\ peers[p] \in DOMAIN conns
                                    /\ conns[peers[p]].peer = p /\ ~InFlight(peers[p]) /\ peers[p] # gate
         /\ ~GateFree => Live(gate) /\ gate \in DOMAIN conns /\ ~IsOpen(gate) /\ ~InFlight(gate)
         /\ \A i \in DOMAIN conns : IsOpen(i) => conns[i].peer \in DOMAIN peers /\ peers[conns[i].peer] = i
<1>1. Owners /\ conns \in Seq(ConnType)
  BY Zenon DEF FpInv, FpTypeOK
<1>2. \A i \in DOMAIN conns : i # NoLink
  BY <1>1, Typed, Zenon
<1>3. \A p \in DOMAIN peers : IsOpen(peers[p]) /\ ~InFlight(peers[p])
  BY <1>1 DEF Owners, IsOpen, InFlight
<1>4. ~GateFree => gate \in DOMAIN conns /\ ~IsOpen(gate) /\ ~InFlight(gate)
  BY <1>1, Zenon DEF Owners, InFlight
<1>5. \A p \in DOMAIN peers : peers[p] # gate
  BY <1>1, <1>2, <1>3, <1>4, Zenon DEF Owners, GateFree
<1>6. \A i \in DOMAIN conns : IsOpen(i) => conns[i].peer \in DOMAIN peers /\ peers[conns[i].peer] = i
  BY Zenon DEF IsOpen
<1> QED BY <1>1, <1>3, <1>4, <1>5, <1>6, Zenon DEF Owners, Live

\* No two open or closing connections, or one of them and k, share a word.
LEMMA Disjoint ==
  ASSUME conns \in Seq(ConnType), WordInv, NEW i \in DOMAIN conns, NEW j \in DOMAIN conns, Live(i), Live(j), i # j
  PROVE  \A w : ~(w \in Locals(i) /\ w \in Locals(j))
<1> SUFFICES ASSUME NEW w, w \in Locals(i), w \in Locals(j) PROVE FALSE
  BY Zenon
<1>1. w \in Words /\ (\E r \in Remotes : Uses(w, i, r)) /\ (\E r \in Remotes : Uses(w, j, r))
  BY UsesLocal, Zenon DEF Uses
<1> QED BY <1>1, Zenon DEF WordInv

LEMMA DisjointAfter ==
  ASSUME conns' \in Seq(ConnType), WordInv', NEW i \in DOMAIN conns', NEW j \in DOMAIN conns', Live(i)', Live(j)', i # j
  PROVE  \A w : ~(w \in Locals(i)' /\ w \in Locals(j)')
<1> SUFFICES ASSUME NEW w, w \in Locals(i)', w \in Locals(j)' PROVE FALSE
  BY Zenon
<1>1. /\ conns'[i].words \in WordsType /\ conns'[j].words \in WordsType
  <2>1. conns'[i] \in ConnType /\ conns'[j] \in ConnType
    OBVIOUS
  <2> QED BY <2>1, Zenon DEF ConnType
<1>2. w \in Words /\ (\E r \in Remotes : Uses(w, i, r)') /\ (\E r \in Remotes : Uses(w, j, r)')
  BY <1>1, WordsIn, Zenon DEF Uses, Locals
<1> QED BY <1>2, Zenon DEF WordInv

\* An open connection's words change, and the index with them.
LEMMA SharesIndex ==
  ASSUME FpInv, Still, WordInv', NEW k \in DOMAIN conns, IsOpen(k), GateFree,
         \A j \in DOMAIN conns : j # k => conns'[j].words = conns[j].words,
         index' = [w \in DOMAIN index' |-> index'[w]],
         DOMAIN index' = (DOMAIN index \ Locals(k)) \union Locals(k)',
         \A w \in Locals(k)' : index'[w] = conns[k].peer,
         \A w \in DOMAIN index \ (Locals(k) \union Locals(k)') : index'[w] = index[w]
  PROVE  IndexInv'
<1>1. /\ IndexInv /\ DOMAIN conns' = DOMAIN conns /\ UNCHANGED <<peers, gate>>
      /\ conns \in Seq(ConnType) /\ conns' \in Seq(ConnType) /\ WordInv
  BY Zenon DEF FpInv, FpTypeOK, Still
<1>2. /\ \A p \in DOMAIN peers : Live(peers[p]) /\ peers[p] \in DOMAIN conns /\ conns[peers[p]].peer = p
      /\ conns[k].peer \in DOMAIN peers /\ peers[conns[k].peer] = k /\ Live(k)
  BY Apart, Zenon
<1>3. \A i \in DOMAIN conns : Live(i)' <=> Live(i)
  BY StillOwners, Zenon
<1>4. \A i \in DOMAIN conns : i # k => Locals(i)' = Locals(i)
  BY Zenon DEF Locals
<1>5. \A i \in DOMAIN conns : i # k /\ Live(i) => \A w : w \in Locals(i) => w \notin Locals(k) /\ w \notin Locals(k)'
  BY <1>1, <1>2, <1>3, <1>4, Disjoint, DisjointAfter
<1>6. \A p \in DOMAIN peers : p # conns[k].peer => peers[p] # k
  BY <1>2, Zenon
<1> DEFINE N(i) == Range(conns'[i].words)
<1>7. \A p \in DOMAIN peers : N(peers[p]) = IF p = conns[k].peer THEN N(k) ELSE Locals(peers[p])
  BY <1>1, <1>2, <1>4, <1>6, Zenon DEF Locals
<1>8. N(k) = Locals(k)' /\ \A i \in DOMAIN conns : N(i) = Locals(i)'
  BY Zenon DEF Locals
<1> HIDE DEF N
<1>9. \A p \in DOMAIN peers : \A w \in N(peers[p]) : w \in DOMAIN index' /\ index'[w] = p
  BY <1>1, <1>2, <1>5, <1>6, <1>7, <1>8 DEF IndexInv
<1>10. ASSUME NEW w \in DOMAIN index'
       PROVE  index'[w] \in DOMAIN peers /\ w \in N(peers[index'[w]])
  <2>1. CASE w \in N(k)
    BY <1>2, <1>7, <1>8, <2>1, Zenon
  <2>2. CASE w \notin N(k)
    <3>1. w \in DOMAIN index /\ w \notin Locals(k) /\ index'[w] = index[w]
      BY <1>8, <1>10, <2>2, Zenon
    <3>2. index[w] \in DOMAIN peers /\ w \in Locals(peers[index[w]])
      BY <1>1, <3>1, Zenon DEF IndexInv
    <3>3. index[w] # conns[k].peer
      BY <1>2, <3>1, <3>2, Zenon
    <3> QED BY <1>7, <3>1, <3>2, <3>3, Zenon
  <2> QED BY <2>1, <2>2, Zenon
<1> QED BY <1>1, <1>9, <1>10, Zenon DEF IndexInv, N, Locals

\* A connection's words, tunnel or task change.
Moves(new, old) ==
  /\ new \in ConnType /\ new.peer = old.peer
  /\ new.task = "none" <=> old.task = "none"
  /\ new.task = "handling" => new.hand # <<>>
  /\ new.task = "reopened" => new.next # <<>>

LEMMA StillMoves ==
  ASSUME FpInv, DOMAIN conns' = DOMAIN conns, conns' = [i \in DOMAIN conns' |-> conns'[i]],
         \A i \in DOMAIN conns : Moves(conns'[i], conns[i]),
         pool' \in [Words -> Int], local' \subseteq Words,
         TunnelNumbers',
         UNCHANGED <<fpScenario, remote, peers, guis, gate>>
  PROVE  Still
<1>1. conns \in Seq(ConnType) /\ \A i \in DOMAIN conns : conns'[i] \in ConnType
  BY Zenon DEF FpInv, FpTypeOK, Moves
<1>2. conns' \in Seq(ConnType)
  BY <1>1, AllConns, Zenon
<1>3. \A j \in DOMAIN conns : /\ conns'[j].peer = conns[j].peer
                              /\ conns'[j].task = "none" <=> conns[j].task = "none"
                              /\ InHand(j)'
  BY Zenon DEF Moves, InHand
<1>4. /\ guis' \in [Guis -> GuiType]
      /\ \A g \in Guis : /\ guis'[g].at # "idle" => guis'[g].peer \in Peers
                         /\ guis'[g].at = "drawing" <=> guis[g].at = "drawing"
                         /\ guis[g].at = "drawing" => guis'[g] = guis[g]
  BY UnchangedGuis, Zenon
<1>5. remote' \in [Peers -> PeerType]
  BY Zenon DEF FpInv, FpTypeOK
<1> QED BY <1>2, <1>3, <1>4, <1>5, Zenon DEF Still

LEMMA MovesSelf ==
  ASSUME FpInv, NEW i \in DOMAIN conns
  PROVE  Moves(conns[i], conns[i])
<1>1. conns[i] \in ConnType /\ InHand(i)
  BY KeepsSelf, Zenon DEF FpInv, Owners
<1> QED BY <1>1, Zenon DEF Moves, InHand

LEMMA StillConn ==
  ASSUME FpInv, NEW i \in DOMAIN conns, NEW new, Moves(new, conns[i]), conns' = [conns EXCEPT ![i] = new],
         pool' \in [Words -> Int], TunnelNumbers',
         UNCHANGED <<fpScenario, local, remote, peers, guis, gate>>
  PROVE  /\ Still /\ conns'[i] = new /\ \A j \in DOMAIN conns : j # i => conns'[j] = conns[j]
<1>1. conns \in Seq(ConnType) /\ new \in ConnType /\ local' \subseteq Words
  BY Zenon DEF FpInv, FpTypeOK, Moves
<1>2. /\ conns' \in Seq(ConnType) /\ DOMAIN conns' = DOMAIN conns
      /\ conns'[i] = new /\ \A j \in DOMAIN conns : j # i => conns'[j] = conns[j]
  BY <1>1, OneConn, Zenon
<1>3. \A j \in DOMAIN conns : Moves(conns'[j], conns[j])
  BY <1>2, MovesSelf, Zenon
<1>4. conns' = [j \in DOMAIN conns' |-> conns'[j]]
  BY <1>2, Zenon
<1> QED BY <1>1, <1>2, <1>3, <1>4, StillMoves, Zenon

LEMMA Numbered ==
  ASSUME FpInv, tunnels' \subseteq tunnels
  PROVE  TunnelNumbers'
BY FewerTunnels, Zenon DEF FpInv, FpTypeOK

\* The words of a connection that is still being opened are not in the index.
LEMMA SharesAside ==
  ASSUME FpInv, Still, UNCHANGED index, NEW k \in DOMAIN conns, InFlight(k),
         \A j \in DOMAIN conns : j # k => conns'[j].words = conns[j].words
  PROVE  IndexInv'
<1>1. IndexInv /\ UNCHANGED <<peers, gate, index>>
  BY Zenon DEF FpInv, Still
<1>2. \A p \in DOMAIN peers : peers[p] \in DOMAIN conns /\ peers[p] # k
  BY Apart, Zenon
<1>3. ~GateFree => gate \in DOMAIN conns /\ gate # k
  BY Apart, Zenon
<1>4. \A p \in DOMAIN peers : Locals(peers[p])' = Locals(peers[p])
  BY <1>1, <1>2, Zenon DEF Locals
<1>5. ~GateFree => Locals(gate)' = Locals(gate)
  BY <1>1, <1>3, Zenon DEF Locals
<1> QED BY <1>1, <1>4, <1>5 DEF IndexInv, GateFree

LEMMA SetWords ==
  ASSUME NEW c \in ConnType, NEW W \in WordsType
  PROVE  /\ [c EXCEPT !.words = W] \in ConnType
         /\ [c EXCEPT !.words = W].peer = c.peer /\ [c EXCEPT !.words = W].tunnel = c.tunnel
         /\ [c EXCEPT !.words = W].words = W /\ [c EXCEPT !.words = W].task = c.task
         /\ [c EXCEPT !.words = W].hand = c.hand /\ [c EXCEPT !.words = W].next = c.next
<1>1. [c EXCEPT !.words = W] \in ConnType
  BY Zenon DEF ConnType
<1> QED BY <1>1, Zenon DEF ConnType

\* A live connection's own words: they are its uses, and in no other place.
LEMMA LiveWords ==
  ASSUME FpInv, NEW k \in DOMAIN conns, Live(k)
  PROVE  /\ conns[k] \in ConnType /\ conns[k].words \in WordsType /\ Locals(k) = Range(conns[k].words)
         /\ Locals(k) \subseteq Words
         /\ \A w \in Locals(k) : pool[w] = 0 /\ w \notin local
         /\ \A r, s \in DOMAIN conns[k].words : conns[k].words[r] = conns[k].words[s] => r = s
<1>1. conns[k] \in ConnType /\ conns \in Seq(ConnType)
  BY KeepsSelf, Zenon DEF FpInv, FpTypeOK
<1>2. conns[k].words \in WordsType
  BY <1>1, Zenon DEF ConnType
<1>3. DOMAIN conns[k].words \subseteq Remotes /\ \A r \in DOMAIN conns[k].words : conns[k].words[r] \in Words
  BY <1>2, WordsIn, Zenon
<1>4. WordInv
  BY Zenon DEF FpInv
<1>5. \A r, s \in DOMAIN conns[k].words : conns[k].words[r] = conns[k].words[s] => r = s
  BY <1>3, <1>4 DEF WordInv, Uses
<1>6. \A w \in Locals(k) : w \in Words /\ \E r \in Remotes : Uses(w, k, r)
  BY <1>1, UsesLocal, Zenon DEF Uses
<1>7. \A w \in Locals(k) : pool[w] = 0 /\ w \notin local
  BY <1>4, <1>6 DEF WordInv
<1> QED BY <1>1, <1>2, <1>5, <1>6, <1>7, Zenon DEF Locals

LEMMA PutShares ==
  ASSUME FpInv, NEW k \in DOMAIN conns, Live(k), NEW r \in Remotes, r \notin DOMAIN conns[k].words,
         NEW w \in Available, pool' = Drawn(w), NEW W, W = Put(conns[k].words, r, w)
  PROVE  /\ W \in WordsType /\ Shares(W, conns[k].words) /\ pool' \in [Words -> Int]
         /\ Range(W) = Range(conns[k].words) \union {w}
<1> DEFINE old == conns[k].words
<1>1. /\ old \in WordsType /\ Range(old) \subseteq Words /\ \A v \in Range(old) : pool[v] = 0
      /\ \A s, t \in DOMAIN old : old[s] = old[t] => s = t
  BY LiveWords, Zenon
<1>2. w \in Words /\ pool[w] = 1 /\ pool \in [Words -> Int] /\ \A v \in Words : pool[v] \in {0, 1}
  BY DEF Available, FpInv, FpTypeOK, WordInv
<1>3. /\ pool' \in [Words -> Int] /\ pool'[w] = 0 /\ \A v \in Words : v # w => pool'[v] = pool[v]
  BY <1>2 DEF Drawn
<1> HIDE DEF old
<1>4. /\ W \in WordsType /\ DOMAIN W = DOMAIN old \union {r} /\ W[r] = w
      /\ \A s \in DOMAIN old : s # r => W[s] = old[s]
  BY <1>1, <1>2, PutWords DEF old
<1>5. r \notin DOMAIN old
  BY Zenon DEF old
<1>6. Range(old) = {old[s] : s \in DOMAIN old} /\ Range(W) = {W[s] : s \in DOMAIN W}
  BY Zenon DEF Range
<1>7. Range(W) = Range(old) \union {w}
  BY <1>4, <1>5, <1>6
<1>8. w \notin Range(old)
  BY <1>1, <1>2
<1>9. \A s, t \in DOMAIN W : W[s] = W[t] => s = t
  BY <1>1, <1>4, <1>5, <1>6, <1>8
<1>10. Shares(W, old)
  BY <1>1, <1>2, <1>3, <1>7, <1>8, <1>9, Zenon DEF Shares
<1> QED BY <1>3, <1>4, <1>7, <1>10, Zenon DEF old

LEMMA DrawWordKeeps ==
  ASSUME FpInv, NEW g \in Guis, UNCHANGED fpScenario, DrawWord(g)
  PROVE  FpInv'
<1> DEFINE i == guis[g].conn
<1>1. PICK r \in conns[i].list \ DOMAIN conns[i].words, w \in Available :
        /\ conns' = [conns EXCEPT ![i].words = Put(@, r, w)]
        /\ pool' = Drawn(w)
  BY Zenon DEF DrawWord
<1>2. /\ guis[g].at = "drawing" /\ UNCHANGED <<fpScenario, local, remote, peers, index, guis, gate, tunnels>>
  BY Zenon DEF DrawWord
<1>3. i \in DOMAIN conns /\ InFlight(i) /\ Live(i)
  BY <1>2, Zenon DEF FpInv, Owners, InFlight, Live
<1> DEFINE W == Put(conns[i].words, r, w)
           new == [conns[i] EXCEPT !.words = W]
<1>4. conns' = [conns EXCEPT ![i] = new]
  BY <1>1, Zenon
<1>5. conns[i] \in ConnType /\ Moves(conns[i], conns[i]) /\ r \in Remotes /\ r \notin DOMAIN conns[i].words
  <2>1. conns[i] \in ConnType /\ Moves(conns[i], conns[i])
    BY <1>3, MovesSelf, KeepsSelf, Zenon
  <2>2. conns[i].list \subseteq Remotes
    BY <2>1, Zenon DEF ConnType
  <2> QED BY <1>1, <2>1, <2>2, Zenon
<1>6. W \in WordsType /\ Shares(W, conns[i].words) /\ pool' \in [Words -> Int]
  BY <1>1, <1>3, <1>5, PutShares, ZenonT(60)
<1> HIDE DEF W
<1>7. Moves(new, conns[i]) /\ new.words = W /\ new.tunnel = conns[i].tunnel /\ new.task = conns[i].task /\ new.next = conns[i].next
  BY <1>5, <1>6, SetWords DEF Moves
<1> HIDE DEF new, i
<1>8. TunnelNumbers'
  BY <1>2, Numbered, Zenon
<1>9. /\ Still /\ conns'[i] = new /\ \A j \in DOMAIN conns : j # i => conns'[j] = conns[j]
  BY <1>2, <1>3, <1>4, <1>6, <1>7, <1>8, StillConn, Zenon
<1>10. WordInv'
  BY <1>2, <1>3, <1>6, <1>7, <1>9, SharesWords, Zenon
<1>11. IndexInv'
  BY <1>2, <1>3, <1>9, SharesAside, Zenon
<1>12. NoTunnelLeak'
  <2>1. SameTunnels
    BY <1>2, <1>7, <1>9, Zenon DEF SameTunnels
  <2> QED BY <1>9, <2>1, SameTunnelsKept, Zenon
<1> QED BY <1>9, <1>10, <1>11, <1>12, StillOwners, Zenon DEF FpInv

LEMMA OpenShares ==
  ASSUME FpInv, NEW k \in DOMAIN conns, IsOpen(k), GateFree,
         NEW new, Moves(new, conns[k]), conns' = [conns EXCEPT ![k] = new],
         Shares(new.words, conns[k].words), pool' \in [Words -> Int],
         index' = [w \in DOMAIN index' |-> index'[w]],
         DOMAIN index' = (DOMAIN index \ Range(conns[k].words)) \union Range(new.words),
         \A w \in Range(new.words) : index'[w] = conns[k].peer,
         \A w \in DOMAIN index \ (Range(conns[k].words) \union Range(new.words)) : index'[w] = index[w],
         TunnelNumbers',
         UNCHANGED <<fpScenario, local, remote, peers, guis, gate>>
  PROVE  /\ Still /\ WordInv' /\ IndexInv' /\ conns'[k] = new
         /\ \A j \in DOMAIN conns : j # k => conns'[j] = conns[j]
<1>1. Still /\ conns'[k] = new /\ \A j \in DOMAIN conns : j # k => conns'[j] = conns[j]
  BY StillConn, Zenon
<1>2. Live(k)
  BY Zenon DEF Live
<1>3. WordInv'
  BY <1>1, <1>2, SharesWords, Zenon
<1>4. Locals(k) = Range(conns[k].words) /\ Locals(k)' = Range(new.words)
  BY <1>1, Zenon DEF Locals
<1>5. IndexInv'
  BY <1>1, <1>3, <1>4, SharesIndex, Zenon
<1> QED BY <1>1, <1>3, <1>5, Zenon

\* The frame in hand.
LEMMA InHandFrame ==
  ASSUME FpInv, NEW i \in DOMAIN conns, conns[i].task = "handling"
  PROVE  /\ conns[i].hand[1].re \in {"created", "answer", "closed"} => conns[i].hand[1].word \in Remotes
         /\ conns[i].hand[1].re = "list" => conns[i].hand[1].words \in SUBSET Remotes
<1>1. conns[i] \in ConnType /\ InHand(i)
  BY KeepsSelf, Zenon DEF FpInv, Owners
<1>2. conns[i].hand \in Seq(FrameType) /\ conns[i].hand # <<>>
  BY <1>1, Zenon DEF ConnType, InHand
<1> DEFINE f == conns[i].hand[1]
<1>3. f \in FrameType
  BY <1>2
<1> HIDE DEF f
<1>4. CASE f \in [re : {"created", "answer", "closed"}, word : Remotes]
  BY <1>4, Zenon DEF f
<1>5. CASE f \in [re : {"list"}, words : SUBSET Remotes]
  BY <1>5, Zenon DEF f
<1> QED BY <1>3, <1>4, <1>5, Zenon DEF FrameType

\* The task has handled a frame that gave the connection other words.
LEMMA DoneWords ==
  ASSUME NEW c, NEW old, Keeps(c, old), NEW W \in WordsType
  PROVE  /\ Moves([c EXCEPT !.words = W], old) /\ [c EXCEPT !.words = W].words = W
         /\ [c EXCEPT !.words = W].tunnel = old.tunnel /\ [c EXCEPT !.words = W].task = c.task
         /\ [c EXCEPT !.words = W].next = c.next
<1>1. /\ c \in ConnType /\ c.peer = old.peer /\ c.tunnel = old.tunnel
      /\ c.task = "none" <=> old.task = "none"
      /\ c.task = "handling" => c.hand # <<>>
      /\ c.task = "reopened" => c.next # <<>>
  BY Zenon DEF Keeps
<1> DEFINE new == [c EXCEPT !.words = W]
<1>2. /\ new \in ConnType /\ new.peer = c.peer /\ new.tunnel = c.tunnel /\ new.words = W /\ new.task = c.task
      /\ new.hand = c.hand /\ new.next = c.next
  BY <1>1, SetWords, Zenon
<1> HIDE DEF new
<1>3. Moves(new, old) /\ new.words = W /\ new.tunnel = old.tunnel /\ new.task = c.task /\ new.next = c.next
  BY <1>1, <1>2, Zenon DEF Moves
<1> QED BY <1>3, Zenon DEF new

LEMMA RegisterCreatedKeeps ==
  ASSUME FpInv, NEW i \in DOMAIN conns, UNCHANGED fpScenario, RegisterCreated(i)
  PROVE  FpInv'
<1> DEFINE r == conns[i].hand[1].word
<1>1. /\ conns[i].task = "handling" /\ conns[i].hand[1].re = "answer" /\ GateFree
      /\ UNCHANGED <<fpScenario, local, remote, peers, guis, gate, tunnels>>
  BY Zenon DEF RegisterCreated, Frame
<1>2. r \in Remotes
  BY <1>1, InHandFrame, Zenon
<1>3. CASE ~(IsOpen(i) /\ r \notin DOMAIN conns[i].words /\ Available # {})
  <2>1. conns' = Done(i, "feeding") /\ UNCHANGED <<pool, index>>
    BY <1>3, Zenon DEF RegisterCreated
  <2> QED BY <1>1, <2>1, DoneOnly, Zenon
<1>4. CASE IsOpen(i) /\ r \notin DOMAIN conns[i].words /\ Available # {}
  <2>1. PICK w \in Available : /\ pool' = Drawn(w) /\ index' = Put(index, w, conns[i].peer)
                               /\ conns' = [Done(i, "feeding") EXCEPT ![i].words = Put(@, r, w)]
    BY <1>4, Zenon DEF RegisterCreated
  <2> DEFINE c == [conns[i] EXCEPT !.task = "feeding", !.hand = <<>>]
             W == Put(conns[i].words, r, w)
             new == [c EXCEPT !.words = W]
  <2>2. Done(i, "feeding") = [conns EXCEPT ![i] = c] /\ c.words = conns[i].words
    BY <1>1, DoneKeeps, Zenon DEF Keeps
  <2>3. conns' = [conns EXCEPT ![i] = new]
    <3> HIDE DEF c
    <3>1. [conns EXCEPT ![i] = c][i] = c
      BY Zenon
    <3> QED BY <2>1, <2>2, <3>1, Zenon
  <2>4. Live(i)
    BY <1>4, Zenon DEF Live
  <2>5. /\ W \in WordsType /\ Shares(W, conns[i].words) /\ pool' \in [Words -> Int]
        /\ Range(W) = Range(conns[i].words) \union {w}
    BY <1>2, <1>4, <2>1, <2>4, PutShares, Zenon
  <2>6. Moves(new, conns[i]) /\ new.words = W /\ new.tunnel = conns[i].tunnel
    <3>1. Keeps(c, conns[i]) /\ c.task = "feeding"
      BY <1>1, DoneKeeps, Zenon
    <3> HIDE DEF c, W
    <3> QED BY <2>5, <3>1, DoneWords
  <2>7. \A v \in Range(conns[i].words) : v \in DOMAIN index /\ index[v] = conns[i].peer
    BY <1>4, Apart, ZenonT(30) DEF FpInv, IndexInv, Locals
  <2> HIDE DEF W, c
  <2>8. /\ index' = [v \in DOMAIN index' |-> index'[v]] /\ DOMAIN index' = DOMAIN index \union {w}
        /\ index'[w] = conns[i].peer /\ \A v \in DOMAIN index : v # w => index'[v] = index[v]
    BY <2>1, Zenon DEF Put
  <2> HIDE DEF new, r
  <2>9. /\ DOMAIN index' = (DOMAIN index \ Range(conns[i].words)) \union Range(new.words)
        /\ \A v \in Range(new.words) : index'[v] = conns[i].peer
        /\ \A v \in DOMAIN index \ (Range(conns[i].words) \union Range(new.words)) : index'[v] = index[v]
    BY <2>5, <2>6, <2>7, <2>8, Zenon
  <2>10. TunnelNumbers'
    BY <1>1, Numbered, Zenon
  <2>11. /\ Still /\ WordInv' /\ IndexInv' /\ conns'[i] = new
         /\ \A j \in DOMAIN conns : j # i => conns'[j] = conns[j]
    BY <1>1, <1>4, <2>3, <2>5, <2>6, <2>8, <2>9, <2>10, OpenShares, Zenon
  <2>12. SameTunnels
    BY <1>1, <2>6, <2>11, Zenon DEF SameTunnels
  <2> QED BY <2>11, <2>12, SameTunnelsKept, StillOwners, Zenon DEF FpInv
<1> QED BY <1>3, <1>4, Zenon

LEMMA DropShares ==
  ASSUME FpInv, NEW k \in DOMAIN conns, Live(k), NEW w \in Locals(k), pool' = Released(pool, {w}),
         NEW S, S = {s \in DOMAIN conns[k].words : conns[k].words[s] # w}
  PROVE  /\ Restrict(conns[k].words, S) \in WordsType /\ Shares(Restrict(conns[k].words, S), conns[k].words)
         /\ pool' \in [Words -> Int]
         /\ Range(Restrict(conns[k].words, S)) = Range(conns[k].words) \ {w}
<1> DEFINE old == conns[k].words
           W == Restrict(old, S)
<1>1. /\ old \in WordsType /\ Range(old) \subseteq Words /\ \A v \in Range(old) : pool[v] = 0
      /\ w \in Range(old) /\ \A s, t \in DOMAIN old : old[s] = old[t] => s = t
  BY LiveWords, Zenon
<1>2. pool \in [Words -> Int] /\ \A v \in Words : pool[v] \in {0, 1}
  BY Zenon DEF FpInv, FpTypeOK, WordInv
<1>3. w \in Words /\ pool' \in [Words -> Int] /\ pool'[w] = 1 /\ \A v \in Words : v # w => pool'[v] = pool[v]
  BY <1>1, <1>2 DEF Released
<1>4. S \subseteq DOMAIN old /\ \A s \in DOMAIN old : s \in S <=> old[s] # w
  BY Zenon
<1> HIDE DEF old
<1>5. W \in WordsType /\ DOMAIN W = S /\ \A s \in S : W[s] = old[s]
  <2>1. \A T \in SUBSET DOMAIN old : /\ Restrict(old, T) \in WordsType /\ DOMAIN Restrict(old, T) = T
                                    /\ \A s \in T : Restrict(old, T)[s] = old[s]
    BY <1>1, RestrictWords, Zenon
  <2> QED BY <1>4, <2>1, Zenon
<1> HIDE DEF W
<1>6. Range(old) = {old[s] : s \in DOMAIN old} /\ Range(W) = {W[s] : s \in DOMAIN W}
  BY Zenon DEF Range
<1>7. Range(W) = Range(old) \ {w}
  BY <1>4, <1>5, <1>6, Zenon
<1>8. \A s, t \in DOMAIN W : W[s] = W[t] => s = t
  BY <1>1, <1>4, <1>5, Zenon
<1>9. Shares(W, old)
  BY <1>1, <1>2, <1>3, <1>7, <1>8, Zenon DEF Shares
<1> QED BY <1>3, <1>5, <1>7, <1>9, Zenon DEF old, W

LEMMA OnSessionClosedKeeps ==
  ASSUME FpInv, NEW i \in DOMAIN conns, UNCHANGED fpScenario, OnSessionClosed(i)
  PROVE  FpInv'
<1> DEFINE r == conns[i].hand[1].word
           w == conns[i].words[r]
           j == ConnForWord(w)
<1>1. /\ conns[i].task = "handling" /\ GateFree
      /\ UNCHANGED <<fpScenario, local, remote, peers, guis, gate, tunnels>>
  BY Zenon DEF OnSessionClosed, Frame
<1>2. CASE r \notin DOMAIN conns[i].words
  <2>1. conns' = Done(i, "feeding") /\ UNCHANGED <<pool, index>>
    BY <1>2, Zenon DEF OnSessionClosed
  <2> QED BY <1>1, <2>1, DoneOnly, Zenon
<1>3. CASE r \in DOMAIN conns[i].words /\ j = NoLink
  <2>1. conns' = Done(i, "feeding") /\ UNCHANGED <<pool, index>>
    BY <1>3, Zenon DEF OnSessionClosed, UnregisterSession
  <2> QED BY <1>1, <2>1, DoneOnly, Zenon
<1>4. CASE r \in DOMAIN conns[i].words /\ j # NoLink
  <2> DEFINE cs == Done(i, "feeding")
             W == Restrict(conns[j].words, {s \in DOMAIN conns[j].words : conns[j].words[s] # w})
             new == [cs[j] EXCEPT !.words = W]
  <2>1. /\ w \in DOMAIN index /\ index[w] \in DOMAIN peers /\ j = peers[index[w]]
    BY <1>4, ZenonT(30) DEF ConnForWord
  <2>2. j \in DOMAIN conns /\ IsOpen(j) /\ Live(j) /\ conns[j].peer = index[w]
    BY <2>1, Apart, ZenonT(120)
  <2>3. w \in Locals(j)
    BY <1>1, <2>1, Zenon DEF FpInv, IndexInv
  <2>4. /\ conns' = [cs EXCEPT ![j].words = Restrict(@, {s \in DOMAIN @ : @[s] # w})]
        /\ index' = Restrict(index, DOMAIN index \ {w}) /\ pool' = Released(pool, {w})
    BY <1>4, Zenon DEF OnSessionClosed, UnregisterSession
  <2>5. /\ DOMAIN cs = DOMAIN conns /\ \A n \in DOMAIN conns : Keeps(cs[n], conns[n])
        /\ \A n \in DOMAIN conns : conns[n].task = "reopened" => cs[n] = conns[n]
    <3> DEFINE c == [conns[i] EXCEPT !.task = "feeding", !.hand = <<>>]
    <3>1. cs = [conns EXCEPT ![i] = c] /\ Keeps(c, conns[i])
      BY <1>1, DoneKeeps, Zenon
    <3> HIDE DEF c, cs
    <3>2. DOMAIN cs = DOMAIN conns /\ cs[i] = c /\ \A n \in DOMAIN conns : n # i => cs[n] = conns[n]
      BY <3>1, Zenon
    <3> QED BY <1>1, <3>1, <3>2, KeepsSelf, Zenon
  <2> HIDE DEF cs
  <2>6. Keeps(cs[j], conns[j]) /\ cs[j].words = conns[j].words
    BY <2>2, <2>5, ZenonT(30) DEF Keeps
  <2>7. conns' = [cs EXCEPT ![j] = new]
    BY <2>4, <2>6, Zenon
  <2>8. /\ W \in WordsType /\ Shares(W, conns[j].words) /\ pool' \in [Words -> Int]
        /\ Range(W) = Range(conns[j].words) \ {w}
    <3> HIDE DEF j, w
    <3> QED BY <2>2, <2>3, <2>4, DropShares, Zenon
  <2> HIDE DEF W
  <2>9. /\ Moves(new, conns[j]) /\ new.words = W
        /\ new.tunnel = conns[j].tunnel /\ new.task = cs[j].task /\ new.next = cs[j].next
    BY <2>6, <2>8, DoneWords, Zenon
  <2> HIDE DEF new, j, w, r
  <2>10. /\ DOMAIN conns' = DOMAIN conns /\ conns' = [n \in DOMAIN conns' |-> conns'[n]]
         /\ conns'[j] = new /\ \A n \in DOMAIN conns : n # j => conns'[n] = cs[n]
    BY <2>2, <2>5, <2>7, Zenon
  <2>11. \A n \in DOMAIN conns : Moves(conns'[n], conns[n])
    BY <2>5, <2>9, <2>10 DEF Keeps, Moves
  <2>12. TunnelNumbers'
    BY <1>1, Numbered, Zenon
  <2>13. Still
    <3>1. local' \subseteq Words
      BY <1>1, Zenon DEF FpInv, FpTypeOK
    <3> QED BY <1>1, <2>8, <2>10, <2>11, <2>12, <3>1, StillMoves, Zenon
  <2>14. \A n \in DOMAIN conns : n # j => conns'[n].words = conns[n].words
    BY <2>5, <2>10, Zenon DEF Keeps
  <2>15. WordInv'
    BY <1>1, <2>2, <2>8, <2>9, <2>10, <2>13, <2>14, SharesWords, Zenon
  <2>16. IndexInv'
    <3> PICK k \in DOMAIN conns : k = j
      BY <2>2, Zenon
    <3>1. Locals(k) = Range(conns[k].words) /\ Locals(k)' = Range(conns[k].words) \ {w}
      BY <2>8, <2>9, <2>10, Zenon DEF Locals
    <3>2. \A v \in Locals(k) : v \in DOMAIN index /\ index[v] = conns[k].peer
      BY <2>1, <2>2, Zenon DEF FpInv, IndexInv
    <3>3. /\ index' = [v \in DOMAIN index' |-> index'[v]] /\ DOMAIN index' = DOMAIN index \ {w}
          /\ \A v \in DOMAIN index \ {w} : index'[v] = index[v]
      BY <2>4, Zenon DEF Restrict
    <3>4. w \in Locals(k)
      BY <2>3, Zenon
    <3>5. /\ DOMAIN index' = (DOMAIN index \ Locals(k)) \union Locals(k)'
          /\ \A v \in Locals(k)' : index'[v] = conns[k].peer
          /\ \A v \in DOMAIN index \ (Locals(k) \union Locals(k)') : index'[v] = index[v]
      BY <3>1, <3>2, <3>3, <3>4, Zenon
    <3>6. IsOpen(k)
      BY <2>2, Zenon
    <3> QED BY <1>1, <2>13, <2>14, <2>15, <3>3, <3>5, <3>6, SharesIndex, Zenon
  <2>17. SameTunnels
    BY <1>1, <2>5, <2>9, <2>10 DEF SameTunnels, Keeps
  <2> QED BY <2>13, <2>15, <2>16, <2>17, SameTunnelsKept, StillOwners, Zenon DEF FpInv
<1> QED BY <1>2, <1>3, <1>4, Zenon

\* The sessions that are gone give their words back before the new ones draw.
Reconciling(old, listed, gone, back, fresh, draws, both) ==
  /\ old \in WordsType /\ \A v \in Range(old) : pool[v] = 0
  /\ \A s, t \in DOMAIN old : old[s] = old[t] => s = t
  /\ listed \in SUBSET Remotes /\ both = DOMAIN old \cap listed
  /\ \A w : w \in gone <=> \E r \in DOMAIN old \ listed : old[r] = w
  /\ back = Released(pool, gone)
  /\ fresh \in SUBSET (listed \ DOMAIN old) /\ draws \in WordsType /\ DOMAIN draws = fresh
  /\ \A r \in fresh : back[draws[r]] > 0
  /\ \A r, s \in fresh : draws[r] = draws[s] => r = s
  /\ pool' \in [Words -> Int]
  /\ \A w \in Words : w \in Range(draws) => pool'[w] = back[w] - 1
  /\ \A w \in Words : w \notin Range(draws) => pool'[w] = back[w]

LEMMA ReconcileShares ==
  ASSUME FpInv, NEW old, NEW listed, NEW gone, NEW back, NEW fresh, NEW draws, NEW both,
         Reconciling(old, listed, gone, back, fresh, draws, both)
  PROVE  /\ Over(draws, Restrict(old, both)) \in WordsType /\ Shares(Over(draws, Restrict(old, both)), old)
         /\ gone \subseteq Range(old)
         /\ Range(Over(draws, Restrict(old, both))) = (Range(old) \ gone) \union Range(draws)
<1>h. /\ old \in WordsType /\ \A v \in Range(old) : pool[v] = 0
      /\ \A s, t \in DOMAIN old : old[s] = old[t] => s = t
      /\ listed \in SUBSET Remotes /\ both = DOMAIN old \cap listed
      /\ \A w : w \in gone <=> \E r \in DOMAIN old \ listed : old[r] = w
      /\ back = Released(pool, gone)
      /\ fresh \in SUBSET (listed \ DOMAIN old) /\ draws \in WordsType /\ DOMAIN draws = fresh
      /\ \A r \in fresh : back[draws[r]] > 0
      /\ \A r, s \in fresh : draws[r] = draws[s] => r = s
      /\ pool' \in [Words -> Int]
      /\ \A w \in Words : w \in Range(draws) => pool'[w] = back[w] - 1
      /\ \A w \in Words : w \notin Range(draws) => pool'[w] = back[w]
  BY Zenon DEF Reconciling
<1> USE <1>h
<1> DEFINE kept == Restrict(old, both)
           W == Over(draws, kept)
<1>1. /\ old \in WordsType /\ Range(old) \subseteq Words /\ \A v \in Range(old) : pool[v] = 0
      /\ \A s, t \in DOMAIN old : old[s] = old[t] => s = t
  BY WordsIn, Zenon
<1>2. DOMAIN old \subseteq Remotes /\ Range(old) = {old[r] : r \in DOMAIN old}
  BY <1>1, WordsIn, Zenon
<1>3. gone \subseteq Range(old) /\ \A r \in DOMAIN old : old[r] \in gone <=> r \notin listed
  BY <1>1, <1>2
<1>4. pool \in [Words -> Int] /\ \A v \in Words : pool[v] \in {0, 1}
  BY Zenon DEF FpInv, FpTypeOK, WordInv
<1>5. /\ \A v \in Words : v \in gone => back[v] = 1
      /\ \A v \in Words : v \notin gone => back[v] = pool[v]
  BY <1>1, <1>3, <1>4 DEF Released
<1>6. draws \in WordsType /\ Range(draws) = {draws[r] : r \in fresh}
  BY Zenon DEF Range
<1>7. kept \in WordsType /\ DOMAIN kept = DOMAIN old \cap listed /\ \A r \in DOMAIN old \cap listed : kept[r] = old[r]
  <2>1. both \in SUBSET DOMAIN old
    BY Zenon
  <2>2. \A T \in SUBSET DOMAIN old : /\ Restrict(old, T) \in WordsType /\ DOMAIN Restrict(old, T) = T
                                    /\ \A s \in T : Restrict(old, T)[s] = old[s]
    BY <1>1, RestrictWords, Zenon
  <2>3. kept \in WordsType /\ DOMAIN kept = both /\ \A r \in both : kept[r] = old[r]
    BY <2>1, <2>2, Zenon
  <2> HIDE DEF kept
  <2> QED BY <2>3, Zenon
<1> HIDE DEF kept
<1>8. /\ W \in WordsType /\ DOMAIN W = fresh \union (DOMAIN old \cap listed)
      /\ \A r \in fresh : W[r] = draws[r]
      /\ \A r \in DOMAIN old \cap listed : W[r] = old[r]
  <2>1. /\ W \in WordsType /\ DOMAIN W = DOMAIN draws \union DOMAIN kept
        /\ \A r \in DOMAIN draws : W[r] = draws[r]
        /\ \A r \in DOMAIN kept : r \notin DOMAIN draws => W[r] = kept[r]
    <3>1. draws \in WordsType /\ kept \in WordsType
      BY <1>6, <1>7, Zenon
    <3>2. W \in WordsType
      BY <3>1, OverWords, Zenon
    <3>3. DOMAIN W = DOMAIN draws \union DOMAIN kept
      BY <3>1, OverWords, ZenonT(120)
    <3>4. \A r \in DOMAIN draws : W[r] = draws[r]
      BY Zenon DEF Over
    <3>5. \A r \in DOMAIN kept : r \notin DOMAIN draws => W[r] = kept[r]
      BY Zenon DEF Over
    <3> QED BY <3>2, <3>3, <3>4, <3>5, Zenon
  <2>2. DOMAIN draws = fresh
    BY Zenon
  <2> HIDE DEF W
  <2> QED BY <1>7, <2>1, <2>2, Zenon
<1> HIDE DEF W
<1>9. Range(W) = {W[r] : r \in DOMAIN W}
  BY Zenon DEF Range
<1>10. Range(W) = (Range(old) \ gone) \union Range(draws)
  BY <1>2, <1>3, <1>6, <1>8, <1>9
<1>11. \A v \in Range(draws) : v \in Words /\ back[v] = 1 /\ (v \in gone \/ pool[v] = 1)
  BY <1>4, <1>5, <1>6, WordsIn
<1>12. /\ pool' \in [Words -> Int]
       /\ \A v \in Words : v \in Range(draws) => pool'[v] = 0
       /\ \A v \in Words : v \notin Range(draws) => pool'[v] = back[v]
  BY <1>4, <1>5, <1>11
<1>13. \A r, s \in DOMAIN W : W[r] = W[s] => r = s
  <2>1. \A r \in DOMAIN old \cap listed, s \in fresh : W[r] # W[s]
    BY <1>1, <1>2, <1>3, <1>6, <1>8, <1>11
  <2> QED BY <1>1, <1>8, <2>1
<1>14. Shares(W, old)
  BY <1>1, <1>3, <1>4, <1>5, <1>10, <1>11, <1>12, <1>13 DEF Shares
<1> QED BY <1>3, <1>8, <1>10, <1>12, <1>14, ZenonT(30) DEF W, kept

LEMMA MovesWords ==
  ASSUME NEW c, NEW old, Moves(c, old), NEW W \in WordsType
  PROVE  /\ Moves([c EXCEPT !.words = W], old) /\ [c EXCEPT !.words = W].words = W
         /\ [c EXCEPT !.words = W].tunnel = c.tunnel /\ [c EXCEPT !.words = W].task = c.task
         /\ [c EXCEPT !.words = W].next = c.next
<1>1. /\ c \in ConnType /\ c.peer = old.peer
      /\ c.task = "none" <=> old.task = "none"
      /\ c.task = "handling" => c.hand # <<>>
      /\ c.task = "reopened" => c.next # <<>>
  BY Zenon DEF Moves
<1> DEFINE new == [c EXCEPT !.words = W]
<1>2. /\ new \in ConnType /\ new.peer = c.peer /\ new.tunnel = c.tunnel /\ new.words = W /\ new.task = c.task
      /\ new.hand = c.hand /\ new.next = c.next
  BY <1>1, SetWords, Zenon
<1> HIDE DEF new
<1>3. Moves(new, old) /\ new.words = W /\ new.tunnel = c.tunnel /\ new.task = c.task /\ new.next = c.next
  BY <1>1, <1>2, Zenon DEF Moves
<1> QED BY <1>3, Zenon DEF new

LEMMA ReconciledKeeps ==
  ASSUME FpInv, NEW i \in DOMAIN conns, IsOpen(i), GateFree,
         NEW c, Moves(c, conns[i]), c.words = conns[i].words, NEW cs, cs = [conns EXCEPT ![i] = c],
         NEW listed \in SUBSET Remotes, Reconciled(cs, i, listed),
         TunnelNumbers',
         UNCHANGED <<fpScenario, local, remote, peers, guis, gate>>
  PROVE  /\ Still /\ WordInv' /\ IndexInv' /\ \A j \in DOMAIN conns : j # i => conns'[j] = conns[j]
         /\ conns'[i].tunnel = c.tunnel /\ conns'[i].task = c.task /\ conns'[i].next = c.next
<1> DEFINE old == conns[i].words
           gone == {old[r] : r \in DOMAIN old \ listed}
           both == DOMAIN old \cap listed
           back == Released(pool, gone)
           free == {w \in Words : back[w] > 0}
           peer == conns[i].peer
<1>1. Live(i)
  BY Zenon DEF Live
<1>2. /\ old \in WordsType /\ Range(old) \subseteq Words /\ \A v \in Range(old) : pool[v] = 0
      /\ \A s, t \in DOMAIN old : old[s] = old[t] => s = t
  BY <1>1, LiveWords, Zenon
<1>f. PICK fresh \in SUBSET (listed \ DOMAIN old) : \E draws \in Injection(fresh, free) :
        /\ pool' = [w \in Words |-> back[w] - (IF w \in Range(draws) THEN 1 ELSE 0)]
        /\ index' = Over([w \in Range(draws) |-> peer], Restrict(index, DOMAIN index \ gone))
        /\ conns' = [cs EXCEPT ![i].words = Over(draws, Restrict(old, both))]
  BY Zenon DEF Reconciled
<1>3. PICK draws \in Injection(fresh, free) :
        /\ pool' = [w \in Words |-> back[w] - (IF w \in Range(draws) THEN 1 ELSE 0)]
        /\ index' = Over([w \in Range(draws) |-> peer], Restrict(index, DOMAIN index \ gone))
        /\ conns' = [cs EXCEPT ![i].words = Over(draws, Restrict(old, both))]
  BY <1>f, Zenon
<1>4. /\ \A w : w \in gone <=> \E r \in DOMAIN old \ listed : old[r] = w
      /\ free \subseteq Words /\ \A w \in free : back[w] > 0
  BY Zenon
<1>5. \A v \in Range(old) : v \in DOMAIN index /\ index[v] = peer
  BY Apart, Zenon DEF FpInv, IndexInv, Locals
<1> HIDE DEF old, gone, free, both, back, peer
<1>6. draws \in [fresh -> free] /\ \A r, s \in fresh : draws[r] = draws[s] => r = s
  BY Zenon DEF Injection, IsInjective
<1>7. fresh \in SUBSET Remotes /\ draws \in [fresh -> Words] /\ DOMAIN draws = fresh /\ \A r \in fresh : back[draws[r]] > 0
  BY <1>4, <1>6, Zenon
<1>8. draws \in WordsType
  BY <1>7, WordsOut, Zenon
<1> DEFINE W == Over(draws, Restrict(old, both))
           new == [c EXCEPT !.words = W]
<1>9. /\ W \in WordsType /\ Shares(W, old) /\ pool' \in [Words -> Int] /\ gone \subseteq Range(old)
      /\ Range(W) = (Range(old) \ gone) \union Range(draws)
  <2>1. both = DOMAIN old \cap listed /\ back = Released(pool, gone)
    BY Zenon DEF both, back
  <2>2. /\ old \in WordsType /\ \A v \in Range(old) : pool[v] = 0
        /\ \A s, t \in DOMAIN old : old[s] = old[t] => s = t
    BY <1>2, Zenon
  <2>3. /\ draws \in WordsType /\ DOMAIN draws = fresh /\ \A r \in fresh : back[draws[r]] > 0
        /\ \A r, s \in fresh : draws[r] = draws[s] => r = s
    BY <1>6, <1>7, <1>8, Zenon
  <2>4. \A w \in Words : back[w] \in Int
    <3>1. pool \in [Words -> Int]
      BY Zenon DEF FpInv, FpTypeOK
    <3> QED BY <2>1, <3>1 DEF Released
  <2>5. /\ pool' \in [Words -> Int] /\ \A w \in Words : w \in Range(draws) => pool'[w] = back[w] - 1
        /\ \A w \in Words : w \notin Range(draws) => pool'[w] = back[w]
    BY <1>3, <2>4
  <2>6. Reconciling(old, listed, gone, back, fresh, draws, both)
    BY <1>4, <2>1, <2>2, <2>3, <2>5, Zenon DEF Reconciling
  <2> QED BY <2>5, <2>6, ReconcileShares
<1>10. conns' = [conns EXCEPT ![i] = new]
  <2> HIDE DEF W
  <2>1. cs[i] = c
    BY Zenon
  <2>2. conns' = [cs EXCEPT ![i].words = W]
    BY <1>3, Zenon DEF W
  <2> QED BY <2>1, <2>2, ZenonT(30)
<1> HIDE DEF W
<1>11. Moves(new, conns[i]) /\ new.words = W /\ new.tunnel = c.tunnel /\ new.task = c.task /\ new.next = c.next
  BY <1>9, MovesWords
<1> HIDE DEF new
<1>12. /\ index' = [v \in DOMAIN index' |-> index'[v]]
       /\ DOMAIN index' = (DOMAIN index \ gone) \union Range(draws)
       /\ \A v \in Range(draws) : index'[v] = peer
       /\ \A v \in DOMAIN index \ gone : v \notin Range(draws) => index'[v] = index[v]
  BY <1>3, Zenon DEF Over, Restrict
<1>13. /\ DOMAIN index' = (DOMAIN index \ Range(old)) \union Range(W)
       /\ \A v \in Range(W) : index'[v] = peer
       /\ \A v \in DOMAIN index \ (Range(old) \union Range(W)) : index'[v] = index[v]
  BY <1>5, <1>9, <1>12, Zenon
<1>14. /\ Still /\ WordInv' /\ IndexInv' /\ conns'[i] = new
       /\ \A j \in DOMAIN conns : j # i => conns'[j] = conns[j]
  BY <1>9, <1>10, <1>11, <1>12, <1>13, OpenShares, Zenon DEF old, peer
<1> QED BY <1>11, <1>14, Zenon

LEMMA OnSessionListKeeps ==
  ASSUME FpInv, NEW i \in DOMAIN conns, UNCHANGED fpScenario, OnSessionList(i)
  PROVE  FpInv'
<1> DEFINE listed == conns[i].hand[1].words
<1>1. /\ conns[i].task = "handling" /\ conns[i].hand[1].re = "list" /\ GateFree
      /\ UNCHANGED <<fpScenario, local, remote, peers, guis, gate, tunnels>>
  BY Zenon DEF OnSessionList, Frame
<1>2. CASE ~IsOpen(i)
  <2>1. conns' = Done(i, "listing") /\ UNCHANGED <<pool, index>>
    BY <1>2, Zenon DEF OnSessionList
  <2> QED BY <1>1, <2>1, DoneOnly, Zenon
<1>3. CASE IsOpen(i)
  <2> DEFINE c == [conns[i] EXCEPT !.task = "listing", !.hand = <<>>]
  <2>1. Reconciled(Done(i, "listing"), i, listed)
    BY <1>3, Zenon DEF OnSessionList
  <2>2. Done(i, "listing") = [conns EXCEPT ![i] = c] /\ Keeps(c, conns[i]) /\ c.task = "listing"
    BY <1>1, DoneKeeps, Zenon
  <2>3. listed \in SUBSET Remotes
    BY <1>1, InHandFrame, Zenon
  <2> HIDE DEF c, listed
  <2>4. Moves(c, conns[i]) /\ c.words = conns[i].words /\ c.tunnel = conns[i].tunnel
    BY <2>2, Zenon DEF Keeps, Moves
  <2>5. TunnelNumbers'
    BY <1>1, Numbered, Zenon
  <2>6. /\ Still /\ WordInv' /\ IndexInv' /\ \A j \in DOMAIN conns : j # i => conns'[j] = conns[j]
        /\ conns'[i].tunnel = c.tunnel /\ conns'[i].task = c.task /\ conns'[i].next = c.next
    BY <1>1, <1>3, <2>1, <2>2, <2>3, <2>4, <2>5, ReconciledKeeps, Zenon
  <2>7. SameTunnels
    BY <1>1, <2>4, <2>6, Zenon DEF SameTunnels
  <2> QED BY <2>6, <2>7, SameTunnelsKept, StillOwners, Zenon DEF FpInv
<1> QED BY <1>2, <1>3, Zenon

=============================================================================
