--------------------------- MODULE FedPeersProofs ---------------------------
(***************************************************************************)
(* NoTunnelLeak and WordOwnedOnce of FedPeers, for any peers, sessions,    *)
(* words and GUIs: the steps that re-open a link, open a connection or end *)
(* one, and the theorems.                                                  *)
(***************************************************************************)
EXTENDS FedPeersShares

-----------------------------------------------------------------------------
(* A link re-opened by its task. *)

LEMMA ReopenKeeps ==
  ASSUME FpInv, NEW i \in DOMAIN conns, UNCHANGED fpScenario, Reopen(i)
  PROVE  FpInv'
<1> DEFINE up == [tunnel |-> NewTunnel, list |-> remote[conns[i].peer].hosts]
           new == [conns[i] EXCEPT !.task = "reopened", !.next = <<up>>, !.queue = <<>>]
<1>1. /\ conns[i].task = "reopening" /\ tunnels' = tunnels \union {NewTunnel}
      /\ UNCHANGED <<fpScenario, pool, local, remote, peers, index, guis, gate>>
  BY Zenon DEF Reopen, Connects
<1>2. conns' = [conns EXCEPT ![i] = new]
  BY Zenon DEF Reopen
<1>3. TunnelNumbers /\ TunnelNumbers'
  BY <1>1, OneMoreTunnel, Zenon DEF FpInv, FpTypeOK
<1>4. NewTunnel \in Nat /\ tunnels \subseteq Nat /\ \A t \in tunnels : t < NewTunnel
  BY <1>3, TunnelIsNew, Zenon
<1>5. conns[i] \in ConnType /\ remote \in [Peers -> PeerType]
  BY KeepsSelf, Zenon DEF FpInv, FpTypeOK
<1>6. up \in UpType /\ up.tunnel = NewTunnel
  <2>1. conns[i].peer \in Peers
    BY <1>5, Zenon DEF ConnType
  <2>2. remote[conns[i].peer].hosts \in SUBSET Remotes
    BY <1>5, <2>1, Zenon DEF PeerType
  <2> QED BY <1>4, <2>2, Zenon DEF UpType
<1> HIDE DEF up
<1>7. /\ Moves(new, conns[i]) /\ new.words = conns[i].words /\ new.tunnel = conns[i].tunnel
      /\ new.task = "reopened" /\ new.next = <<up>>
  <2>1. <<up>> \in Seq(UpType) /\ <<up>> # <<>> /\ << >> \in Seq(FrameType)
    BY <1>6
  <2>2. new \in ConnType
    BY <1>5, <2>1, Zenon DEF ConnType
  <2>3. new.peer = conns[i].peer /\ new.words = conns[i].words /\ new.tunnel = conns[i].tunnel
        /\ new.task = "reopened" /\ new.next = <<up>>
    BY <1>5, Zenon DEF ConnType
  <2> HIDE DEF new
  <2> QED BY <1>1, <2>1, <2>2, <2>3, Zenon DEF Moves
<1> HIDE DEF new
<1>8. pool' \in [Words -> Int]
  BY <1>1, Zenon DEF FpInv, FpTypeOK
<1>9. /\ Still /\ conns'[i] = new /\ \A j \in DOMAIN conns : j # i => conns'[j] = conns[j]
  BY <1>1, <1>2, <1>3, <1>7, <1>8, StillConn, Zenon
<1>10. SameWords
  BY <1>1, <1>7, <1>9, Zenon DEF SameWords
<1>11. NoTunnelLeak'
  <2>1. \A t, j : j \in DOMAIN conns /\ Holds(j, t) => Holds(j, t)'
    BY <1>1, <1>7, <1>9, StillOwners, Zenon DEF Holds
  <2>2. \A t \in tunnels : \E j \in DOMAIN conns : Holds(j, t)
    BY HeldIsNoLeak, Zenon DEF FpInv
  <2>3. \E j \in DOMAIN conns : j = i /\ conns'[j].task = "reopened" /\ conns'[j].next[1].tunnel = up.tunnel
    BY <1>7, <1>9
  <2>4. \E j \in DOMAIN conns : \A t : t = NewTunnel => Holds(j, t)'
    BY <1>6, <2>3, Zenon DEF Holds
  <2> QED BY <1>1, <1>9, <2>1, <2>2, <2>4, HeldIsNoLeak, Zenon DEF Still
<1> QED BY <1>9, <1>10, <1>11, SameWordsKept, StillOwners, Zenon DEF FpInv

\* The tunnel that gave way is no one's; what the task held is the connection's own now.
LEMMA RelinkSessionsKeeps ==
  ASSUME FpInv, NEW i \in DOMAIN conns, UNCHANGED fpScenario, RelinkSessions(i)
  PROVE  FpInv'
<1> DEFINE up == conns[i].next[1]
<1>1. /\ conns[i].task = "reopened" /\ GateFree
      /\ UNCHANGED <<fpScenario, local, remote, peers, guis, gate>>
  BY Zenon DEF RelinkSessions
<1>2. conns[i] \in ConnType /\ up \in UpType
  <2>1. conns[i] \in ConnType /\ conns[i].next # <<>>
    BY <1>1, KeepsSelf, ZenonT(60) DEF FpInv, Owners, InHand
  <2>2. conns[i].next \in Seq(UpType)
    BY <2>1, Zenon DEF ConnType
  <2> QED BY <2>1, <2>2, SMTT(20)
<1>3. up.tunnel \in Nat /\ up.list \in SUBSET Remotes
  BY <1>2, Zenon DEF UpType
<1>4. tunnels' \subseteq tunnels => TunnelNumbers'
  BY Numbered, Zenon
<1>5. \A t \in tunnels : \E j \in DOMAIN conns : Holds(j, t)
  BY HeldIsNoLeak, Zenon DEF FpInv
<1>6. CASE IsOpen(i)
  <2> DEFINE c == [conns[i] EXCEPT !.tunnel = up.tunnel, !.next = <<>>, !.dead = FALSE, !.wire = TRUE, !.task = "listing"]
             cs == [conns EXCEPT ![i] = c]
  <2>1. tunnels' = tunnels \ {conns[i].tunnel} /\ Reconciled(cs, i, up.list)
    BY <1>6, Zenon DEF RelinkSessions
  <2>2. c \in ConnType
    <3>1. << >> \in Seq(UpType)
      OBVIOUS
    <3> HIDE DEF up
    <3> QED BY <1>2, <1>3, <3>1, Zenon DEF ConnType
  <2>3. c.peer = conns[i].peer /\ c.words = conns[i].words /\ c.tunnel = up.tunnel /\ c.task = "listing"
    <3> HIDE DEF up
    <3> QED BY <1>2, <1>3, Zenon DEF ConnType
  <2> HIDE DEF c
  <2>4. Moves(c, conns[i])
    BY <1>1, <2>2, <2>3, Zenon DEF Moves
  <2>5. TunnelNumbers'
    BY <1>4, <2>1, Zenon
  <2>6. cs = [conns EXCEPT ![i] = c]
    BY Zenon
  <2>7. /\ Still /\ WordInv' /\ IndexInv' /\ \A j \in DOMAIN conns : j # i => conns'[j] = conns[j]
        /\ conns'[i].tunnel = c.tunnel /\ conns'[i].task = c.task
    <3> HIDE DEF cs, up
    <3> QED BY <1>1, <1>3, <1>6, <2>1, <2>3, <2>4, <2>5, <2>6, ReconciledKeeps, Zenon
  <2>8. \A t \in tunnels : t # conns[i].tunnel => \E j \in DOMAIN conns : Holds(j, t)'
    <3>1. Live(i)' /\ \A j \in DOMAIN conns : Live(j)' <=> Live(j)
      BY <1>6, <2>7, StillOwners, Zenon DEF Live
    <3> QED BY <1>5, <2>3, <2>7, <3>1 DEF Holds
  <2>9. NoTunnelLeak'
    BY <2>1, <2>7, <2>8, HeldIsNoLeak, Zenon DEF Still
  <2> QED BY <2>7, <2>9, StillOwners, Zenon DEF FpInv
<1>7. CASE ~IsOpen(i)
  <2> DEFINE new == [conns[i] EXCEPT !.task = "ended", !.next = <<>>]
  <2>1. tunnels' = tunnels \ {up.tunnel} /\ conns' = [conns EXCEPT ![i] = new] /\ UNCHANGED <<pool, index>>
    BY <1>7, Zenon DEF RelinkSessions
  <2>2. /\ Moves(new, conns[i]) /\ new.words = conns[i].words /\ new.tunnel = conns[i].tunnel /\ new.task = "ended"
    <3>1. << >> \in Seq(UpType)
      OBVIOUS
    <3>2. new \in ConnType
      BY <1>2, <3>1, Zenon DEF ConnType
    <3>3. new.peer = conns[i].peer /\ new.words = conns[i].words /\ new.tunnel = conns[i].tunnel /\ new.task = "ended"
      BY <1>2, Zenon DEF ConnType
    <3> HIDE DEF new
    <3> QED BY <1>1, <3>2, <3>3, Zenon DEF Moves
  <2> HIDE DEF new
  <2>3. TunnelNumbers' /\ pool' \in [Words -> Int]
    BY <1>1, <1>4, <2>1, Zenon DEF FpInv, FpTypeOK
  <2>4. /\ Still /\ conns'[i] = new /\ \A j \in DOMAIN conns : j # i => conns'[j] = conns[j]
    BY <1>1, <2>1, <2>2, <2>3, StillConn, Zenon
  <2>5. SameWords
    BY <1>1, <2>1, <2>2, <2>4, Zenon DEF SameWords
  <2>6. ~Live(i)
    <3>1. i # NoLink
      BY Typed, Zenon DEF FpInv, FpTypeOK
    <3> QED BY <1>1, <1>7, <3>1, Zenon DEF Live, GateFree, InFlight, FpInv, Owners
  <2>7. \A t \in tunnels : t # up.tunnel => \E j \in DOMAIN conns : Holds(j, t)'
    <3>1. \A t : t # up.tunnel => ~Holds(i, t)
      BY <2>6, Zenon DEF Holds
    <3>2. \A j \in DOMAIN conns : Live(j)' <=> Live(j)
      BY <2>4, StillOwners, Zenon
    <3> QED BY <1>5, <2>4, <3>1, <3>2, ZenonT(60) DEF Holds
  <2>8. NoTunnelLeak'
    BY <2>1, <2>4, <2>7, HeldIsNoLeak, Zenon DEF Still
  <2> QED BY <2>4, <2>5, <2>8, SameWordsKept, StillOwners, Zenon DEF FpInv
<1> QED BY <1>6, <1>7, Zenon

-----------------------------------------------------------------------------
(* Steps that make a connection live, or end it. *)

LEMMA SameUses ==
  ASSUME FpInv, UNCHANGED <<fpScenario, pool, local>>, DOMAIN conns \subseteq DOMAIN conns',
         \A w, r : \A j \in DOMAIN conns' : Uses(w, j, r)' <=> j \in DOMAIN conns /\ Uses(w, j, r)
  PROVE  WordInv'
<1>1. WordInv
  BY Zenon DEF FpInv
<1> QED BY <1>1 DEF WordInv

LEMMA GivesBack ==
  ASSUME FpInv, NEW k \in DOMAIN conns, Live(k), DOMAIN conns' = DOMAIN conns, UNCHANGED <<fpScenario, local>>,
         pool' = Released(pool, Locals(k)), \A w, r : ~Uses(w, k, r)',
         \A w, r : \A j \in DOMAIN conns : j # k => (Uses(w, j, r)' <=> Uses(w, j, r))
  PROVE  WordInv' /\ pool' \in [Words -> Int]
<1>1. WordInv /\ pool \in [Words -> Int] /\ conns \in Seq(ConnType)
  BY Zenon DEF FpInv, FpTypeOK
<1>2. \A w : w \in Locals(k) <=> \E r \in Remotes : Uses(w, k, r)
  BY <1>1, UsesLocal DEF Uses
<1>3. \A w \in Locals(k) : pool[w] = 0 /\ w \notin local
  BY LiveWords, Zenon
<1>4. /\ pool' \in [Words -> Int]
      /\ \A w \in Words : w \in Locals(k) => pool'[w] = 1
      /\ \A w \in Words : w \notin Locals(k) => pool'[w] = pool[w]
  BY <1>1, <1>3 DEF Released
<1>5. \A w \in Words : pool'[w] \in {0, 1} /\ (pool'[w] = 1 => w \notin local')
  BY <1>1, <1>3, <1>4, Zenon DEF WordInv
<1>6. ASSUME NEW w \in Words, pool'[w] = 1 \/ w \in local', NEW i \in DOMAIN conns', NEW r \in Remotes, Uses(w, i, r)'
      PROVE  FALSE
  <2>1. i # k /\ i \in DOMAIN conns /\ Uses(w, i, r)
    BY <1>6, Zenon
  <2>2. w \in Locals(k)
    BY <1>1, <1>4, <1>6, <2>1, Zenon DEF WordInv
  <2> QED BY <1>1, <1>2, <2>1, <2>2 DEF WordInv
<1>7. \A i, j \in DOMAIN conns', r, s \in Remotes, w \in Words : Uses(w, i, r)' /\ Uses(w, j, s)' => i = j /\ r = s
  BY <1>1 DEF WordInv
<1>8. ASSUME NEW w \in fpScenario.words, pool'[w] = 0, w \notin local'
      PROVE  \E i \in DOMAIN conns', r \in Remotes : Uses(w, i, r)'
  <2>1. w \in Words
    BY FpAssumption, Zenon DEF FpInv, FpTypeOK
  <2>2. w \notin Locals(k) /\ pool[w] = 0
    BY <1>4, <1>8, <2>1
  <2>3. PICK i \in DOMAIN conns, r \in Remotes : Uses(w, i, r)
    BY <1>1, <1>8, <2>2, Zenon DEF WordInv
  <2> QED BY <1>2, <2>2, <2>3, ZenonT(60)
<1> QED BY <1>4, <1>5, <1>6, <1>7, <1>8, Zenon DEF WordInv

LEMMA ConnectedKeeps ==
  ASSUME FpInv, NEW g \in Guis, UNCHANGED fpScenario, Connected(g)
  PROVE  FpInv'
<1> DEFINE p == guis[g].peer
           new == [peer |-> p, target |-> guis[g].conn, dead |-> FALSE, tunnel |-> NewTunnel, wire |-> TRUE,
                   queue |-> <<>>, asked |-> 0, owed |-> {}, list |-> remote[p].hosts, words |-> <<>>,
                   task |-> "none", hand |-> <<>>, next |-> <<>>, aborted |-> FALSE]
           N == Len(conns) + 1
           gui == [guis[g] EXCEPT !.at = "drawing", !.conn = N]
<1>1. /\ guis[g].at = "connecting" /\ tunnels' = tunnels \union {NewTunnel}
      /\ UNCHANGED <<fpScenario, pool, local, remote, peers, index, gate>>
  BY Zenon DEF Connected, Connects
<1>2. conns' = Append(conns, new) /\ guis' = [guis EXCEPT ![g] = gui]
  BY Zenon DEF Connected
<1>3. TunnelNumbers /\ TunnelNumbers'
  BY <1>1, OneMoreTunnel, Zenon DEF FpInv, FpTypeOK
<1>4. NewTunnel \in Nat /\ tunnels \subseteq Nat /\ \A t \in tunnels : t < NewTunnel
  BY <1>3, TunnelIsNew, Zenon
<1>5. /\ conns \in Seq(ConnType) /\ remote \in [Peers -> PeerType] /\ guis \in [Guis -> GuiType] /\ guis[g] \in GuiType
      /\ Owners /\ p \in Peers /\ guis[g].conn \in Int
  <2>1. /\ conns \in Seq(ConnType) /\ remote \in [Peers -> PeerType] /\ guis \in [Guis -> GuiType] /\ Owners
    BY Zenon DEF FpInv, FpTypeOK
  <2>2. guis[g] \in GuiType /\ guis[g].conn \in Int
    BY <2>1, Zenon DEF GuiType
  <2>3. p \in Peers
    BY <1>1, <2>1, Zenon DEF Owners
  <2> QED BY <2>1, <2>2, <2>3, Zenon
<1>6. new \in ConnType
  <2>1. remote[p].hosts \in SUBSET Remotes
    BY <1>5, Zenon DEF PeerType
  <2>2. << >> \in Seq(FrameType) /\ << >> \in Seq(UpType) /\ << >> \in WordsType /\ 0 \in Int /\ {} \in SUBSET Remotes
    BY NoWords
  <2> HIDE DEF p
  <2> QED BY <1>4, <1>5, <2>1, <2>2, Zenon DEF ConnType
<1>7. new.peer = p /\ new.tunnel = NewTunnel /\ new.words = <<>> /\ new.task = "none"
  BY Zenon
<1> HIDE DEF new
<1>8. N \in Nat /\ gui \in GuiType /\ gui.at = "drawing" /\ gui.peer = p /\ gui.conn = N
  <2>1. N \in Nat
    BY <1>5
  <2>2. N \in Int
    BY <2>1
  <2> HIDE DEF N
  <2>3. gui \in GuiType
    BY <1>5, <2>2, Zenon DEF GuiType
  <2>4. gui.at = "drawing" /\ gui.peer = guis[g].peer /\ gui.conn = N
    BY <1>5, Zenon DEF GuiType
  <2> QED BY <2>1, <2>3, <2>4, Zenon
<1> HIDE DEF gui
<1>9. /\ conns' \in Seq(ConnType) /\ DOMAIN conns' = DOMAIN conns \union {N} /\ N \notin DOMAIN conns
      /\ conns'[N] = new /\ \A j \in DOMAIN conns : conns'[j] = conns[j]
  BY <1>2, <1>5, <1>6
<1>10. /\ guis' \in [Guis -> GuiType] /\ guis'[g] = gui /\ \A h \in Guis : h # g => guis'[h] = guis[h]
  BY <1>2, <1>5, <1>8, Zenon
<1>11. N # gate /\ N # NoLink
  BY <1>5, <1>8, <1>9 DEF Owners, GateFree, NoLink
<1> HIDE DEF N, p
<1>12. FpTypeOK'
  <2> QED BY <1>1, <1>3, <1>9, <1>10, Zenon DEF FpInv, FpTypeOK
<1>13. \A j \in DOMAIN conns' : IsOpen(j)' <=> j \in DOMAIN conns /\ IsOpen(j)
  BY <1>1, <1>5, <1>9, ZenonT(60) DEF IsOpen, Owners
<1>14. \A j \in DOMAIN conns' : InFlight(j)' <=> j = N \/ InFlight(j)
  BY <1>1, <1>8, <1>10, Zenon DEF InFlight
<1>15. ~InFlight(N)
  BY <1>5, <1>9, ZenonT(60) DEF InFlight, Owners
<1>16. \A j \in DOMAIN conns' : Live(j)' <=> j = N \/ (j \in DOMAIN conns /\ Live(j))
  BY <1>1, <1>9, <1>11, <1>13, <1>14, Zenon DEF Live
<1>17. Owners'
  <2>1. \A q \in DOMAIN peers' : peers'[q] \in DOMAIN conns' /\ conns'[peers'[q]].peer = q /\ conns'[peers'[q]].task # "none"
    BY <1>1, <1>5, <1>9 DEF Owners
  <2>2. ~GateFree' => gate' \in DOMAIN conns' /\ ~IsOpen(gate)' /\ conns'[gate'].task # "none"
    BY <1>1, <1>5, <1>9, <1>13, Zenon DEF Owners, GateFree, IsOpen
  <2>3. \A h \in Guis : guis'[h].at # "idle" => guis'[h].peer \in Peers
    BY <1>5, <1>8, <1>10, Zenon DEF Owners
  <2>4. \A h \in Guis : guis'[h].at = "drawing" =>
          guis'[h].conn \in DOMAIN conns' /\ conns'[guis'[h].conn].peer = guis'[h].peer /\ conns'[guis'[h].conn].task = "none"
    <3>1. \A h \in Guis : guis[h].at = "drawing" =>
            guis[h].conn \in DOMAIN conns /\ conns[guis[h].conn].peer = guis[h].peer /\ conns[guis[h].conn].task = "none"
      BY <1>5, Zenon DEF Owners
    <3> QED BY <1>5, <1>7, <1>8, <1>9, <1>10, <3>1
  <2>5. \A h, k \in Guis : guis'[h].at = "drawing" /\ guis'[k].at = "drawing" /\ guis'[h].conn = guis'[k].conn => h = k
    <3>1. \A h, k \in Guis : guis[h].at = "drawing" /\ guis[k].at = "drawing" /\ guis[h].conn = guis[k].conn => h = k
      BY <1>5, Zenon DEF Owners
    <3>2. \A h \in Guis : guis[h].at = "drawing" => guis[h].conn \in DOMAIN conns
      BY <1>5, Zenon DEF Owners
    <3> QED BY <1>5, <1>8, <1>9, <1>10, <3>1, <3>2
  <2>6. \A j \in DOMAIN conns' : InHand(j)'
    <3>1. \A j \in DOMAIN conns : InHand(j)
      BY <1>5, Zenon DEF Owners
    <3> QED BY <1>5, <1>7, <1>9, <3>1, Zenon DEF InHand
  <2> QED BY <1>1, <1>5, <2>1, <2>2, <2>3, <2>4, <2>5, <2>6, Zenon DEF Owners
<1>18. WordInv'
  <2>1. DOMAIN << >> = {}
    OBVIOUS
  <2>2. \A w, r : \A j \in DOMAIN conns' : Uses(w, j, r)' <=> j \in DOMAIN conns /\ Uses(w, j, r)
    BY <1>7, <1>9, <1>16, <2>1, Zenon DEF Uses
  <2> QED BY <1>1, <1>9, <2>2, SameUses, Zenon
<1>19. IndexInv'
  <2>1. \A j \in DOMAIN conns : Range(conns'[j].words) = Range(conns[j].words)
    BY <1>9, Zenon
  <2> QED BY <1>1, <1>5, <2>1 DEF FpInv, IndexInv, Locals, GateFree, Owners
<1>20. NoTunnelLeak'
  <2>1. \A t, j : j \in DOMAIN conns /\ Holds(j, t) => Holds(j, t)'
    BY <1>9, <1>16, Zenon DEF Holds
  <2>2. \A t \in tunnels : \E j \in DOMAIN conns : Holds(j, t)
    BY HeldIsNoLeak, Zenon DEF FpInv
  <2>3. \E j \in DOMAIN conns' : \A t : t = NewTunnel => Holds(j, t)'
    BY <1>7, <1>9, <1>16, Zenon DEF Holds
  <2> QED BY <1>1, <1>9, <2>1, <2>2, <2>3, HeldIsNoLeak, Zenon
<1> QED BY <1>12, <1>17, <1>18, <1>19, <1>20, Zenon DEF FpInv

\* The connection an opener gives up: it is in no map and no task runs for it.
LEMMA DiscardKeeps ==
  ASSUME FpInv, NEW g \in Guis, guis[g].at = "drawing", NEW i, i = guis[g].conn, Discarded(i),
         guis' = [guis EXCEPT ![g] = IdleGui], UNCHANGED <<fpScenario, local, remote, peers, index, gate>>
  PROVE  FpInv'
<1> DEFINE new == [conns[i] EXCEPT !.tunnel = NoLink, !.wire = FALSE, !.words = <<>>, !.task = "ended"]
<1>1. /\ pool' = Released(pool, Locals(i)) /\ tunnels' = tunnels \ {conns[i].tunnel}
      /\ conns' = [conns EXCEPT ![i] = new]
  BY Zenon DEF Discarded
<1>2. /\ conns \in Seq(ConnType) /\ guis \in [Guis -> GuiType] /\ remote \in [Peers -> PeerType] /\ Owners
  BY Zenon DEF FpInv, FpTypeOK
<1>3. i \in DOMAIN conns /\ InFlight(i) /\ Live(i) /\ conns[i].task = "none"
  BY <1>2, Zenon DEF Owners, InFlight, Live
<1>4. conns[i] \in ConnType
  BY <1>3, KeepsSelf, Zenon
<1>5. new \in ConnType
  <2>1. << >> \in WordsType /\ NoLink \in Nat
    BY NoWords, Zenon DEF NoLink
  <2> QED BY <1>4, <2>1, Zenon DEF ConnType
<1>6. new.peer = conns[i].peer /\ new.words = <<>> /\ new.task = "ended"
  BY <1>4, Zenon DEF ConnType
<1> HIDE DEF new
<1>7. /\ conns' \in Seq(ConnType) /\ DOMAIN conns' = DOMAIN conns
      /\ conns'[i] = new /\ \A j \in DOMAIN conns : j # i => conns'[j] = conns[j]
  BY <1>1, <1>2, <1>3, <1>5, OneConn, Zenon
<1>8. /\ guis' \in [Guis -> GuiType] /\ guis'[g].at = "idle" /\ \A h \in Guis : h # g => guis'[h] = guis[h]
  BY <1>2, IdleType, Zenon
<1>9. (\A q \in DOMAIN peers : peers[q] # i) /\ gate # i
  <2>1. i # NoLink
    BY <1>2, <1>3, Typed, Zenon
  <2> QED BY <1>2, <1>3, <2>1, Apart, Zenon DEF GateFree
<1>10. \A j \in DOMAIN conns : IsOpen(j)' <=> IsOpen(j)
  BY <1>6, <1>7, <1>9, Zenon DEF IsOpen
<1>11. /\ ~InFlight(i)' /\ \A j \in DOMAIN conns : j # i => (InFlight(j)' <=> InFlight(j))
  BY <1>2, <1>8, Zenon DEF InFlight, Owners
<1>12. ~IsOpen(i)
  BY <1>3, <1>9, Apart, Zenon
<1>13. /\ ~Live(i)' /\ \A j \in DOMAIN conns : j # i => (Live(j)' <=> Live(j))
  BY <1>3, <1>9, <1>10, <1>11, <1>12, Zenon DEF Live
<1>14. WordInv' /\ pool' \in [Words -> Int]
  <2>1. \A w, r : ~Uses(w, i, r)'
    BY <1>13, Zenon DEF Uses
  <2>2. \A w, r : \A j \in DOMAIN conns : j # i => (Uses(w, j, r)' <=> Uses(w, j, r))
    BY <1>7, <1>13, Zenon DEF Uses
  <2> QED BY <1>1, <1>3, <1>7, <2>1, <2>2, GivesBack, Zenon
<1>15. FpTypeOK'
  <2>1. TunnelNumbers'
    BY <1>1, Numbered, Zenon
  <2> QED BY <1>7, <1>8, <1>14, <2>1, Zenon DEF FpInv, FpTypeOK
<1>16. Owners'
  <2>1. \A q \in DOMAIN peers' : peers'[q] \in DOMAIN conns' /\ conns'[peers'[q]].peer = q /\ conns'[peers'[q]].task # "none"
    BY <1>2, <1>7, <1>9 DEF Owners
  <2>2. ~GateFree' => gate' \in DOMAIN conns' /\ ~IsOpen(gate)' /\ conns'[gate'].task # "none"
    BY <1>2, <1>7, <1>9, <1>10, Zenon DEF Owners, GateFree, IsOpen
  <2>3. \A h \in Guis : guis'[h].at # "idle" => guis'[h].peer \in Peers
    BY <1>2, <1>8, Zenon DEF Owners
  <2>4. \A h \in Guis : guis'[h].at = "drawing" =>
          guis'[h].conn \in DOMAIN conns' /\ conns'[guis'[h].conn].peer = guis'[h].peer /\ conns'[guis'[h].conn].task = "none"
    <3>1. \A h \in Guis : guis[h].at = "drawing" =>
            guis[h].conn \in DOMAIN conns /\ conns[guis[h].conn].peer = guis[h].peer /\ conns[guis[h].conn].task = "none"
      BY <1>2, Zenon DEF Owners
    <3>2. \A h, k \in Guis : guis[h].at = "drawing" /\ guis[k].at = "drawing" /\ guis[h].conn = guis[k].conn => h = k
      BY <1>2, Zenon DEF Owners
    <3> QED BY <1>2, <1>7, <1>8, <3>1, <3>2
  <2>5. \A h, k \in Guis : guis'[h].at = "drawing" /\ guis'[k].at = "drawing" /\ guis'[h].conn = guis'[k].conn => h = k
    <3>1. \A h, k \in Guis : guis[h].at = "drawing" /\ guis[k].at = "drawing" /\ guis[h].conn = guis[k].conn => h = k
      BY <1>2, Zenon DEF Owners
    <3> QED BY <1>2, <1>8, <3>1, Zenon
  <2>6. \A j \in DOMAIN conns' : InHand(j)'
    <3>1. \A j \in DOMAIN conns : InHand(j)
      BY <1>2, Zenon DEF Owners
    <3> QED BY <1>2, <1>6, <1>7, <3>1, Zenon DEF InHand
  <2> QED BY <1>2, <2>1, <2>2, <2>3, <2>4, <2>5, <2>6, Zenon DEF Owners
<1>17. IndexInv'
  <2>1. \A j \in DOMAIN conns : j # i => Range(conns'[j].words) = Range(conns[j].words)
    BY <1>7, Zenon
  <2> QED BY <1>2, <1>9, <2>1 DEF FpInv, IndexInv, Locals, GateFree, Owners
<1>18. NoTunnelLeak'
  <2>1. \A t, j : j \in DOMAIN conns /\ j # i /\ Holds(j, t) => Holds(j, t)'
    BY <1>7, <1>13, Zenon DEF Holds
  <2>2. \A t \in tunnels : \E j \in DOMAIN conns : Holds(j, t)
    BY HeldIsNoLeak, Zenon DEF FpInv
  <2>3. \A t : Holds(i, t) => t = conns[i].tunnel
    BY <1>3, Zenon DEF Holds
  <2> QED BY <1>1, <1>7, <2>1, <2>2, <2>3, HeldIsNoLeak
<1> QED BY <1>14, <1>15, <1>16, <1>17, <1>18, Zenon DEF FpInv

LEMMA PoolExhaustedKeeps ==
  ASSUME FpInv, NEW g \in Guis, UNCHANGED fpScenario, PoolExhausted(g)
  PROVE  FpInv'
BY DiscardKeeps, Zenon DEF PoolExhausted

\* The winner's connection was live while it was being opened, and is open now.
LEMMA PublishPeerKeeps ==
  ASSUME FpInv, NEW g \in Guis, UNCHANGED fpScenario, PublishPeer(g)
  PROVE  FpInv'
<1> PICK i : i = guis[g].conn
  BY Zenon
<1> PICK p : p = guis[g].peer
  BY Zenon
<1>1. guis[g].at = "drawing" /\ guis' = [guis EXCEPT ![g] = IdleGui] /\ UNCHANGED <<fpScenario, local, remote, gate>>
  BY Zenon DEF PublishPeer
<1>2. CASE p \in DOMAIN peers
  <2>1. Discarded(i) /\ UNCHANGED <<peers, index>>
    BY <1>2, Zenon DEF PublishPeer
  <2> QED BY <1>1, <2>1, DiscardKeeps, Zenon
<1>3. CASE p \notin DOMAIN peers
  <2> DEFINE new == [conns[i] EXCEPT !.task = "feeding"]
  <2>1. /\ conns' = [conns EXCEPT ![i] = new] /\ peers' = Put(peers, p, i)
        /\ index' = Over([w \in Locals(i) |-> p], index) /\ UNCHANGED <<pool, tunnels>>
    BY <1>3, Zenon DEF PublishPeer
  <2>2. /\ conns \in Seq(ConnType) /\ guis \in [Guis -> GuiType] /\ Owners /\ IndexInv /\ WordInv
    BY Zenon DEF FpInv, FpTypeOK
  <2>3. i \in DOMAIN conns /\ InFlight(i) /\ Live(i) /\ conns[i].task = "none" /\ conns[i].peer = p /\ p \in Peers
    BY <1>1, <2>2, Zenon DEF Owners, InFlight, Live
  <2>4. conns[i] \in ConnType
    BY <2>3, KeepsSelf, Zenon
  <2>5. /\ new \in ConnType /\ new.peer = p /\ new.words = conns[i].words /\ new.tunnel = conns[i].tunnel
        /\ new.task = "feeding"
    BY <2>3, <2>4, Zenon DEF ConnType
  <2> HIDE DEF new
  <2>6. /\ conns' \in Seq(ConnType) /\ DOMAIN conns' = DOMAIN conns
        /\ conns'[i] = new /\ \A j \in DOMAIN conns : j # i => conns'[j] = conns[j]
    BY <2>1, <2>2, <2>3, <2>5, OneConn, Zenon
  <2>7. /\ guis' \in [Guis -> GuiType] /\ guis'[g].at = "idle" /\ \A h \in Guis : h # g => guis'[h] = guis[h]
    BY <1>1, <2>2, IdleType, Zenon
  <2>8. /\ DOMAIN peers' = DOMAIN peers \union {p} /\ peers'[p] = i /\ \A q \in DOMAIN peers : peers'[q] = peers[q]
    BY <1>3, <2>1, Zenon DEF Put
  <2>9. (\A q \in DOMAIN peers : peers[q] # i) /\ gate # i
    <3>1. i # NoLink
      BY <2>2, <2>3, Typed, Zenon
    <3> QED BY <2>2, <2>3, <3>1, Apart, Zenon DEF GateFree
  <2>10. IsOpen(i)' /\ \A j \in DOMAIN conns : j # i => (IsOpen(j)' <=> IsOpen(j))
    BY <1>3, <2>3, <2>5, <2>6, <2>8, Zenon DEF IsOpen
  <2>11. /\ ~InFlight(i)' /\ \A j \in DOMAIN conns : j # i => (InFlight(j)' <=> InFlight(j))
    BY <1>1, <2>2, <2>7 DEF InFlight, Owners
  <2>12. \A j \in DOMAIN conns : Live(j)' <=> Live(j)
    BY <1>1, <2>3, <2>10, <2>11, Zenon DEF Live
  <2>13. FpTypeOK'
    BY <1>1, <2>1, <2>6, <2>7, Numbered, Zenon DEF FpInv, FpTypeOK
  <2>14. Owners'
    <3>1. \A q \in DOMAIN peers' : peers'[q] \in DOMAIN conns' /\ conns'[peers'[q]].peer = q /\ conns'[peers'[q]].task # "none"
      BY <2>2, <2>3, <2>5, <2>6, <2>8 DEF Owners
    <3>2. ~GateFree' => gate' \in DOMAIN conns' /\ ~IsOpen(gate)' /\ conns'[gate'].task # "none"
      BY <1>1, <2>2, <2>6, <2>9, <2>10, Zenon DEF Owners, GateFree, IsOpen
    <3>3. \A h \in Guis : guis'[h].at # "idle" => guis'[h].peer \in Peers
      BY <2>2, <2>7, Zenon DEF Owners
    <3>4. \A h \in Guis : guis'[h].at = "drawing" =>
            guis'[h].conn \in DOMAIN conns' /\ conns'[guis'[h].conn].peer = guis'[h].peer /\ conns'[guis'[h].conn].task = "none"
      <4>1. \A h \in Guis : guis[h].at = "drawing" =>
              guis[h].conn \in DOMAIN conns /\ conns[guis[h].conn].peer = guis[h].peer /\ conns[guis[h].conn].task = "none"
        BY <2>2, Zenon DEF Owners
      <4>2. \A h, k \in Guis : guis[h].at = "drawing" /\ guis[k].at = "drawing" /\ guis[h].conn = guis[k].conn => h = k
        BY <2>2, Zenon DEF Owners
      <4> QED BY <1>1, <2>2, <2>6, <2>7, <4>1, <4>2
    <3>5. \A h, k \in Guis : guis'[h].at = "drawing" /\ guis'[k].at = "drawing" /\ guis'[h].conn = guis'[k].conn => h = k
      <4>1. \A h, k \in Guis : guis[h].at = "drawing" /\ guis[k].at = "drawing" /\ guis[h].conn = guis[k].conn => h = k
        BY <2>2, Zenon DEF Owners
      <4> QED BY <2>2, <2>7, <4>1, Zenon
    <3>6. \A j \in DOMAIN conns' : InHand(j)'
      <4>1. \A j \in DOMAIN conns : InHand(j)
        BY <2>2, Zenon DEF Owners
      <4> QED BY <2>2, <2>5, <2>6, <4>1, Zenon DEF InHand
    <3>7. DOMAIN peers' \subseteq Peers
      BY <2>2, <2>3, <2>8, Zenon DEF Owners
    <3> QED BY <3>1, <3>2, <3>3, <3>4, <3>5, <3>6, <3>7, ZenonT(30) DEF Owners
  <2>15. \A j \in DOMAIN conns : conns'[j].words = conns[j].words
    BY <2>5, <2>6, Zenon
  <2>16. WordInv'
    <3>1. \A w, r : \A j \in DOMAIN conns' : Uses(w, j, r)' <=> j \in DOMAIN conns /\ Uses(w, j, r)
      BY <2>6, <2>12, <2>15, Zenon DEF Uses
    <3> QED BY <1>1, <2>1, <2>6, <3>1, SameUses, Zenon
  <2>17. IndexInv'
    <3> DEFINE L == Locals(i)
    <3>1. L = Range(conns[i].words)
      BY Zenon DEF Locals
    <3>2. /\ index' = [w \in DOMAIN index' |-> index'[w]] /\ DOMAIN index' = L \union DOMAIN index
          /\ \A w \in L : index'[w] = p
          /\ \A w \in DOMAIN index : w \notin L => index'[w] = index[w]
      BY <2>1, Zenon DEF Over
    <3> HIDE DEF L
    <3>3. \A q \in DOMAIN peers : \A w : w \in Range(conns[peers[q]].words) => w \notin L
      BY <2>2, <2>3, <2>9, Apart, Disjoint, Zenon DEF L, Locals
    <3>4. \A q \in DOMAIN peers : peers[q] \in DOMAIN conns
      BY <2>2, Zenon DEF Owners
    <3>5. \A q \in DOMAIN peers' : \A w \in Range(conns'[peers'[q]].words) : w \in DOMAIN index' /\ index'[w] = q
      <4>1. Range(conns'[i].words) = L
        BY <2>3, <2>15, <3>1, Zenon
      <4>2. \A q \in DOMAIN peers : \A w \in Range(conns[peers[q]].words) : w \in DOMAIN index /\ index[w] = q
        BY <2>2, Zenon DEF IndexInv, Locals
      <4>3. \A q \in DOMAIN peers : \A w \in Range(conns'[peers'[q]].words) : w \in DOMAIN index' /\ index'[w] = q
        BY <2>8, <2>15, <3>2, <3>3, <3>4, <4>2
      <4> QED BY <2>8, <3>2, <4>1, <4>3, Zenon
    <3>6. ~GateFree => gate \in DOMAIN conns
      BY <2>2, Zenon DEF Owners
    <3>7. ASSUME NEW w \in DOMAIN index'
          PROVE  \/ index'[w] \in DOMAIN peers' /\ w \in Range(conns'[peers'[index'[w]]].words)
                 \/ ~GateFree /\ w \in Range(conns'[gate].words)
      <4>1. CASE w \in L
        BY <2>3, <2>8, <2>15, <3>1, <3>2, <4>1, SMTT(20)
      <4>2. CASE w \notin L
        <5>1. w \in DOMAIN index /\ index'[w] = index[w]
          BY <3>2, <3>7, <4>2, Zenon
        <5>2. \/ index[w] \in DOMAIN peers /\ w \in Range(conns[peers[index[w]]].words)
              \/ ~GateFree /\ w \in Range(conns[gate].words)
          BY <2>2, <5>1, Zenon DEF IndexInv, Locals
        <5> QED BY <2>8, <2>15, <3>4, <3>6, <5>1, <5>2
      <4> QED BY <4>1, <4>2, Zenon
    <3> QED BY <1>1, <3>2, <3>5, <3>7, Zenon DEF IndexInv, Locals, GateFree
  <2>18. NoTunnelLeak'
    <3>1. \A t, j : j \in DOMAIN conns /\ Holds(j, t) => Holds(j, t)'
      BY <2>3, <2>5, <2>6, <2>12, Zenon DEF Holds
    <3>2. \A t \in tunnels : \E j \in DOMAIN conns : Holds(j, t)
      BY HeldIsNoLeak, Zenon DEF FpInv
    <3> QED BY <2>1, <2>6, <3>1, <3>2, HeldIsNoLeak, Zenon
  <2> QED BY <2>13, <2>14, <2>16, <2>17, <2>18, Zenon DEF FpInv
<1> QED BY <1>2, <1>3, Zenon

\* The peer leaves the map; close_peer holds its connection.
LEMMA CloseTakesKeeps ==
  ASSUME FpInv, NEW p \in Peers, UNCHANGED fpScenario, CloseTakes(p)
  PROVE  FpInv'
<1>1. /\ GateFree /\ p \in DOMAIN peers /\ gate' = peers[p]
      /\ UNCHANGED <<fpScenario, pool, local, remote, conns, index, guis, tunnels>>
  BY Zenon DEF CloseTakes
<1> PICK k : k = peers[p]
  BY Zenon
<1>2. DOMAIN peers' = DOMAIN peers \ {p} /\ \A q \in DOMAIN peers \ {p} : peers'[q] = peers[q]
  BY Zenon DEF CloseTakes, Restrict
<1>3. Owners /\ IndexInv /\ conns \in Seq(ConnType)
  BY Zenon DEF FpInv, FpTypeOK
<1>4. k \in DOMAIN conns /\ conns[k].peer = p /\ conns[k].task # "none" /\ IsOpen(k) /\ k # NoLink /\ k \in Int
  BY <1>1, <1>3, Apart, Typed DEF Owners
<1>5. /\ ~IsOpen(k)' /\ \A j \in DOMAIN conns : j # k => (IsOpen(j)' <=> IsOpen(j))
  BY <1>1, <1>2, <1>4, Zenon DEF IsOpen
<1>6. \A j : InFlight(j)' <=> InFlight(j)
  BY <1>1, Zenon DEF InFlight
<1>7. \A j \in DOMAIN conns : Live(j)' <=> Live(j)
  <2>1. gate \notin DOMAIN conns
    BY <1>1, <1>3, Typed, Zenon DEF GateFree
  <2> QED BY <1>1, <1>4, <1>5, <1>6, <2>1, Zenon DEF Live
<1>8. FpTypeOK'
  BY <1>1, <1>4, Numbered, Zenon DEF FpInv, FpTypeOK
<1>9. Owners'
  <2>1. \A q \in DOMAIN peers' : peers'[q] \in DOMAIN conns' /\ conns'[peers'[q]].peer = q /\ conns'[peers'[q]].task # "none"
    BY <1>1, <1>2, <1>3, Zenon DEF Owners
  <2>2. ~GateFree' => gate' \in DOMAIN conns' /\ ~IsOpen(gate)' /\ conns'[gate'].task # "none"
    BY <1>1, <1>4, <1>5, Zenon DEF IsOpen
  <2> QED BY <1>1, <1>2, <1>3, <2>1, <2>2, Zenon DEF Owners, InHand
<1>10. WordInv'
  <2>1. \A w, r : \A j \in DOMAIN conns' : Uses(w, j, r)' <=> j \in DOMAIN conns /\ Uses(w, j, r)
    BY <1>1, <1>7, Zenon DEF Uses
  <2> QED BY <1>1, <2>1, SameUses, Zenon
<1>11. IndexInv'
  <2>1. \A q \in DOMAIN peers' : \A w \in Range(conns'[peers'[q]].words) : w \in DOMAIN index' /\ index'[w] = q
    BY <1>1, <1>2, <1>3, Zenon DEF IndexInv, Locals
  <2>2. ~GateFree'
    BY <1>1, <1>4, Zenon DEF GateFree
  <2>3. \A w \in DOMAIN index : index[w] \in DOMAIN peers /\ w \in Range(conns[peers[index[w]]].words)
    BY <1>1, <1>3, Zenon DEF IndexInv, Locals
  <2>4. \A w \in DOMAIN index : \/ index[w] \in DOMAIN peers' /\ w \in Range(conns'[peers'[index[w]]].words)
                                \/ w \in Range(conns'[gate'].words)
    BY <1>1, <1>2, <2>3, Zenon
  <2> QED BY <1>1, <1>3, <2>1, <2>2, <2>4 DEF IndexInv, Locals
<1>12. NoTunnelLeak'
  <2>1. \A t, j : j \in DOMAIN conns /\ Holds(j, t) => Holds(j, t)'
    BY <1>1, <1>7, Zenon DEF Holds
  <2>2. \A t \in tunnels : \E j \in DOMAIN conns : Holds(j, t)
    BY HeldIsNoLeak, Zenon DEF FpInv
  <2> QED BY <1>1, <2>1, <2>2, HeldIsNoLeak, Zenon
<1> QED BY <1>8, <1>9, <1>10, <1>11, <1>12, Zenon DEF FpInv

\* The closed connection keeps its words, but they are the pool's again.
LEMMA CloseReleasesKeeps ==
  ASSUME FpInv, UNCHANGED fpScenario, CloseReleases
  PROVE  FpInv'
<1> PICK k : k = gate
  BY Zenon
<1> DEFINE new == [conns[k] EXCEPT !.aborted = TRUE, !.tunnel = NoLink, !.wire = FALSE]
<1>1. /\ ~GateFree /\ conns' = [conns EXCEPT ![k] = new] /\ tunnels' = tunnels \ {conns[k].tunnel}
      /\ index' = Restrict(index, DOMAIN index \ Locals(k)) /\ pool' = Released(pool, Locals(k))
      /\ gate' = NoLink /\ UNCHANGED <<fpScenario, local, remote, peers, guis>>
  BY Zenon DEF CloseReleases
<1>2. Owners /\ IndexInv /\ WordInv /\ conns \in Seq(ConnType)
  BY Zenon DEF FpInv, FpTypeOK
<1>3. k \in DOMAIN conns /\ Live(k) /\ ~IsOpen(k) /\ ~InFlight(k) /\ conns[k].task # "none" /\ k # NoLink
  BY <1>1, <1>2, Apart, Zenon DEF Owners, GateFree
<1>4. conns[k] \in ConnType
  BY <1>3, KeepsSelf, Zenon
<1>5. new \in ConnType
  <2>1. NoLink \in Nat
    BY Zenon DEF NoLink
  <2> QED BY <1>4, <2>1, Zenon DEF ConnType
<1>6. /\ new.peer = conns[k].peer /\ new.words = conns[k].words /\ new.task = conns[k].task
      /\ new.hand = conns[k].hand /\ new.next = conns[k].next
  BY <1>4, Zenon DEF ConnType
<1> HIDE DEF new
<1>7. /\ conns' \in Seq(ConnType) /\ DOMAIN conns' = DOMAIN conns
      /\ conns'[k] = new /\ \A j \in DOMAIN conns : j # k => conns'[j] = conns[j]
  BY <1>1, <1>2, <1>3, <1>5, OneConn, Zenon
<1>8. \A j \in DOMAIN conns : (IsOpen(j)' <=> IsOpen(j)) /\ (InFlight(j)' <=> InFlight(j))
  BY <1>1, <1>6, <1>7, Zenon DEF IsOpen, InFlight
<1>9. ~Live(k)' /\ \A j \in DOMAIN conns : j # k => (Live(j)' <=> Live(j))
  <2>1. \A j \in DOMAIN conns : j # NoLink
    BY <1>2, Typed, Zenon
  <2> QED BY <1>1, <1>3, <1>8, <2>1, Zenon DEF Live
<1>10. WordInv' /\ pool' \in [Words -> Int]
  <2>1. \A w, r : ~Uses(w, k, r)'
    BY <1>9, Zenon DEF Uses
  <2>2. \A w, r : \A j \in DOMAIN conns : j # k => (Uses(w, j, r)' <=> Uses(w, j, r))
    BY <1>7, <1>9, Zenon DEF Uses
  <2> QED BY <1>1, <1>3, <1>7, <2>1, <2>2, GivesBack, Zenon
<1>11. FpTypeOK'
  <2>1. TunnelNumbers'
    BY <1>1, Numbered, Zenon
  <2>2. gate' \in Int
    BY <1>1 DEF NoLink
  <2> QED BY <1>1, <1>7, <1>10, <2>1, <2>2, Zenon DEF FpInv, FpTypeOK
<1>12. Owners'
  <2>1. \A q \in DOMAIN peers' : peers'[q] \in DOMAIN conns' /\ conns'[peers'[q]].peer = q /\ conns'[peers'[q]].task # "none"
    BY <1>1, <1>2, <1>6, <1>7 DEF Owners
  <2>2. GateFree'
    BY <1>1, Zenon DEF GateFree
  <2>3. \A h \in Guis : guis'[h].at = "drawing" =>
          guis'[h].conn \in DOMAIN conns' /\ conns'[guis'[h].conn].peer = guis'[h].peer /\ conns'[guis'[h].conn].task = "none"
    <3>1. \A h \in Guis : guis[h].at = "drawing" =>
            guis[h].conn \in DOMAIN conns /\ conns[guis[h].conn].peer = guis[h].peer /\ conns[guis[h].conn].task = "none"
      BY <1>2, Zenon DEF Owners
    <3> QED BY <1>1, <1>2, <1>6, <1>7, <3>1
  <2>4. \A j \in DOMAIN conns' : InHand(j)'
    <3>1. \A j \in DOMAIN conns : InHand(j)
      BY <1>2, Zenon DEF Owners
    <3> QED BY <1>2, <1>6, <1>7, <3>1, ZenonT(60) DEF InHand
  <2> QED BY <1>1, <1>2, <2>1, <2>2, <2>3, <2>4, ZenonT(30) DEF Owners
<1>13. IndexInv'
  <2> DEFINE L == Locals(k)
  <2>1. /\ index' = [w \in DOMAIN index' |-> index'[w]] /\ DOMAIN index' = DOMAIN index \ L
        /\ \A w \in DOMAIN index \ L : index'[w] = index[w]
    BY <1>1, Zenon DEF Restrict
  <2>2. \A j \in DOMAIN conns : Range(conns'[j].words) = Range(conns[j].words)
    BY <1>6, <1>7, Zenon
  <2>3. \A q \in DOMAIN peers : peers[q] \in DOMAIN conns /\ \A w : w \in Range(conns[peers[q]].words) => w \notin L
    BY <1>2, <1>3, Apart, Disjoint, Zenon DEF Locals
  <2>4. \A w \in DOMAIN index \ L : index[w] \in DOMAIN peers /\ w \in Range(conns[peers[index[w]]].words)
    BY <1>2, Zenon DEF IndexInv, Locals
  <2> HIDE DEF L
  <2>5. \A q \in DOMAIN peers : \A w \in Range(conns'[peers[q]].words) : w \in DOMAIN index' /\ index'[w] = q
    BY <1>2, <2>1, <2>2, <2>3, Zenon DEF IndexInv, Locals
  <2>6. \A w \in DOMAIN index' : index'[w] \in DOMAIN peers /\ w \in Range(conns'[peers[index'[w]]].words)
    BY <2>1, <2>2, <2>3, <2>4, Zenon
  <2> QED BY <1>1, <2>1, <2>5, <2>6, Zenon DEF IndexInv, Locals
<1>14. NoTunnelLeak'
  <2>1. \A t, j : j \in DOMAIN conns /\ (j # k \/ t # conns[k].tunnel) /\ Holds(j, t) => Holds(j, t)'
    BY <1>6, <1>7, <1>9, Zenon DEF Holds
  <2>2. \A t \in tunnels : \E j \in DOMAIN conns : Holds(j, t)
    BY HeldIsNoLeak, Zenon DEF FpInv
  <2> QED BY <1>1, <1>7, <2>1, <2>2, HeldIsNoLeak, Zenon
<1> QED BY <1>10, <1>11, <1>12, <1>13, <1>14, Zenon DEF FpInv

\* The hub's own sessions draw from the pool and give back to it.
LEMMA LocalKeeps ==
  ASSUME FpInv, NEW w \in Words, UNCHANGED fpScenario, LocalCreates(w) \/ LocalCloses(w)
  PROVE  FpInv'
<1>1. UNCHANGED <<fpScenario, remote, conns, peers, index, guis, gate, tunnels>>
  BY Zenon DEF LocalCreates, LocalCloses
<1>2. /\ WordInv /\ pool \in [Words -> Int] /\ local \subseteq Words
  BY Zenon DEF FpInv, FpTypeOK
<1>3. \A i : (IsOpen(i)' <=> IsOpen(i)) /\ (InFlight(i)' <=> InFlight(i)) /\ (Live(i)' <=> Live(i))
  BY <1>1, Zenon DEF IsOpen, InFlight, Live
<1>4. \A v, i, r : Uses(v, i, r)' <=> Uses(v, i, r)
  BY <1>1, <1>3, Zenon DEF Uses
<1>5. WordInv' /\ pool' \in [Words -> Int] /\ local' \subseteq Words
  <2>1. CASE LocalCreates(w)
    <3>1. pool[w] = 1 /\ pool' = [pool EXCEPT ![w] = @ - 1] /\ local' = local \union {w}
      BY <1>2, <2>1 DEF LocalCreates, Available, Drawn, WordInv
    <3>2. pool' \in [Words -> Int] /\ pool'[w] = 0 /\ \A v \in Words : v # w => pool'[v] = pool[v]
      BY <1>2, <3>1
    <3> QED BY <1>1, <1>2, <1>4, <3>1, <3>2 DEF WordInv
  <2>2. CASE LocalCloses(w)
    <3>1. w \in local /\ pool' = Released(pool, {w}) /\ local' = local \ {w}
      BY <2>2, Zenon DEF LocalCloses
    <3>2. pool[w] = 0
      BY <1>2, <3>1, Zenon DEF WordInv
    <3>3. pool' \in [Words -> Int] /\ pool'[w] = 1 /\ \A v \in Words : v # w => pool'[v] = pool[v]
      BY <1>2, <3>1, <3>2 DEF Released
    <3>4. \A v \in Words : pool'[v] = 1 \/ v \in local' => pool[v] = 1 \/ v \in local
      BY <3>1, <3>3, Zenon
    <3>5. \A v \in Words : pool'[v] \in {0, 1} /\ (pool'[v] = 1 => v \notin local')
      BY <1>2, <3>1, <3>3, ZenonT(30) DEF WordInv
    <3>6. \A v \in fpScenario.words : v \in Words /\ (pool'[v] = 0 /\ v \notin local' => pool[v] = 0 /\ v \notin local)
      <4>1. fpScenario.words \subseteq Words
        BY FpAssumption, Zenon DEF FpInv, FpTypeOK
      <4> QED BY <3>1, <3>3, <4>1
    <3>7. \A v \in Words : pool'[v] = 1 \/ v \in local' => \A i \in DOMAIN conns', r \in Remotes : ~Uses(v, i, r)'
      BY <1>1, <1>2, <1>4, <3>4, Zenon DEF WordInv
    <3>8. \A i, j \in DOMAIN conns', r, s \in Remotes, v \in Words : Uses(v, i, r)' /\ Uses(v, j, s)' => i = j /\ r = s
      BY <1>1, <1>2, <1>4 DEF WordInv
    <3>9. \A v \in fpScenario'.words : pool'[v] = 0 /\ v \notin local' =>
             \E i \in DOMAIN conns', r \in Remotes : Uses(v, i, r)'
      BY <1>1, <1>2, <1>4, <3>6, Zenon DEF WordInv
    <3>10. local' \subseteq Words
      BY <1>2, <3>1, Zenon
    <3> QED BY <3>3, <3>5, <3>7, <3>8, <3>9, <3>10, Zenon DEF WordInv
  <2> QED BY <2>1, <2>2, Zenon
<1>6. FpTypeOK'
  BY <1>1, <1>5, Numbered, Zenon DEF FpInv, FpTypeOK
<1>7. Owners'
  BY <1>1, <1>3, Zenon DEF FpInv, Owners, GateFree, InHand, IsOpen
<1>8. IndexInv'
  BY <1>1, Zenon DEF FpInv, IndexInv, Locals, GateFree
<1>9. NoTunnelLeak'
  <2>1. \A i, t : Holds(i, t)' <=> Holds(i, t)
    BY <1>1, <1>3, Zenon DEF Holds
  <2> QED BY <1>1, <2>1, HeldIsNoLeak, Zenon DEF FpInv
<1> QED BY <1>5, <1>6, <1>7, <1>8, <1>9, Zenon DEF FpInv

-----------------------------------------------------------------------------
(* The invariant, and what follows from it. *)

LEMMA FpInitKeeps == FpInit => FpInv
<1> SUFFICES ASSUME FpInit PROVE FpInv
  BY Zenon
<1>1. /\ fpScenario \in FpScenarios
      /\ pool = [w \in Words |-> IF w \in fpScenario.words THEN 1 ELSE 0]
      /\ local = {}
      /\ remote = [p \in Peers |-> [hosts |-> fpScenario.hosted[p], used |-> fpScenario.hosted[p], token |-> 1]]
      /\ conns = <<>> /\ peers = <<>> /\ index = <<>>
      /\ guis = [g \in Guis |-> IdleGui]
      /\ gate = NoLink /\ tunnels = {}
  BY Zenon DEF FpInit
<1>2. fpScenario.hosted \in [Peers -> SUBSET Remotes] /\ fpScenario.words \subseteq Words
  BY <1>1, FpAssumption, Zenon
<1>3. DOMAIN conns = {} /\ DOMAIN peers = {} /\ DOMAIN index = {}
  BY <1>1
<1>4. FpTypeOK
  <2>1. pool \in [Words -> Int] /\ local \subseteq Words
    BY <1>1
  <2>2. remote \in [Peers -> PeerType]
    BY <1>1, <1>2 DEF PeerType
  <2>3. conns \in Seq(ConnType) /\ gate \in Int /\ TunnelNumbers
    BY <1>1 DEF NoLink, TunnelNumbers
  <2>4. guis \in [Guis -> GuiType]
    BY <1>1, IdleType, Zenon
  <2> QED BY <1>1, <2>1, <2>2, <2>3, <2>4, Zenon DEF FpTypeOK
<1>5. \A g \in Guis : guis[g].at = "idle"
  BY <1>1, IdleType, Zenon
<1>6. Owners
  BY <1>1, <1>3, <1>5, Zenon DEF Owners, GateFree
<1>7. WordInv
  BY <1>1, <1>2, <1>3 DEF WordInv
<1>8. IndexInv
  <2>1. index = [w \in DOMAIN index |-> index[w]]
    BY <1>1
  <2> QED BY <1>3, <2>1, Zenon DEF IndexInv
<1>9. NoTunnelLeak
  BY <1>1, Zenon DEF NoTunnelLeak
<1> QED BY <1>4, <1>6, <1>7, <1>8, <1>9, Zenon DEF FpInv

LEMMA FpStepKeeps == FpInv /\ [FpNext]_fpVars => FpInv'
<1> SUFFICES ASSUME FpInv, [FpNext]_fpVars PROVE FpInv'
  BY Zenon
<1>1. CASE UNCHANGED fpVars
  BY <1>1, StutterKeeps, Zenon DEF fpVars
<1>2. CASE FpStep /\ UNCHANGED fpScenario
  <2>1. fpScenario.guis \subseteq Guis
    BY FpAssumption, Zenon DEF FpInv, FpTypeOK
  <2>2. ASSUME NEW g \in fpScenario.guis, Opening(g) \/ \E p \in Peers : OpenPeer(g, p, remote[p].token)
        PROVE  FpInv'
    BY <1>2, <2>1, <2>2, ConnectedKeeps, ConnectFailsKeeps, DrawWordKeeps, PoolExhaustedKeeps, PublishPeerKeeps,
       OpenPeerKeeps, Zenon DEF Opening
  <2>3. ASSUME NEW p \in Peers, CloseTakes(p) \/ PeerRestarts(p) PROVE FpInv'
    BY <1>2, <2>3, CloseTakesKeeps, PeerRestartsKeeps, Zenon
  <2>4. CASE CloseReleases
    BY <1>2, <2>4, CloseReleasesKeeps, Zenon
  <2>5. ASSUME NEW i \in DOMAIN conns, LinkTask(i) PROVE FpInv'
    BY <1>2, <2>5, QuietTask, OnSessionClosedKeeps, OnSessionListKeeps, RegisterCreatedKeeps, ReopenKeeps,
       RelinkSessionsKeeps, Zenon DEF LinkTask
  <2>6. ASSUME NEW i \in DOMAIN conns, RemoteAnswers(i) \/ RemoteLists(i) \/ RemoteResyncs(i) \/ LinkLost(i)
        PROVE  FpInv'
    BY <1>2, <2>6, QuietPeer, Zenon
  <2>7. ASSUME NEW p \in Peers, NEW r \in Remotes,
               RemoteCloses(p, r) \/ \E asker \in {NoLink} \union DOMAIN conns : RemoteCreates(p, r, asker)
        PROVE  FpInv'
    BY <1>2, <2>7, RemoteClosesKeeps, RemoteCreatesKeeps, Zenon
  <2>8. ASSUME NEW w \in Words, LocalCreates(w) \/ LocalCloses(w) PROVE FpInv'
    BY <1>2, <2>8, LocalKeeps, Zenon
  <2>9. CASE SendSessionList
    BY <1>2, <2>9, StutterKeeps, Zenon DEF SendSessionList
  <2> QED BY <1>2, <2>2, <2>3, <2>4, <2>5, <2>6, <2>7, <2>8, <2>9, ZenonT(30) DEF FpStep
<1> QED BY <1>1, <1>2, Zenon DEF FpNext

LEMMA OneMember ==
  ASSUME NEW x
  PROVE  Cardinality({x}) = 1
<1> DEFINE Counts(f) == f = [T \in SUBSET {x} |-> IF T = {} THEN 0 ELSE 1 + f[T \ {CHOOSE y : y \in T}]]
           count == CHOOSE f : Counts(f)
           ones == [T \in SUBSET {x} |-> IF T = {} THEN 0 ELSE 1]
<1>1. Cardinality({x}) = count[{x}]
  BY Zenon DEF Cardinality
<1>2. Counts(ones)
  <2>1. SUBSET {x} = {{}, {x}} /\ (CHOOSE y : y \in {x}) = x
    BY Zenon
  <2> QED BY <2>1
<1>3. Counts(count)
  BY <1>2, Zenon
<1>4. count[{}] = 0 /\ count[{x}] = 1 + count[{x} \ {CHOOSE y : y \in {x}}]
  BY <1>3, Zenon
<1>5. {x} \ {CHOOSE y : y \in {x}} = {}
  BY Zenon
<1> HIDE DEF count
<1> QED BY <1>1, <1>4, <1>5

LEMMA Shared == FpInv => WordOwnedOnce
<1> SUFFICES ASSUME FpInv PROVE WordOwnedOnce
  BY Zenon
<1>1. WordInv /\ IndexInv /\ pool \in [Words -> Int] /\ conns \in Seq(ConnType)
  BY Zenon DEF FpInv, FpTypeOK
<1>2. ASSUME NEW w \in fpScenario.words,
             NEW owners, owners = {i \in DOMAIN conns : w \in Locals(i) /\ (IsOpen(i) \/ gate = i \/ InFlight(i))},
             NEW uses, uses = {u \in owners \X Remotes :
                                 u[2] \in DOMAIN conns[u[1]].words /\ conns[u[1]].words[u[2]] = w}
      PROVE  pool[w] + Cardinality(uses) + (IF w \in local THEN 1 ELSE 0) = 1
  <2>1. w \in Words
    BY FpAssumption, Zenon DEF FpInv, FpTypeOK
  <2>2. \A u : u \in uses <=> /\ u \in (DOMAIN conns) \X Remotes /\ Uses(w, u[1], u[2])
    <3>1. \A i \in DOMAIN conns, r \in Remotes : Uses(w, i, r) => w \in Locals(i)
      BY <1>1, UsesLocal, Zenon DEF Uses
    <3> QED BY <1>2, <3>1, Zenon DEF Uses, Live
  <2>3. CASE pool[w] = 1 \/ w \in local
    <3>1. uses = {}
      BY <1>1, <2>1, <2>2, <2>3 DEF WordInv
    <3>2. Cardinality(uses) = 0
      BY <3>1, Zenon DEF Cardinality
    <3>3. pool[w] \in {0, 1} /\ (pool[w] = 1 => w \notin local)
      BY <1>1, <2>1, Zenon DEF WordInv
    <3> QED BY <2>3, <3>2, <3>3
  <2>4. CASE pool[w] # 1 /\ w \notin local
    <3>1. pool[w] = 0
      BY <1>1, <2>1, <2>4, Zenon DEF WordInv
    <3>2. PICK i \in DOMAIN conns, r \in Remotes : Uses(w, i, r)
      BY <1>1, <2>4, <3>1, Zenon DEF WordInv
    <3>3. \A u \in uses : u = <<i, r>>
      BY <1>1, <2>1, <2>2, <3>2 DEF WordInv
    <3>4. uses = {<<i, r>>}
      BY <2>2, <3>2, <3>3, Zenon
    <3>5. Cardinality(uses) = 1
      BY <3>4, OneMember, Zenon
    <3> QED BY <2>4, <3>1, <3>5
  <2> QED BY <2>3, <2>4, Zenon
<1>3. ASSUME GateFree
      PROVE  index = [w \in UNION {Locals(peers[p]) : p \in DOMAIN peers} |->
                        CHOOSE p \in DOMAIN peers : w \in Locals(peers[p])]
  <2>1. /\ \A p \in DOMAIN peers : \A w \in Locals(peers[p]) : w \in DOMAIN index /\ index[w] = p
        /\ \A w \in DOMAIN index : index[w] \in DOMAIN peers /\ w \in Locals(peers[index[w]])
        /\ index = [w \in DOMAIN index |-> index[w]]
    BY <1>1, <1>3, Zenon DEF IndexInv
  <2>2. DOMAIN index = UNION {Locals(peers[p]) : p \in DOMAIN peers}
    BY <2>1
  <2>3. \A w \in DOMAIN index : index[w] = CHOOSE p \in DOMAIN peers : w \in Locals(peers[p])
    BY <2>1, Zenon
  <2> QED BY <2>1, <2>2, <2>3, Zenon
<1> QED BY <1>2, <1>3, Zenon DEF WordOwnedOnce

\* A tunnel that runs is held by someone who will end it, however the opens, closes
\* and re-opens of the peers interleave (PeerConnection's Drop, relink, close_peer).
THEOREM NoTunnelLeakAlways == FpSpec => []NoTunnelLeak
<1>1. FpInv => NoTunnelLeak
  BY Zenon DEF FpInv
<1> QED BY <1>1, FpInitKeeps, FpStepKeeps, PTL DEF FpSpec

\* No word is lost, and none names two sessions, whatever the peers, the openers and
\* the local sessions do with the pool they share; and, outside a close, the word index
\* is the open peers' words (WordPool, PeerManager::word_index).
THEOREM WordOwnedOnceAlways == FpSpec => []WordOwnedOnce
BY Shared, FpInitKeeps, FpStepKeeps, PTL DEF FpSpec

=============================================================================
