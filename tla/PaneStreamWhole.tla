-------------------------- MODULE PaneStreamWhole ---------------------------
(***************************************************************************)
(* The client's screen is whole: SyncedIsWhole of PaneStream, for any cells,*)
(* bounds, capacities and events, with the "attach" window closed.          *)
(***************************************************************************)
EXTENDS PaneStreamProofs

-----------------------------------------------------------------------------
(* SyncedIsWhole.  Every message certifies itself: a snapshot shows at least  *)
(* what the pane had drawn as of its seqno, and an update written over any    *)
(* grid that is whole as of the seqno before makes it whole as of its own.    *)
(* So it does not matter which messages are dropped, sent again or sent by a  *)
(* stream that was aborted: the client applies a frame only at its seqno.     *)
(* What has to be shown is that every seqno read for a snapshot is one the    *)
(* snapshot covers; for an attach that rests on the relay not running while   *)
(* the handler holds the session map, the "attach" window.                    *)

Certified(m) ==
  /\ m.kind = "snapshot" =>
       m.seq \in 0..CurrentSeqno /\ \A c \in Cells : AsOf(m.seq)[c] <= m.cells[c]
  /\ m.kind \in {"update", "scroll"} =>
       /\ m.seq \in 1..CurrentSeqno
       /\ \A c \in Cells :
            AsOf(m.seq)[c] <= IF m.cells[c] = 0 THEN AsOf(m.seq - 1)[c] ELSE m.cells[c]

Good == {m \in Messages : Certified(m)}

(* The emulator is never behind what was numbered. *)
Drawn ==
  /\ \A c \in Cells : emu.prev[c] <= AsOf(CurrentSeqno)[c] /\ emu.grid[c] <= emu.fed
  /\ \A k \in 0..CurrentSeqno, c \in Cells : AsOf(k)[c] <= emu.grid[c]

(* The session map is held by the one handler or stream that says so. *)
AtAttach(l) == handler[l].pc \in {"label", "insert"}
AtSnapshot(l) == stream[l].pc = "snapshot"
Locks ==
  /\ \A l \in Links : AtAttach(l) => lock = "attach" /\ \A k \in Links : AtAttach(k) => k = l
  /\ \A l \in Links : AtSnapshot(l) => lock = "resync" /\ \A k \in Links : AtSnapshot(k) => k = l

(* Every message anywhere is certified, ... *)
AllGood ==
  /\ relay.frames \in Seq(Good) /\ relay.buffer \in Seq(Good)
  /\ \A l \in Links : /\ handler[l].replay \in Seq(Good) /\ stale[l] \in Seq(Good)
                      /\ stream[l].replay \in Seq(Good) /\ stream[l].chan \in Seq(Good)
  /\ out \in Seq(Good)

(* ... and so is every snapshot that still lacks its seqno, or its message.   *)
ToLabel(h) ==
  h.pc = "label" =>
    LET m == h.replay[Len(h.replay)]
    IN m.kind = "snapshot" /\ \A c \in Cells : AsOf(CurrentSeqno)[c] <= m.cells[c]
ToSend(st) ==
  /\ st.pc \in {"snapshot", "reset", "fill"} => st.label \in 0..CurrentSeqno
  /\ st.pc \in {"reset", "fill"} => \A c \in Cells : AsOf(st.label)[c] <= st.snap[c]
Pending ==
  /\ \A l \in Links : ToLabel(handler[l]) /\ ToSend(stream[l])
  /\ lock = "resize" => resizeSeq \in 0..CurrentSeqno

ClientWhole ==
  sync = "synced" =>
    /\ expected \in 1..relay.counter
    /\ ~blanked => \A c \in Cells : AsOf(expected - 1)[c] <= shown[c]

LEMMA SameSeqnos ==
  ASSUME Same
  PROVE  /\ CurrentSeqno' = CurrentSeqno /\ \A k : AsOf(k)' = AsOf(k)
         /\ \A m : Certified(m)' <=> Certified(m)
         /\ Good' = Good
<1>1. CurrentSeqno' = CurrentSeqno
  BY Zenon DEF Same, CurrentSeqno
<1>2. \A k : AsOf(k)' = AsOf(k)
  BY Zenon DEF Same, AsOf
<1>3. \A m : Certified(m)' <=> Certified(m)
  BY <1>1, <1>2, Zenon DEF Certified
<1>4. Good' = Good
  BY <1>3, Zenon DEF Good
<1> QED BY <1>1, <1>2, <1>3, <1>4, Zenon

LEMMA TwoMore ==
  ASSUME NEW S, NEW s \in Seq(S), NEW e \in Seq(S), Len(e) = 2
  PROVE  /\ (s \o e)[Len(s) + 1] = e[1] /\ (s \o e)[Len(s) + 2] = e[2]
         /\ \A k \in 1..Len(s) : (s \o e)[k] = s[k]
<1> DEFINE t == s \o e
<1>1. Len(s) \in Nat
  OBVIOUS
<1>2. \A i \in 1..(Len(s) + Len(e)) : t[i] = IF i <= Len(s) THEN s[i] ELSE e[i - Len(s)]
  BY ConcatProperties, Zenon
<1> HIDE DEF t
<1>3. t[Len(s) + 1] = e[1] /\ t[Len(s) + 2] = e[2] /\ \A k \in 1..Len(s) : t[k] = s[k]
  BY <1>1, <1>2
<1> QED BY <1>3, Zenon DEF t

(* compute_diff numbers the grid as it is. *)
LEMMA DiffNumbers ==
  ASSUME TypeInv, ComputeDiff, NEW n \in Nat, n = relay.counter
  PROVE  /\ n \in Nat \ {0} /\ CurrentSeqno = n - 1
         /\ \A k \in 0..CurrentSeqno : AsOf(k)' = AsOf(k)
         /\ \/ /\ relay.scroll = "no" /\ CurrentSeqno' = n
               /\ AsOf(n)' = emu.grid
            \/ /\ relay.scroll = "before" /\ CurrentSeqno' = n + 1
               /\ AsOf(n)' = AsOf(CurrentSeqno) /\ AsOf(n + 1)' = emu.grid
            \/ /\ relay.scroll = "after" /\ CurrentSeqno' = n + 1
               /\ AsOf(n)' = emu.grid /\ AsOf(n + 1)' = emu.grid
<1>1. n \in Nat \ {0} /\ Len(asOf) = n - 1 /\ asOf \in Seq([Cells -> Nat]) /\ relay \in RelayType
  BY Zenon DEF TypeInv, TypeOK, Numbered, RelayType
<1>2. CurrentSeqno = n - 1 /\ AsOf(n - 1) \in [Cells -> Nat] /\ emu.grid \in [Cells -> Nat]
  <2>1. CurrentSeqno = n - 1 /\ emu.grid \in [Cells -> Nat]
    BY Zenon DEF CurrentSeqno, TypeInv, TypeOK
  <2>2. n - 1 \in 0..(n - 1)
    BY <1>1
  <2> QED BY <2>1, <2>2, AsOfType, Zenon DEF TypeInv
<1>3. CASE relay.scroll = "no"
  <2>1. relay'.counter = n + 1 /\ asOf' = Append(asOf, emu.grid)
    BY <1>1, <1>3, ComputeDiffCases, Zenon DEF TypeInv, RelayType
  <2>2. asOf'[n] = emu.grid /\ \A k \in 1..(n - 1) : asOf'[k] = asOf[k]
    BY <1>1, <1>2, <2>1, SMTT(20)
  <2>3. AsOf(n)' = emu.grid /\ \A k \in 0..(n - 1) : AsOf(k)' = AsOf(k)
    BY <1>1, <2>2 DEF AsOf
  <2>4. CurrentSeqno' = n
    BY <1>1, <2>1, SMTT(20) DEF CurrentSeqno
  <2> QED BY <1>1, <1>2, <1>3, <2>3, <2>4, Zenon
<1>4. CASE relay.scroll = "before"
  <2>1. relay'.counter = n + 2 /\ asOf' = asOf \o <<AsOf(n - 1), emu.grid>>
    BY <1>1, <1>4, ComputeDiffCases, Zenon DEF TypeInv, RelayType
  <2>2. asOf'[n] = AsOf(n - 1) /\ asOf'[n + 1] = emu.grid /\ \A k \in 1..(n - 1) : asOf'[k] = asOf[k]
    <3> DEFINE e == <<AsOf(n - 1), emu.grid>>
    <3>1. e \in Seq([Cells -> Nat]) /\ Len(e) = 2 /\ e[1] = AsOf(n - 1) /\ e[2] = emu.grid
      BY <1>2
    <3>2. asOf' = asOf \o e
      BY <2>1, Zenon
    <3> HIDE DEF e
    <3>3. /\ (asOf \o e)[Len(asOf) + 1] = e[1] /\ (asOf \o e)[Len(asOf) + 2] = e[2]
          /\ \A k \in 1..Len(asOf) : (asOf \o e)[k] = asOf[k]
      BY <1>1, <3>1, TwoMore, ZenonT(120)
    <3>4. Len(asOf) + 1 = n /\ Len(asOf) + 2 = n + 1 /\ Len(asOf) = n - 1
      BY <1>1
    <3> QED BY <3>1, <3>2, <3>3, <3>4, Zenon
  <2>3. AsOf(n)' = AsOf(n - 1) /\ AsOf(n + 1)' = emu.grid /\ \A k \in 0..(n - 1) : AsOf(k)' = AsOf(k)
    BY <1>1, <2>2 DEF AsOf
  <2>4. CurrentSeqno' = n + 1
    BY <1>1, <2>1 DEF CurrentSeqno
  <2> QED BY <1>1, <1>2, <1>4, <2>3, <2>4, Zenon
<1>5. CASE relay.scroll = "after"
  <2>1. relay'.counter = n + 2 /\ asOf' = asOf \o <<emu.grid, emu.grid>>
    BY <1>1, <1>5, ComputeDiffCases, Zenon DEF TypeInv, RelayType
  <2>2. asOf'[n] = emu.grid /\ asOf'[n + 1] = emu.grid /\ \A k \in 1..(n - 1) : asOf'[k] = asOf[k]
    <3> DEFINE e == <<emu.grid, emu.grid>>
    <3>1. e \in Seq([Cells -> Nat]) /\ Len(e) = 2 /\ e[1] = emu.grid /\ e[2] = emu.grid
      BY <1>2
    <3>2. asOf' = asOf \o e
      BY <2>1, Zenon
    <3> HIDE DEF e
    <3>3. /\ (asOf \o e)[Len(asOf) + 1] = e[1] /\ (asOf \o e)[Len(asOf) + 2] = e[2]
          /\ \A k \in 1..Len(asOf) : (asOf \o e)[k] = asOf[k]
      BY <1>1, <3>1, TwoMore, ZenonT(120)
    <3>4. Len(asOf) + 1 = n /\ Len(asOf) + 2 = n + 1 /\ Len(asOf) = n - 1
      BY <1>1
    <3> QED BY <3>1, <3>2, <3>3, <3>4, Zenon
  <2>3. AsOf(n)' = emu.grid /\ AsOf(n + 1)' = emu.grid /\ \A k \in 0..(n - 1) : AsOf(k)' = AsOf(k)
    BY <1>1, <2>2, SMTT(20) DEF AsOf
  <2>4. CurrentSeqno' = n + 1
    BY <1>1, <2>1 DEF CurrentSeqno
  <2> QED BY <1>1, <1>2, <1>5, <2>3, <2>4, Zenon
<1> QED BY <1>3, <1>4, <1>5, ComputeDiffCases, Zenon DEF TypeInv

(* What was certified stays so. *)
LEMMA DiffKeepsGood ==
  ASSUME TypeInv, ComputeDiff
  PROVE  Good \subseteq Good'
<1>1. /\ CurrentSeqno \in Nat /\ CurrentSeqno' \in Nat /\ CurrentSeqno <= CurrentSeqno'
      /\ \A k \in 0..CurrentSeqno : AsOf(k)' = AsOf(k)
  <2>1. PICK n \in Nat : n = relay.counter
    BY Zenon DEF TypeInv, TypeOK, RelayType
  <2> QED BY <2>1, DiffNumbers, SMTT(20)
<1>2. SUFFICES ASSUME NEW m \in Messages, Certified(m) PROVE Certified(m)'
  BY Zenon DEF Good
<1>3. m.kind = "snapshot" => m.seq \in 0..CurrentSeqno' /\ \A c \in Cells : AsOf(m.seq)'[c] <= m.cells[c]
  BY <1>1, <1>2, SMTT(20) DEF Certified
<1>4. ASSUME m.kind \in {"update", "scroll"}
      PROVE  /\ m.seq \in 1..CurrentSeqno'
             /\ \A c \in Cells : AsOf(m.seq)'[c] <= IF m.cells[c] = 0 THEN AsOf(m.seq - 1)'[c] ELSE m.cells[c]
  <2>1. m.seq \in 1..CurrentSeqno
    BY <1>2, <1>4, Zenon DEF Certified
  <2>2. m.seq \in 0..CurrentSeqno /\ m.seq - 1 \in 0..CurrentSeqno /\ m.seq \in 1..CurrentSeqno'
    BY <1>1, <2>1
  <2>3. AsOf(m.seq)' = AsOf(m.seq) /\ AsOf(m.seq - 1)' = AsOf(m.seq - 1)
    BY <1>1, <2>2, Zenon
  <2>4. \A c \in Cells : AsOf(m.seq)[c] <= IF m.cells[c] = 0 THEN AsOf(m.seq - 1)[c] ELSE m.cells[c]
    BY <1>2, <1>4, Zenon DEF Certified
  <2> QED BY <2>2, <2>3, <2>4, Zenon
<1> QED BY <1>3, <1>4, Zenon DEF Certified

LEMMA EmuSteps ==
  ASSUME [Next]_vars
  PROVE  Feed \/ ComputeDiff \/ ResizePane \/ UNCHANGED emu
<1>1. OtherTraffic \/ Receive \/ LoseLink \/ Reconnect \/ SwapTransport \/ UNCHANGED vars \/ BroadcastResize
        => UNCHANGED emu
  BY Zenon DEF BroadcastResize, OtherTraffic, OtherControl, OtherChecks, OtherSends,
         Receive, LoseLink, Reconnect, SwapTransport, daemonVars, vars
<1>2. \A l \in Links : Handler(l) => UNCHANGED emu
  BY Zenon DEF Handler, TakeAttach, DetachOld, ComputeReplay, ReadLabel, InsertClient, ReleaseChannel
<1>3. \A l \in Links : Stream(l) => UNCHANGED emu
  BY ZenonT(120) DEF Stream, StaleSend, Forward, DropFrame, EndStream, StartResync, ResyncLabel, ResyncSnapshot,
         SendReset, SendSnapshot
<1>4. PushDiff \/ Broadcast \/ Reap \/ Digest => UNCHANGED emu
  BY Zenon DEF PushDiff, Broadcast, Reap, Digest
<1> QED BY <1>1, <1>2, <1>3, <1>4, Zenon DEF Next, Relay, Resize

LEMMA DrawnKept ==
  ASSUME TypeInv, Drawn, [Next]_vars
  PROVE  Drawn'
<1>0. /\ emu \in [grid : [Cells -> Nat], prev : [Cells -> Nat], fed : 0..MaxFeeds]
      /\ emu.grid \in [Cells -> Nat] /\ emu.prev \in [Cells -> Nat] /\ emu.fed \in Nat
      /\ CurrentSeqno \in Nat /\ \A k \in 0..CurrentSeqno : AsOf(k) \in [Cells -> Nat]
  BY AsOfType, Bounds, SMTT(90) DEF TypeInv, TypeOK
<1>1. ASSUME ~ComputeDiff PROVE CurrentSeqno' = CurrentSeqno /\ \A k : AsOf(k)' = AsOf(k)
  BY <1>1, OnlyDiffDraws, SameSeqnos, Zenon DEF TypeInv
<1>2. CASE ComputeDiff
  <2>1. PICK n \in Nat : n = relay.counter
    BY Zenon DEF TypeInv, TypeOK, RelayType
  <2>2. emu' = [emu EXCEPT !.prev = emu.grid]
    BY <1>2, Zenon DEF ComputeDiff
  <2>3. emu'.prev = emu.grid /\ emu'.grid = emu.grid /\ emu'.fed = emu.fed
    BY <1>0, <2>2, Zenon
  <2>4. n # 0 /\ CurrentSeqno = n - 1 /\ \A k \in 0..CurrentSeqno : AsOf(k)' = AsOf(k)
    BY <1>2, <2>1, DiffNumbers, Zenon
  <2>5. CASE CurrentSeqno' = n /\ AsOf(n)' = emu.grid
    <3>1. \A k \in 0..n, c \in Cells : AsOf(k)'[c] <= emu.grid[c]
      <4> SUFFICES ASSUME NEW k \in 0..n, NEW c \in Cells PROVE AsOf(k)'[c] <= emu.grid[c]
        BY Zenon
      <4>1. k = n \/ k \in 0..CurrentSeqno
        BY <2>4
      <4>2. ASSUME k \in 0..CurrentSeqno PROVE AsOf(k)' = AsOf(k) /\ AsOf(k)[c] <= emu.grid[c]
        BY <2>4, <4>2, Zenon DEF Drawn
      <4>3. emu.grid[c] \in Nat
        BY <1>0, Zenon
      <4> QED BY <2>5, <4>1, <4>2, <4>3
    <3>2. AsOf(CurrentSeqno)' = emu.grid
      BY <2>5, Zenon DEF AsOf
    <3> QED BY <1>0, <2>3, <2>5, <3>1, <3>2, SMTT(20) DEF Drawn
  <2>6. CASE CurrentSeqno' = n + 1 /\ AsOf(n)' \in {AsOf(n - 1), emu.grid} /\ AsOf(n + 1)' = emu.grid
    <3>1. \A k \in 0..(n + 1), c \in Cells : AsOf(k)'[c] <= emu.grid[c]
      <4> SUFFICES ASSUME NEW k \in 0..(n + 1), NEW c \in Cells PROVE AsOf(k)'[c] <= emu.grid[c]
        BY Zenon
      <4>1. k = n + 1 \/ k = n \/ k \in 0..CurrentSeqno
        BY <2>4
      <4>2. ASSUME k \in 0..CurrentSeqno PROVE AsOf(k)' = AsOf(k) /\ AsOf(k)[c] <= emu.grid[c]
        BY <2>4, <4>2, Zenon DEF Drawn
      <4>3. emu.grid[c] \in Nat /\ AsOf(n - 1)[c] <= emu.grid[c]
        BY <1>0, <2>4 DEF Drawn
      <4> QED BY <2>6, <4>1, <4>2, <4>3, SMTT(20)
    <3>2. AsOf(CurrentSeqno)' = emu.grid
      BY <2>6, Zenon DEF AsOf
    <3> QED BY <1>0, <2>3, <2>6, <3>1, <3>2 DEF Drawn
  <2> QED BY <1>2, <2>1, <2>4, <2>5, <2>6, DiffNumbers, Zenon
<1>3. CASE Feed
  <2>1. PICK c \in Cells : emu' = [emu EXCEPT !.grid[c] = emu.fed + 1, !.fed = @ + 1]
    BY <1>3, Zenon DEF Feed
  <2>2. /\ emu'.prev = emu.prev /\ emu'.fed = emu.fed + 1
        /\ \A d \in Cells : emu'.grid[d] = IF d = c THEN emu.fed + 1 ELSE emu.grid[d]
    BY <1>0, <2>1, Zenon
  <2>3. \A d \in Cells : emu.grid[d] <= emu'.grid[d] /\ emu'.grid[d] <= emu'.fed /\ emu'.grid[d] \in Nat
    BY <1>0, <2>2 DEF Drawn
  <2>4. Same
    BY <1>3, OnlyDiffDraws, <1>0, Zenon DEF TypeInv, Feed, ComputeDiff
  <2>5. CurrentSeqno' = CurrentSeqno /\ \A k : AsOf(k)' = AsOf(k)
    BY <2>4, SameSeqnos, Zenon
  <2>6. \A k \in 0..CurrentSeqno, d \in Cells : AsOf(k)[d] <= emu'.grid[d]
    BY <1>0, <2>3 DEF Drawn
  <2> QED BY <1>0, <2>2, <2>3, <2>5, <2>6, Zenon DEF Drawn
<1>4. CASE ResizePane /\ ~ComputeDiff
  <2>1. emu' = [emu EXCEPT !.prev = Blank]
    BY <1>4, Zenon DEF ResizePane
  <2>2. emu'.grid = emu.grid /\ emu'.fed = emu.fed /\ \A c \in Cells : emu'.prev[c] = 0
    BY <1>0, <2>1, Zenon DEF Blank
  <2>3. \A c \in Cells : AsOf(CurrentSeqno)[c] >= 0
    BY <1>0
  <2> QED BY <1>1, <1>4, <2>2, <2>3, Zenon DEF Drawn
<1>5. CASE UNCHANGED emu /\ ~ComputeDiff
  BY <1>1, <1>5, Zenon DEF Drawn
<1> QED BY <1>2, <1>3, <1>4, <1>5, EmuSteps, Zenon

(* The frames of a diff are certified: where the diff writes nothing the grid *)
(* is still what the last seqno covered.                                      *)
LEMMA DiffMakesGood ==
  ASSUME TypeInv, Drawn, ComputeDiff
  PROVE  relay'.frames \in Seq(Good')
<1>1. PICK n \in Nat : n = relay.counter
  BY Zenon DEF TypeInv, TypeOK, RelayType
<1>2. n # 0 /\ CurrentSeqno = n - 1 /\ AsOf(n - 1)' = AsOf(n - 1) /\ relay \in RelayType
  <2>1. n # 0 /\ CurrentSeqno = n - 1 /\ \A k \in 0..CurrentSeqno : AsOf(k)' = AsOf(k)
    BY <1>1, DiffNumbers, Zenon
  <2> QED BY <2>1 DEF TypeInv, TypeOK
<1>3. /\ emu.grid \in [Cells -> Nat] /\ emu.prev \in [Cells -> Nat] /\ AsOf(n - 1) \in [Cells -> Nat]
      /\ Writes \in [Cells -> Nat] /\ Blank \in [Cells -> Nat] /\ \A c \in Cells : Blank[c] = 0
  <2>1. CurrentSeqno \in 0..CurrentSeqno
    BY <1>2
  <2> QED BY <1>2, <2>1, AsOfType, MessageTypes, ComputeDiffCases, Zenon DEF TypeInv, TypeOK, Blank
<1>4. \A c \in Cells : emu.grid[c] <= IF Writes[c] = 0 THEN AsOf(n - 1)[c] ELSE Writes[c]
  BY <1>2, <1>3 DEF Drawn, Writes
<1>5. \A u \in Nat, g \in [Cells -> Nat] : /\ Msg("update", u, g) \in Messages /\ Msg("scroll", u, g) \in Messages
  BY MessageTypes, Zenon DEF DataKinds
<1>6. ASSUME NEW kind \in {"update", "scroll"}, NEW u \in Nat, NEW g \in [Cells -> Nat],
             u \in 1..CurrentSeqno',
             \A c \in Cells : AsOf(u)'[c] <= IF g[c] = 0 THEN AsOf(u - 1)'[c] ELSE g[c]
      PROVE  Msg(kind, u, g) \in Good'
  <2> DEFINE m == Msg(kind, u, g)
  <2>1. m \in Messages /\ m.kind = kind /\ m.seq = u /\ m.cells = g
    BY <1>5, Zenon DEF Msg
  <2> HIDE DEF m
  <2>2. Certified(m)'
    BY <1>6, <2>1, Zenon DEF Certified
  <2>3. m \in Good'
    BY <2>1, <2>2, Zenon DEF Good
  <2> QED BY <2>3, Zenon DEF m
<1>7. CASE relay.scroll = "no"
  <2>1. relay'.frames = <<Msg("update", n, Writes)>>
    BY <1>1, <1>2, <1>7, ComputeDiffCases, Zenon DEF TypeInv, RelayType
  <2>2. CurrentSeqno' = n /\ AsOf(n)' = emu.grid
    BY <1>1, <1>7, DiffNumbers, Zenon
  <2>3. n \in 1..CurrentSeqno' /\ \A c \in Cells : AsOf(n)'[c] <= IF Writes[c] = 0 THEN AsOf(n - 1)'[c] ELSE Writes[c]
    BY <1>2, <1>4, <2>2
  <2>4. Msg("update", n, Writes) \in Good'
    BY <1>3, <1>6, <2>3, Zenon
  <2> QED BY <2>1, <2>4
<1>8. CASE relay.scroll = "before"
  <2>1. relay'.frames = <<Msg("scroll", n, Blank), Msg("update", n + 1, Writes)>>
    BY <1>1, <1>2, <1>8, ComputeDiffCases, Zenon DEF TypeInv, RelayType
  <2>2. CurrentSeqno' = n + 1 /\ AsOf(n)' = AsOf(n - 1) /\ AsOf(n + 1)' = emu.grid
    BY <1>1, <1>2, <1>8, DiffNumbers, Zenon
  <2>3. n \in 1..CurrentSeqno' /\ n + 1 \in 1..CurrentSeqno' /\ (n + 1) - 1 = n /\ n + 1 \in Nat
    BY <1>2, <2>2
  <2>4. \A c \in Cells : AsOf(n)'[c] <= IF Blank[c] = 0 THEN AsOf(n - 1)'[c] ELSE Blank[c]
    BY <1>2, <1>3, <2>2
  <2>5. \A c \in Cells : AsOf(n + 1)'[c] <= IF Writes[c] = 0 THEN AsOf((n + 1) - 1)'[c] ELSE Writes[c]
    BY <1>4, <2>2, <2>3, Zenon
  <2>6. Msg("scroll", n, Blank) \in Good' /\ Msg("update", n + 1, Writes) \in Good'
    BY <1>3, <1>6, <2>3, <2>4, <2>5, Zenon
  <2> QED BY <2>1, <2>6
<1>9. CASE relay.scroll = "after"
  <2>1. relay'.frames = <<Msg("update", n, Writes), Msg("scroll", n + 1, Blank)>>
    BY <1>1, <1>2, <1>9, ComputeDiffCases, Zenon DEF TypeInv, RelayType
  <2>2. CurrentSeqno' = n + 1 /\ AsOf(n)' = emu.grid /\ AsOf(n + 1)' = emu.grid
    BY <1>1, <1>9, DiffNumbers, Zenon
  <2>3. n \in 1..CurrentSeqno' /\ n + 1 \in 1..CurrentSeqno' /\ (n + 1) - 1 = n /\ n + 1 \in Nat
    BY <1>2, <2>2
  <2>4. \A c \in Cells : AsOf(n)'[c] <= IF Writes[c] = 0 THEN AsOf(n - 1)'[c] ELSE Writes[c]
    BY <1>2, <1>4, <2>2, Zenon
  <2>5. \A c \in Cells : AsOf(n + 1)'[c] <= IF Blank[c] = 0 THEN AsOf((n + 1) - 1)'[c] ELSE Blank[c]
    BY <1>3, <2>2, <2>3
  <2>6. Msg("update", n, Writes) \in Good' /\ Msg("scroll", n + 1, Blank) \in Good'
    BY <1>3, <1>6, <2>3, <2>4, <2>5, Zenon
  <2> QED BY <2>1, <2>6
<1> QED BY <1>7, <1>8, <1>9, ComputeDiffCases, Zenon DEF TypeInv

LEMMA PlainGood ==
  ASSUME NEW kind \in {"reset", "other", "lagged", "resized", "control"}
  PROVE  Plain(kind) \in Good
<1>1. Plain(kind) \in Messages /\ Plain(kind).kind = kind
  BY MessageTypes, Zenon DEF DataKinds, ControlKinds, Plain, Msg
<1>2. Certified(Plain(kind))
  BY <1>1, Zenon DEF Certified
<1> QED BY <1>1, <1>2, Zenon DEF Good

LEMMA SnapshotGood ==
  ASSUME NEW n \in 0..CurrentSeqno, CurrentSeqno \in Nat, NEW g \in [Cells -> Nat],
         \A c \in Cells : AsOf(n)[c] <= g[c]
  PROVE  Msg("snapshot", n, g) \in Good
<1> DEFINE m == Msg("snapshot", n, g)
<1>1. m \in Messages /\ m.kind = "snapshot" /\ m.seq = n /\ m.cells = g
  BY MessageTypes DEF DataKinds, Msg
<1> HIDE DEF m
<1>2. Certified(m)
  BY <1>1, Zenon DEF Certified
<1>3. m \in Good
  BY <1>1, <1>2, Zenon DEF Good
<1> QED BY <1>3, Zenon DEF m

LEMMA DigestGood ==
  ASSUME NEW n \in Nat, NEW g \in [Cells -> Nat]
  PROVE  Msg("digest", n, g) \in Good
<1> DEFINE m == Msg("digest", n, g)
<1>1. m \in Messages /\ m.kind = "digest"
  BY MessageTypes, Zenon DEF DataKinds, Msg
<1> HIDE DEF m
<1>2. Certified(m)
  BY <1>1, Zenon DEF Certified
<1>3. m \in Good
  BY <1>1, <1>2, Zenon DEF Good
<1> QED BY <1>3, Zenon DEF m

(* A message put into a channel changes nothing else of a stream. *)
LEMMA ToChanFields ==
  ASSUME TypeOK, NEW l \in Links, NEW m, NEW k \in Links
  PROVE  /\ ToChan(l, m)[k].pc = stream[k].pc /\ ToChan(l, m)[k].replay = stream[k].replay
         /\ ToChan(l, m)[k].label = stream[k].label /\ ToChan(l, m)[k].snap = stream[k].snap
         /\ ToChan(l, m)[k].chan = IF k = l THEN Append(stream[k].chan, m) ELSE stream[k].chan
<1>1. stream \in [Links -> StreamType] /\ stream[l] \in StreamType
  BY Zenon DEF TypeOK
<1> DEFINE c == Append(stream[l].chan, m)
<1>2. ToChan(l, m) = [stream EXCEPT ![l] = [stream[l] EXCEPT !.chan = c]]
  BY Zenon DEF ToChan
<1> HIDE DEF c
<1>3. ToChan(l, m)[k] = IF k = l THEN [stream[l] EXCEPT !.chan = c] ELSE stream[k]
  BY <1>1, <1>2, Zenon
<1>4. LET st == [stream[l] EXCEPT !.chan = c]
      IN st.pc = stream[l].pc /\ st.replay = stream[l].replay /\ st.label = stream[l].label
         /\ st.snap = stream[l].snap /\ st.chan = c
  BY <1>1, Zenon DEF StreamType
<1> QED BY <1>3, <1>4, Zenon DEF c

(* Steps that leave the handlers and the streams' places alone. *)
Elsewhere == Relay \/ Resize \/ OtherTraffic \/ Receive \/ LoseLink \/ Reconnect \/ SwapTransport \/ UNCHANGED vars

LEMMA ElsewherePlaces ==
  ASSUME TypeOK, Elsewhere
  PROVE  /\ UNCHANGED <<handler, stale>>
         /\ \A k \in Links : /\ stream'[k].pc = stream[k].pc /\ stream'[k].replay = stream[k].replay
                             /\ stream'[k].label = stream[k].label /\ stream'[k].snap = stream[k].snap
         /\ UNCHANGED lock \/ ResizePane \/ BroadcastResize
         /\ UNCHANGED stream \/ Broadcast \/ Digest \/ BroadcastResize
<1>1. UNCHANGED <<handler, stale>>
  BY ZenonT(30) DEF Elsewhere, Relay, Feed, ComputeDiff, PushDiff, Broadcast, Reap, Digest, Resize, ResizePane,
         BroadcastResize, OtherTraffic, OtherControl, OtherChecks, OtherSends, Receive, LoseLink,
         Reconnect, SwapTransport, daemonVars, vars
<1>2. UNCHANGED lock \/ ResizePane \/ BroadcastResize
  BY ZenonT(30) DEF Elsewhere, Relay, Feed, ComputeDiff, PushDiff, Broadcast, Reap, Digest, Resize,
         OtherTraffic, OtherControl, OtherChecks, OtherSends, Receive, LoseLink,
         Reconnect, SwapTransport, daemonVars, vars
<1>3. UNCHANGED stream \/ Broadcast \/ Digest \/ BroadcastResize
  BY Zenon DEF Elsewhere, Relay, Feed, ComputeDiff, PushDiff, Reap, Resize, ResizePane,
         OtherTraffic, OtherControl, OtherChecks, OtherSends, Receive, LoseLink,
         Reconnect, SwapTransport, daemonVars, vars
<1>4. Broadcast \/ Digest \/ BroadcastResize => UNCHANGED stream \/ \E m : stream' = ToChan(reg, m) /\ reg # 0
  <2>1. Broadcast => UNCHANGED stream \/ \E m : stream' = ToChan(reg, m) /\ reg # 0
    BY Zenon DEF Broadcast
  <2>2. Digest => UNCHANGED stream \/ \E m : stream' = ToChan(reg, m) /\ reg # 0
    BY Zenon DEF Digest
  <2>3. BroadcastResize => UNCHANGED stream \/ \E m : stream' = ToChan(reg, m) /\ reg # 0
    BY Zenon DEF BroadcastResize
  <2> QED BY <2>1, <2>2, <2>3, Zenon
<1>5. reg # 0 => reg \in Links
  BY DEF TypeOK, Links
<1>6. \A k \in Links : /\ stream'[k].pc = stream[k].pc /\ stream'[k].replay = stream[k].replay
                       /\ stream'[k].label = stream[k].label /\ stream'[k].snap = stream[k].snap
  BY <1>3, <1>4, <1>5, ToChanFields
<1> QED BY <1>1, <1>2, <1>3, <1>6, Zenon

(* One handler's or one stream's new place. *)
LEMMA PlaceKeeps ==
  ASSUME Locks, NEW l \in Links, lock' \in {"free", "attach", "resync", "resize"},
         \A k \in Links : k # l => handler'[k].pc = handler[k].pc /\ stream'[k].pc = stream[k].pc,
         \/ /\ lock' = lock /\ (AtAttach(l)' <=> AtAttach(l))
            /\ (AtSnapshot(l)' <=> AtSnapshot(l))
         \/ /\ lock = "free" /\ lock' = "attach" /\ ~AtSnapshot(l)'
         \/ /\ lock = "free" /\ lock' = "resync" /\ ~AtAttach(l)'
         \/ /\ lock' = "free" /\ (AtAttach(l) \/ AtSnapshot(l)) /\ ~AtAttach(l)' /\ ~AtSnapshot(l)'
  PROVE  Locks'
<1>1. \A k \in Links : k # l => (AtAttach(k)' <=> AtAttach(k)) /\ (AtSnapshot(k)' <=> AtSnapshot(k))
  BY Zenon DEF AtAttach, AtSnapshot
<1> QED BY <1>1, Zenon DEF Locks

LEMMA HandlerLocks ==
  ASSUME TypeOK, Locks, NEW l \in Links, Handler(l)
  PROVE  Locks'
<1>0. /\ handler \in [Links -> HandlerType] /\ stream \in [Links -> StreamType]
      /\ lock \in {"free", "attach", "resync", "resize"} /\ handler[l] \in HandlerType
  BY Zenon DEF TypeOK
<1>1. \A k \in Links : k # l => handler'[k].pc = handler[k].pc /\ stream'[k].pc = stream[k].pc
  <2>1. UNCHANGED handler \/ \E h : handler' = [handler EXCEPT ![l] = h]
    BY Zenon DEF Handler, TakeAttach, DetachOld, ComputeReplay, ReadLabel, InsertClient, ReleaseChannel
  <2>2. UNCHANGED stream \/ \E st : stream' = [stream EXCEPT ![l] = st]
    BY Zenon DEF Handler, TakeAttach, DetachOld, ComputeReplay, ReadLabel, InsertClient, ReleaseChannel
  <2> QED BY <1>0, <2>1, <2>2, Zenon
<1>2. CASE TakeAttach(l)
  <2>1. handler'[l].pc \in {"detach", "replay"} /\ handler[l].pc = "idle" /\ lock' = lock
    BY <1>0, <1>2, Zenon DEF TakeAttach
  <2>2. stream[l].pc # "snapshot" /\ stream'[l].pc # "snapshot"
    BY <1>0, <1>2, Zenon DEF TakeAttach, NoStream
  <2> QED BY <1>0, <1>1, <2>1, <2>2, PlaceKeeps, Zenon DEF AtAttach, AtSnapshot
<1>3. CASE DetachOld(l)
  <2>1. handler'[l].pc = "replay" /\ handler[l].pc = "detach" /\ lock' = lock /\ stream' = stream
    BY <1>0, <1>3, Zenon DEF DetachOld, HandlerType
  <2> QED BY <1>0, <1>1, <2>1, PlaceKeeps, Zenon DEF AtAttach, AtSnapshot
<1>4. CASE ComputeReplay(l)
  <2>1. lock = "free" /\ lock' = "attach" /\ stream' = stream
    BY <1>4, Zenon DEF ComputeReplay
  <2>2. ~AtSnapshot(l)'
    BY <2>1, Zenon DEF Locks, AtSnapshot
  <2> QED BY <1>1, <2>1, <2>2, PlaceKeeps, Zenon
<1>5. CASE ReadLabel(l)
  <2>1. handler'[l].pc = "insert" /\ handler[l].pc = "label" /\ lock' = lock /\ stream' = stream
    BY <1>0, <1>5, Zenon DEF ReadLabel, HandlerType
  <2> QED BY <1>0, <1>1, <2>1, PlaceKeeps, Zenon DEF AtAttach, AtSnapshot
<1>6. CASE InsertClient(l)
  <2>1. handler'[l].pc = "idle" /\ handler[l].pc = "insert" /\ lock' = "free"
    BY <1>0, <1>6, Zenon DEF InsertClient, IdleHandler
  <2>2. stream'[l].pc = "live"
    BY <1>0, <1>6, Zenon DEF InsertClient, NoStream
  <2> QED BY <1>1, <2>1, <2>2, PlaceKeeps, Zenon DEF AtAttach, AtSnapshot
<1>7. CASE ReleaseChannel(l)
  <2>1. handler'[l].pc = "idle" /\ handler[l].pc = "idle" /\ lock' = lock /\ lock = "free"
    BY <1>0, <1>7, Zenon DEF ReleaseChannel, IdleHandler
  <2>2. stream'[l].pc # "snapshot"
    BY <1>0, <1>7, Zenon DEF ReleaseChannel, NoStream
  <2>3. ~AtSnapshot(l)
    BY <2>1, Zenon DEF Locks
  <2> QED BY <1>0, <1>1, <2>1, <2>2, <2>3, PlaceKeeps, Zenon DEF AtAttach, AtSnapshot
<1> QED BY <1>2, <1>3, <1>4, <1>5, <1>6, <1>7, Zenon DEF Handler

LEMMA StreamLocks ==
  ASSUME TypeOK, Numbered, Locks, NEW l \in Links, Stream(l)
  PROVE  Locks'
<1>0. /\ stream \in [Links -> StreamType] /\ stream[l] \in StreamType
      /\ lock \in {"free", "attach", "resync", "resize"} /\ handler' = handler
  BY Zenon DEF TypeOK, Stream, StaleSend, Forward, DropFrame, EndStream, StartResync, ResyncLabel, ResyncSnapshot,
         SendReset, SendSnapshot
<1>1. \A k \in Links : k # l => handler'[k].pc = handler[k].pc /\ stream'[k].pc = stream[k].pc
  <2>1. UNCHANGED stream \/ \E st : stream' = [stream EXCEPT ![l] = st]
    BY Zenon DEF Stream, StaleSend, Forward, DropFrame, EndStream, StartResync, ResyncLabel, ResyncSnapshot,
           SendReset, SendSnapshot
  <2> QED BY <1>0, <2>1, Zenon
<1>2. CASE StaleSend(l)
  <2>1. stream' = stream /\ lock' = lock
    BY <1>2, Zenon DEF StaleSend
  <2> QED BY <1>0, <1>1, <2>1, PlaceKeeps, Zenon DEF AtAttach, AtSnapshot
<1>3. CASE Forward(l)
  <2>1. stream[l].pc = "live" /\ lock' = lock
    BY <1>3, Zenon DEF Forward
  <2>2. stream'[l].pc # "snapshot"
    <3>1. Popped(stream[l]).pc = "live" /\ Popped(stream[l]) \in StreamType
      BY <1>0, <1>3, <2>1, PoppedType, ForwardCases, Zenon DEF TypeOK
    <3>2. [Popped(stream[l]) EXCEPT !.pc = "lagged"].pc = "lagged"
      BY <3>1, Zenon DEF StreamType
    <3>3. \/ stream' = [stream EXCEPT ![l] = Popped(stream[l])]
          \/ stream' = [stream EXCEPT ![l] = [Popped(stream[l]) EXCEPT !.pc = "lagged"]]
      BY <1>3, ForwardCases, Zenon
    <3> QED BY <1>0, <3>1, <3>2, <3>3, Zenon
  <2> QED BY <1>0, <1>1, <2>1, <2>2, PlaceKeeps, Zenon DEF AtAttach, AtSnapshot
<1>4. CASE ResyncLabel(l)
  <2>1. lock = "free" /\ lock' = "resync"
    BY <1>4, Zenon DEF ResyncLabel
  <2>2. ~AtAttach(l)'
    BY <1>0, <2>1, Zenon DEF Locks, AtAttach
  <2> QED BY <1>1, <2>1, <2>2, PlaceKeeps, Zenon
<1>5. CASE ResyncSnapshot(l)
  <2>1. stream[l].pc = "snapshot" /\ lock' = "free" /\ stream'[l].pc # "snapshot"
    BY <1>0, <1>5, Zenon DEF ResyncSnapshot, StreamType
  <2>2. AtSnapshot(l) /\ ~AtSnapshot(l)' /\ ~AtAttach(l)'
    BY <1>0, <2>1, Zenon DEF AtSnapshot, AtAttach, Locks
  <2> QED BY <1>1, <2>1, <2>2, PlaceKeeps, Zenon
<1>6. CASE DropFrame(l) \/ EndStream(l) \/ StartResync(l) \/ SendReset(l) \/ SendSnapshot(l)
  <2>1. stream[l].pc # "snapshot" /\ lock' = lock
    BY <1>6, Zenon DEF DropFrame, EndStream, StartResync, SendReset, SendSnapshot
  <2>2. stream'[l].pc # "snapshot"
    <3>1. StreamSteps(l)
      BY <1>6, Zenon DEF StreamSteps
    <3>2. DropFrame(l) => stream'[l].pc = "lagged"
      BY <1>0, Zenon DEF DropFrame, StreamType
    <3>3. EndStream(l) => stream'[l].pc = "gone"
      BY <1>0 DEF EndStream, NoStream
    <3>4. StartResync(l) => stream'[l].pc \in {"gone", "resync"}
      <4> DEFINE e == <<>>
                 st == [stream[l] EXCEPT !.pc = "resync", !.replay = e, !.chan = e]
      <4>1. StartResync(l) => stream' = [stream EXCEPT ![l] = IF SenderDropped(l) THEN NoStream ELSE st]
        BY Zenon DEF StartResync
      <4>2. st.pc = "resync" /\ NoStream.pc = "gone"
        BY <1>0, Zenon DEF StreamType, NoStream
      <4> HIDE DEF st
      <4> QED BY <1>0, <4>1, <4>2, Zenon
    <3>5. SendReset(l) => stream'[l].pc \in {"fill", "lagged"}
      BY <1>0 DEF SendReset, StreamType
    <3>6. SendSnapshot(l) => stream'[l].pc \in {"live", "lagged"}
      BY <1>0 DEF SendSnapshot, StreamType
    <3> QED BY <1>6, <3>2, <3>3, <3>4, <3>5, <3>6, Zenon
  <2> QED BY <1>0, <1>1, <2>1, <2>2, PlaceKeeps, Zenon DEF AtAttach, AtSnapshot
<1> QED BY <1>2, <1>3, <1>4, <1>5, <1>6, Zenon DEF Stream

LEMMA LocksKept ==
  ASSUME TypeInv, Locks, [Next]_vars
  PROVE  Locks'
<1>1. CASE Elsewhere
  <2>1. \A k \in Links : (AtAttach(k)' <=> AtAttach(k)) /\ (AtSnapshot(k)' <=> AtSnapshot(k))
    BY <1>1, ElsewherePlaces, Zenon DEF TypeInv, AtAttach, AtSnapshot
  <2>2. lock' = lock \/ lock \in {"free", "resize"}
    <3>1. ResizePane \/ BroadcastResize => lock \in {"free", "resize"}
      BY Zenon DEF ResizePane, BroadcastResize
    <3> QED BY <1>1, <3>1, ElsewherePlaces, Zenon DEF TypeInv
  <2> QED BY <2>1, <2>2, Zenon DEF Locks
<1>2. ASSUME NEW l \in Links, Handler(l) \/ Stream(l) PROVE Locks'
  BY <1>2, HandlerLocks, StreamLocks, Zenon DEF TypeInv
<1> QED BY <1>1, <1>2, Zenon DEF Next, Elsewhere

LEMMA GoodGrows ==
  ASSUME TypeInv, [Next]_vars
  PROVE  Good \subseteq Good' /\ (~ComputeDiff => Same /\ Good' = Good)
<1>1. ~ComputeDiff => Same /\ Good' = Good
  BY OnlyDiffDraws, SameSeqnos, Zenon DEF TypeInv
<1> QED BY <1>1, DiffKeepsGood, Zenon

LEMMA RelayGood ==
  ASSUME TypeInv, Drawn, AllGood, [Next]_vars
  PROVE  relay'.frames \in Seq(Good') /\ relay'.buffer \in Seq(Good')
<1>0. /\ relay \in RelayType /\ relay.frames \in Seq(Good) /\ relay.buffer \in Seq(Good) /\ Good \subseteq Good'
  BY GoodGrows, Zenon DEF TypeInv, TypeOK, AllGood
<1>1. relay.frames \in Seq(Good') /\ relay.buffer \in Seq(Good')
  BY <1>0
<1>2. CASE ComputeDiff
  <2>1. relay'.buffer = relay.buffer
    BY <1>0, <1>2, ComputeDiffCases, Zenon DEF TypeInv, RelayType
  <2> QED BY <1>1, <1>2, <2>1, DiffMakesGood, Zenon
<1>3. CASE PushDiff
  <2> DEFINE i == IF relay.scroll = "before" THEN 2 ELSE 1
             kept == Append(relay.buffer, relay.frames[i])
             b == IF Len(kept) > Retained THEN Tail(kept) ELSE kept
  <2>1. relay' = [relay EXCEPT !.pc = "send", !.buffer = b]
    BY <1>3, Zenon DEF PushDiff
  <2>2. relay.frames # <<>> /\ (relay.scroll = "before" => Len(relay.frames) = 2)
    BY <1>3, Zenon DEF PushDiff, TypeInv, Ready
  <2>3. i \in 1..Len(relay.frames)
    <3>1. Len(relay.frames) \in Nat /\ Len(relay.frames) # 0
      BY <1>1, <2>2
    <3> QED BY <2>2, <3>1
  <2> HIDE DEF i
  <2>4. relay.frames[i] \in Good'
    BY <1>1, <2>3
  <2>5. kept \in Seq(Good') /\ kept # <<>>
    <3> DEFINE old == relay.buffer
               new == relay.frames[i]
    <3>1. old \in Seq(Good') /\ new \in Good' /\ kept = Append(old, new)
      BY <1>1, <2>4, Zenon
    <3> HIDE DEF old, new, kept
    <3> QED BY <3>1
  <2> HIDE DEF kept
  <2>6. b \in Seq(Good')
    BY <2>5
  <2> HIDE DEF b
  <2> QED BY <1>0, <1>1, <2>1, <2>6, Zenon DEF RelayType
<1>4. CASE Broadcast
  <2>1. PICK p : relay' = [relay EXCEPT !.frames = Tail(relay.frames), !.pc = p]
    BY <1>4, Zenon DEF Broadcast
  <2>2. relay.frames # <<>>
    BY <1>4, Zenon DEF Broadcast, TypeInv, Ready
  <2>3. Tail(relay.frames) \in Seq(Good')
    BY <1>1, <2>2
  <2> QED BY <1>0, <1>1, <2>1, <2>3, Zenon DEF RelayType
<1>5. CASE Feed \/ Reap \/ Digest
  <2>1. PICK p, s : relay' = [relay EXCEPT !.pc = p, !.scroll = s] \/ relay' = [relay EXCEPT !.pc = p]
    BY <1>5, Zenon DEF Feed, Reap, Digest
  <2> QED BY <1>0, <1>1, <2>1, Zenon DEF RelayType
<1>6. CASE UNCHANGED relay
  BY <1>1, <1>6, Zenon
<1>7. Resize \/ OtherTraffic \/ Receive \/ LoseLink \/ Reconnect \/ SwapTransport \/ UNCHANGED vars
        => UNCHANGED relay
  BY Zenon DEF Resize, ResizePane, BroadcastResize, OtherTraffic, OtherControl, OtherChecks, OtherSends,
         Receive, LoseLink, Reconnect, SwapTransport, daemonVars, vars
<1>8. \A l \in Links : Handler(l) => UNCHANGED relay
  BY Zenon DEF Handler, TakeAttach, DetachOld, ComputeReplay, ReadLabel, InsertClient, ReleaseChannel
<1>9. \A l \in Links : Stream(l) => UNCHANGED relay
  BY Zenon DEF Stream, StaleSend, Forward, DropFrame, EndStream, StartResync, ResyncLabel, ResyncSnapshot,
         SendReset, SendSnapshot
<1> QED BY <1>2, <1>3, <1>4, <1>5, <1>6, <1>7, <1>8, <1>9, Zenon DEF Next, Relay

LEMMA FrameGood ==
  ASSUME TypeOK, AllGood, NEW l \in Links, Forward(l)
  PROVE  /\ Frame(stream[l]) \in Good /\ Popped(stream[l]).replay \in Seq(Good)
         /\ Popped(stream[l]).chan \in Seq(Good) /\ Popped(stream[l]) \in StreamType
<1>1. stream[l] \in StreamType /\ stream[l].replay \in Seq(Good) /\ stream[l].chan \in Seq(Good)
  BY Zenon DEF TypeOK, AllGood
<1>2. (stream[l].replay # <<>> \/ stream[l].chan # <<>>) /\ Len(stream[l].chan) <= ChanCap
  BY ForwardCases, Zenon DEF TypeOK
<1>3. Popped(stream[l]) \in StreamType
  BY <1>1, <1>2, PoppedType, Zenon
<1>4. CASE stream[l].replay # <<>>
  <2>1. Head(stream[l].replay) \in Good /\ Tail(stream[l].replay) \in Seq(Good)
    BY <1>1, <1>4
  <2>2. Popped(stream[l]) = [stream[l] EXCEPT !.replay = Tail(stream[l].replay)]
    BY <1>4, Zenon DEF Popped
  <2> QED BY <1>1, <1>3, <1>4, <2>1, <2>2, Zenon DEF Frame, StreamType
<1>5. CASE stream[l].replay = <<>>
  <2>1. Head(stream[l].chan) \in Good /\ Tail(stream[l].chan) \in Seq(Good)
    BY <1>1, <1>2, <1>5
  <2>2. Popped(stream[l]) = [stream[l] EXCEPT !.chan = Tail(stream[l].chan)]
    BY <1>5, Zenon DEF Popped
  <2> QED BY <1>1, <1>3, <1>5, <2>1, <2>2, Zenon DEF Frame, StreamType
<1> QED BY <1>4, <1>5, Zenon

LEMMA QueueGood ==
  ASSUME TypeInv, AllGood, Pending, [Next]_vars
  PROVE  out' \in Seq(Good')
<1>1. SUFFICES ASSUME out' \notin Seq(Good) PROVE FALSE
  BY GoodGrows
<1>2. out \in Seq(Good) /\ TypeOK
  BY Zenon DEF AllGood, TypeInv
<1>3. \A m \in Good : Append(out, m) \in Seq(Good)
  BY <1>2
<1>4. \A l, m : m \in Good => ~SendControl(l, m) /\ ~QueueData(l, m)
  BY <1>1, <1>2, <1>3, Zenon DEF SendControl, QueueData
<1>5. out' # out
  BY <1>1, <1>2, Zenon
<1>6. Plain("reset") \in Good /\ Plain("other") \in Good /\ Plain("lagged") \in Good
      /\ Plain("resized") \in Good /\ Plain("control") \in Good
  BY PlainGood, Zenon
<1>7. ~Relay
  BY <1>4, <1>5, <1>6, Zenon DEF Relay, Feed, ComputeDiff, PushDiff, Broadcast, Reap, Digest
<1>8. ~Resize
  BY <1>4, <1>5, <1>6, Zenon DEF Resize, ResizePane, BroadcastResize
<1>9. ~OtherTraffic
  BY <1>1, <1>3, <1>4, <1>5, <1>6, Zenon DEF OtherTraffic, OtherControl, OtherChecks, OtherSends
<1>10. ~Receive
  <2>1. out # <<>> => Tail(out) \in Seq(Good)
    BY <1>2
  <2> QED BY <1>1, <2>1, Zenon DEF Receive
<1>11. ~LoseLink /\ ~Reconnect /\ ~SwapTransport /\ ~UNCHANGED vars
  <2>1. <<>> \in Seq(Good)
    OBVIOUS
  <2> QED BY <1>1, <1>5, <2>1, Zenon DEF LoseLink, Reconnect, SwapTransport, vars
<1>12. ASSUME NEW l \in Links, Handler(l) PROVE FALSE
  BY <1>5, <1>12, Zenon DEF Handler, TakeAttach, DetachOld, ComputeReplay, ReadLabel, InsertClient, ReleaseChannel
<1>13. ASSUME NEW l \in Links, Stream(l) PROVE FALSE
  <2>1. ~StaleSend(l)
    <3>1. stale[l] \in Seq(Good)
      BY Zenon DEF AllGood
    <3>2. stale[l] # <<>> => Head(stale[l]) \in Good
      BY <3>1
    <3> QED BY <1>4, <1>5, <3>2, Zenon DEF StaleSend
  <2>2. ~Forward(l)
    <3>1. Forward(l) => out' = out \/ QueueData(l, Frame(stream[l]))
      BY ForwardCases, Zenon
    <3> QED BY <1>2, <1>4, <1>5, <3>1, FrameGood, Zenon
  <2>3. ~SendSnapshot(l)
    <3>1. ASSUME SendSnapshot(l) PROVE Msg("snapshot", stream[l].label, stream[l].snap) \in Good
      <4>1. stream[l].pc = "fill" /\ stream[l] \in StreamType
        BY <1>2, <3>1, Zenon DEF SendSnapshot, TypeOK
      <4>2. stream[l].snap \in [Cells -> Nat] /\ CurrentSeqno \in Nat
        BY <4>1, AsOfType, Zenon DEF StreamType, TypeInv
      <4>3. stream[l].label \in 0..CurrentSeqno /\ \A c \in Cells : AsOf(stream[l].label)[c] <= stream[l].snap[c]
        BY <4>1, Zenon DEF Pending, ToSend
      <4> QED BY <4>2, <4>3, SnapshotGood, Zenon
    <3> QED BY <1>4, <1>5, <3>1, Zenon DEF SendSnapshot
  <2>4. ~SendReset(l)
    BY <1>4, <1>5, <1>6, Zenon DEF SendReset
  <2> QED BY <1>5, <1>13, <2>1, <2>2, <2>3, <2>4, Zenon DEF Stream, DropFrame, EndStream, StartResync, ResyncLabel, ResyncSnapshot
<1> QED BY <1>7, <1>8, <1>9, <1>10, <1>11, <1>12, <1>13, Zenon DEF Next

(* What one step of a handler leaves in its replay. *)
LEMMA ReplayGood ==
  ASSUME TypeInv, Drawn, AllGood, Pending, NEW l \in Links, ComputeReplay(l)
  PROVE  handler'[l].replay \in Seq(Good) /\ ToLabel(handler'[l])
<1>1. /\ handler \in [Links -> HandlerType] /\ handler[l] \in HandlerType /\ relay.buffer \in Seq(Good)
      /\ emu.grid \in [Cells -> Nat] /\ CurrentSeqno \in Nat /\ TypeOK
      /\ \A c \in Cells : AsOf(CurrentSeqno)[c] <= emu.grid[c]
  <2>1. TypeOK /\ CurrentSeqno \in Nat
    BY AsOfType, Zenon DEF TypeInv
  <2>2. CurrentSeqno \in 0..CurrentSeqno
    BY <2>1
  <2>3. \A c \in Cells : AsOf(CurrentSeqno)[c] <= emu.grid[c]
    BY <2>2, Zenon DEF Drawn
  <2> QED BY <2>1, <2>3, Zenon DEF TypeOK, AllGood
<1> DEFINE last == handler[l].last
           delta == last # Fresh /\ DeltaCovers(last)
           reset == IF last = Fresh THEN <<>> ELSE <<Plain("reset")>>
           snap == Msg("snapshot", 0, emu.grid)
           r == IF delta THEN Since(last) ELSE Append(reset, snap)
           p == IF delta THEN "insert" ELSE "label"
<1>2. handler' = [handler EXCEPT ![l].pc = p, ![l].replay = r]
  BY Zenon DEF ComputeReplay
<1>3. snap \in Good /\ snap.kind = "snapshot" /\ snap.cells = emu.grid
  <2>1. 0 \in 0..CurrentSeqno /\ \A c \in Cells : AsOf(0)[c] <= emu.grid[c]
    BY <1>1, SMTT(30) DEF Drawn
  <2>2. snap \in Good
    BY <1>1, <2>1, SnapshotGood, Zenon
  <2> QED BY <2>2, Zenon DEF Msg
<1>4. reset \in Seq(Good)
  BY PlainGood
<1>5. Since(last) \in Seq(Good)
  BY <1>1, SinceType, Zenon
<1> HIDE DEF last, snap, reset
<1>6. LET a == Append(reset, snap) IN a \in Seq(Good) /\ a[Len(a)] = snap
  BY <1>3, <1>4
<1> HIDE DEF delta
<1>7. r \in Seq(Good) /\ (~delta => r[Len(r)] = snap)
  BY <1>5, <1>6, Zenon
<1> HIDE DEF r
<1>8. handler'[l].pc = p /\ handler'[l].replay = r
  BY <1>1, <1>2, Zenon DEF HandlerType
<1> QED BY <1>1, <1>3, <1>7, <1>8, Zenon DEF ToLabel

LEMMA LabelGood ==
  ASSUME TypeInv, AllGood, Pending, NEW l \in Links, ReadLabel(l)
  PROVE  handler'[l].replay \in Seq(Good) /\ handler'[l].pc = "insert"
<1> DEFINE s == handler[l].replay
           n == Len(s)
           m == [s[n] EXCEPT !.seq = CurrentSeqno]
           r == [s EXCEPT ![n] = m]
<1>1. /\ handler \in [Links -> HandlerType] /\ handler[l] \in HandlerType /\ s \in Seq(Good)
      /\ s # <<>> /\ CurrentSeqno \in Nat /\ handler[l].pc = "label"
  BY AsOfType, Zenon DEF TypeInv, TypeOK, AllGood, Ready, ReadLabel
<1>2. s[n] \in Messages /\ s[n] \in Good /\ n \in 1..n
  BY <1>1 DEF Good
<1>3. s[n].kind = "snapshot" /\ \A c \in Cells : AsOf(CurrentSeqno)[c] <= s[n].cells[c]
  BY <1>1, Zenon DEF Pending, ToLabel
<1>4. m \in Messages /\ m.kind = "snapshot" /\ m.seq = CurrentSeqno /\ m.cells = s[n].cells
  BY <1>1, <1>2, <1>3, Zenon DEF Messages
<1>5. m \in Good
  <2> HIDE DEF m
  <2>1. Certified(m)
    BY <1>1, <1>3, <1>4, SMTT(30) DEF Certified
  <2> QED BY <1>4, <2>1, Zenon DEF Good
<1>6. handler' = [handler EXCEPT ![l].pc = "insert", ![l].replay = r]
  BY Zenon DEF ReadLabel
<1>7. r \in Seq(Good)
  <2>1. n \in 1..Len(s)
    BY <1>2, Zenon
  <2> HIDE DEF m, n, s
  <2> QED BY <1>1, <1>5, <2>1, ExceptSeq, Zenon
<1> HIDE DEF r
<1> QED BY <1>1, <1>6, <1>7, Zenon DEF HandlerType

LEMMA HandlersGood ==
  ASSUME TypeInv, Drawn, AllGood, Pending, NEW l \in Links, Handler(l)
  PROVE  \A k \in Links : handler'[k].replay \in Seq(Good) /\ ToLabel(handler'[k])
<1>1. /\ handler \in [Links -> HandlerType] /\ handler[l] \in HandlerType
      /\ \A k \in Links : handler[k].replay \in Seq(Good) /\ ToLabel(handler[k])
  BY Zenon DEF TypeInv, TypeOK, AllGood, Pending
<1>2. \A k \in Links : k # l => handler'[k] = handler[k]
  <2>1. UNCHANGED handler \/ \E h : handler' = [handler EXCEPT ![l] = h]
    BY Zenon DEF Handler, TakeAttach, DetachOld, ComputeReplay, ReadLabel, InsertClient, ReleaseChannel
  <2> QED BY <1>1, <2>1, Zenon
<1>3. handler'[l].replay \in Seq(Good) /\ ToLabel(handler'[l])
  <2>1. CASE ComputeReplay(l)
    BY <2>1, ReplayGood, Zenon
  <2>2. CASE ReadLabel(l)
    BY <2>2, LabelGood, Zenon DEF ToLabel
  <2>3. CASE TakeAttach(l)
    <3>1. handler'[l].pc # "label" /\ handler'[l].replay = <<>>
      BY <1>1, <2>3, Zenon DEF TakeAttach
    <3> QED BY <3>1 DEF ToLabel
  <2>4. CASE DetachOld(l)
    <3>1. handler'[l].pc = "replay" /\ handler'[l].replay = handler[l].replay
      BY <1>1, <2>4, Zenon DEF DetachOld, HandlerType
    <3> QED BY <1>1, <3>1, Zenon DEF ToLabel
  <2>5. CASE InsertClient(l) \/ ReleaseChannel(l)
    <3>1. handler'[l].pc = "idle" /\ handler'[l].replay = <<>>
      BY <1>1, <2>5 DEF InsertClient, ReleaseChannel, IdleHandler
    <3> QED BY <3>1 DEF ToLabel
  <2> QED BY <2>1, <2>2, <2>3, <2>4, <2>5, Zenon DEF Handler
<1> QED BY <1>1, <1>2, <1>3, Zenon

-----------------------------------------------------------------------------
(* The streams and what their aborted predecessors still send. *)

GoodStream(st) == st.replay \in Seq(Good) /\ st.chan \in Seq(Good) /\ ToSend(st)

LEMMA NoStreamGood == GoodStream(NoStream)
BY SMTT(30) DEF GoodStream, NoStream, ToSend

LEMMA UnsentGood ==
  ASSUME CurrentSeqno \in Nat, NEW st \in StreamType, GoodStream(st)
  PROVE  Unsent(st) \in Seq(Good)
<1>1. st.replay \in Seq(Good) /\ st.chan \in Seq(Good) /\ st.snap \in [Cells -> Nat]
  BY Zenon DEF GoodStream, StreamType
<1>2. CASE st.pc = "live"
  BY <1>1, <1>2 DEF Unsent
<1>3. CASE st.pc \in {"reset", "fill"}
  <2>1. st.label \in 0..CurrentSeqno /\ \A c \in Cells : AsOf(st.label)[c] <= st.snap[c]
    BY <1>3, Zenon DEF GoodStream, ToSend
  <2>2. Msg("snapshot", st.label, st.snap) \in Good /\ Plain("reset") \in Good
    BY <1>1, <2>1, SnapshotGood, PlainGood, Zenon
  <2> QED BY <1>3, <2>2 DEF Unsent
<1>4. CASE st.pc \notin {"live", "reset", "fill"}
  BY <1>4 DEF Unsent
<1> QED BY <1>2, <1>3, <1>4, Zenon

LEMMA HandlerStreams ==
  ASSUME TypeInv, AllGood, Pending, NEW l \in Links, Handler(l)
  PROVE  \A k \in Links : GoodStream(stream'[k]) /\ stale'[k] \in Seq(Good)
<1>1. /\ stream \in [Links -> StreamType] /\ stale \in [Links -> Seq(Messages)] /\ CurrentSeqno \in Nat
      /\ stream[l] \in StreamType
  BY AsOfType, Zenon DEF TypeInv, TypeOK
<1>2. \A k \in Links : GoodStream(stream[k]) /\ stale[k] \in Seq(Good)
  BY Zenon DEF AllGood, Pending, GoodStream
<1>3. CASE TakeAttach(l)
  <2>1. stream' = [stream EXCEPT ![l] = NoStream] \/ stream' = stream
    BY <1>3, Zenon DEF TakeAttach
  <2>2. \A k \in Links : GoodStream(stream'[k])
    BY <1>1, <1>2, <2>1, NoStreamGood, Zenon
  <2>3. PICK n \in 0..Len(Unsent(stream[l])) : stale' = [stale EXCEPT ![l] = SubSeq(Unsent(stream[l]), 1, n)]
    <3>1. Len(Unsent(stream[l])) \in Nat
      BY <1>1, <1>2, UnsentGood
    <3>2. PICK n \in IF "abort" \in Windows THEN 0..Len(Unsent(stream[l])) ELSE {0} :
                 stale' = [stale EXCEPT ![l] = SubSeq(Unsent(stream[l]), 1, n)]
      BY <1>3, Zenon DEF TakeAttach
    <3>3. n \in 0..Len(Unsent(stream[l]))
      BY <3>1, <3>2
    <3> QED BY <3>2, <3>3, Zenon
  <2>4. SubSeq(Unsent(stream[l]), 1, n) \in Seq(Good)
    <3> DEFINE u == Unsent(stream[l])
    <3>1. u \in Seq(Good)
      BY <1>1, <1>2, UnsentGood, Zenon
    <3> HIDE DEF u
    <3>2. SubSeq(u, 1, n) \in Seq(Good)
      BY <2>3, <3>1 DEF u
    <3> QED BY <3>2, Zenon DEF u
  <2>5. \A k \in Links : stale'[k] \in Seq(Good)
    BY <1>1, <1>2, <2>3, <2>4, Zenon
  <2> QED BY <2>2, <2>5, Zenon
<1>4. CASE InsertClient(l)
  <2> DEFINE st == [NoStream EXCEPT !.pc = "live", !.replay = handler[l].replay]
  <2>1. stream' = [stream EXCEPT ![l] = st] /\ stale' = stale
    BY <1>4, Zenon DEF InsertClient
  <2>2. st.replay = handler[l].replay /\ st.chan = <<>> /\ st.pc = "live"
    BY Zenon DEF NoStream
  <2>3. handler[l].replay \in Seq(Good)
    BY Zenon DEF AllGood
  <2> HIDE DEF st
  <2>4. GoodStream(st)
    BY <2>2, <2>3 DEF GoodStream, ToSend
  <2> QED BY <1>1, <1>2, <2>1, <2>4, Zenon
<1>5. CASE ReleaseChannel(l)
  <2>1. stream' = [stream EXCEPT ![l] = NoStream] /\ stale' = stale
    BY <1>5, Zenon DEF ReleaseChannel
  <2> QED BY <1>1, <1>2, <2>1, NoStreamGood, Zenon
<1>6. CASE DetachOld(l) \/ ComputeReplay(l) \/ ReadLabel(l)
  <2>1. stream' = stream /\ stale' = stale
    BY <1>6, Zenon DEF DetachOld, ComputeReplay, ReadLabel
  <2> QED BY <1>2, <2>1, Zenon
<1> QED BY <1>3, <1>4, <1>5, <1>6, Zenon DEF Handler

LEMMA ResyncGood ==
  ASSUME TypeInv, Drawn, NEW l \in Links, GoodStream(stream[l]), StreamSteps(l)
  PROVE  GoodStream(stream'[l])
<1>1. /\ stream \in [Links -> StreamType] /\ stream[l] \in StreamType /\ CurrentSeqno \in Nat
      /\ stream[l].replay \in Seq(Good) /\ stream[l].chan \in Seq(Good) /\ ToSend(stream[l])
  BY AsOfType, Zenon DEF TypeInv, TypeOK, GoodStream
<1>2. CASE DropFrame(l)
  <2> DEFINE c == Tail(stream[l].chan)
             st == [stream[l] EXCEPT !.chan = c]
  <2>1. stream'[l] = st /\ stream[l].chan # <<>> /\ stream[l].pc = "lagged"
    BY <1>1, <1>2, Zenon DEF DropFrame
  <2>2. c \in Seq(Good)
    BY <1>1, <2>1
  <2> HIDE DEF c
  <2>3. st.replay = stream[l].replay /\ st.chan = c /\ st.pc = "lagged"
    BY <1>1, <2>1, Zenon DEF StreamType
  <2> HIDE DEF st
  <2> QED BY <1>1, <2>1, <2>2, <2>3, Zenon DEF GoodStream, ToSend
<1>3. CASE EndStream(l)
  <2>1. stream'[l] = NoStream
    BY <1>1, <1>3, Zenon DEF EndStream
  <2> QED BY <2>1, NoStreamGood, Zenon
<1>4. CASE StartResync(l)
  <2> DEFINE e == <<>>
             st == [stream[l] EXCEPT !.pc = "resync", !.replay = e, !.chan = e]
  <2>1. stream'[l] = IF SenderDropped(l) THEN NoStream ELSE st
    BY <1>1, <1>4, Zenon DEF StartResync
  <2>2. e \in Seq(Good)
    OBVIOUS
  <2> HIDE DEF e
  <2>3. st.pc = "resync" /\ st.replay = e /\ st.chan = e
    BY <1>1, Zenon DEF StreamType
  <2> HIDE DEF st
  <2>4. GoodStream(st)
    BY <2>2, <2>3, Zenon DEF GoodStream, ToSend
  <2> QED BY <2>1, <2>4, NoStreamGood, Zenon
<1>5. CASE ResyncLabel(l)
  <2> DEFINE st == [stream[l] EXCEPT !.pc = "snapshot", !.label = CurrentSeqno]
  <2>1. stream'[l] = st
    BY <1>1, <1>5, Zenon DEF ResyncLabel
  <2>2. st.pc = "snapshot" /\ st.label = CurrentSeqno /\ st.replay = stream[l].replay /\ st.chan = stream[l].chan
    BY <1>1, Zenon DEF StreamType
  <2> HIDE DEF st
  <2> QED BY <1>1, <2>1, <2>2, SMTT(30) DEF GoodStream, ToSend
<1>6. CASE ResyncSnapshot(l)
  <2> DEFINE g == emu.grid
             st == [stream[l] EXCEPT !.pc = "reset", !.snap = g]
  <2>1. stream'[l] = st /\ stream[l].pc = "snapshot"
    BY <1>1, <1>6, Zenon DEF ResyncSnapshot
  <2>2. st.pc = "reset" /\ st.snap = g /\ st.label = stream[l].label
        /\ st.replay = stream[l].replay /\ st.chan = stream[l].chan
    BY <1>1, Zenon DEF StreamType
  <2>3. stream[l].label \in 0..CurrentSeqno
    BY <1>1, <2>1, Zenon DEF ToSend
  <2>4. \A c \in Cells : AsOf(stream[l].label)[c] <= g[c]
    BY <2>3, Zenon DEF Drawn
  <2> HIDE DEF st, g
  <2> QED BY <1>1, <2>1, <2>2, <2>3, <2>4, Zenon DEF GoodStream, ToSend
<1>7. CASE SendReset(l)
  <2>1. PICK p \in {"fill", "lagged"} : stream' = [stream EXCEPT ![l].pc = p]
    BY <1>7, Zenon DEF SendReset
  <2> DEFINE st == [stream[l] EXCEPT !.pc = p]
  <2>2. stream'[l] = st /\ stream[l].pc = "reset"
    BY <1>1, <1>7, <2>1, Zenon DEF SendReset
  <2>3. st.pc = p /\ st.snap = stream[l].snap /\ st.label = stream[l].label
        /\ st.replay = stream[l].replay /\ st.chan = stream[l].chan
    BY <1>1, Zenon DEF StreamType
  <2> HIDE DEF st
  <2> QED BY <1>1, <2>2, <2>3, Zenon DEF GoodStream, ToSend
<1>8. CASE SendSnapshot(l)
  <2>1. \/ stream' = [stream EXCEPT ![l].pc = "live", ![l].covered = stream[l].label]
        \/ stream' = [stream EXCEPT ![l].pc = "lagged"]
    BY <1>8, Zenon DEF SendSnapshot
  <2>2. stream'[l].pc \in {"live", "lagged"}
        /\ stream'[l].replay = stream[l].replay /\ stream'[l].chan = stream[l].chan
    BY <1>1, <2>1 DEF StreamType
  <2> QED BY <1>1, <2>2, Zenon DEF GoodStream, ToSend
<1> QED BY <1>2, <1>3, <1>4, <1>5, <1>6, <1>7, <1>8, Zenon DEF StreamSteps

LEMMA StreamStreams ==
  ASSUME TypeInv, Drawn, AllGood, Pending, NEW l \in Links, Stream(l)
  PROVE  \A k \in Links : GoodStream(stream'[k]) /\ stale'[k] \in Seq(Good)
<1>1. /\ stream \in [Links -> StreamType] /\ stale \in [Links -> Seq(Messages)]
      /\ \A k \in Links : GoodStream(stream[k]) /\ stale[k] \in Seq(Good)
  BY Zenon DEF TypeInv, TypeOK, AllGood, Pending, GoodStream
<1>2. CASE StaleSend(l)
  <2>1. stream' = stream /\ stale[l] # <<>>
        /\ (stale' = [stale EXCEPT ![l] = Tail(@)] \/ stale' = [stale EXCEPT ![l] = <<>>])
    BY <1>2, Zenon DEF StaleSend
  <2>2. Tail(stale[l]) \in Seq(Good) /\ <<>> \in Seq(Good)
    BY <1>1, <2>1
  <2>3. \A k \in Links : stale'[k] = stale[k] \/ stale'[k] = Tail(stale[l]) \/ stale'[k] = <<>>
    BY <1>1, <2>1, Zenon
  <2> QED BY <1>1, <2>1, <2>2, <2>3, Zenon
<1>3. CASE Forward(l)
  <2>1. /\ stale' = stale
        /\ \/ stream' = [stream EXCEPT ![l] = Popped(stream[l])]
           \/ stream' = [stream EXCEPT ![l] = [Popped(stream[l]) EXCEPT !.pc = "lagged"]]
    BY <1>3, ForwardCases, Zenon
  <2> DEFINE st == Popped(stream[l])
             lag == [st EXCEPT !.pc = "lagged"]
  <2>2. st \in StreamType /\ st.replay \in Seq(Good) /\ st.chan \in Seq(Good)
    BY <1>3, FrameGood, Zenon DEF TypeInv
  <2>3. st.pc = "live"
    BY <1>1, <1>3, PoppedType, ForwardCases, Zenon DEF TypeInv, TypeOK
  <2> HIDE DEF st
  <2>4. lag.pc = "lagged" /\ lag.replay = st.replay /\ lag.chan = st.chan
    BY <2>2, Zenon DEF StreamType
  <2> HIDE DEF lag
  <2>5. GoodStream(st) /\ GoodStream(lag)
    BY <2>2, <2>3, <2>4, Zenon DEF GoodStream, ToSend
  <2>6. stream' = [stream EXCEPT ![l] = st] \/ stream' = [stream EXCEPT ![l] = lag]
    BY <2>1, Zenon DEF st, lag
  <2> QED BY <1>1, <2>1, <2>5, <2>6, Zenon
<1>4. CASE StreamSteps(l)
  <2>1. stale' = stale
    BY <1>4, Zenon DEF StreamSteps, DropFrame, EndStream, StartResync, ResyncLabel, ResyncSnapshot,
                SendReset, SendSnapshot
  <2>2. \E new \in StreamType : stream' = [stream EXCEPT ![l] = new]
    BY <1>4, StreamStepCases, Zenon DEF TypeInv
  <2>3. GoodStream(stream'[l])
    BY <1>1, <1>4, ResyncGood, Zenon
  <2> QED BY <1>1, <2>1, <2>2, <2>3, Zenon
<1> QED BY <1>2, <1>3, <1>4, ZenonT(30) DEF Stream, StreamSteps

(* A certified message put into a channel leaves every channel certified. *)
LEMMA ToChanGood ==
  ASSUME TypeOK, NEW l \in Links, NEW m \in Good, NEW k \in Links, stream[k].chan \in Seq(Good)
  PROVE  ToChan(l, m)[k].chan \in Seq(Good)
<1>1. Append(stream[k].chan, m) \in Seq(Good)
  OBVIOUS
<1>2. ToChan(l, m)[k].chan = IF k = l THEN Append(stream[k].chan, m) ELSE stream[k].chan
  BY ToChanFields, SMTT(30)
<1> QED BY <1>1, <1>2, Zenon

LEMMA ElsewhereStreams ==
  ASSUME TypeInv, Drawn, AllGood, Pending, Elsewhere
  PROVE  \A k \in Links : GoodStream(stream'[k]) /\ stale'[k] \in Seq(Good)
<1>0. TypeOK
  BY Zenon DEF TypeInv
<1>1. /\ stream \in [Links -> StreamType] /\ CurrentSeqno \in Nat
      /\ \A k \in Links : GoodStream(stream[k]) /\ stale[k] \in Seq(Good)
      /\ emu.grid \in [Cells -> Nat] /\ relay.frames \in Seq(Good) /\ relay.seq \in Nat
  <2>1. /\ stream \in [Links -> StreamType] /\ emu.grid \in [Cells -> Nat] /\ relay.seq \in Nat
    BY <1>0, Zenon DEF TypeOK, RelayType
  <2>2. CurrentSeqno \in Nat
    BY AsOfType, Zenon DEF TypeInv
  <2>3. \A k \in Links : GoodStream(stream[k]) /\ stale[k] \in Seq(Good)
    BY Zenon DEF AllGood, Pending, GoodStream
  <2> QED BY <2>1, <2>2, <2>3, Zenon DEF AllGood
<1>2. stream' = stream \/ \E m \in Good : stream' = ToChan(reg, m) /\ reg # 0
  <2>1. CASE Broadcast
    <3>1. relay.frames # <<>>
      BY <2>1, Zenon DEF Broadcast, TypeInv, Ready
    <3>2. Head(relay.frames) \in Good
      BY <1>1, <3>1
    <3> QED BY <2>1, <3>2, Zenon DEF Broadcast
  <2>2. CASE Digest
    <3>1. Msg("digest", relay.seq, emu.grid) \in Good
      BY <1>1, DigestGood, Zenon
    <3> QED BY <2>2, <3>1, Zenon DEF Digest
  <2>3. CASE BroadcastResize
    <3>1. resizeSeq \in 0..CurrentSeqno
      BY <2>3, Zenon DEF BroadcastResize, Pending
    <3>2. \A c \in Cells : AsOf(resizeSeq)[c] <= emu.grid[c]
      BY <3>1, Zenon DEF Drawn
    <3>3. Msg("snapshot", resizeSeq, emu.grid) \in Good
      BY <1>1, <3>1, <3>2, SnapshotGood, Zenon
    <3> QED BY <2>3, <3>3, Zenon DEF BroadcastResize
  <2> QED BY <1>0, <2>1, <2>2, <2>3, ElsewherePlaces, Zenon
<1>3. ASSUME NEW k \in Links PROVE GoodStream(stream'[k])
  <2>1. /\ stream'[k].pc = stream[k].pc /\ stream'[k].replay = stream[k].replay
        /\ stream'[k].label = stream[k].label /\ stream'[k].snap = stream[k].snap
    BY <1>0, ElsewherePlaces, Zenon
  <2>2. stream'[k].chan \in Seq(Good)
    <3>1. stream[k].chan \in Seq(Good)
      BY <1>1, Zenon DEF GoodStream
    <3>2. ASSUME NEW m \in Good, stream' = ToChan(reg, m), reg # 0 PROVE stream'[k].chan \in Seq(Good)
      <4>1. reg \in Links
        BY <1>0, <3>2 DEF TypeOK, Links
      <4>2. ToChan(reg, m)[k].chan \in Seq(Good)
        BY <1>0, <3>1, <4>1, ToChanGood, Zenon
      <4> QED BY <3>2, <4>2, Zenon
    <3> QED BY <1>2, <3>1, <3>2, Zenon
  <2>3. GoodStream(stream[k])
    BY <1>1, Zenon
  <2> QED BY <2>1, <2>2, <2>3, Zenon DEF GoodStream, ToSend
<1>4. stale' = stale
  BY <1>0, ElsewherePlaces, Zenon
<1> QED BY <1>1, <1>3, <1>4, Zenon

(* What is certified or pending stays so when a diff is numbered. *)
LEMMA PendingGrows ==
  ASSUME TypeInv, [Next]_vars
  PROVE  /\ \A s : s \in Seq(Good) => s \in Seq(Good')
         /\ \A n \in 0..CurrentSeqno : n \in 0..CurrentSeqno' /\ AsOf(n)' = AsOf(n)
<1>1. Good \subseteq Good'
  BY GoodGrows, Zenon
<1>2. \A s : s \in Seq(Good) => s \in Seq(Good')
  BY <1>1
<1>3. CASE ComputeDiff
  <2>1. PICK n \in Nat : n = relay.counter
    BY Zenon DEF TypeInv, TypeOK, RelayType
  <2>2. /\ CurrentSeqno \in Nat /\ CurrentSeqno' \in Nat /\ CurrentSeqno <= CurrentSeqno'
        /\ \A k \in 0..CurrentSeqno : AsOf(k)' = AsOf(k)
    BY <1>3, <2>1, DiffNumbers
  <2> QED BY <1>2, <2>2
<1>4. CASE ~ComputeDiff
  BY <1>2, <1>4, GoodGrows, SameSeqnos, Zenon
<1> QED BY <1>3, <1>4, Zenon

LEMMA AllGoodKept ==
  ASSUME TypeInv, Drawn, AllGood, Pending, [Next]_vars
  PROVE  /\ AllGood'
         /\ \A k \in Links : GoodStream(stream'[k])
         /\ \A k \in Links : ToLabel(handler'[k])
<1>1. \A k \in Links : /\ GoodStream(stream'[k]) /\ stale'[k] \in Seq(Good)
                       /\ handler'[k].replay \in Seq(Good) /\ ToLabel(handler'[k])
  <2>1. ASSUME NEW l \in Links, Handler(l)
        PROVE  \A k \in Links : /\ GoodStream(stream'[k]) /\ stale'[k] \in Seq(Good)
                                /\ handler'[k].replay \in Seq(Good) /\ ToLabel(handler'[k])
    BY <2>1, HandlerStreams, HandlersGood, Zenon
  <2>2. ASSUME NEW l \in Links, Stream(l)
        PROVE  \A k \in Links : /\ GoodStream(stream'[k]) /\ stale'[k] \in Seq(Good)
                                /\ handler'[k].replay \in Seq(Good) /\ ToLabel(handler'[k])
    <3>1. handler' = handler
      <4>1. StaleSend(l) \/ Forward(l) => handler' = handler
        BY Zenon DEF StaleSend, Forward
      <4>2. DropFrame(l) \/ EndStream(l) \/ StartResync(l) \/ ResyncLabel(l) => handler' = handler
        BY Zenon DEF DropFrame, EndStream, StartResync, ResyncLabel
      <4>3. ResyncSnapshot(l) \/ SendReset(l) \/ SendSnapshot(l) => handler' = handler
        BY Zenon DEF ResyncSnapshot, SendReset, SendSnapshot
      <4> QED BY <2>2, <4>1, <4>2, <4>3, Zenon DEF Stream
    <3> QED BY <2>2, <3>1, StreamStreams, Zenon DEF AllGood, Pending
  <2>3. ASSUME Elsewhere
        PROVE  \A k \in Links : /\ GoodStream(stream'[k]) /\ stale'[k] \in Seq(Good)
                                /\ handler'[k].replay \in Seq(Good) /\ ToLabel(handler'[k])
    <3>1. handler' = handler
      BY <2>3, ElsewherePlaces, Zenon DEF TypeInv
    <3> QED BY <2>3, <3>1, ElsewhereStreams, Zenon DEF AllGood, Pending
  <2> QED BY <2>1, <2>2, <2>3, Zenon DEF Next, Elsewhere
<1>2. relay'.frames \in Seq(Good') /\ relay'.buffer \in Seq(Good') /\ out' \in Seq(Good')
  BY RelayGood, QueueGood, Zenon
<1>3. \A k \in Links : /\ stream'[k].replay \in Seq(Good') /\ stream'[k].chan \in Seq(Good')
                       /\ stale'[k] \in Seq(Good') /\ handler'[k].replay \in Seq(Good')
  BY <1>1, PendingGrows, Zenon DEF GoodStream
<1> QED BY <1>1, <1>2, <1>3, Zenon DEF AllGood

LEMMA ResizeSeqCovered ==
  ASSUME TypeInv, Pending, [Next]_vars, lock' = "resize"
  PROVE  resizeSeq' \in 0..CurrentSeqno
<1>1. CurrentSeqno \in Nat /\ TypeOK
  BY AsOfType, Zenon DEF TypeInv
<1>2. CASE ResizePane
  BY <1>1, <1>2 DEF ResizePane
<1>3. CASE ~ResizePane
  <2>1. ASSUME NEW l \in Links, Handler(l)
        PROVE  lock' = lock /\ resizeSeq' = resizeSeq
    <3>1. TakeAttach(l) \/ DetachOld(l) \/ ReadLabel(l) \/ ReleaseChannel(l) => lock' = lock /\ resizeSeq' = resizeSeq
      BY Zenon DEF TakeAttach, DetachOld, ReadLabel, ReleaseChannel
    <3>2. ~ComputeReplay(l) /\ ~InsertClient(l)
      BY Zenon DEF ComputeReplay, InsertClient
    <3> QED BY <2>1, <3>1, <3>2, Zenon DEF Handler
  <2>2. ASSUME NEW l \in Links, Stream(l)
        PROVE  lock' = lock /\ resizeSeq' = resizeSeq
    <3>1. StaleSend(l) \/ Forward(l) \/ DropFrame(l) \/ EndStream(l) \/ StartResync(l)
            => lock' = lock /\ resizeSeq' = resizeSeq
      BY Zenon DEF StaleSend, Forward, DropFrame, EndStream, StartResync
    <3>2. SendReset(l) \/ SendSnapshot(l) => lock' = lock /\ resizeSeq' = resizeSeq
      BY Zenon DEF SendReset, SendSnapshot
    <3>3. ~ResyncLabel(l) /\ ~ResyncSnapshot(l)
      BY Zenon DEF ResyncLabel, ResyncSnapshot
    <3> QED BY <2>2, <3>1, <3>2, <3>3, Zenon DEF Stream
  <2>3. ASSUME Elsewhere
        PROVE  lock' = lock /\ resizeSeq' = resizeSeq
    <3>1. ~BroadcastResize
      BY Zenon DEF BroadcastResize
    <3>2. lock' = lock
      BY <1>1, <1>3, <2>3, <3>1, ElsewherePlaces, Zenon
    <3>3. Relay => resizeSeq' = resizeSeq
      BY ZenonT(30) DEF Relay, Feed, ComputeDiff, PushDiff, Broadcast, Reap, Digest
    <3>4. OtherTraffic \/ Receive \/ LoseLink \/ Reconnect \/ SwapTransport \/ UNCHANGED vars => resizeSeq' = resizeSeq
      BY Zenon DEF OtherTraffic, OtherControl, OtherChecks, OtherSends, Receive, LoseLink, Reconnect,
             SwapTransport, daemonVars, vars
    <3> QED BY <1>3, <2>3, <3>1, <3>2, <3>3, <3>4, Zenon DEF Elsewhere, Resize
  <2>4. lock' = lock /\ resizeSeq' = resizeSeq
    BY <2>1, <2>2, <2>3, Zenon DEF Next, Elsewhere
  <2> QED BY <2>4, Zenon DEF Pending
<1> QED BY <1>2, <1>3, Zenon

LEMMA PendingKept ==
  ASSUME TypeInv, Drawn, Locks, AllGood, Pending, [Next]_vars, "attach" \notin Windows
  PROVE  Pending'
<1>1. /\ \A k \in Links : ToSend(stream'[k]) /\ ToLabel(handler'[k])
      /\ \A n \in 0..CurrentSeqno : n \in 0..CurrentSeqno' /\ AsOf(n)' = AsOf(n)
  BY AllGoodKept, PendingGrows, Zenon DEF GoodStream
<1>2. ASSUME NEW k \in Links PROVE ToSend(stream[k])'
  <2>1. PICK n : n = stream'[k].label
    BY Zenon
  <2>2. n \in 0..CurrentSeqno => n \in 0..CurrentSeqno' /\ AsOf(n)' = AsOf(n)
    BY <1>1, Zenon
  <2>3. ToSend(stream'[k])
    BY <1>1, Zenon
  <2>4. stream'[k].pc \in {"snapshot", "reset", "fill"} => n \in 0..CurrentSeqno'
    BY <2>1, <2>2, <2>3, Zenon DEF ToSend
  <2>5. AsOf(stream[k].label)' = AsOf(n)'
    BY <2>1, Zenon DEF AsOf
  <2>6. stream'[k].pc \in {"reset", "fill"} => \A c \in Cells : AsOf(stream[k].label)'[c] <= stream'[k].snap[c]
    BY <2>1, <2>2, <2>3, <2>5, Zenon DEF ToSend
  <2> QED BY <2>1, <2>4, <2>6, Zenon DEF ToSend
<1>3. ASSUME NEW k \in Links PROVE ToLabel(handler[k])'
  <2>1. CASE ComputeDiff
    <3>1. handler' = handler /\ lock # "attach"
      BY <2>1, Zenon DEF ComputeDiff, RelayRuns
    <3>2. handler[k].pc # "label"
      BY <3>1, Zenon DEF Locks, AtAttach
    <3> QED BY <3>1, <3>2, Zenon DEF ToLabel
  <2>2. CASE ~ComputeDiff
    <3>1. Same
      BY <2>2, GoodGrows, Zenon
    <3>2. CurrentSeqno' = CurrentSeqno /\ AsOf(CurrentSeqno)' = AsOf(CurrentSeqno)
      BY <3>1, Zenon DEF Same, CurrentSeqno, AsOf
    <3>3. ToLabel(handler'[k])
      BY <1>1, Zenon
    <3> QED BY <3>2, <3>3, Zenon DEF ToLabel
  <2> QED BY <2>1, <2>2, Zenon
<1>4. lock' = "resize" => resizeSeq' \in 0..CurrentSeqno'
  BY <1>1, ResizeSeqCovered, Zenon
<1> QED BY <1>2, <1>3, <1>4, Zenon DEF Pending

LEMMA ClientWholeKept ==
  ASSUME TypeInv, AllGood, ClientWhole, [Next]_vars
  PROVE  ClientWhole'
<1>1. /\ \A n \in 0..CurrentSeqno : n \in 0..CurrentSeqno' /\ AsOf(n)' = AsOf(n) /\ AsOf(n) \in [Cells -> Nat]
      /\ CurrentSeqno \in Nat /\ relay.counter = CurrentSeqno + 1
      /\ CurrentSeqno' \in Nat /\ relay'.counter = CurrentSeqno' + 1
  <2>1. relay.counter \in Nat /\ relay'.counter \in Nat /\ CurrentSeqno \in Nat /\ CurrentSeqno' \in Nat
    <3>1. TypeInv /\ TypeInv'
      BY StepTypes, Zenon
    <3>2. relay \in RelayType /\ relay' \in RelayType /\ relay.counter # 0 /\ relay'.counter # 0
      BY <3>1, Zenon DEF TypeInv, TypeOK, Numbered
    <3>3. relay.counter \in Nat /\ relay'.counter \in Nat
      BY <3>2, Zenon DEF RelayType
    <3> QED BY <3>2, <3>3 DEF CurrentSeqno
  <2>2. \A n \in 0..CurrentSeqno : n \in 0..CurrentSeqno' /\ AsOf(n)' = AsOf(n) /\ AsOf(n) \in [Cells -> Nat]
    BY PendingGrows, AsOfType, Zenon DEF TypeInv
  <2> QED BY <2>1, <2>2 DEF CurrentSeqno
<1>2. shown \in [Cells -> Nat] /\ expected \in Nat
  BY Zenon DEF TypeInv, TypeOK
<1>3. CASE UNCHANGED clientVars
  <2>1. sync' = sync /\ expected' = expected /\ shown' = shown /\ blanked' = blanked
    BY <1>3, Zenon DEF clientVars
  <2>2. CASE sync = "synced"
    <3>1. expected \in 1..(CurrentSeqno + 1) /\ expected - 1 \in 0..CurrentSeqno
      BY <1>1, <1>2, <2>2 DEF ClientWhole
    <3>2. PICK n \in 0..CurrentSeqno : n = expected - 1
      BY <3>1, Zenon
    <3>3. AsOf(n)' = AsOf(n) /\ CurrentSeqno \in 0..CurrentSeqno'
      BY <1>1
    <3>4. AsOf(expected - 1)' = AsOf(n)'
      BY <2>1, <3>2, Zenon DEF AsOf
    <3>5. expected' \in 1..relay'.counter
      <4>1. CurrentSeqno <= CurrentSeqno' /\ expected' \in 1..(CurrentSeqno + 1)
        BY <1>1, <2>1, <3>1, <3>3
      <4>2. CurrentSeqno \in Nat /\ CurrentSeqno' \in Nat /\ relay'.counter = CurrentSeqno' + 1
        BY <1>1, Zenon
      <4>3. \A a, b \in Nat : a <= b => 1..(a + 1) \subseteq 1..(b + 1)
        OBVIOUS
      <4> QED BY <4>1, <4>2, <4>3, Zenon
    <3>6. ~blanked' => \A c \in Cells : AsOf(expected - 1)'[c] <= shown'[c]
      <4>1. ~blanked => \A c \in Cells : AsOf(expected - 1)[c] <= shown[c]
        BY <2>2, Zenon DEF ClientWhole
      <4>2. AsOf(expected - 1)' = AsOf(expected - 1)
        BY <3>2, <3>3, <3>4, Zenon
      <4> QED BY <2>1, <4>1, <4>2, Zenon
    <3> QED BY <3>5, <3>6, Zenon DEF ClientWhole
  <2>3. CASE sync # "synced"
    BY <2>1, <2>3, Zenon DEF ClientWhole
  <2> QED BY <2>2, <2>3, Zenon
<1>4. CASE Receive
  <2> DEFINE msg == Head(out)
  <2>1. /\ out # <<>> /\ relay' = relay /\ asOf' = asOf
        /\ \/ msg.kind = "snapshot" /\ OnSnapshot(msg)
           \/ sync' = "awaiting"
           \/ msg.kind \in {"update", "scroll"} /\ OnFrame(msg) /\ sync' = "synced"
           \/ OnResized
           \/ UNCHANGED clientVars
    BY <1>4, Zenon DEF Receive, OnReset, OnFrame, OnDigest, Resync, clientVars, daemonVars
  <2>2. Head(out) \in Good
    BY <2>1, SMTT(30) DEF AllGood
  <2>3. Certified(msg) /\ msg \in Messages
    BY <2>2, Zenon DEF Good
  <2> HIDE DEF msg
  <2>4. CurrentSeqno' = CurrentSeqno /\ \A k : AsOf(k)' = AsOf(k)
    BY <2>1, SameSeqnos, Zenon DEF Same
  <2>5. CASE msg.kind = "snapshot" /\ OnSnapshot(msg)
    <3>1. /\ expected' = msg.seq + 1 /\ shown' = msg.cells /\ msg.seq \in 0..CurrentSeqno
          /\ \A c \in Cells : AsOf(msg.seq)[c] <= msg.cells[c]
      BY <2>3, <2>5, Zenon DEF OnSnapshot, Certified
    <3>2. PICK n : n = msg.seq
      BY Zenon
    <3>3. expected' - 1 = n /\ n \in Nat
      BY <1>1, <3>1, <3>2, SMTT(30)
    <3>4. AsOf(expected - 1)' = AsOf(n)'
      BY <3>3, Zenon DEF AsOf
    <3>5. \A c \in Cells : AsOf(expected - 1)'[c] <= shown'[c]
      BY <2>4, <3>1, <3>2, <3>4, Zenon
    <3>6. expected' \in 1..relay'.counter
      BY <1>1, <2>4, <3>1, <3>3
    <3> QED BY <3>5, <3>6, Zenon DEF ClientWhole
  <2>6. CASE msg.kind \in {"update", "scroll"} /\ OnFrame(msg) /\ sync' = "synced"
    <3>1. CASE UNCHANGED clientVars
      BY <1>3, <3>1, Zenon
    <3>2. CASE ~UNCHANGED clientVars
      <4>1. /\ sync = "synced" /\ msg.seq = expected /\ expected' = expected + 1
            /\ shown' = Overlay(shown, msg.cells) /\ blanked' = blanked
        BY <2>6, <3>2, Zenon DEF OnFrame, Resync
      <4>2. PICK n : n = expected
        BY Zenon
      <4>3. /\ n \in 1..CurrentSeqno /\ msg.seq = n /\ n - 1 \in 0..CurrentSeqno
            /\ \A c \in Cells : AsOf(n)[c] <= IF msg.cells[c] = 0 THEN AsOf(n - 1)[c] ELSE msg.cells[c]
        BY <1>1, <2>3, <2>6, <4>1, <4>2, SMTT(30) DEF Certified
      <4>4. AsOf(expected - 1)' = AsOf(n)'
        <5>1. expected' - 1 = n
          BY <4>1, <4>2, <4>3, SMTT(30)
        <5> QED BY <5>1, ZenonT(30) DEF AsOf
      <4>5. AsOf(n)' = AsOf(n) /\ AsOf(n) \in [Cells -> Nat] /\ AsOf(n - 1) \in [Cells -> Nat]
        BY <1>1, <4>3, SMTT(30)
      <4>6. ~blanked => \A c \in Cells : AsOf(n - 1)[c] <= shown[c]
        BY <4>1, <4>2, Zenon DEF ClientWhole
      <4>7. msg.cells \in [Cells -> Nat]
        BY <2>3, Zenon DEF Messages
      <4>8. ~blanked => \A c \in Cells : AsOf(n)[c] <= shown'[c]
        BY <1>2, <4>1, <4>3, <4>5, <4>6, <4>7, SMTT(30) DEF Overlay
      <4>9. expected' \in 1..relay'.counter
        <5>1. CurrentSeqno \in Nat /\ relay'.counter = CurrentSeqno + 1 /\ expected' = n + 1
          BY <1>1, <2>4, <4>1, <4>2, Zenon
        <5> QED BY <4>3, <5>1
      <4>10. ~blanked' => \A c \in Cells : AsOf(expected - 1)'[c] <= shown'[c]
        BY <4>1, <4>4, <4>5, <4>8, Zenon
      <4> QED BY <4>9, <4>10, Zenon DEF ClientWhole
    <3> QED BY <3>1, <3>2, Zenon
  <2>7. CASE OnResized
    BY <1>1, <2>1, <2>4, <2>7, Zenon DEF OnResized, ClientWhole
  <2>8. CASE sync' = "awaiting"
    BY <2>8, Zenon DEF ClientWhole
  <2> QED BY <1>3, <2>1, <2>5, <2>6, <2>7, <2>8, Zenon
<1>5. CASE ~Receive
  <2>1. Relay \/ Resize \/ OtherTraffic => UNCHANGED clientVars
    BY ZenonT(30) DEF Relay, Feed, ComputeDiff, PushDiff, Broadcast, Reap, Digest, Resize, ResizePane, BroadcastResize,
           OtherTraffic, OtherControl, OtherChecks, OtherSends
  <2>2. \A l \in Links : Handler(l) => UNCHANGED clientVars
    BY Zenon DEF Handler, TakeAttach, DetachOld, ComputeReplay, ReadLabel, InsertClient, ReleaseChannel
  <2>3. \A l \in Links : Stream(l) => UNCHANGED clientVars
    BY Zenon DEF Stream, StaleSend, Forward, DropFrame, EndStream, StartResync, ResyncLabel, ResyncSnapshot,
           SendReset, SendSnapshot
  <2>4. LoseLink \/ Reconnect \/ SwapTransport \/ UNCHANGED vars => UNCHANGED clientVars
    BY Zenon DEF LoseLink, Reconnect, SwapTransport, vars, clientVars
  <2> QED BY <1>3, <1>5, <2>1, <2>2, <2>3, <2>4, Zenon DEF Next
<1> QED BY <1>4, <1>5, Zenon

-----------------------------------------------------------------------------
WholeInv == TypeInv /\ Drawn /\ Locks /\ AllGood /\ Pending /\ ClientWhole

LEMMA InitWhole == Init => WholeInv
<1> SUFFICES ASSUME Init PROVE WholeInv
  BY Zenon
<1>1. TypeInv
  BY InitTypes, Zenon
<1>2. relay.counter = 1 /\ CurrentSeqno = 0 /\ AsOf(0) = Blank
  BY SMTT(30) DEF Init, CurrentSeqno, AsOf
<1>3. Drawn
  <2>1. emu.grid = Blank /\ emu.prev = Blank /\ emu.fed = 0 /\ \A c \in Cells : Blank[c] = 0
    BY Zenon DEF Init, Blank
  <2> QED BY <1>2, <2>1 DEF Drawn
<1>4. \A l \in Links : /\ handler[l].pc = "idle" /\ handler[l].replay = <<>> /\ stale[l] = <<>>
                       /\ stream[l].pc = "gone" /\ stream[l].replay = <<>> /\ stream[l].chan = <<>>
  BY ZenonT(30) DEF Init, IdleHandler, NoStream
<1>5. Locks
  BY <1>4, Zenon DEF Locks, AtAttach, AtSnapshot
<1>6. AllGood
  <2>1. relay.frames = <<>> /\ relay.buffer = <<>> /\ out = <<>>
    BY Zenon DEF Init
  <2>2. <<>> \in Seq(Good)
    OBVIOUS
  <2>3. relay.frames \in Seq(Good) /\ relay.buffer \in Seq(Good) /\ out \in Seq(Good)
    BY <2>1, <2>2, Zenon
  <2>4. ASSUME NEW l \in Links
        PROVE  /\ handler[l].replay \in Seq(Good) /\ stale[l] \in Seq(Good)
               /\ stream[l].replay \in Seq(Good) /\ stream[l].chan \in Seq(Good)
    BY <1>4, <2>2, ZenonT(30)
  <2> QED BY <2>3, <2>4, Zenon DEF AllGood
<1>7. Pending
  <2>1. lock = "free"
    BY Zenon DEF Init
  <2> QED BY <1>4, <2>1, Zenon DEF Pending, ToLabel, ToSend
<1>8. ClientWhole
  BY Zenon DEF Init, ClientWhole
<1> QED BY <1>1, <1>3, <1>5, <1>6, <1>7, <1>8, Zenon DEF WholeInv

LEMMA StepWhole ==
  ASSUME WholeInv, [Next]_vars, "attach" \notin Windows
  PROVE  WholeInv'
<1>1. TypeInv /\ Drawn /\ Locks /\ AllGood /\ Pending /\ ClientWhole
  BY Zenon DEF WholeInv
<1>2. TypeInv' /\ Drawn' /\ Locks'
  BY <1>1, StepTypes, DrawnKept, LocksKept, Zenon
<1>3. AllGood' /\ Pending' /\ ClientWhole'
  BY <1>1, AllGoodKept, PendingKept, ClientWholeKept, Zenon
<1> QED BY <1>2, <1>3, Zenon DEF WholeInv

(* Whatever is lagged, dropped, resynced, re-attached, swapped or resized,   *)
(* and whatever an aborted stream still sends, a client in sync at seqno k   *)
(* shows everything the pane had drawn as of k (session_manager's            *)
(* check_pane_sync over outbound.rs and relay.rs), provided the relay does   *)
(* not run between compute_replay's snapshot and the seqno it is labelled    *)
(* with (the "attach" window of app/attach.rs).                              *)
THEOREM SyncedIsWholeAlways == "attach" \notin Windows => (Spec => []SyncedIsWhole)
<1> SUFFICES ASSUME "attach" \notin Windows PROVE Spec => []SyncedIsWhole
  BY Zenon
<1>1. Init => WholeInv
  BY InitWhole, Zenon
<1>2. WholeInv /\ [Next]_vars => WholeInv'
  BY StepWhole, Zenon
<1>3. WholeInv => SyncedIsWhole
  <2> SUFFICES ASSUME WholeInv, sync = "synced", ~blanked PROVE SyncedIsWhole
    BY Zenon DEF SyncedIsWhole
  <2>1. /\ expected \in 1..relay.counter /\ \A c \in Cells : AsOf(expected - 1)[c] <= shown[c]
        /\ relay.counter \in Nat /\ shown \in [Cells -> Nat]
    BY Zenon DEF WholeInv, ClientWhole, TypeInv, TypeOK, RelayType
  <2>2. AsOf(expected - 1) \in [Cells -> Nat]
    <3>1. expected - 1 \in 0..CurrentSeqno
      BY <2>1 DEF CurrentSeqno
    <3> QED BY <3>1, AsOfType, Zenon DEF WholeInv, TypeInv
  <2> QED BY <2>1, <2>2 DEF SyncedIsWhole
<1> QED BY <1>1, <1>2, <1>3, PTL DEF Spec
=============================================================================
