-------------------------- MODULE PaneStreamProofs --------------------------
(***************************************************************************)
(* Proofs about PaneStream, for any cells, bounds, capacities and events.  *)
(***************************************************************************)
EXTENDS PaneStream, FiniteSetTheorems, SequenceTheorems, TLAPS

-----------------------------------------------------------------------------
(* TypeOK is inductive.  First what the operations make of messages,         *)
(* sequences and streams.                                                    *)

LEMMA Bounds ==
  /\ MaxLinks \in Nat \ {0} /\ MaxFeeds \in Nat /\ Retained \in Nat \ {0} /\ ChanCap \in Nat \ {0}
  /\ Capacity \in Nat /\ Reserve \in Nat /\ 0 \in 0..MaxLinks
BY ConstantsAssumption DEF Reserve

LEMMA MessageTypes ==
  /\ Blank \in [Cells -> Nat]
  /\ \A kind \in DataKinds \cup ControlKinds : Plain(kind) \in Messages
  /\ \A kind \in DataKinds \cup ControlKinds, n \in Nat, g \in [Cells -> Nat] :
       Msg(kind, n, g) \in Messages
  /\ NoStream \in StreamType
  /\ IdleHandler \in HandlerType
BY DEF Blank, Plain, Msg, Messages, NoStream, StreamType, IdleHandler, HandlerType, Fresh

LEMMA QueueTypes ==
  ASSUME TypeOK, NEW l, NEW m \in Messages
  PROVE  /\ DataFits(l) /\ QueueData(l, m) => out' \in Seq(Messages) /\ Len(out') <= Capacity
         /\ SendControl(l, m) => /\ out' \in Seq(Messages) /\ Len(out') <= Capacity
                                 /\ down' \in BOOLEAN
<1>1. Capacity \in Nat /\ Reserve \in Nat
  BY Bounds, Zenon
<1>2. out \in Seq(Messages) /\ Len(out) <= Capacity
  BY Zenon DEF TypeOK
<1>3. Append(out, m) \in Seq(Messages) /\ Len(Append(out, m)) = Len(out) + 1
  BY <1>2
<1>4. ASSUME DataFits(l), QueueData(l, m) PROVE out' \in Seq(Messages) /\ Len(out') <= Capacity
  <2>1. CASE Live(l)
    BY <1>1, <1>2, <1>3, <1>4, <2>1 DEF DataFits, QueueData, Free
  <2>2. CASE ~Live(l)
    BY <1>2, <1>4, <2>2, Zenon DEF QueueData
  <2> QED BY <2>1, <2>2, Zenon
<1>5. ASSUME SendControl(l, m) PROVE out' \in Seq(Messages) /\ Len(out') <= Capacity
  <2>1. CASE Live(l) /\ Free > 0
    BY <1>1, <1>2, <1>3, <1>5, <2>1 DEF SendControl, Free
  <2>2. CASE ~(Live(l) /\ Free > 0)
    BY <1>2, <1>5, <2>2, Zenon DEF SendControl
  <2> QED BY <2>1, <2>2, Zenon
<1>6. ASSUME SendControl(l, m) PROVE down' \in BOOLEAN
  BY <1>6, Zenon DEF SendControl
<1> QED BY <1>4, <1>5, <1>6, Zenon

(* One field of a stream or of the relay at a time. *)
LEMMA StreamFields ==
  ASSUME NEW st \in StreamType
  PROVE  /\ st.replay \in Seq(Messages) /\ st.chan \in Seq(Messages)
         /\ \A c \in Seq(Messages) : LET new == [st EXCEPT !.chan = c]
                                     IN new \in StreamType /\ new.chan = c
         /\ \A r \in Seq(Messages) : LET new == [st EXCEPT !.replay = r]
                                     IN new \in StreamType /\ new.chan = st.chan
BY Zenon DEF StreamType

LEMMA SeqTypes ==
  ASSUME NEW S, NEW s \in Seq(S), NEW x \in S
  PROVE  /\ Append(s, x) \in Seq(S) /\ Len(Append(s, x)) = Len(s) + 1
         /\ s # <<>> => /\ Head(s) \in S /\ Tail(s) \in Seq(S)
                        /\ Len(Tail(s)) = Len(s) - 1 /\ Len(s) > 0
         /\ Len(s) \in Nat
OBVIOUS

(* A stream or a handler replaced, a message put into a channel.             *)
LEMMA StreamTypes ==
  ASSUME TypeOK, NEW l \in Links
  PROVE  /\ \A st \in StreamType : Len(st.chan) <= ChanCap =>
              LET new == [stream EXCEPT ![l] = st]
              IN new \in [Links -> StreamType] /\ \A k \in Links : Len(new[k].chan) <= ChanCap
         /\ \A m \in Messages : ~ChanFull(l) =>
              /\ ToChan(l, m) \in [Links -> StreamType]
              /\ \A k \in Links : Len(ToChan(l, m)[k].chan) <= ChanCap
<1>0. ChanCap \in Nat
  BY Bounds, Zenon
<1>1. stream \in [Links -> StreamType] /\ \A k \in Links : Len(stream[k].chan) <= ChanCap
  BY Zenon DEF TypeOK
<1>2. ASSUME NEW st \in StreamType, Len(st.chan) <= ChanCap
      PROVE  LET new == [stream EXCEPT ![l] = st]
             IN new \in [Links -> StreamType] /\ \A k \in Links : Len(new[k].chan) <= ChanCap
  BY <1>1, <1>2, Zenon
<1>3. ASSUME NEW m \in Messages, ~ChanFull(l)
      PROVE  /\ ToChan(l, m) \in [Links -> StreamType]
             /\ \A k \in Links : Len(ToChan(l, m)[k].chan) <= ChanCap
  <2> DEFINE c == Append(stream[l].chan, m)
             st == [stream[l] EXCEPT !.chan = c]
  <2>1. stream[l] \in StreamType /\ stream[l].chan \in Seq(Messages)
    BY <1>1, StreamFields, Zenon
  <2>2. c \in Seq(Messages) /\ Len(c) = Len(stream[l].chan) + 1 /\ Len(stream[l].chan) \in Nat
    BY <2>1, SeqTypes, ZenonT(60)
  <2>3. Len(c) <= ChanCap
    BY <1>0, <1>3, <2>2 DEF ChanFull
  <2>4. st \in StreamType /\ st.chan = c
    BY <2>1, <2>2, StreamFields, Zenon
  <2>5. ToChan(l, m) = [stream EXCEPT ![l] = st]
    BY Zenon DEF ToChan
  <2> HIDE DEF c, st
  <2> QED BY <1>2, <2>3, <2>4, <2>5, Zenon
<1> QED BY <1>2, <1>3, Zenon

(* Where the relay has frames to send, and a handler a snapshot to label.    *)
Ready ==
  /\ relay.pc \in {"push", "send"} => relay.frames # <<>>
  /\ relay.pc = "push" /\ relay.scroll = "before" => Len(relay.frames) = 2
  /\ \A l \in Links : handler[l].pc = "label" => handler[l].replay # <<>>

(* The retained diffs after a seqno are a suffix of the buffer. *)
LEMMA SinceType ==
  ASSUME NEW S, relay.buffer \in Seq(S), NEW n
  PROVE  Since(n) \in Seq(S) /\ Len(Since(n)) <= Len(relay.buffer)
<1> DEFINE b == relay.buffer
           old == {i \in 1..Len(b) : b[i].seq <= n}
           k == Cardinality(old)
<1>1. Len(b) \in Nat
  OBVIOUS
<1>2. IsFiniteSet(1..Len(b)) /\ Cardinality(1..Len(b)) = Len(b)
  BY <1>1, FS_Interval, SMTT(90)
<1>3. k \in Nat /\ k <= Len(b)
  BY <1>2, FS_Subset, FS_CardinalityType, ZenonT(120)
<1>4. Since(n) = SubSeq(b, k + 1, Len(b))
  BY Zenon DEF Since
<1>5. k + 1 \in 1..(Len(b) + 1) /\ Len(b) \in ((k + 1) - 1)..Len(b)
  BY <1>1, <1>3
<1> HIDE DEF k
<1> QED BY <1>1, <1>3, <1>4, <1>5, SubSeqProperties

LEMMA FeedTypes ==
  ASSUME TypeOK, Ready, Feed \/ PushDiff \/ Reap
  PROVE  TypeOK' /\ Ready'
<1>1. /\ relay \in RelayType /\ relay.frames \in Seq(Messages) /\ relay.buffer \in Seq(Messages)
      /\ emu \in [grid : [Cells -> Nat], prev : [Cells -> Nat], fed : 0..MaxFeeds]
  BY Zenon DEF TypeOK, RelayType
<1>2. CASE Feed
  <2>1. PICK c \in Cells, s \in {"no", "before", "after"} :
          /\ emu' = [emu EXCEPT !.grid[c] = emu.fed + 1, !.fed = @ + 1]
          /\ relay' = [relay EXCEPT !.pc = "fed", !.scroll = s]
    BY <1>2, Zenon DEF Feed
  <2>2. relay' \in RelayType /\ relay'.pc = "fed"
    BY <1>1, <2>1, Zenon DEF RelayType
  <2> DEFINE g == [emu.grid EXCEPT ![c] = emu.fed + 1]
             n == emu.fed + 1
  <2>3. emu.fed \in 0..MaxFeeds /\ emu.fed < MaxFeeds /\ emu.grid \in [Cells -> Nat]
    BY <1>1, <1>2, Zenon DEF Feed
  <2>4. g \in [Cells -> Nat] /\ n \in 0..MaxFeeds
    BY <2>3, ConstantsAssumption
  <2>5. emu' \in [grid : [Cells -> Nat], prev : [Cells -> Nat], fed : 0..MaxFeeds]
    <3>1. emu' = [emu EXCEPT !.grid = g, !.fed = n]
      BY <2>1, Zenon
    <3> HIDE DEF g, n
    <3> QED BY <1>1, <2>4, <3>1, Zenon
  <2>6. UNCHANGED <<asOf, lock, resizeSeq, handler, stream, stale, reg, linkVars, clientVars, up, out, spent>>
    BY <1>2, Zenon DEF Feed
  <2>7. TypeOK'
    BY <2>2, <2>5, <2>6, Zenon DEF TypeOK, linkVars, clientVars
  <2> QED BY <2>2, <2>6, <2>7, Zenon DEF Ready
<1>3. CASE PushDiff
  <2> DEFINE i == IF relay.scroll = "before" THEN 2 ELSE 1
             kept == Append(relay.buffer, relay.frames[i])
             b == IF Len(kept) > Retained THEN Tail(kept) ELSE kept
  <2>1. relay' = [relay EXCEPT !.pc = "send", !.buffer = b]
    BY <1>3, Zenon DEF PushDiff
  <2>2. i \in 1..Len(relay.frames)
    <3>1. relay.frames # <<>> /\ (relay.scroll = "before" => Len(relay.frames) = 2)
      BY <1>3, Zenon DEF PushDiff, Ready
    <3>2. Len(relay.frames) \in Nat /\ Len(relay.frames) > 0
      BY <1>1, <3>1
    <3>3. CASE relay.scroll = "before"
      <4>1. i = 2 /\ Len(relay.frames) = 2
        BY <3>1, <3>3, Zenon
      <4> HIDE DEF i
      <4> QED BY <4>1
    <3>4. CASE relay.scroll # "before"
      <4>1. i = 1
        BY <3>4, Zenon
      <4> HIDE DEF i
      <4> QED BY <3>2, <4>1
    <3> QED BY <3>3, <3>4, Zenon
  <2>3. relay.frames[i] \in Messages
    BY <1>1, <2>2, ElementOfSeq, Zenon
  <2> HIDE DEF i
  <2>4. kept \in Seq(Messages) /\ Len(kept) = Len(relay.buffer) + 1 /\ kept # <<>>
    <3>1. relay.buffer \in Seq(Messages)
      BY <1>1, Zenon
    <3> QED BY <2>3, <3>1, SeqTypes
  <2>5. b \in Seq(Messages)
    BY <2>3, <2>4, SeqTypes, Zenon
  <2> HIDE DEF b
  <2>6. relay' \in RelayType /\ relay'.pc = "send" /\ relay'.frames = relay.frames
    BY <1>1, <2>1, <2>5, Zenon DEF RelayType
  <2>7. UNCHANGED <<emu, asOf, lock, resizeSeq, handler, stream, stale, reg, linkVars, clientVars, up, out, spent>>
    BY <1>3, Zenon DEF PushDiff
  <2>8. TypeOK'
    BY <2>6, <2>7, Zenon DEF TypeOK, linkVars, clientVars
  <2> QED BY <1>3, <2>6, <2>7, <2>8, Zenon DEF Ready, PushDiff
<1>4. CASE Reap
  <2>1. relay' = [relay EXCEPT !.pc = AfterFrame(relay.frames)] /\ reg' = 0
    BY <1>4, Zenon DEF Reap
  <2>2. /\ relay' \in RelayType /\ relay'.pc = AfterFrame(relay.frames)
        /\ relay'.frames = relay.frames
    BY <1>1, <2>1, Zenon DEF RelayType, AfterFrame
  <2>3. UNCHANGED <<stale, resizeSeq, emu, asOf, lock, handler, stream, linkVars, clientVars, up, out, spent>>
    BY <1>4, Zenon DEF Reap
  <2>4. TypeOK'
    BY <2>1, <2>2, <2>3, Bounds, Zenon DEF TypeOK, linkVars, clientVars
  <2> QED BY <2>2, <2>3, <2>4, Zenon DEF Ready, AfterFrame
<1> QED BY <1>2, <1>3, <1>4, Zenon

(* What compute_diff makes: the cells written, the frames and the grids.     *)
Writes == [c \in Cells |-> IF emu.grid[c] = emu.prev[c] THEN 0 ELSE emu.grid[c]]

LEMMA ComputeDiffCases ==
  ASSUME TypeOK, Ready, ComputeDiff
  PROVE  /\ relay.counter \in Nat /\ Writes \in [Cells -> Nat] /\ emu.grid \in [Cells -> Nat]
         /\ emu' = [emu EXCEPT !.prev = emu.grid]
         /\ \/ /\ relay.scroll = "no"
               /\ relay' = [relay EXCEPT !.pc = "push", !.seq = relay.counter, !.counter = relay.counter + 1,
                                         !.frames = <<Msg("update", relay.counter, Writes)>>]
               /\ asOf' = Append(asOf, emu.grid)
            \/ /\ relay.scroll = "before"
               /\ relay' = [relay EXCEPT !.pc = "push", !.seq = relay.counter + 1, !.counter = relay.counter + 2,
                                         !.frames = <<Msg("scroll", relay.counter, Blank),
                                                      Msg("update", relay.counter + 1, Writes)>>]
               /\ asOf' = asOf \o <<AsOf(relay.counter - 1), emu.grid>>
            \/ /\ relay.scroll = "after"
               /\ relay' = [relay EXCEPT !.pc = "push", !.seq = relay.counter, !.counter = relay.counter + 2,
                                         !.frames = <<Msg("update", relay.counter, Writes),
                                                      Msg("scroll", relay.counter + 1, Blank)>>]
               /\ asOf' = asOf \o <<emu.grid, emu.grid>>
<1>1. relay.counter \in Nat /\ relay.scroll \in {"no", "before", "after"}
  BY Zenon DEF TypeOK, RelayType
<1>2. emu.grid \in [Cells -> Nat] /\ emu.prev \in [Cells -> Nat]
  BY Zenon DEF TypeOK
<1>3. Writes \in [Cells -> Nat]
  BY <1>2, Zenon DEF Writes
<1>4. emu' = [emu EXCEPT !.prev = emu.grid]
  BY Zenon DEF ComputeDiff
<1>5. CASE relay.scroll = "no"
  BY <1>1, <1>2, <1>3, <1>4, <1>5, Zenon DEF ComputeDiff, Writes
<1>6. CASE relay.scroll = "before"
  BY <1>1, <1>2, <1>3, <1>4, <1>6, Zenon DEF ComputeDiff, Writes
<1>7. CASE relay.scroll = "after"
  BY <1>1, <1>2, <1>3, <1>4, <1>7, Zenon DEF ComputeDiff, Writes
<1> QED BY <1>1, <1>5, <1>6, <1>7, Zenon

LEMMA BroadcastTypes ==
  ASSUME TypeOK, Ready, Broadcast \/ Digest
  PROVE  TypeOK' /\ Ready'
<1>1. /\ relay \in RelayType /\ relay.frames \in Seq(Messages) /\ relay.seq \in Nat
      /\ emu.grid \in [Cells -> Nat] /\ reg \in 0..MaxLinks
      /\ reg # 0 => reg \in Links
  <2>1. /\ relay \in RelayType /\ reg \in 0..MaxLinks
        /\ emu \in [grid : [Cells -> Nat], prev : [Cells -> Nat], fed : 0..MaxFeeds]
    BY Zenon DEF TypeOK
  <2>2. relay.frames \in Seq(Messages) /\ relay.seq \in Nat /\ emu.grid \in [Cells -> Nat]
    BY <2>1, Zenon DEF RelayType
  <2>3. reg # 0 => reg \in Links
    BY <2>1, Bounds DEF Links
  <2> QED BY <2>1, <2>2, <2>3, Zenon
<1>2. CASE Broadcast
  <2> DEFINE frame == Head(relay.frames)
             rest == Tail(relay.frames)
             dead == reg # 0 /\ (~HasReceiver(reg) \/ ChanFull(reg))
  <2>1. frame \in Messages /\ rest \in Seq(Messages)
    <3>1. relay.frames # <<>>
      BY <1>2, Zenon DEF Broadcast, Ready
    <3> QED BY <1>1, <3>1
  <2>2. PICK p \in {"reap", AfterFrame(rest)} : relay' = [relay EXCEPT !.frames = rest, !.pc = p]
    BY <1>2, Zenon DEF Broadcast
  <2>3. /\ relay' \in RelayType /\ relay'.frames = rest /\ relay'.pc # "push"
        /\ relay'.pc = "send" => rest # <<>>
    BY <1>1, <2>1, <2>2, Zenon DEF RelayType, AfterFrame
  <2>4. reg' \in 0..MaxLinks
    BY <1>1, <1>2, Bounds, Zenon DEF Broadcast
  <2>5. out' \in Seq(Messages) /\ Len(out') <= Capacity /\ down' \in BOOLEAN
    <3>1. CASE SendControl(reg, Plain("lagged"))
      BY <3>1, QueueTypes, MessageTypes, Zenon DEF ControlKinds
    <3>2. CASE UNCHANGED <<out, down>>
      BY <3>2, Zenon DEF TypeOK
    <3> QED BY <1>2, <3>1, <3>2, Zenon DEF Broadcast
  <2>6. stream' \in [Links -> StreamType] /\ \A l \in Links : Len(stream'[l].chan) <= ChanCap
    <3>1. CASE reg = 0 \/ dead
      BY <1>2, <3>1, Zenon DEF Broadcast, TypeOK
    <3>2. CASE ~(reg = 0 \/ dead)
      <4>1. reg \in Links /\ ~ChanFull(reg) /\ stream' = ToChan(reg, frame)
        BY <1>1, <1>2, <3>2, Zenon DEF Broadcast
      <4> QED BY <2>1, <4>1, StreamTypes, Zenon
    <3> QED BY <3>1, <3>2, Zenon
  <2>7. UNCHANGED <<stale, resizeSeq, emu, asOf, lock, handler, link, released, racing, clientVars, up, spent>>
    BY <1>2, Zenon DEF Broadcast
  <2>8. TypeOK'
    BY <2>3, <2>4, <2>5, <2>6, <2>7, Zenon DEF TypeOK, clientVars
  <2> QED BY <2>3, <2>7, <2>8, Zenon DEF Ready
<1>3. CASE Digest
  <2>1. relay' = [relay EXCEPT !.pc = "read"]
    BY <1>3, Zenon DEF Digest
  <2>2. relay' \in RelayType /\ relay'.pc = "read"
    BY <1>1, <2>1, Zenon DEF RelayType
  <2>3. Msg("digest", relay.seq, emu.grid) \in Messages
    BY <1>1, MessageTypes, Zenon DEF DataKinds
  <2>4. stream' \in [Links -> StreamType] /\ \A l \in Links : Len(stream'[l].chan) <= ChanCap
    <3>1. CASE stream' = stream
      BY <3>1, Zenon DEF TypeOK
    <3>2. CASE reg # 0 /\ ~ChanFull(reg) /\ stream' = ToChan(reg, Msg("digest", relay.seq, emu.grid))
      BY <1>1, <2>3, <3>2, StreamTypes, Zenon
    <3> QED BY <1>3, <3>1, <3>2, Zenon DEF Digest
  <2>5. UNCHANGED <<stale, resizeSeq, emu, asOf, lock, handler, reg, linkVars, clientVars, up, out, spent>>
    BY <1>3, Zenon DEF Digest
  <2>6. TypeOK'
    BY <2>2, <2>4, <2>5, Zenon DEF TypeOK, clientVars, linkVars
  <2> QED BY <2>2, <2>5, <2>6, Zenon DEF Ready
<1> QED BY <1>2, <1>3, Zenon

(* Only compute_diff draws seqnos. *)
Same == asOf' = asOf /\ relay'.counter = relay.counter

LEMMA OnlyDiffDraws ==
  ASSUME TypeOK, [Next]_vars, ~ComputeDiff
  PROVE  Same
<1>1. relay \in RelayType
  BY Zenon DEF TypeOK
<1>2. CASE Feed
  <2>1. PICK s : relay' = [relay EXCEPT !.pc = "fed", !.scroll = s]
    BY <1>2, Zenon DEF Feed
  <2> QED BY <1>1, <1>2, <2>1, Zenon DEF Feed, RelayType, Same
<1>3. CASE PushDiff
  <2>1. PICK b : relay' = [relay EXCEPT !.pc = "send", !.buffer = b]
    BY <1>3, Zenon DEF PushDiff
  <2> QED BY <1>1, <1>3, <2>1, Zenon DEF PushDiff, RelayType, Same
<1>4. CASE Broadcast
  <2>1. PICK r, p : relay' = [relay EXCEPT !.frames = r, !.pc = p]
    BY <1>4, Zenon DEF Broadcast
  <2> QED BY <1>1, <1>4, <2>1, Zenon DEF Broadcast, RelayType, Same
<1>5. CASE Reap \/ Digest
  <2>1. PICK p : relay' = [relay EXCEPT !.pc = p]
    BY <1>5, Zenon DEF Reap, Digest
  <2> QED BY <1>1, <1>5, <2>1, Zenon DEF Reap, Digest, RelayType, Same
<1>6. CASE UNCHANGED <<relay, asOf>>
  BY <1>6, Zenon DEF Same
<1>7. Resize \/ OtherTraffic \/ Receive \/ LoseLink \/ Reconnect \/ SwapTransport \/ UNCHANGED vars
        => UNCHANGED <<relay, asOf>>
  BY Zenon DEF Resize, ResizePane, BroadcastResize, OtherTraffic, OtherControl, OtherChecks, OtherSends,
         Receive, LoseLink, Reconnect, SwapTransport, daemonVars, vars
<1>8. \A l \in Links : Handler(l) => UNCHANGED <<relay, asOf>>
  BY Zenon DEF Handler, TakeAttach, DetachOld, ComputeReplay, ReadLabel, InsertClient, ReleaseChannel
<1>9. \A l \in Links : Stream(l) => UNCHANGED <<relay, asOf>>
  BY ZenonT(60) DEF Stream, StaleSend, Forward, DropFrame, EndStream, StartResync, ResyncLabel, ResyncSnapshot,
         SendReset, SendSnapshot
<1> QED BY <1>2, <1>3, <1>4, <1>5, <1>6, <1>7, <1>8, <1>9, Zenon DEF Next, Relay

Numbered == relay.counter # 0 /\ Len(asOf) = relay.counter - 1

LEMMA AsOfType ==
  ASSUME TypeOK, Numbered
  PROVE  /\ CurrentSeqno \in Nat
         /\ \A k \in 0..CurrentSeqno : AsOf(k) \in [Cells -> Nat]
<1>1. relay.counter \in Nat
  BY Zenon DEF TypeOK, RelayType
<1>2. CurrentSeqno \in Nat /\ Len(asOf) = CurrentSeqno
  BY <1>1 DEF Numbered, CurrentSeqno
<1>3. ASSUME NEW k \in 0..CurrentSeqno PROVE AsOf(k) \in [Cells -> Nat]
  <2>1. CASE k = 0
    BY <2>1, MessageTypes, Zenon DEF AsOf
  <2>2. CASE k # 0
    <3>1. k \in 1..Len(asOf) /\ asOf \in Seq([Cells -> Nat])
      BY <1>2, <2>2 DEF TypeOK
    <3> QED BY <2>2, <3>1, ElementOfSeq, Zenon DEF AsOf
  <2> QED BY <2>1, <2>2, Zenon
<1> QED BY <1>2, <1>3, Zenon

LEMMA ComputeDiffTypes ==
  ASSUME TypeOK, Ready, Numbered, ComputeDiff
  PROVE  TypeOK' /\ Ready' /\ Numbered'
<1> DEFINE n == relay.counter
<1>1. n \in Nat /\ n # 0 /\ AsOf(n - 1) \in [Cells -> Nat] /\ asOf \in Seq([Cells -> Nat])
      /\ Len(asOf) = n - 1 /\ relay \in RelayType
  <2>1. n \in Nat /\ n # 0 /\ Len(asOf) = n - 1 /\ relay \in RelayType /\ asOf \in Seq([Cells -> Nat])
    BY Zenon DEF Numbered, TypeOK, RelayType
  <2>2. CurrentSeqno = n - 1 /\ n - 1 \in 0..(n - 1)
    BY <2>1 DEF CurrentSeqno
  <2>3. AsOf(n - 1) \in [Cells -> Nat]
    BY <2>2, AsOfType, Zenon
  <2> QED BY <2>1, <2>3, Zenon
<1>2. emu.grid \in [Cells -> Nat] /\ Writes \in [Cells -> Nat]
  BY ComputeDiffCases, Zenon
<1>3. /\ Msg("update", n, Writes) \in Messages /\ Msg("update", n + 1, Writes) \in Messages
      /\ Msg("scroll", n, Blank) \in Messages /\ Msg("scroll", n + 1, Blank) \in Messages
  <2>1. n \in Nat /\ n + 1 \in Nat /\ "update" \in DataKinds /\ "scroll" \in DataKinds
    BY <1>1 DEF DataKinds
  <2> QED BY <1>2, <2>1, MessageTypes, Zenon
<1>4. /\ relay' \in RelayType /\ relay'.pc = "push" /\ relay'.frames # <<>>
      /\ relay'.scroll = "before" => Len(relay'.frames) = 2
      /\ asOf' \in Seq([Cells -> Nat])
      /\ relay'.counter # 0 /\ Len(asOf') = relay'.counter - 1
  <2>1. CASE relay.scroll = "no"
    <3> DEFINE f == <<Msg("update", n, Writes)>>
               q == n
               k == n + 1
    <3>1. f \in Seq(Messages) /\ f # <<>> /\ Len(f) = 1 /\ q \in Nat /\ k \in Nat
      BY <1>1, <1>3
    <3>2. /\ relay' = [relay EXCEPT !.pc = "push", !.seq = q, !.counter = k, !.frames = f]
          /\ asOf' = Append(asOf, emu.grid)
      BY <2>1, ComputeDiffCases, Zenon
    <3>3. asOf' \in Seq([Cells -> Nat]) /\ Len(asOf') = k - 1
      BY <1>1, <1>2, <3>2
    <3>4. k # 0
      BY <1>1
    <3> HIDE DEF f, q, k
    <3>5. /\ relay' \in RelayType /\ relay'.pc = "push" /\ relay'.frames = f /\ relay'.counter = k
          /\ relay'.scroll = relay.scroll
      BY <1>1, <3>1, <3>2, Zenon DEF RelayType
    <3> QED BY <2>1, <3>1, <3>3, <3>4, <3>5, Zenon
  <2>2. CASE relay.scroll = "before"
    <3> DEFINE f == <<Msg("scroll", n, Blank), Msg("update", n + 1, Writes)>>
               q == n + 1
               k == n + 2
    <3>1. f \in Seq(Messages) /\ f # <<>> /\ Len(f) = 2 /\ q \in Nat /\ k \in Nat
      BY <1>1, <1>3
    <3>2. /\ relay' = [relay EXCEPT !.pc = "push", !.seq = q, !.counter = k, !.frames = f]
          /\ asOf' = asOf \o <<AsOf(n - 1), emu.grid>>
      BY <2>2, ComputeDiffCases, Zenon
    <3>3. asOf' \in Seq([Cells -> Nat]) /\ Len(asOf') = k - 1
      BY <1>1, <1>2, <3>2
    <3>4. k # 0
      BY <1>1
    <3> HIDE DEF f, q, k
    <3>5. /\ relay' \in RelayType /\ relay'.pc = "push" /\ relay'.frames = f /\ relay'.counter = k
          /\ relay'.scroll = relay.scroll
      BY <1>1, <3>1, <3>2, Zenon DEF RelayType
    <3> QED BY <2>2, <3>1, <3>3, <3>4, <3>5, Zenon
  <2>3. CASE relay.scroll = "after"
    <3> DEFINE f == <<Msg("update", n, Writes), Msg("scroll", n + 1, Blank)>>
               q == n
               k == n + 2
    <3>1. f \in Seq(Messages) /\ f # <<>> /\ Len(f) = 2 /\ q \in Nat /\ k \in Nat
      BY <1>1, <1>3
    <3>2. /\ relay' = [relay EXCEPT !.pc = "push", !.seq = q, !.counter = k, !.frames = f]
          /\ asOf' = asOf \o <<emu.grid, emu.grid>>
      BY <2>3, ComputeDiffCases, Zenon
    <3>3. asOf' \in Seq([Cells -> Nat]) /\ Len(asOf') = k - 1
      BY <1>1, <1>2, <3>2
    <3>4. k # 0
      BY <1>1
    <3> HIDE DEF f, q, k
    <3>5. /\ relay' \in RelayType /\ relay'.pc = "push" /\ relay'.frames = f /\ relay'.counter = k
          /\ relay'.scroll = relay.scroll
      BY <1>1, <3>1, <3>2, Zenon DEF RelayType
    <3> QED BY <2>3, <3>1, <3>3, <3>4, <3>5, Zenon
  <2> QED BY <2>1, <2>2, <2>3, ComputeDiffCases, Zenon
<1>5. emu' \in [grid : [Cells -> Nat], prev : [Cells -> Nat], fed : 0..MaxFeeds]
  <2>1. emu' = [emu EXCEPT !.prev = emu.grid]
    BY ComputeDiffCases, Zenon
  <2> QED BY <1>2, <2>1, Zenon DEF TypeOK
<1>6. UNCHANGED <<lock, resizeSeq, handler, stream, stale, reg, linkVars, clientVars, up, out, spent>>
  BY Zenon DEF ComputeDiff
<1>7. TypeOK'
  BY <1>4, <1>5, <1>6, Zenon DEF TypeOK, linkVars, clientVars
<1> QED BY <1>4, <1>6, <1>7, Zenon DEF Ready, Numbered

(* The handlers: on_attach, compute_replay and release_channel.             *)
LEMMA HandlerFields ==
  ASSUME TypeOK, NEW l \in Links
  PROVE  /\ handler[l] \in HandlerType /\ handler[l].replay \in Seq(Messages)
         /\ stream[l] \in StreamType /\ Len(stream[l].chan) <= ChanCap
         /\ NoStream \in StreamType /\ Len(NoStream.chan) <= ChanCap
BY MessageTypes, Bounds DEF TypeOK, HandlerType, NoStream

LEMMA UnsentType ==
  ASSUME NEW st \in StreamType
  PROVE  Unsent(st) \in Seq(Messages)
<1>1. st.replay \in Seq(Messages) /\ st.chan \in Seq(Messages) /\ st.label \in Nat /\ st.snap \in [Cells -> Nat]
  BY Zenon DEF StreamType
<1>2. Msg("snapshot", st.label, st.snap) \in Messages /\ Plain("reset") \in Messages
  BY <1>1, MessageTypes, Zenon DEF DataKinds
<1> QED BY <1>1, <1>2 DEF Unsent

LEMMA TakeAttachTypes ==
  ASSUME TypeOK, Ready, NEW l \in Links, TakeAttach(l)
  PROVE  TypeOK' /\ Ready'
<1>1. up \in Seq(Int) /\ up # <<>> /\ Head(up) \in Int /\ up' = Tail(up) /\ Tail(up) \in Seq(Int)
  BY DEF TypeOK, TakeAttach
<1>2. PICK h \in HandlerType : h.pc # "label" /\ handler' = [handler EXCEPT ![l] = h]
  <2> DEFINE h == [pc |-> IF handler[l].attached THEN "detach" ELSE "replay",
                   attached |-> FALSE, last |-> Head(up), replay |-> <<>>]
  <2>1. h \in HandlerType /\ h.pc # "label"
    BY <1>1 DEF HandlerType
  <2>2. handler' = [handler EXCEPT ![l] = h]
    BY Zenon DEF TakeAttach
  <2> QED BY <2>1, <2>2, Zenon
<1>3. stream' = stream \/ stream' = [stream EXCEPT ![l] = NoStream]
  BY Zenon DEF TakeAttach
<1>4. stream' \in [Links -> StreamType] /\ \A k \in Links : Len(stream'[k].chan) <= ChanCap
  <2>1. CASE stream' = stream
    BY <2>1, Zenon DEF TypeOK
  <2>2. CASE stream' = [stream EXCEPT ![l] = NoStream]
    BY <2>2, StreamTypes, HandlerFields, Zenon
  <2> QED BY <1>3, <2>1, <2>2, Zenon
<1>5. stale' \in [Links -> Seq(Messages)]
  <2>1. PICK n \in 0..Len(Unsent(stream[l])) : stale' = [stale EXCEPT ![l] = SubSeq(Unsent(stream[l]), 1, n)]
    <3>1. Unsent(stream[l]) \in Seq(Messages)
      BY UnsentType, HandlerFields, Zenon
    <3>2. 0 \in 0..Len(Unsent(stream[l]))
      BY <3>1
    <3> QED BY <3>2, Zenon DEF TakeAttach
  <2>2. SubSeq(Unsent(stream[l]), 1, n) \in Seq(Messages)
    <3>1. Unsent(stream[l]) \in Seq(Messages)
      BY UnsentType, HandlerFields, Zenon
    <3> HIDE DEF Unsent
    <3> QED BY <3>1
  <2> QED BY <2>1, <2>2, Zenon DEF TypeOK
<1>6. UNCHANGED <<resizeSeq, emu, relay, asOf, lock, reg, linkVars, clientVars, out, spent>>
  BY Zenon DEF TakeAttach
<1>7. handler' \in [Links -> HandlerType]
  BY <1>2, Zenon DEF TypeOK
<1>8. TypeOK'
  BY <1>1, <1>4, <1>5, <1>6, <1>7, Zenon DEF TypeOK, linkVars, clientVars
<1> QED BY <1>2, <1>6, <1>8, Zenon DEF Ready, TypeOK

LEMMA ReplayTypes ==
  ASSUME TypeOK, Ready, NEW l \in Links, ComputeReplay(l)
  PROVE  TypeOK' /\ Ready'
<1>1. relay.buffer \in Seq(Messages) /\ emu.grid \in [Cells -> Nat] /\ handler[l] \in HandlerType
  BY Zenon DEF TypeOK, RelayType
<1>2. PICK p \in {"insert", "label"}, r \in Seq(Messages) :
        handler' = [handler EXCEPT ![l].pc = p, ![l].replay = r] /\ (p = "label" => r # <<>>)
  <2> DEFINE snap == Msg("snapshot", 0, emu.grid)
             reset == IF handler[l].last = Fresh THEN <<>> ELSE <<Plain("reset")>>
  <2>1. snap \in Messages /\ Plain("reset") \in Messages
    BY <1>1, MessageTypes, Zenon DEF DataKinds
  <2>2. Append(reset, snap) \in Seq(Messages) /\ Append(reset, snap) # <<>>
    BY <2>1
  <2>3. Since(handler[l].last) \in Seq(Messages)
    BY <1>1, SinceType, Zenon
  <2> QED BY <2>2, <2>3, Zenon DEF ComputeReplay
<1>3. [handler[l] EXCEPT !.pc = p, !.replay = r] \in HandlerType
  BY <1>1, <1>2, Zenon DEF HandlerType
<1>4. /\ handler' \in [Links -> HandlerType] /\ handler'[l].pc = p /\ handler'[l].replay = r
      /\ \A k \in Links : k # l => handler'[k] = handler[k]
  BY <1>1, <1>2, <1>3, Zenon DEF TypeOK, HandlerType
<1>5. UNCHANGED <<stale, resizeSeq, emu, relay, asOf, stream, reg, linkVars, clientVars, up, out, spent>>
      /\ lock' = "attach"
  BY Zenon DEF ComputeReplay
<1>6. TypeOK'
  BY <1>4, <1>5, Zenon DEF TypeOK, linkVars, clientVars
<1> QED BY <1>2, <1>4, <1>5, <1>6, Zenon DEF Ready

LEMMA LabelTypes ==
  ASSUME TypeOK, Ready, Numbered, NEW l \in Links, ReadLabel(l)
  PROVE  TypeOK' /\ Ready'
<1> DEFINE n == Len(handler[l].replay)
           r == [handler[l].replay EXCEPT ![n].seq = CurrentSeqno]
<1>1. handler[l] \in HandlerType /\ handler[l].replay \in Seq(Messages) /\ handler[l].replay # <<>>
  BY HandlerFields, Zenon DEF ReadLabel, Ready
<1>2. CurrentSeqno \in Nat
  BY AsOfType, Zenon
<1>3. n \in 1..n /\ handler[l].replay[n] \in Messages
  BY <1>1
<1>4. [handler[l].replay[n] EXCEPT !.seq = CurrentSeqno] \in Messages
  BY <1>2, <1>3, Zenon DEF Messages
<1>5. r \in Seq(Messages)
  BY <1>1, <1>3, <1>4, ExceptSeq, Zenon
<1>6. handler' = [handler EXCEPT ![l].pc = "insert", ![l].replay = r]
  BY Zenon DEF ReadLabel
<1> HIDE DEF r
<1>7. [handler[l] EXCEPT !.pc = "insert", !.replay = r] \in HandlerType
  BY <1>1, <1>5, Zenon DEF HandlerType
<1>8. /\ handler' \in [Links -> HandlerType] /\ handler'[l].pc = "insert"
      /\ \A k \in Links : k # l => handler'[k] = handler[k]
  BY <1>1, <1>6, <1>7, Zenon DEF TypeOK, HandlerType
<1>9. UNCHANGED <<stale, resizeSeq, emu, relay, asOf, lock, stream, reg, linkVars, clientVars, up, out, spent>>
  BY Zenon DEF ReadLabel
<1>10. TypeOK'
  BY <1>8, <1>9, Zenon DEF TypeOK, linkVars, clientVars
<1> QED BY <1>8, <1>9, <1>10, Zenon DEF Ready

LEMMA InsertTypes ==
  ASSUME TypeOK, Ready, NEW l \in Links, DetachOld(l) \/ InsertClient(l) \/ ReleaseChannel(l)
  PROVE  TypeOK' /\ Ready'
<1>0. stream[l] \in StreamType /\ handler[l] \in HandlerType /\ handler[l].replay \in Seq(Messages)
  BY HandlerFields, Zenon
<1>1. CASE DetachOld(l)
  <2>1. handler' = [handler EXCEPT ![l].pc = "replay"] /\ reg' = 0
    BY <1>1, Zenon DEF DetachOld
  <2>2. /\ handler' \in [Links -> HandlerType] /\ handler'[l].pc = "replay"
        /\ \A k \in Links : k # l => handler'[k] = handler[k]
    BY <1>0, <2>1, Zenon DEF TypeOK, HandlerType
  <2>3. UNCHANGED <<stale, resizeSeq, emu, relay, asOf, lock, stream, linkVars, clientVars, up, out, spent>>
    BY <1>1, Zenon DEF DetachOld
  <2>4. TypeOK'
    BY <2>1, <2>2, <2>3, Bounds, Zenon DEF TypeOK, linkVars, clientVars
  <2> QED BY <2>2, <2>3, <2>4, Zenon DEF Ready
<1>2. CASE InsertClient(l)
  <2> DEFINE h == [IdleHandler EXCEPT !.attached = TRUE]
             st == [NoStream EXCEPT !.pc = "live", !.replay = handler[l].replay]
  <2>1. /\ handler' = [handler EXCEPT ![l] = h] /\ stream' = [stream EXCEPT ![l] = st]
        /\ reg' = l /\ lock' = "free"
    BY <1>2, Zenon DEF InsertClient
  <2>2. h \in HandlerType /\ h.pc = "idle"
    <3>1. IdleHandler \in HandlerType /\ IdleHandler.pc = "idle"
      BY MessageTypes, Zenon DEF IdleHandler
    <3> QED BY <3>1, Zenon DEF HandlerType
  <2>3. st \in StreamType /\ Len(st.chan) <= ChanCap
    <3>1. NoStream \in StreamType /\ NoStream.chan = <<>>
      BY MessageTypes, Zenon DEF NoStream
    <3>2. st \in StreamType /\ st.chan = NoStream.chan
      BY <1>0, <3>1, Zenon DEF StreamType
    <3> QED BY <3>1, <3>2, Bounds
  <2> HIDE DEF h, st
  <2>4. stream' \in [Links -> StreamType] /\ \A k \in Links : Len(stream'[k].chan) <= ChanCap
    BY <2>1, <2>3, StreamTypes, Zenon
  <2>5. UNCHANGED <<stale, resizeSeq, emu, relay, asOf, linkVars, clientVars, up, out, spent>>
    BY <1>2, Zenon DEF InsertClient
  <2>6. /\ handler' \in [Links -> HandlerType] /\ handler'[l].pc = "idle"
        /\ \A k \in Links : k # l => handler'[k] = handler[k]
    BY <2>1, <2>2, Zenon DEF TypeOK
  <2>7. TypeOK'
    <3>1. reg' \in 0..MaxLinks
      BY <2>1, Bounds DEF Links
    <3> QED BY <2>1, <2>4, <2>5, <2>6, <3>1, Zenon DEF TypeOK, linkVars, clientVars
  <2> QED BY <2>5, <2>6, <2>7, Zenon DEF Ready
<1>3. CASE ReleaseChannel(l)
  <2>1. /\ handler' = [handler EXCEPT ![l] = IdleHandler] /\ stream' = [stream EXCEPT ![l] = NoStream]
        /\ reg' \in {0, reg} /\ released' = released \cup {l}
    BY <1>3, Zenon DEF ReleaseChannel
  <2>2. stream' \in [Links -> StreamType] /\ \A k \in Links : Len(stream'[k].chan) <= ChanCap
    BY <2>1, StreamTypes, HandlerFields, Zenon
  <2>3. /\ handler' \in [Links -> HandlerType] /\ handler'[l].pc = "idle"
        /\ \A k \in Links : k # l => handler'[k] = handler[k]
    BY <2>1, MessageTypes, Zenon DEF TypeOK, IdleHandler
  <2>4. UNCHANGED <<stale, resizeSeq, emu, relay, asOf, lock, link, down, racing, clientVars, up, out, spent>>
    BY <1>3, Zenon DEF ReleaseChannel
  <2>5. TypeOK'
    BY <2>1, <2>2, <2>3, <2>4, Bounds, Zenon DEF TypeOK, clientVars
  <2> QED BY <2>3, <2>4, <2>5, Zenon DEF Ready
<1> QED BY <1>1, <1>2, <1>3, Zenon

(* The pane streams. *)
LEMMA StreamStepTypes ==
  ASSUME TypeOK, Ready, NEW l \in Links, NEW st \in StreamType, Len(st.chan) <= ChanCap,
         stream' = [stream EXCEPT ![l] = st],
         out' \in Seq(Messages), Len(out') <= Capacity,
         lock' \in {"free", "attach", "resync", "resize"},
         stale' = stale,
         UNCHANGED <<resizeSeq, emu, relay, asOf, handler, reg, linkVars, clientVars, up, spent>>
  PROVE  TypeOK' /\ Ready'
<1>1. stream' \in [Links -> StreamType] /\ \A k \in Links : Len(stream'[k].chan) <= ChanCap
  BY StreamTypes, Zenon
<1>2. TypeOK'
  BY <1>1, Zenon DEF TypeOK, linkVars, clientVars
<1> QED BY <1>2, Zenon DEF Ready

(* A frame taken from the replay or from the channel. *)
Frame(st) == IF st.replay # <<>> THEN Head(st.replay) ELSE Head(st.chan)
Popped(st) == IF st.replay # <<>> THEN [st EXCEPT !.replay = Tail(@)]
                                  ELSE [st EXCEPT !.chan = Tail(@)]

LEMMA PoppedType ==
  ASSUME NEW st \in StreamType, Len(st.chan) <= ChanCap, st.replay # <<>> \/ st.chan # <<>>
  PROVE  /\ Frame(st) \in Messages /\ Popped(st) \in StreamType
         /\ Len(Popped(st).chan) <= ChanCap /\ Popped(st).pc = st.pc
<1>1. st.replay \in Seq(Messages) /\ st.chan \in Seq(Messages) /\ ChanCap \in Nat
  BY StreamFields, Bounds, Zenon
<1>2. CASE st.replay # <<>>
  <2>1. Head(st.replay) \in Messages /\ Tail(st.replay) \in Seq(Messages)
    BY <1>1, <1>2
  <2> QED BY <1>1, <1>2, <2>1, Zenon DEF Frame, Popped, StreamType
<1>3. CASE st.replay = <<>>
  <2>1. st.chan # <<>>
    BY <1>3, Zenon
  <2>2. Head(st.chan) \in Messages /\ Tail(st.chan) \in Seq(Messages) /\ Len(Tail(st.chan)) <= ChanCap
    BY <1>1, <2>1
  <2>3. Popped(st) = [st EXCEPT !.chan = Tail(st.chan)] /\ Frame(st) = Head(st.chan)
    BY <1>3, Zenon DEF Frame, Popped
  <2>4. Popped(st) \in StreamType /\ Popped(st).chan = Tail(st.chan) /\ Popped(st).pc = st.pc
    BY <2>2, <2>3, Zenon DEF StreamType
  <2> QED BY <2>2, <2>3, <2>4, Zenon
<1> QED BY <1>2, <1>3, Zenon

LEMMA ForwardCases ==
  ASSUME NEW l \in Links, Forward(l)
  PROVE  LET st == stream[l]
             m == Frame(st)
         IN /\ st.pc = "live" /\ (st.replay # <<>> \/ st.chan # <<>>)
            /\ UNCHANGED <<stale, resizeSeq, emu, relay, asOf, lock, handler, reg, linkVars, clientVars, up, spent>>
            /\ \/ stream' = [stream EXCEPT ![l] = Popped(st)] /\ UNCHANGED out /\ Covered(l, m)
               \/ /\ ~Covered(l, m) /\ DataFits(l) /\ QueueData(l, m)
                  /\ stream' = [stream EXCEPT ![l] = Popped(st)]
               \/ /\ stream' = [stream EXCEPT ![l] = [Popped(st) EXCEPT !.pc = "lagged"]]
                  /\ UNCHANGED out /\ ~DataFits(l)
BY Zenon DEF Forward, Frame, Popped

LEMMA ForwardTypes ==
  ASSUME TypeOK, Ready, NEW l \in Links, Forward(l)
  PROVE  TypeOK' /\ Ready'
<1> DEFINE st == stream[l]
           m == Frame(st)
<1>1. st \in StreamType /\ Len(st.chan) <= ChanCap /\ (st.replay # <<>> \/ st.chan # <<>>)
  BY HandlerFields, ForwardCases, Zenon
<1>2. /\ m \in Messages /\ Popped(st) \in StreamType /\ Len(Popped(st).chan) <= ChanCap
  BY <1>1, PoppedType, Zenon
<1>3. [Popped(st) EXCEPT !.pc = "lagged"] \in StreamType /\ [Popped(st) EXCEPT !.pc = "lagged"].chan = Popped(st).chan
  BY <1>2, Zenon DEF StreamType
<1>4. out' \in Seq(Messages) /\ Len(out') <= Capacity
  <2>1. UNCHANGED out \/ (DataFits(l) /\ QueueData(l, m))
    BY ForwardCases, Zenon
  <2> QED BY <1>2, <2>1, QueueTypes, Zenon DEF TypeOK
<1>5. PICK new \in StreamType : Len(new.chan) <= ChanCap /\ stream' = [stream EXCEPT ![l] = new]
  <2>1. CASE stream' = [stream EXCEPT ![l] = Popped(st)]
    BY <1>2, <2>1, Zenon
  <2>2. CASE stream' = [stream EXCEPT ![l] = [Popped(st) EXCEPT !.pc = "lagged"]]
    BY <1>2, <1>3, <2>2, Zenon
  <2> QED BY <2>1, <2>2, ForwardCases, Zenon
<1>6. UNCHANGED <<stale, resizeSeq, emu, relay, asOf, lock, handler, reg, linkVars, clientVars, up, spent>>
  BY ForwardCases, Zenon
<1>7. lock' \in {"free", "attach", "resync", "resize"} /\ stale' = stale
  BY <1>6, Zenon DEF TypeOK
<1> QED BY <1>4, <1>5, <1>6, <1>7, StreamStepTypes, Zenon

(* The other steps of a stream: what it becomes.                             *)
StreamSteps(l) ==
  \/ DropFrame(l) \/ EndStream(l) \/ StartResync(l) \/ ResyncLabel(l) \/ ResyncSnapshot(l)
  \/ SendReset(l) \/ SendSnapshot(l)

LEMMA StreamStepCases ==
  ASSUME TypeOK, Numbered, NEW l \in Links, StreamSteps(l)
  PROVE  \E new \in StreamType :
           /\ Len(new.chan) <= ChanCap /\ stream' = [stream EXCEPT ![l] = new]
           /\ new.pc # "snapshot" \/ lock' = "resync"
<1>1. stream[l] \in StreamType /\ Len(stream[l].chan) <= ChanCap /\ stream[l].chan \in Seq(Messages)
  BY HandlerFields, StreamFields, Zenon
<1>2. NoStream \in StreamType /\ Len(NoStream.chan) <= ChanCap /\ NoStream.pc = "gone"
  BY HandlerFields, Zenon DEF NoStream
<1>3. CASE DropFrame(l)
  <2>1. Tail(stream[l].chan) \in Seq(Messages) /\ Len(Tail(stream[l].chan)) <= ChanCap /\ stream[l].pc = "lagged"
    <3>1. stream[l].chan # <<>> /\ stream[l].pc = "lagged"
      BY <1>3, Zenon DEF DropFrame
    <3> QED BY <1>1, <3>1, Bounds, SMTT(30)
  <2>2. stream' = [stream EXCEPT ![l] = [stream[l] EXCEPT !.chan = Tail(stream[l].chan)]]
    BY <1>3, Zenon DEF DropFrame
  <2>3. /\ [stream[l] EXCEPT !.chan = Tail(stream[l].chan)] \in StreamType
        /\ [stream[l] EXCEPT !.chan = Tail(stream[l].chan)].chan = Tail(stream[l].chan)
        /\ [stream[l] EXCEPT !.chan = Tail(stream[l].chan)].pc = "lagged"
    BY <1>1, <2>1, Zenon DEF StreamType
  <2> QED BY <2>1, <2>2, <2>3, Zenon
<1>4. CASE EndStream(l)
  BY <1>2, <1>4, Zenon DEF EndStream
<1>5. CASE StartResync(l)
  <2> DEFINE e == <<>>
             st == [stream[l] EXCEPT !.pc = "resync", !.replay = e, !.chan = e]
  <2>0. e \in Seq(Messages) /\ Len(e) = 0
    OBVIOUS
  <2>1. stream' = [stream EXCEPT ![l] = IF SenderDropped(l) THEN NoStream ELSE st]
    BY <1>5, Zenon DEF StartResync
  <2> HIDE DEF e
  <2>2. st \in StreamType /\ st.chan = e /\ st.pc = "resync"
    BY <1>1, <2>0, Zenon DEF StreamType
  <2> HIDE DEF st
  <2>3. Len(st.chan) <= ChanCap
    BY <2>0, <2>2, Bounds
  <2> QED BY <1>2, <2>1, <2>2, <2>3, Zenon
<1>6. CASE ResyncLabel(l)
  <2> DEFINE st == [stream[l] EXCEPT !.pc = "snapshot", !.label = CurrentSeqno]
  <2>1. stream' = [stream EXCEPT ![l] = st] /\ lock' = "resync"
    BY <1>6, Zenon DEF ResyncLabel
  <2>2. st \in StreamType /\ st.chan = stream[l].chan
    BY <1>1, AsOfType, Zenon DEF StreamType
  <2> HIDE DEF st
  <2> QED BY <1>1, <2>1, <2>2, Zenon
<1>7. CASE ResyncSnapshot(l)
  <2> DEFINE st == [stream[l] EXCEPT !.pc = "reset", !.snap = emu.grid]
  <2>1. stream' = [stream EXCEPT ![l] = st] /\ emu.grid \in [Cells -> Nat]
    BY <1>7, Zenon DEF ResyncSnapshot, TypeOK
  <2>2. st \in StreamType /\ st.chan = stream[l].chan /\ st.pc = "reset"
    BY <1>1, <2>1, Zenon DEF StreamType
  <2> HIDE DEF st
  <2> QED BY <1>1, <2>1, <2>2, Zenon
<1>8. CASE SendReset(l)
  <2>1. PICK p \in {"fill", "lagged"} : stream' = [stream EXCEPT ![l] = [stream[l] EXCEPT !.pc = p]]
    BY <1>8, Zenon DEF SendReset
  <2>2. /\ [stream[l] EXCEPT !.pc = p] \in StreamType /\ [stream[l] EXCEPT !.pc = p].chan = stream[l].chan
        /\ [stream[l] EXCEPT !.pc = p].pc = p
    BY <1>1, Zenon DEF StreamType
  <2> QED BY <1>1, <2>1, <2>2, Zenon
<1>9. CASE SendSnapshot(l)
  <2>1. stream[l].label \in Int /\ stream[l].covered \in Int
    BY <1>1 DEF StreamType
  <2>2. PICK p \in {"live", "lagged"}, k \in Int :
          stream' = [stream EXCEPT ![l] = [stream[l] EXCEPT !.pc = p, !.covered = k]]
    <3>1. CASE stream' = [stream EXCEPT ![l].pc = "live", ![l].covered = stream[l].label]
      BY <2>1, <3>1, ZenonT(30)
    <3>2. CASE stream' = [stream EXCEPT ![l].pc = "lagged"]
      <4>1. [stream[l] EXCEPT !.pc = "lagged"] = [stream[l] EXCEPT !.pc = "lagged", !.covered = stream[l].covered]
        BY <1>1, Zenon DEF StreamType
      <4> QED BY <2>1, <3>2, <4>1, Zenon
    <3> QED BY <1>9, <3>1, <3>2, Zenon DEF SendSnapshot
  <2> DEFINE st == [stream[l] EXCEPT !.pc = p, !.covered = k]
  <2>3. st \in StreamType /\ st.chan = stream[l].chan /\ st.pc = p
    BY <1>1, Zenon DEF StreamType
  <2> HIDE DEF st
  <2> QED BY <1>1, <2>2, <2>3, ZenonT(30) DEF st
<1> QED BY <1>3, <1>4, <1>5, <1>6, <1>7, <1>8, <1>9, Zenon DEF StreamSteps

LEMMA StreamTypeSteps ==
  ASSUME TypeOK, Ready, Numbered, NEW l \in Links, Stream(l)
  PROVE  TypeOK' /\ Ready'
<1>1. CASE Forward(l)
  BY <1>1, ForwardTypes, Zenon
<1>2. CASE StaleSend(l)
  <2>1. stale[l] \in Seq(Messages) /\ stale[l] # <<>>
    BY <1>2, Zenon DEF StaleSend, TypeOK
  <2>2. Head(stale[l]) \in Messages /\ Tail(stale[l]) \in Seq(Messages)
    BY <2>1
  <2>3. stale' \in [Links -> Seq(Messages)]
    <3>1. PICK s \in Seq(Messages) : stale' = [stale EXCEPT ![l] = s]
      <4>1. <<>> \in Seq(Messages)
        OBVIOUS
      <4>2. stale' = [stale EXCEPT ![l] = <<>>] \/ stale' = [stale EXCEPT ![l] = Tail(stale[l])]
        BY <1>2, Zenon DEF StaleSend
      <4> QED BY <2>2, <4>1, <4>2, Zenon
    <3> QED BY <3>1, Zenon DEF TypeOK
  <2>4. out' \in Seq(Messages) /\ Len(out') <= Capacity
    <3>1. UNCHANGED out \/ (DataFits(l) /\ QueueData(l, Head(stale[l])))
      BY <1>2, Zenon DEF StaleSend
    <3> QED BY <2>2, <3>1, QueueTypes, Zenon DEF TypeOK
  <2>5. UNCHANGED <<emu, relay, asOf, lock, resizeSeq, handler, stream, reg, linkVars, clientVars, up, spent>>
    BY <1>2, Zenon DEF StaleSend
  <2>6. TypeOK'
    BY <2>3, <2>4, <2>5, Zenon DEF TypeOK, linkVars, clientVars
  <2> QED BY <2>5, <2>6, Zenon DEF Ready
<1>3. CASE StreamSteps(l)
  <2>1. PICK new \in StreamType : Len(new.chan) <= ChanCap /\ stream' = [stream EXCEPT ![l] = new]
    BY <1>3, StreamStepCases, Zenon
  <2>2. out' \in Seq(Messages) /\ Len(out') <= Capacity
    <3>1. Plain("reset") \in Messages /\ Msg("snapshot", stream[l].label, stream[l].snap) \in Messages
      <4>1. stream[l].label \in Nat /\ stream[l].snap \in [Cells -> Nat]
        BY HandlerFields, Zenon DEF StreamType
      <4>2. "snapshot" \in DataKinds /\ "reset" \in DataKinds
        BY Zenon DEF DataKinds
      <4> QED BY <4>1, <4>2, MessageTypes, Zenon
    <3>2. \/ UNCHANGED out
          \/ DataFits(l) /\ QueueData(l, Plain("reset"))
          \/ DataFits(l) /\ QueueData(l, Msg("snapshot", stream[l].label, stream[l].snap))
      BY <1>3, Zenon DEF StreamSteps, DropFrame, EndStream, StartResync, ResyncLabel, ResyncSnapshot, SendReset, SendSnapshot
    <3> QED BY <3>1, <3>2, QueueTypes, Zenon DEF TypeOK
  <2>3. lock' \in {"free", "attach", "resync", "resize"}
    BY <1>3, Zenon DEF StreamSteps, DropFrame, EndStream, StartResync, ResyncLabel, ResyncSnapshot, SendReset, SendSnapshot, TypeOK
  <2>4. UNCHANGED <<stale, resizeSeq, emu, relay, asOf, handler, reg, linkVars, clientVars, up, spent>>
    BY <1>3, Zenon DEF StreamSteps, DropFrame, EndStream, StartResync, ResyncLabel, ResyncSnapshot, SendReset, SendSnapshot
  <2> QED BY <2>1, <2>2, <2>3, <2>4, StreamStepTypes, Zenon
<1> QED BY <1>1, <1>2, <1>3, Zenon DEF Stream, StreamSteps

(* The connection's other producers, another viewer's resize, the client.    *)
LEMMA OthersTypes ==
  ASSUME TypeOK, Ready, Numbered, OtherTraffic \/ Resize
  PROVE  TypeOK' /\ Ready'
<1>0. /\ Plain("control") \in Messages /\ Plain("other") \in Messages /\ Plain("resized") \in Messages
      /\ spent \in [attaches : Nat, other : Nat, resizes : Nat]
      /\ spent.other \in Nat /\ spent.resizes \in Nat
      /\ (reg # 0 => reg \in Links) /\ emu.grid \in [Cells -> Nat] /\ resizeSeq \in Nat
  BY MessageTypes DEF DataKinds, ControlKinds, TypeOK, Links
<1>1. CASE OtherControl
  <2>1. spent' = [spent EXCEPT !.other = @ + 1] /\ SendControl(link, Plain("control"))
    BY <1>1, Zenon DEF OtherControl
  <2>2. spent' \in [attaches : Nat, other : Nat, resizes : Nat]
    BY <1>0, <2>1
  <2>3. out' \in Seq(Messages) /\ Len(out') <= Capacity /\ down' \in BOOLEAN
    BY <1>0, <2>1, QueueTypes, Zenon
  <2>4. UNCHANGED <<daemonVars, clientVars, link, released, up, racing>>
    BY <1>1, Zenon DEF OtherControl
  <2>5. TypeOK'
    BY <2>2, <2>3, <2>4, Zenon DEF TypeOK, daemonVars, clientVars
  <2> QED BY <2>4, <2>5, Zenon DEF Ready, daemonVars
<1>2. CASE OtherChecks
  <2>1. spent' = [spent EXCEPT !.other = @ + 1] /\ racing' = TRUE
    BY <1>2, Zenon DEF OtherChecks
  <2>2. spent' \in [attaches : Nat, other : Nat, resizes : Nat]
    BY <1>0, <2>1
  <2>3. UNCHANGED <<daemonVars, clientVars, link, down, released, up, out>>
    BY <1>2, Zenon DEF OtherChecks
  <2>4. TypeOK'
    BY <2>1, <2>2, <2>3, Zenon DEF TypeOK, daemonVars, clientVars
  <2> QED BY <2>3, <2>4, Zenon DEF Ready, daemonVars
<1>3. CASE OtherSends
  <2>1. out' \in Seq(Messages) /\ Len(out') <= Capacity
    <3>1. CASE Live(link) /\ Free > 0
      <4>1. SendControl(link, Plain("other")) \/ out' = Append(out, Plain("other"))
        BY <1>3, <3>1, Zenon DEF OtherSends
      <4>2. out \in Seq(Messages) /\ Len(out) < Capacity /\ Capacity \in Nat
        BY <3>1, Bounds DEF TypeOK, Free
      <4> QED BY <1>0, <1>3, <3>1, <4>2 DEF OtherSends
    <3>2. CASE out' = out
      BY <3>2, Zenon DEF TypeOK
    <3> QED BY <1>3, <3>1, <3>2, Zenon DEF OtherSends
  <2>2. UNCHANGED <<daemonVars, clientVars, link, down, released, up, spent>> /\ racing' = FALSE
    BY <1>3, Zenon DEF OtherSends
  <2>3. TypeOK'
    BY <2>1, <2>2, Zenon DEF TypeOK, daemonVars, clientVars
  <2> QED BY <2>2, <2>3, Zenon DEF Ready, daemonVars
<1>4. CASE ResizePane
  <2>1. /\ emu' = [emu EXCEPT !.prev = Blank] /\ lock' = "resize" /\ resizeSeq' = CurrentSeqno
        /\ spent' = [spent EXCEPT !.resizes = @ + 1]
    BY <1>4, Zenon DEF ResizePane
  <2>2. spent' \in [attaches : Nat, other : Nat, resizes : Nat]
    BY <1>0, <2>1
  <2>3. emu' \in [grid : [Cells -> Nat], prev : [Cells -> Nat], fed : 0..MaxFeeds]
    BY <2>1, MessageTypes, Zenon DEF TypeOK
  <2>4. UNCHANGED <<stale, relay, asOf, handler, stream, reg, linkVars, clientVars, up, out>>
    BY <1>4, Zenon DEF ResizePane
  <2>5. TypeOK'
    BY <2>1, <2>2, <2>3, <2>4, AsOfType, Zenon DEF TypeOK, linkVars, clientVars
  <2> QED BY <2>4, <2>5, Zenon DEF Ready
<1>5. CASE BroadcastResize
  <2>1. out' \in Seq(Messages) /\ Len(out') <= Capacity /\ down' \in BOOLEAN
    <3>1. CASE SendControl(reg, Plain("resized"))
      BY <1>0, <3>1, QueueTypes, Zenon
    <3>2. CASE UNCHANGED <<out, down>>
      BY <3>2, Zenon DEF TypeOK
    <3> QED BY <1>5, <3>1, <3>2, Zenon DEF BroadcastResize
  <2>2. stream' \in [Links -> StreamType] /\ \A l \in Links : Len(stream'[l].chan) <= ChanCap
    <3>1. CASE stream' = stream
      BY <3>1, Zenon DEF TypeOK
    <3>2. CASE reg # 0 /\ ~ChanFull(reg) /\ stream' = ToChan(reg, Msg("snapshot", resizeSeq, emu.grid))
      <4>1. Msg("snapshot", resizeSeq, emu.grid) \in Messages
        BY <1>0, MessageTypes, Zenon DEF DataKinds
      <4> QED BY <1>0, <3>2, <4>1, StreamTypes, Zenon
    <3> QED BY <1>5, <3>1, <3>2, Zenon DEF BroadcastResize
  <2>3. UNCHANGED <<stale, resizeSeq, emu, relay, asOf, handler, reg, link, released, racing, clientVars, up, spent>>
        /\ lock' = "free"
    BY <1>5, Zenon DEF BroadcastResize
  <2>4. TypeOK'
    BY <2>1, <2>2, <2>3, Zenon DEF TypeOK, clientVars
  <2> QED BY <2>3, <2>4, Zenon DEF Ready
<1> QED BY <1>1, <1>2, <1>3, <1>4, <1>5, Zenon DEF OtherTraffic, Resize

LEMMA ReceiveTypes ==
  ASSUME TypeOK, Ready, Receive
  PROVE  TypeOK' /\ Ready'
<1> DEFINE msg == Head(out)
<1>1. msg \in Messages /\ Tail(out) \in Seq(Messages) /\ Len(Tail(out)) <= Capacity /\ out' = Tail(out)
  <2>1. out \in Seq(Messages) /\ out # <<>> /\ Len(out) <= Capacity /\ out' = Tail(out)
    BY Zenon DEF Receive, TypeOK
  <2> QED BY <2>1, Bounds
<1>2. msg.seq \in Nat /\ msg.cells \in [Cells -> Nat]
  BY <1>1, Zenon DEF Messages
<1>3. /\ sync \in {"awaiting", "synced"} /\ expected \in Nat /\ shown \in [Cells -> Nat] /\ blanked \in BOOLEAN
      /\ up \in Seq(Int) /\ spent \in [attaches : Nat, other : Nat, resizes : Nat] /\ spent.attaches \in Nat
  BY Zenon DEF TypeOK
<1> DEFINE ClientOK == /\ sync' \in {"awaiting", "synced"} /\ expected' \in Nat /\ shown' \in [Cells -> Nat]
                       /\ blanked' \in BOOLEAN /\ up' \in Seq(Int)
                       /\ spent' \in [attaches : Nat, other : Nat, resizes : Nat]
<1>4. ASSUME Resync PROVE ClientOK
  <2>1. Append(up, Fresh) \in Seq(Int)
    BY <1>3 DEF Fresh
  <2>2. spent' \in [attaches : Nat, other : Nat, resizes : Nat]
    <3>1. spent' = [spent EXCEPT !.attaches = @ + 1]
      BY <1>4, Zenon DEF Resync
    <3> QED BY <1>3, <3>1
  <2>3. ClientOK
    BY <1>4, <2>1, <2>2, MessageTypes, Zenon DEF Resync
  <2> QED BY <2>3, Zenon
<1>5. ASSUME UNCHANGED <<clientVars, up, spent>> PROVE ClientOK
  BY <1>3, <1>5, Zenon DEF clientVars
<1>6. ASSUME OnSnapshot(msg) PROVE ClientOK
  <2>1. /\ sync' = "synced" /\ expected' = msg.seq + 1 /\ shown' = msg.cells /\ UNCHANGED <<up, spent>>
    BY <1>6, Zenon DEF OnSnapshot
  <2>2. blanked' \in BOOLEAN
    BY <1>6, Zenon DEF OnSnapshot
  <2> HIDE DEF msg
  <2> QED BY <1>2, <1>3, <2>1, <2>2
<1>7. ASSUME OnReset \/ OnResized PROVE ClientOK
  <2>1. /\ sync' \in {"awaiting", "synced"} /\ expected' \in Nat /\ shown' = Blank /\ UNCHANGED <<up, spent>>
    BY <1>3, <1>7 DEF OnReset, OnResized
  <2>2. blanked' \in BOOLEAN
    BY <1>7, Zenon DEF OnReset, OnResized
  <2> QED BY <1>3, <2>1, <2>2, MessageTypes, Zenon
<1>8. ASSUME OnFrame(msg) PROVE ClientOK
  <2>1. Overlay(shown, msg.cells) \in [Cells -> Nat]
    BY <1>2, <1>3, Zenon DEF Overlay
  <2>2. CASE shown' = Overlay(shown, msg.cells) /\ expected' = expected + 1 /\ UNCHANGED <<sync, blanked, up, spent>>
    BY <1>3, <2>1, <2>2, SMTT(30)
  <2> QED BY <1>4, <1>5, <1>8, <2>2, Zenon DEF OnFrame
<1>9. ClientOK
  <2>1. CASE OnDigest(msg)
    BY <1>4, <1>5, <2>1, Zenon DEF OnDigest
  <2> QED BY <1>4, <1>5, <1>6, <1>7, <1>8, <2>1, Zenon DEF Receive
<1>10. UNCHANGED <<daemonVars, linkVars>>
  BY Zenon DEF Receive
<1>11. TypeOK'
  BY <1>1, <1>9, <1>10, Zenon DEF TypeOK, daemonVars, linkVars
<1> QED BY <1>10, <1>11, Zenon DEF Ready, daemonVars

LEMMA LinkTypes ==
  ASSUME TypeOK, Ready, LoseLink \/ Reconnect \/ SwapTransport \/ UNCHANGED vars
  PROVE  TypeOK' /\ Ready'
<1>1. UNCHANGED daemonVars
  BY Zenon DEF LoseLink, Reconnect, SwapTransport, vars, daemonVars
<1>2. /\ link' \in Links /\ down' \in BOOLEAN /\ released' = released /\ racing' \in BOOLEAN
      /\ out' \in Seq(Messages) /\ Len(out') <= Capacity
  <2>1. link < MaxLinks => link + 1 \in Links
    BY Bounds, SMTT(30) DEF TypeOK, Links
  <2>2. CASE LoseLink \/ UNCHANGED vars
    BY <2>2, Zenon DEF LoseLink, vars, TypeOK
  <2>3. CASE Reconnect \/ SwapTransport
    <3>1. link' = link + 1 /\ link < MaxLinks /\ out' = <<>> /\ racing' = FALSE /\ released' = released
      BY <2>3, Zenon DEF Reconnect, SwapTransport
    <3>2. down' \in BOOLEAN
      BY <2>3, Zenon DEF Reconnect, SwapTransport, TypeOK
    <3>3. out' \in Seq(Messages) /\ Len(out') <= Capacity
      BY <3>1, Bounds
    <3> QED BY <2>1, <3>1, <3>2, <3>3, Zenon
  <2> QED BY <2>2, <2>3, Zenon
<1>3. /\ UNCHANGED clientVars /\ up' \in Seq(Int)
      /\ spent' \in [attaches : Nat, other : Nat, resizes : Nat]
  <2>1. CASE Reconnect
    <3>1. /\ up' = <<IF sync = "synced" THEN expected - 1 ELSE Fresh>>
          /\ spent' = [spent EXCEPT !.attaches = @ + 1] /\ UNCHANGED clientVars
      BY <2>1, Zenon DEF Reconnect
    <3>2. (IF sync = "synced" THEN expected - 1 ELSE Fresh) \in Int
      BY DEF TypeOK, Fresh
    <3>3. spent' \in [attaches : Nat, other : Nat, resizes : Nat]
      <4>1. spent \in [attaches : Nat, other : Nat, resizes : Nat] /\ spent.attaches \in Nat
        BY Zenon DEF TypeOK
      <4> QED BY <3>1, <4>1
    <3> QED BY <3>1, <3>2, <3>3
  <2>2. CASE LoseLink \/ SwapTransport \/ UNCHANGED vars
    BY <2>2, Zenon DEF LoseLink, SwapTransport, vars, clientVars, TypeOK
  <2> QED BY <2>1, <2>2, Zenon
<1>4. TypeOK'
  BY <1>1, <1>2, <1>3, Zenon DEF TypeOK, daemonVars, clientVars
<1> QED BY <1>1, <1>4, Zenon DEF Ready, daemonVars

TypeInv == TypeOK /\ Ready /\ Numbered

LEMMA InitTypes == Init => TypeInv
<1> SUFFICES ASSUME Init PROVE TypeInv
  BY Zenon
<1>1. Blank \in [Cells -> Nat] /\ NoStream \in StreamType /\ IdleHandler \in HandlerType /\ Len(NoStream.chan) = 0
  BY MessageTypes, Zenon DEF NoStream
<1>2. emu \in [grid : [Cells -> Nat], prev : [Cells -> Nat], fed : 0..MaxFeeds]
  <2>1. emu = [grid |-> Blank, prev |-> Blank, fed |-> 0]
    BY Zenon DEF Init
  <2> QED BY <1>1, <2>1, Bounds
<1>3. relay \in RelayType /\ relay.pc = "read" /\ relay.counter = 1
  <2>1. relay = [pc |-> "read", scroll |-> "no", frames |-> <<>>, seq |-> 0, counter |-> 1, buffer |-> <<>>]
    BY Zenon DEF Init
  <2> QED BY <2>1 DEF RelayType
<1>4. /\ handler \in [Links -> HandlerType] /\ stream \in [Links -> StreamType]
      /\ \A l \in Links : handler[l].pc = "idle" /\ Len(stream[l].chan) <= ChanCap
      /\ stale \in [Links -> Seq(Messages)]
  <2>1. /\ handler = [l \in Links |-> IdleHandler] /\ stream = [l \in Links |-> NoStream]
        /\ stale = [l \in Links |-> <<>>]
    BY Zenon DEF Init
  <2>2. IdleHandler.pc = "idle"
    BY Zenon DEF IdleHandler
  <2> QED BY <1>1, <2>1, <2>2, Bounds
<1>5. link \in Links /\ reg \in 0..MaxLinks
  <2>1. link = 1 /\ reg = 0
    BY Zenon DEF Init
  <2> QED BY <2>1, Bounds DEF Links
<1>6. up \in Seq(Int) /\ out \in Seq(Messages) /\ Len(out) <= Capacity
  <2>1. up = <<Fresh>> /\ out = <<>>
    BY Zenon DEF Init
  <2>2. Fresh \in Int
    BY DEF Fresh
  <2> QED BY <2>1, <2>2, Bounds
<1>7. down \in BOOLEAN /\ racing \in BOOLEAN /\ blanked \in BOOLEAN
  BY Zenon DEF Init
<1>8. /\ asOf = <<>> /\ released = {} /\ lock = "free" /\ resizeSeq = 0
      /\ sync = "awaiting" /\ expected = 0 /\ shown = Blank
      /\ spent = [attaches |-> 1, other |-> 0, resizes |-> 0]
  BY Zenon DEF Init
<1>9. TypeOK
  <2>1. /\ asOf \in Seq([Cells -> Nat]) /\ released \subseteq Links /\ resizeSeq \in Nat /\ expected \in Nat
        /\ spent \in [attaches : Nat, other : Nat, resizes : Nat]
    BY <1>8
  <2> QED BY <1>1, <1>2, <1>3, <1>4, <1>5, <1>6, <1>7, <1>8, <2>1, Zenon DEF TypeOK
<1>10. Ready
  BY <1>3, <1>4, Zenon DEF Ready
<1>11. Numbered
  BY <1>3, <1>8 DEF Numbered
<1> QED BY <1>9, <1>10, <1>11, Zenon DEF TypeInv

LEMMA StepTypes == TypeInv /\ [Next]_vars => TypeInv'
<1> SUFFICES ASSUME TypeOK, Ready, Numbered, [Next]_vars PROVE TypeInv'
  BY Zenon DEF TypeInv
<1>1. TypeOK' /\ Ready'
  <2>1. \A l \in Links : Handler(l) => TypeOK' /\ Ready'
    BY TakeAttachTypes, ReplayTypes, LabelTypes, InsertTypes, Zenon DEF Handler
  <2>2. Relay => TypeOK' /\ Ready'
    BY FeedTypes, ComputeDiffTypes, BroadcastTypes, Zenon DEF Relay
  <2> QED BY <2>1, <2>2, StreamTypeSteps, OthersTypes, ReceiveTypes, LinkTypes, Zenon DEF Next
<1>2. Numbered'
  BY ComputeDiffTypes, OnlyDiffDraws, Zenon DEF Numbered, Same
<1> QED BY <1>1, <1>2, Zenon DEF TypeInv

(* Every variable keeps its type: channels and the outbound queue within      *)
(* their capacities, the seqnos drawn one grid each.                         *)
THEOREM TypeCorrect == Spec => []TypeOK
<1>1. TypeInv => TypeOK
  BY Zenon DEF TypeInv
<1> QED BY <1>1, InitTypes, StepTypes, PTL DEF Spec

-----------------------------------------------------------------------------
(* DataLeavesReserve.  Data is queued only while more than the reserve is     *)
(* free, so the queue itself is then short; the one slot over is the other    *)
(* stream's, which looked at the room (racing) before something else filled   *)
(* it, and what filled it was not data.                                      *)

Count(s, kinds) == Cardinality({i \in 1..Len(s) : s[i].kind \in kinds})

ReserveInv ==
  /\ Queued(DataKinds \ {"other"}) <= Capacity - Reserve
  /\ Queued(DataKinds) <= Capacity - Reserve + 1
  /\ racing => Queued(DataKinds) <= Capacity - Reserve

LEMMA ReserveFits == Capacity - Reserve \in Nat
BY ConstantsAssumption DEF Reserve

LEMMA CountType ==
  ASSUME NEW S, NEW s \in Seq(S), NEW kinds
  PROVE  /\ IsFiniteSet({i \in 1..Len(s) : s[i].kind \in kinds})
         /\ Count(s, kinds) \in Nat /\ Count(s, kinds) <= Len(s)
<1> DEFINE T == {i \in 1..Len(s) : s[i].kind \in kinds}
<1>1. Len(s) \in Nat /\ T \in SUBSET (1..Len(s))
  OBVIOUS
<1>2. IsFiniteSet(1..Len(s)) /\ Cardinality(1..Len(s)) = Len(s)
  <2>1. 1 \in Int /\ Len(s) \in Int
    BY <1>1
  <2>2. IsFiniteSet(1..Len(s)) /\ Cardinality(1..Len(s)) = IF 1 > Len(s) THEN 0 ELSE Len(s) - 1 + 1
    BY <2>1, FS_Interval, Zenon
  <2> QED BY <1>1, <2>2
<1> HIDE DEF T
<1>3. IsFiniteSet(T) /\ Cardinality(T) <= Len(s)
  BY <1>1, <1>2, FS_Subset, Zenon
<1>4. Cardinality(T) \in Nat
  BY <1>3, FS_CardinalityType, Zenon
<1> QED BY <1>3, <1>4, Zenon DEF T, Count

(* A message queued counts once if it is of the kinds, else not at all. *)
LEMMA CountAppend ==
  ASSUME NEW S, NEW s \in Seq(S), NEW m \in S, NEW kinds
  PROVE  /\ m.kind \notin kinds => Count(Append(s, m), kinds) = Count(s, kinds)
         /\ Count(Append(s, m), kinds) <= Count(s, kinds) + 1
<1> DEFINE A == {i \in 1..Len(s) : s[i].kind \in kinds}
           t == Append(s, m)
           B == {i \in 1..Len(t) : t[i].kind \in kinds}
           x == Len(s) + 1
<1>1. /\ Len(s) \in Nat /\ Len(t) = Len(s) + 1 /\ t[Len(s) + 1] = m
      /\ \A i \in 1..Len(s) : t[i] = s[i]
  OBVIOUS
<1>2. B = IF m.kind \in kinds THEN A \cup {x} ELSE A
  <2> HIDE DEF t
  <2>1. 1..Len(t) = (1..Len(s)) \cup {Len(s) + 1}
    BY <1>1
  <2> QED BY <1>1, <2>1, Zenon
<1>3. IsFiniteSet(A) /\ Cardinality(A) \in Nat
  BY CountType, Zenon DEF Count
<1> HIDE DEF A, B, t, x
<1>4. Cardinality(A \cup {x}) = IF x \in A THEN Cardinality(A) ELSE Cardinality(A) + 1
  BY <1>3, FS_AddElement, Zenon
<1>5. Cardinality(B) <= Cardinality(A) + 1 /\ (m.kind \notin kinds => Cardinality(B) = Cardinality(A))
  BY <1>2, <1>3, <1>4
<1> QED BY <1>5, Zenon DEF A, B, t, Count

(* A message received is one fewer to count. *)
LEMMA CountTail ==
  ASSUME NEW S, NEW s \in Seq(S), s # <<>>, NEW kinds
  PROVE  Count(Tail(s), kinds) <= Count(s, kinds)
<1> DEFINE A == {i \in 1..Len(s) : s[i].kind \in kinds}
           t == Tail(s)
           B == {i \in 1..Len(t) : t[i].kind \in kinds}
           f == [i \in B |-> i + 1]
<1>1. Len(s) \in Nat /\ Len(t) = Len(s) - 1 /\ \A i \in 1..Len(t) : t[i] = s[i + 1]
  OBVIOUS
<1>2. IsFiniteSet(A)
  BY CountType, Zenon DEF Count
<1>3. f \in Injection(B, A)
  <2> HIDE DEF t
  <2>1. \A i \in B : i + 1 \in A
    BY <1>1
  <2>2. \A i, j \in B : f[i] = f[j] => i = j
    BY <1>1
  <2> QED BY <2>1, <2>2, Zenon DEF Injection, IsInjective
<1> HIDE DEF A, B, f
<1>4. Cardinality(B) <= Cardinality(A)
  BY <1>2, <1>3, FS_Injection, Zenon
<1> QED BY <1>4, Zenon DEF A, B, Count

(* What a step does to the queue. *)
QueueStep ==
  \/ out' = out /\ (racing' => racing \/ Len(out) < Capacity - Reserve)
  \/ \E m \in Messages : out' = Append(out, m) /\ m.kind \notin DataKinds /\ racing' = racing
  \/ \E m \in Messages : out' = Append(out, m) /\ Len(out) < Capacity - Reserve
  \/ \E m \in Messages : out' = Append(out, m) /\ m.kind = "other" /\ racing /\ ~racing'
  \/ out # <<>> /\ out' = Tail(out) /\ racing' = racing
  \/ out' = <<>> /\ ~racing'

LEMMA ControlQueued ==
  ASSUME TypeOK, NEW l, NEW kind \in ControlKinds, SendControl(l, Plain(kind)), racing' = racing
  PROVE  QueueStep
<1>1. Plain(kind) \in Messages /\ Plain(kind).kind = kind /\ kind \notin DataKinds
  BY MessageTypes, Zenon DEF Plain, Msg, ControlKinds, DataKinds
<1>2. out' = out \/ out' = Append(out, Plain(kind))
  BY Zenon DEF SendControl
<1> QED BY <1>1, <1>2, Zenon DEF QueueStep

LEMMA DataQueued ==
  ASSUME TypeOK, NEW l, DataFits(l), NEW m \in Messages, QueueData(l, m), racing' = racing
  PROVE  QueueStep
<1>1. Len(out) \in Nat /\ Capacity \in Nat /\ Reserve \in Nat
  BY Bounds DEF TypeOK
<1>2. CASE Live(l)
  <2>1. out' = Append(out, m) /\ Capacity - Len(out) > Reserve
    BY <1>2, Zenon DEF QueueData, DataFits, Free
  <2>2. Len(out) < Capacity - Reserve
    BY <1>1, <2>1
  <2> QED BY <2>1, <2>2, Zenon DEF QueueStep
<1>3. CASE ~Live(l)
  BY <1>3, Zenon DEF QueueData, QueueStep
<1> QED BY <1>2, <1>3, Zenon

LEMMA QueueSteps ==
  ASSUME TypeInv, [Next]_vars
  PROVE  QueueStep
<1>0. TypeOK /\ Len(out) \in Nat /\ Capacity \in Nat /\ Reserve \in Nat
  BY Bounds, SMTT(30) DEF TypeInv, TypeOK
<1>1. CASE Relay \/ Resize
  <2>1. CASE Broadcast
    <3>1. racing' = racing /\ (UNCHANGED out \/ SendControl(reg, Plain("lagged")))
      BY <2>1, Zenon DEF Broadcast
    <3> QED BY <1>0, <3>1, ControlQueued, Zenon DEF QueueStep, ControlKinds
  <2>2. CASE BroadcastResize
    <3>1. racing' = racing /\ (UNCHANGED out \/ SendControl(reg, Plain("resized")))
      BY <2>2, Zenon DEF BroadcastResize
    <3> QED BY <1>0, <3>1, ControlQueued, Zenon DEF QueueStep, ControlKinds
  <2>3. Feed \/ ComputeDiff \/ PushDiff \/ Reap \/ Digest \/ ResizePane => out' = out /\ racing' = racing
    BY Zenon DEF Feed, ComputeDiff, PushDiff, Reap, Digest, ResizePane, linkVars
  <2> QED BY <1>1, <2>1, <2>2, <2>3, Zenon DEF Relay, Resize, QueueStep
<1>2. CASE OtherTraffic
  <2>1. CASE OtherControl
    <3>1. racing' = racing /\ SendControl(link, Plain("control"))
      BY <2>1, Zenon DEF OtherControl
    <3> QED BY <1>0, <3>1, ControlQueued, Zenon DEF ControlKinds
  <2>2. CASE OtherChecks
    <3>1. out' = out /\ Capacity - Len(out) > Reserve
      BY <2>2, Zenon DEF OtherChecks, DataFits, Live, Free
    <3>2. Len(out) < Capacity - Reserve
      BY <1>0, <3>1
    <3> QED BY <3>1, <3>2, Zenon DEF QueueStep
  <2>3. CASE OtherSends
    <3>1. /\ Plain("other") \in Messages /\ Plain("other").kind = "other"
          /\ racing /\ ~racing' /\ (out' = out \/ out' = Append(out, Plain("other")))
      BY <2>3, MessageTypes, Zenon DEF OtherSends, Plain, Msg, DataKinds
    <3> QED BY <3>1, ZenonT(30) DEF QueueStep
  <2> QED BY <1>2, <2>1, <2>2, <2>3, Zenon DEF OtherTraffic
<1>3. ASSUME NEW l \in Links, Handler(l) PROVE QueueStep
  <2>1. out' = out /\ racing' = racing
    BY <1>3, Zenon DEF Handler, TakeAttach, DetachOld, ComputeReplay, ReadLabel, InsertClient, ReleaseChannel, linkVars
  <2> QED BY <2>1, Zenon DEF QueueStep
<1>4. ASSUME NEW l \in Links, Stream(l) PROVE QueueStep
  <2>1. racing' = racing /\ (out' = out \/ \E m \in Messages : DataFits(l) /\ QueueData(l, m))
    <3>1. CASE StaleSend(l)
      <4>1. stale[l] \in Seq(Messages)
        BY <1>0, Zenon DEF TypeOK
      <4>2. racing' = racing /\ stale[l] # <<>>
            /\ (out' = out \/ (DataFits(l) /\ QueueData(l, Head(stale[l]))))
        BY <3>1, Zenon DEF StaleSend, linkVars
      <4>3. Head(stale[l]) \in Messages
        BY <4>1, <4>2, SMTT(30)
      <4> QED BY <4>2, <4>3, Zenon
    <3>2. CASE Forward(l)
      <4>1. /\ racing' = racing /\ (stream[l].replay # <<>> \/ stream[l].chan # <<>>)
            /\ out' = out \/ (DataFits(l) /\ QueueData(l, Frame(stream[l])))
        BY <3>2, ForwardCases, Zenon DEF linkVars
      <4>2. Frame(stream[l]) \in Messages
        BY <1>0, <4>1, PoppedType, Zenon DEF TypeOK
      <4> QED BY <4>1, <4>2, Zenon
    <3>3. CASE SendReset(l)
      <4>1. Plain("reset") \in Messages
        BY MessageTypes, Zenon DEF DataKinds
      <4> QED BY <3>3, <4>1, Zenon DEF SendReset, linkVars
    <3>4. CASE SendSnapshot(l)
      <4>1. Msg("snapshot", stream[l].label, stream[l].snap) \in Messages
        BY <1>0, MessageTypes, Zenon DEF DataKinds, TypeOK, StreamType
      <4> QED BY <3>4, <4>1, Zenon DEF SendSnapshot, linkVars
    <3>5. DropFrame(l) \/ EndStream(l) \/ StartResync(l) \/ ResyncLabel(l) \/ ResyncSnapshot(l)
            => out' = out /\ racing' = racing
      BY Zenon DEF DropFrame, EndStream, StartResync, ResyncLabel, ResyncSnapshot, linkVars
    <3> QED BY <1>4, <3>1, <3>2, <3>3, <3>4, <3>5, Zenon DEF Stream
  <2> QED BY <1>0, <2>1, DataQueued, Zenon DEF QueueStep
<1>5. CASE Receive
  <2>1. out # <<>> /\ out' = Tail(out) /\ racing' = racing
    BY <1>5, Zenon DEF Receive, linkVars
  <2> QED BY <2>1, Zenon DEF QueueStep
<1>6. CASE LoseLink \/ Reconnect \/ SwapTransport \/ UNCHANGED vars
  <2>1. (out' = out /\ racing' = racing) \/ (out' = <<>> /\ ~racing')
    BY <1>6, Zenon DEF LoseLink, Reconnect, SwapTransport, vars
  <2> QED BY <2>1, Zenon DEF QueueStep
<1> QED BY <1>1, <1>2, <1>3, <1>4, <1>5, <1>6, Zenon DEF Next

LEMMA ReserveKept ==
  ASSUME TypeInv, ReserveInv, [Next]_vars
  PROVE  ReserveInv'
<1> DEFINE own == DataKinds \ {"other"}
           max == Capacity - Reserve
<1>1. out \in Seq(Messages) /\ out' \in Seq(Messages) /\ max \in Nat /\ Len(out) \in Nat
  <2>1. TypeInv'
    BY StepTypes, Zenon
  <2> QED BY <2>1, ReserveFits, SMTT(30) DEF TypeInv, TypeOK
<1>2. \A K : /\ Queued(K) = Count(out, K) /\ Queued(K)' = Count(out', K)
             /\ Count(out, K) \in Nat /\ Count(out', K) \in Nat
             /\ Count(out, K) <= Len(out) /\ Count(out', K) <= Len(out')
  <2>1. \A K : Queued(K) = Count(out, K) /\ Queued(K)' = Count(out', K)
    BY Zenon DEF Queued, Count
  <2>2. \A K : Count(out, K) \in Nat /\ Count(out', K) \in Nat
               /\ Count(out, K) <= Len(out) /\ Count(out', K) <= Len(out')
    BY <1>1, CountType, Zenon
  <2> QED BY <2>1, <2>2, Zenon
<1> HIDE DEF max
<1>3. /\ Count(out, own) <= max /\ Count(out, DataKinds) <= max + 1
      /\ racing => Count(out, DataKinds) <= max
  BY <1>2, Zenon DEF ReserveInv, max
<1>4. /\ Count(out', own) <= max /\ Count(out', DataKinds) <= max + 1
      /\ racing' => Count(out', DataKinds) <= max
  <2>0. QueueStep
    BY QueueSteps, Zenon
  <2>1. CASE out' = out /\ (racing' => racing \/ Len(out) < max)
    <3>1. Count(out, DataKinds) \in Nat /\ Count(out, DataKinds) <= Len(out)
      BY <1>2, Zenon
    <3> QED BY <1>1, <1>3, <2>1, <3>1
  <2>2. ASSUME NEW m \in Messages, out' = Append(out, m), m.kind \notin DataKinds, racing' = racing
        PROVE  /\ Count(out', own) <= max /\ Count(out', DataKinds) <= max + 1
               /\ racing' => Count(out', DataKinds) <= max
    <3>1. Count(out', own) = Count(out, own) /\ Count(out', DataKinds) = Count(out, DataKinds)
      BY <1>1, <2>2, CountAppend, Zenon
    <3> QED BY <1>3, <2>2, <3>1, Zenon
  <2>3. ASSUME NEW m \in Messages, out' = Append(out, m), Len(out) < max
        PROVE  /\ Count(out', own) <= max /\ Count(out', DataKinds) <= max + 1
               /\ racing' => Count(out', DataKinds) <= max
    <3>1. Len(out') = Len(out) + 1
      BY <1>1, <2>3
    <3>2. Count(out', own) \in Nat /\ Count(out', DataKinds) \in Nat
          /\ Count(out', own) <= Len(out') /\ Count(out', DataKinds) <= Len(out')
      BY <1>2, Zenon
    <3> HIDE DEF own
    <3> QED BY <1>1, <2>3, <3>1, <3>2
  <2>4. ASSUME NEW m \in Messages, out' = Append(out, m), m.kind = "other", racing, ~racing'
        PROVE  /\ Count(out', own) <= max /\ Count(out', DataKinds) <= max + 1
               /\ racing' => Count(out', DataKinds) <= max
    <3>1. Count(out', own) = Count(out, own)
      BY <1>1, <2>4, CountAppend, Zenon
    <3>2. Count(out', DataKinds) <= Count(out, DataKinds) + 1
      BY <1>1, <2>4, CountAppend, Zenon
    <3>3. Count(out, DataKinds) \in Nat /\ Count(out', DataKinds) \in Nat
      BY <1>2, Zenon
    <3> HIDE DEF own
    <3> QED BY <1>1, <1>3, <2>4, <3>1, <3>2, <3>3
  <2>5. CASE out # <<>> /\ out' = Tail(out) /\ racing' = racing
    <3>1. Count(out', own) <= Count(out, own) /\ Count(out', DataKinds) <= Count(out, DataKinds)
      BY <1>1, <2>5, CountTail, Zenon
    <3>2. /\ Count(out, own) \in Nat /\ Count(out', own) \in Nat
          /\ Count(out, DataKinds) \in Nat /\ Count(out', DataKinds) \in Nat
      BY <1>2, Zenon
    <3> HIDE DEF own
    <3> QED BY <1>1, <1>3, <2>5, <3>1, <3>2, SMTT(30)
  <2>6. CASE out' = <<>> /\ ~racing'
    <3>1. Len(out') = 0
      BY <2>6, Zenon
    <3>2. /\ Count(out', own) \in Nat /\ Count(out', DataKinds) \in Nat
          /\ Count(out', own) <= Len(out') /\ Count(out', DataKinds) <= Len(out')
      BY <1>2, Zenon
    <3> HIDE DEF own
    <3> QED BY <1>1, <2>6, <3>1, <3>2
  <2> QED BY <2>0, <2>1, <2>2, <2>3, <2>4, <2>5, <2>6, Zenon DEF QueueStep, max
<1> QED BY <1>2, <1>4, Zenon DEF ReserveInv, max

(* However fast the panes print, data never takes the outbound queue's       *)
(* control reserve, but for one slot of a stream that looked at the room      *)
(* before it was taken (outbound.rs try_send_data looks, then sends).         *)
THEOREM DataLeavesReserveAlways == Spec => []DataLeavesReserve
<1>1. Init => TypeInv /\ ReserveInv
  <2> SUFFICES ASSUME Init PROVE TypeInv /\ ReserveInv
    BY Zenon
  <2>1. TypeInv /\ out = <<>> /\ out \in Seq(Messages) /\ Len(out) = 0
    BY InitTypes, SMTT(30) DEF Init
  <2>2. \A K : Queued(K) \in Nat /\ Queued(K) <= 0
    <3>1. \A K : Queued(K) = Count(out, K)
      BY Zenon DEF Queued, Count
    <3>2. \A K : Count(out, K) \in Nat /\ Count(out, K) <= Len(out)
      BY <2>1, CountType, Zenon
    <3> QED BY <2>1, <3>1, <3>2, Zenon
  <2>3. /\ Queued(DataKinds) \in Nat /\ Queued(DataKinds) <= 0
        /\ Queued(DataKinds \ {"other"}) \in Nat /\ Queued(DataKinds \ {"other"}) <= 0
    BY <2>2, Zenon
  <2> QED BY <2>1, <2>3, ReserveFits DEF ReserveInv
<1>2. TypeInv /\ ReserveInv /\ [Next]_vars => (TypeInv /\ ReserveInv)'
  BY StepTypes, ReserveKept, Zenon
<1>3. ReserveInv => DataLeavesReserve
  BY Zenon DEF ReserveInv, DataLeavesReserve
<1> QED BY <1>1, <1>2, <1>3, PTL DEF Spec
=============================================================================
