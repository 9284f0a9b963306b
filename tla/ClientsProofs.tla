---------------------------- MODULE ClientsProofs ----------------------------
(***************************************************************************)
(* Theorems about Clients: however many clients open however many channels,  *)
(* in whatever order their loops end, a superseded channel takes nothing     *)
(* from its successor, a channel that has ended leaves nothing behind, and   *)
(* the pane fits its viewers.                                               *)
(*                                                                         *)
(* The invariants are layers, each proved from those before it: ChannelInv   *)
(* (what a channel may hold, and when), GenInv (the registrations),          *)
(* OwnInv (whose channels and ids are whose) and ViewerInv (the pane).       *)
(***************************************************************************)
EXTENDS Clients, WellFoundedInduction, TLAPS

Used(c) == chan[c].pc # "unused"
Live == {"registered", "open", "releasing"}

(* Channels are used in order, every one draws at most one id, and only an   *)
(* open one attaches.                                                       *)
ChannelsInOrder ==
  \A c \in Channels :
    /\ ~Used(c) => nextId <= c /\ chan[c] = Unused
    /\ Used(c) => chan[c].id \in 1 .. nextId - 1

AttachesOpen ==
  \A c \in Channels :
    /\ chan[c].want # NoSize => chan[c].pc = "open" /\ chan[c].used /\ chan[c].want \in Sizes
    /\ chan[c].attached => chan[c].pc = "open" /\ chan[c].used

TokensDrawn == \A u \in Users : token[u] < nextId

ChannelInv == TypeOK /\ ChannelsInOrder /\ AttachesOpen /\ TokensDrawn

(* A registration has the generation of its newest channel, which no other   *)
(* channel shares.                                                          *)
Generations ==
  \A c \in Channels : Used(c) =>
    /\ Registered(chan[c].id) => chan[c].gen <= conns[chan[c].id].gen
    /\ \A d \in Channels :
         Used(d) /\ chan[d].id = chan[c].id /\ chan[d].gen = chan[c].gen => c = d

(* Every registration is some live channel's.                               *)
Held ==
  \A i \in Ids : Registered(i) =>
    \E c \in Channels : chan[c].id = i /\ chan[c].gen = conns[i].gen /\ chan[c].pc \in Live

(* An id no longer registered was given back by the newest of its channels.  *)
GivenBack ==
  \A i \in Ids : i < nextId /\ ~Registered(i) =>
    \E c \in Channels : /\ chan[c].id = i /\ chan[c].pc \in {"released", "gone"}
                        /\ \A d \in Channels : chan[d].id = i => chan[d].gen <= chan[c].gen

GenInv == Generations /\ Held /\ GivenBack

(* The channel a client uses has the id it would resume, the one it opens    *)
(* is not in use yet, and no two clients share an id.                        *)
OpeningId(u) == IF opening[u] = 0 THEN 0 ELSE chan[opening[u]].id

OwnChannels ==
  \A u \in Users :
    /\ current[u] # 0 => Used(current[u]) /\ chan[current[u]].id = token[u]
    /\ opening[u] # 0 => Used(opening[u]) /\ ~chan[opening[u]].used

OwnIds ==
  \A u, v \in Users : u # v =>
    /\ token[u] # 0 => token[u] # token[v] /\ token[u] # OpeningId(v)
    /\ OpeningId(u) # 0 => OpeningId(u) # OpeningId(v)

OwnInv == OwnChannels /\ OwnIds

ViewersOpen ==
  \A i \in Ids : viewers[i] # NoViewer =>
    chan[viewers[i].chan].id = i /\ chan[viewers[i].chan].pc = "open"

LockHeld == mode # 0 => viewers[mode] # NoViewer \/ mode \in removed \/ mode \in stray

ViewerInv == ViewersOpen /\ LockHeld /\ AttachedThroughCurrent

-----------------------------------------------------------------------------
(* Facts about the model's operators. *)

USE DEF Channels, Ids

(* Min picks an element of a set of naturals that no other is below.         *)
LEMMA MinOfNaturals ==
  ASSUME NEW S, S \subseteq Nat, S # {}
  PROVE  Min(S) \in S /\ \A y \in S : Min(S) <= y
<1> DEFINE Below == {pair \in Nat \X Nat : pair[1] < pair[2]}
<1>1. IsWellFoundedOn(Below, Nat)
  BY NatLessThanWellFounded, Zenon DEF OpToRel
<1>2. PICK m \in S : \A y \in S : <<y, m>> \notin Below
  <2> HIDE DEF Below
  <2> QED BY <1>1, WFMin, Zenon
<1>3. \A y \in S : m <= y
  <2> SUFFICES ASSUME NEW y \in S, ~(m <= y) PROVE FALSE
    BY Zenon
  <2>1. <<y, m>> \in Nat \X Nat /\ y < m
    OBVIOUS
  <2> QED BY <1>2, <2>1, Zenon
<1> QED BY <1>3, Zenon DEF Min

(* What Reconcile computes is a window: two naturals, the first the smallest *)
(* rows and the second the smallest columns of those who view.               *)
LEMMA SmallestFits ==
  ASSUME NEW vs \in [Ids -> [chan : Channels, size : Sizes] \cup {NoViewer}],
         Viewing(vs) # {}
  PROVE  /\ Smallest(vs) \in Windows
         /\ \A i \in Viewing(vs) : /\ Smallest(vs)[1] <= vs[i].size[1]
                                   /\ Smallest(vs)[2] <= vs[i].size[2]
         /\ \E i, j \in Viewing(vs) : Smallest(vs) = <<vs[i].size[1], vs[j].size[2]>>
<1> DEFINE Rows == {vs[i].size[1] : i \in Viewing(vs)}
           Cols == {vs[i].size[2] : i \in Viewing(vs)}
<1>1. \A i \in Viewing(vs) : vs[i].size \in Sizes
  BY Zenon DEF Viewing
<1>2. \A i \in Viewing(vs) : vs[i].size[1] \in Nat /\ vs[i].size[2] \in Nat
  BY <1>1, ConstantsAssumption, Zenon
<1>3. Rows \subseteq Nat /\ Rows # {} /\ Cols \subseteq Nat /\ Cols # {}
  BY <1>2, Zenon
<1>4. Min(Rows) \in Rows /\ \A y \in Rows : Min(Rows) <= y
  BY <1>3, MinOfNaturals, Zenon
<1>5. Min(Cols) \in Cols /\ \A y \in Cols : Min(Cols) <= y
  BY <1>3, MinOfNaturals, Zenon
<1>6. Smallest(vs) = <<Min(Rows), Min(Cols)>>
  BY Zenon DEF Smallest
<1> HIDE DEF Rows, Cols
<1>7. Smallest(vs)[1] = Min(Rows) /\ Smallest(vs)[2] = Min(Cols)
  BY <1>6
<1>8. Smallest(vs) \in Windows
  <2>1. Min(Rows) \in Nat /\ Min(Cols) \in Nat
    BY <1>3, <1>4, <1>5, Zenon
  <2>2. \A a, b \in Nat : <<a, b>> \in Nat \X Nat
    BY Zenon
  <2> QED BY <1>6, <2>1, <2>2, Zenon DEF Windows
<1> QED BY <1>4, <1>5, <1>6, <1>7, <1>8, Zenon DEF Rows, Cols

ViewerMaps == [Ids -> [chan : Channels, size : Sizes] \cup {NoViewer}]

LEMMA EffectiveWindow ==
  ASSUME TypeOK, NEW vs \in ViewerMaps
  PROVE  Effective(vs) \in Windows
<1>1. CASE Viewing(vs) = {}
  BY <1>1, Zenon DEF TypeOK, Effective
<1>2. CASE Viewing(vs) # {}
  BY <1>2, SmallestFits, Zenon DEF Effective, ViewerMaps
<1> QED BY <1>1, <1>2, Zenon

(* A viewer that leaves, or a pane reconciled, keeps the pane's state typed. *)
LEMMA LeaveType ==
  ASSUME TypeOK, NEW i \in Ids, Leave(i)
  PROVE  /\ viewers' = [viewers EXCEPT ![i] = NoViewer] /\ viewers' \in ViewerMaps
         /\ mode' \in 0..MaxChannels /\ size' \in Windows /\ reaped' = FALSE
<1>1. [viewers EXCEPT ![i] = NoViewer] \in ViewerMaps
  BY Zenon DEF TypeOK, ViewerMaps
<1>2. Effective([viewers EXCEPT ![i] = NoViewer]) \in Windows
  BY <1>1, EffectiveWindow, Zenon
<1>3. mode' \in 0..MaxChannels
  BY ConstantsAssumption DEF TypeOK, Leave
<1> QED BY <1>1, <1>2, <1>3, Zenon DEF Leave, Reconcile

-----------------------------------------------------------------------------
(* ChannelInv: types, and what a channel holds. *)

ChanType == [pc : {"unused", "registered", "open", "releasing", "released", "gone"},
             id : 0..MaxChannels, gen : Nat, attached : BOOLEAN,
             want : Windows, ioctl : Windows, used : BOOLEAN, empty : BOOLEAN]

LEMMA UnusedType == Unused \in ChanType
<1>1. NoSize \in Windows
  BY Zenon DEF NoSize, Windows
<1> QED BY <1>1, ConstantsAssumption DEF Unused, ChanType

LEMMA InitChannel == Init => ChannelInv
<1> SUFFICES ASSUME Init PROVE ChannelInv
  BY Zenon
<1>2. Unused \in ChanType
  BY UnusedType, Zenon
<1>3. (CHOOSE s \in Sizes : TRUE) \in Sizes
  <2>1. Sizes # {}
    BY ConstantsAssumption, Zenon
  <2> QED BY <2>1, Zenon
<1>4. size \in Windows
  <2>1. size \in Sizes
    BY <1>3, Zenon DEF Init
  <2> QED BY <2>1, ConstantsAssumption, Zenon DEF Windows
<1>5. TypeOK
  <2>1. chan \in [Channels -> ChanType]
    BY <1>2, Zenon DEF Init
  <2>2. winsize \in Windows
    BY <1>4, Zenon DEF Init
  <2>3. idle \in BOOLEAN /\ shutdown \in BOOLEAN /\ reaped \in BOOLEAN
    BY Zenon DEF Init
  <2>4. /\ conns \in [Ids -> [owner : Users, gen : Nat] \cup {NoConn}]
        /\ viewers \in [Ids -> [chan : Channels, size : Sizes] \cup {NoViewer}]
    BY Zenon DEF Init
  <2>5. /\ nextId \in 1..MaxChannels + 1 /\ mode \in 0..MaxChannels
        /\ removed \subseteq Ids /\ late \subseteq Ids /\ stray \subseteq Ids
    BY ConstantsAssumption DEF Init
  <2>6. /\ current \in [Users -> 0..MaxChannels] /\ opening \in [Users -> 0..MaxChannels]
        /\ token \in [Users -> 0..MaxChannels]
    BY ConstantsAssumption DEF Init
  <2> QED BY <1>4, <2>1, <2>2, <2>3, <2>4, <2>5, <2>6, Zenon DEF TypeOK, ChanType
<1>6. ChannelsInOrder
  BY ConstantsAssumption DEF Init, ChannelsInOrder, Used, Unused
<1>7. AttachesOpen
  BY Zenon DEF Init, AttachesOpen, Unused
<1>8. TokensDrawn
  BY DEF Init, TokensDrawn
<1> QED BY <1>5, <1>6, <1>7, <1>8, Zenon DEF ChannelInv

(* Every assignment to a channel's fields keeps it typed.                    *)
LEMMA TypedCount ==
  ASSUME NEW f \in [Channels -> ChanType], NEW c \in Channels,
         NEW p \in {"open", "released", "gone"}, NEW e \in BOOLEAN
  PROVE  [f EXCEPT ![c].pc = p, ![c].empty = e] \in [Channels -> ChanType]
BY ZenonT(120) DEF ChanType

LEMMA TypedPc ==
  ASSUME NEW f \in [Channels -> ChanType], NEW c \in Channels
  PROVE  /\ [f EXCEPT ![c].pc = "gone"] \in [Channels -> ChanType]
         /\ [f EXCEPT ![c].pc = "releasing", ![c].attached = FALSE] \in [Channels -> ChanType]
         /\ [f EXCEPT ![c].attached = FALSE] \in [Channels -> ChanType]
<1>1. [f EXCEPT ![c].pc = "gone"] \in [Channels -> ChanType]
  BY DEF ChanType
<1>2. [f EXCEPT ![c].pc = "releasing", ![c].attached = FALSE] \in [Channels -> ChanType]
  BY ZenonT(120) DEF ChanType
<1>3. [f EXCEPT ![c].attached = FALSE] \in [Channels -> ChanType]
  BY ZenonT(120) DEF ChanType
<1> QED BY <1>1, <1>2, <1>3, ZenonT(30)

LEMMA TypedWant ==
  ASSUME NEW f \in [Channels -> ChanType], NEW c \in Channels,
         NEW w \in Windows, NEW a \in BOOLEAN
  PROVE  [f EXCEPT ![c].want = w, ![c].attached = a] \in [Channels -> ChanType]
BY ZenonT(120) DEF ChanType

LEMMA TypedIoctl ==
  ASSUME NEW f \in [Channels -> ChanType], NEW c \in Channels, NEW w \in Windows
  PROVE  [f EXCEPT ![c].ioctl = w] \in [Channels -> ChanType]
BY ZenonT(120) DEF ChanType

(* A step that changes one used channel, and no other.                       *)
Touches(c) ==
  /\ Used(c) /\ nextId' = nextId
  /\ \A d \in Channels : d # c => chan'[d] = chan[d]
  /\ chan'[c].pc # "unused" /\ chan'[c].id = chan[c].id
  /\ chan'[c].want # NoSize => chan'[c].pc = "open" /\ chan'[c].used /\ chan'[c].want \in Sizes
  /\ chan'[c].attached => chan'[c].pc = "open" /\ chan'[c].used

LEMMA ChannelUpdate ==
  ASSUME ChannelInv, NEW c \in Channels, Touches(c)
  PROVE  ChannelsInOrder' /\ AttachesOpen'
<1>1. ChannelsInOrder'
  BY ZenonT(60) DEF ChannelInv, ChannelsInOrder, Used, Touches
<1>2. AttachesOpen'
  BY Zenon DEF ChannelInv, AttachesOpen, Touches
<1> QED BY <1>1, <1>2, Zenon

LEMMA UsedId ==
  ASSUME ChannelInv, NEW c \in Channels, Used(c)
  PROVE  chan[c].id \in Ids
<1>1. nextId \in 1..MaxChannels + 1 /\ chan[c].id \in 1 .. nextId - 1
  BY Zenon DEF ChannelInv, ChannelsInOrder, TypeOK
<1> QED BY <1>1, ConstantsAssumption

LEMMA ChannelFacts ==
  ASSUME ChannelInv, NEW c \in Channels
  PROVE  /\ chan[c].gen \in Nat /\ chan[c].id \in 0..MaxChannels /\ chan[c].id < nextId
         /\ ~Used(c) => chan[c].id = 0
         /\ Used(c) => chan[c].id \in Ids
<1>1. nextId \in 1..MaxChannels + 1 /\ chan[c].gen \in Nat /\ chan[c].id \in 0..MaxChannels
  BY Zenon DEF ChannelInv, TypeOK
<1>2. CASE Used(c)
  BY <1>1, <1>2, UsedId DEF ChannelInv, ChannelsInOrder
<1>3. CASE ~Used(c)
  BY <1>1, <1>3, ConstantsAssumption DEF ChannelInv, ChannelsInOrder, Unused
<1> QED BY <1>1, <1>2, <1>3, Zenon

(* The id a client resumes from is one the registry knows.                   *)
LEMMA ResumableId ==
  ASSUME TypeOK, NEW u \in Users, Resumable(u)
  PROVE  token[u] \in Ids /\ conns[token[u]] \in [owner : Users, gen : Nat]
<1>1. token[u] \in Ids
  BY DEF TypeOK, Resumable
<1>2. conns[token[u]] # NoConn
  BY ConstantsAssumption DEF Resumable, NoConn
<1> QED BY <1>1, <1>2, Zenon DEF TypeOK

LEMMA RegisterKeepsChannel ==
  ASSUME ChannelInv, NEW u \in Users, NEW c \in Channels, Register(u, c)
  PROVE  ChannelInv'
<1> USE ConstantsAssumption
<1>1. nextId \in Nat /\ c \in Nat
  BY DEF ChannelInv, TypeOK
<1>2. ~Used(c) /\ nextId <= c /\ \A d \in Channels : ~Used(d) => c <= d
  BY <1>1 DEF ChannelInv, ChannelsInOrder, Register, Used
<1>3. TypeOK
  BY Zenon DEF ChannelInv
<1>4. opening' \in [Users -> 0..MaxChannels]
  BY <1>3 DEF Register, TypeOK
<1>5. CASE Resume(u, c)
  <2> DEFINE i == token[u]
             new == [Unused EXCEPT !.pc = "open", !.id = i, !.gen = conns[i].gen + 1]
  <2>1. i \in Ids /\ conns[i] \in [owner : Users, gen : Nat]
    BY <1>3, <1>5, ResumableId, Zenon DEF Resume
  <2>2. new \in ChanType
    <3>1. conns[i].gen + 1 \in Nat /\ i \in 0..MaxChannels
      BY <2>1
    <3> QED BY <3>1, UnusedType, Zenon DEF ChanType
  <2>3. new.want = NoSize /\ new.attached = FALSE /\ new.pc = "open" /\ new.id = i
    BY Zenon DEF Unused
  <2> HIDE DEF new
  <2>4. chan' = [chan EXCEPT ![c] = new] /\ nextId' = nextId
    BY <1>5, Zenon DEF Resume, new
  <2>5. chan' \in [Channels -> ChanType] /\ chan'[c] = new
        /\ \A d \in Channels : d # c => chan'[d] = chan[d]
    BY <1>3, <2>2, <2>4, Zenon DEF TypeOK, ChanType
  <2>6. conns' \in [Ids -> [owner : Users, gen : Nat] \cup {NoConn}]
    <3>1. [conns[i] EXCEPT !.gen = conns[i].gen + 1] \in [owner : Users, gen : Nat]
      BY <2>1
    <3> QED BY <1>3, <1>5, <2>1, <3>1, Zenon DEF Resume, TypeOK
  <2>7. TypeOK'
    BY <1>3, <1>4, <2>4, <2>5, <2>6, Zenon DEF TypeOK, ChanType, Register, paneVars, countVars
  <2>8. i \in 1 .. nextId - 1
    BY <1>1, <2>1 DEF ChannelInv, TokensDrawn
  <2>9. ChannelsInOrder'
    BY <2>3, <2>4, <2>5, <2>8, Zenon DEF ChannelInv, ChannelsInOrder, Used
  <2>10. AttachesOpen'
    BY <2>3, <2>5, Zenon DEF ChannelInv, AttachesOpen
  <2>11. TokensDrawn'
    BY <2>4, Zenon DEF ChannelInv, TokensDrawn, Register
  <2> QED BY <2>7, <2>9, <2>10, <2>11, Zenon DEF ChannelInv
<1>6. CASE RegisterFresh(u, c)
  <2> DEFINE new == [Unused EXCEPT !.pc = "registered", !.id = nextId,
                                   !.empty = NobodyLeft(conns')]
  <2>1. nextId \in Ids
    BY <1>1, <1>2, <1>3 DEF TypeOK
  <2>2. new \in ChanType
    <3>1. NobodyLeft(conns') \in BOOLEAN
      BY Zenon DEF NobodyLeft
    <3>2. nextId \in 0..MaxChannels
      BY <2>1
    <3>3. \A b \in BOOLEAN :
            [Unused EXCEPT !.pc = "registered", !.id = nextId, !.empty = b] \in ChanType
      BY <3>2, UnusedType, Zenon DEF ChanType
    <3> QED BY <3>1, <3>3, Zenon
  <2>3. new.want = NoSize /\ new.attached = FALSE /\ new.pc = "registered" /\ new.id = nextId
    BY Zenon DEF Unused
  <2> HIDE DEF new
  <2>4. chan' = [chan EXCEPT ![c] = new] /\ nextId' = nextId + 1
    BY <1>6, Zenon DEF RegisterFresh, new
  <2>5. chan' \in [Channels -> ChanType] /\ chan'[c] = new
        /\ \A d \in Channels : d # c => chan'[d] = chan[d]
    BY <1>3, <2>2, <2>4, Zenon DEF TypeOK, ChanType
  <2>6. conns' \in [Ids -> [owner : Users, gen : Nat] \cup {NoConn}]
    BY <1>3, <1>6, <2>1, Zenon DEF RegisterFresh, TypeOK
  <2>7. TypeOK'
    <3>1. nextId' \in 1..MaxChannels + 1
      BY <2>1, <2>4
    <3>2. UNCHANGED <<paneVars, countVars, current, token>>
      BY Zenon DEF Register
    <3> QED BY <1>3, <1>4, <2>5, <2>6, <3>1, <3>2, Zenon DEF TypeOK, ChanType, paneVars, countVars
  <2>8. ChannelsInOrder'
    <3>1. \A d \in Channels : ~Used(d) /\ d # c => nextId + 1 <= d
      BY <1>1, <1>2
    <3>2. ASSUME NEW d \in Channels
          PROVE  /\ ~Used(d)' => nextId' <= d /\ chan'[d] = Unused
                 /\ Used(d)' => chan'[d].id \in 1 .. nextId' - 1
      <4>1. CASE d = c
        <5>1. Used(d)' /\ chan'[d].id = nextId
          BY <2>3, <2>5, <4>1, Zenon DEF Used
        <5> QED BY <1>1, <2>1, <2>4, <5>1
      <4>2. CASE d # c
        <5>1. chan'[d] = chan[d] /\ (Used(d)' <=> Used(d))
          BY <2>3, <2>5, <4>2, Zenon DEF Used
        <5>2. /\ ~Used(d) => nextId + 1 <= d /\ chan[d] = Unused
              /\ Used(d) => chan[d].id \in 1 .. nextId - 1
          BY <3>1, <4>2, Zenon DEF ChannelInv, ChannelsInOrder
        <5> QED BY <1>1, <2>4, <5>1, <5>2
      <4> QED BY <4>1, <4>2, Zenon
    <3> QED BY <3>2, Zenon DEF ChannelsInOrder
  <2>9. AttachesOpen'
    BY <2>3, <2>5, ZenonT(60) DEF ChannelInv, AttachesOpen
  <2>10. TokensDrawn'
    <3>1. token' = token /\ \A v \in Users : token[v] \in Nat
      BY <1>3 DEF Register, TypeOK
    <3> QED BY <1>1, <2>4, <3>1 DEF ChannelInv, TokensDrawn
  <2> QED BY <2>7, <2>8, <2>9, <2>10, Zenon DEF ChannelInv
<1> QED BY <1>5, <1>6, Zenon DEF Register

LEMMA SendCountKeepsChannel ==
  ASSUME ChannelInv, NEW c \in Channels, SendCount(c)
  PROVE  ChannelInv'
<1> USE ConstantsAssumption
<1>1. chan \in [Channels -> ChanType]
  BY Zenon DEF ChannelInv, TypeOK, ChanType
<1>2. chan' \in [Channels -> ChanType]
  <2>1. \/ chan' = [chan EXCEPT ![c].pc = "open", ![c].empty = FALSE]
        \/ chan' = [chan EXCEPT ![c].pc = "gone", ![c].empty = FALSE]
    BY Zenon DEF SendCount
  <2>2. /\ [chan EXCEPT ![c].pc = "open", ![c].empty = FALSE] \in [Channels -> ChanType]
        /\ [chan EXCEPT ![c].pc = "gone", ![c].empty = FALSE] \in [Channels -> ChanType]
    BY <1>1, TypedCount, Zenon
  <2> QED BY <2>1, <2>2, Zenon
<1>3. /\ \A d \in Channels : d # c => chan'[d] = chan[d]
      /\ chan'[c].pc \in {"open", "gone"} /\ chan'[c].id = chan[c].id
      /\ chan'[c].want = chan[c].want /\ chan'[c].attached = chan[c].attached
  BY <1>1 DEF SendCount, ChanType
<1>4. Used(c) /\ chan[c].want = NoSize /\ ~chan[c].attached
  BY Zenon DEF ChannelInv, AttachesOpen, SendCount, Used
<1>5. ChannelsInOrder' /\ AttachesOpen'
  <2>1. Touches(c)
    BY <1>3, <1>4, Zenon DEF SendCount, Touches
  <2> QED BY <2>1, ChannelUpdate, Zenon
<1>6. idle' \in BOOLEAN
  BY Zenon DEF SendCount
<1> QED BY <1>2, <1>5, <1>6, Zenon
        DEF ChannelInv, TypeOK, ChanType, TokensDrawn, SendCount, paneVars, userVars

LEMMA OnAttachKeepsChannel ==
  ASSUME ChannelInv, NEW c \in Channels, NEW s \in Sizes, OnAttach(c, s)
  PROVE  ChannelInv'
<1> USE ConstantsAssumption
<1>1. chan \in [Channels -> ChanType] /\ s \in Windows
  BY Zenon DEF ChannelInv, TypeOK, ChanType, Windows
<1>2. chan' \in [Channels -> ChanType]
  <2>1. chan' = [chan EXCEPT ![c].want = s, ![c].attached = FALSE]
    BY Zenon DEF OnAttach
  <2>2. [chan EXCEPT ![c].want = s, ![c].attached = FALSE] \in [Channels -> ChanType]
    BY <1>1, TypedWant, Zenon
  <2> QED BY <2>1, <2>2, Zenon
<1>3. /\ \A d \in Channels : d # c => chan'[d] = chan[d]
      /\ chan'[c].pc = "open" /\ chan'[c].id = chan[c].id
      /\ chan'[c].want = s /\ chan'[c].attached = FALSE /\ chan'[c].used = chan[c].used
  BY <1>1, ZenonT(60) DEF OnAttach, Serves, ChanType
<1>4. Used(c)
  BY Zenon DEF OnAttach, Serves, Used
<1>5. ChannelsInOrder' /\ AttachesOpen'
  <2>1. Touches(c)
    BY <1>3, <1>4, Zenon DEF OnAttach, Serves, Touches
  <2> QED BY <2>1, ChannelUpdate, Zenon
<1>6. chan[c].id \in Ids
  BY <1>4, UsedId, Zenon
<1>7. viewers' \in ViewerMaps /\ mode' \in 0..MaxChannels /\ size' \in Windows /\ reaped' \in BOOLEAN
  <2>1. CASE chan[c].attached
    BY <2>1, <1>6, LeaveType, Zenon DEF OnAttach, ChannelInv
  <2>2. CASE ~chan[c].attached
    BY <2>2, Zenon DEF OnAttach, ChannelInv, TypeOK, ViewerMaps
  <2> QED BY <2>1, <2>2, Zenon
<1>8. late' \subseteq Ids
  BY <1>6, ZenonT(60) DEF OnAttach, LateThrough, ChannelInv, TypeOK
<1> QED BY <1>2, <1>5, <1>7, <1>8, Zenon
        DEF ChannelInv, TypeOK, ChanType, ViewerMaps, TokensDrawn, OnAttach, countVars, userVars

LEMMA AttachKeepsChannel ==
  ASSUME ChannelInv, NEW c \in Channels, Attach(c)
  PROVE  ChannelInv'
<1> USE ConstantsAssumption
<1>1. chan \in [Channels -> ChanType]
  BY Zenon DEF ChannelInv, TypeOK, ChanType
<1>2. NoSize \in Windows
  BY Zenon DEF NoSize, Windows
<1>3. chan' \in [Channels -> ChanType]
  <2>1. chan' = [chan EXCEPT ![c].want = NoSize, ![c].attached = TRUE]
    BY Zenon DEF Attach
  <2>2. [chan EXCEPT ![c].want = NoSize, ![c].attached = TRUE] \in [Channels -> ChanType]
    BY <1>1, <1>2, TypedWant, Zenon
  <2> QED BY <2>1, <2>2, Zenon
<1>4. Used(c) /\ chan[c].pc = "open" /\ chan[c].used /\ chan[c].want \in Sizes
  BY Zenon DEF ChannelInv, AttachesOpen, Attach, Used
<1>5. /\ \A d \in Channels : d # c => chan'[d] = chan[d]
      /\ chan'[c].pc = "open" /\ chan'[c].id = chan[c].id /\ chan'[c].want = NoSize
      /\ chan'[c].used = chan[c].used
  BY <1>1, <1>4, ZenonT(60) DEF Attach, ChanType
<1>6. ChannelsInOrder' /\ AttachesOpen'
  <2>1. Touches(c)
    BY <1>4, <1>5, Zenon DEF Attach, Touches
  <2> QED BY <2>1, ChannelUpdate, Zenon
<1>7. chan[c].id \in Ids
  BY <1>4, UsedId, Zenon
<1> DEFINE vs == [viewers EXCEPT ![chan[c].id] = [chan |-> c, size |-> chan[c].want]]
<1>8. vs \in ViewerMaps
  BY <1>4, <1>7, Zenon DEF ChannelInv, TypeOK, ViewerMaps
<1>9. Effective(vs) \in Windows
  BY <1>8, EffectiveWindow, Zenon DEF ChannelInv
<1> HIDE DEF vs
<1>10. viewers' = vs /\ size' = Effective(vs) /\ reaped' = FALSE
  BY Zenon DEF Attach, Reconcile, vs
<1>11. viewers' \in ViewerMaps /\ size' \in Windows /\ reaped' \in BOOLEAN
  BY <1>8, <1>9, <1>10, Zenon
<1>12. removed' \subseteq Ids /\ late' \subseteq Ids /\ stray' \subseteq Ids
  BY <1>7, Zenon DEF Attach, ChannelInv, TypeOK
<1> QED BY <1>3, <1>6, <1>11, <1>12, Zenon
        DEF ChannelInv, TypeOK, ChanType, ViewerMaps, TokensDrawn, Attach, countVars, userVars

LEMMA OnDetachKeepsChannel ==
  ASSUME ChannelInv, NEW c \in Channels, OnDetach(c)
  PROVE  ChannelInv'
<1> USE ConstantsAssumption
<1>1. chan \in [Channels -> ChanType]
  BY Zenon DEF ChannelInv, TypeOK, ChanType
<1>2. chan' \in [Channels -> ChanType]
  BY <1>1, TypedPc, Zenon DEF OnDetach
<1>3. /\ \A d \in Channels : d # c => chan'[d] = chan[d]
      /\ chan'[c].pc = "open" /\ chan'[c].id = chan[c].id
      /\ chan'[c].want = NoSize /\ chan'[c].attached = FALSE
  BY <1>1, Zenon DEF OnDetach, Serves, ChanType
<1>4. Used(c)
  BY Zenon DEF OnDetach, Serves, Used
<1>5. Touches(c)
  BY <1>3, <1>4, Zenon DEF OnDetach, Touches
<1>6. ChannelsInOrder' /\ AttachesOpen'
  BY <1>5, ChannelUpdate, Zenon
<1>7. chan[c].id \in Ids
  BY <1>4, UsedId, Zenon
<1>8. viewers' \in ViewerMaps /\ mode' \in 0..MaxChannels /\ size' \in Windows /\ reaped' \in BOOLEAN
  BY <1>7, LeaveType, Zenon DEF OnDetach, ChannelInv
<1>9. late' \subseteq Ids
  BY <1>7, Zenon DEF OnDetach, LateThrough, ChannelInv, TypeOK
<1> QED BY <1>2, <1>6, <1>8, <1>9, Zenon
        DEF ChannelInv, TypeOK, ChanType, ViewerMaps, TokensDrawn, OnDetach, countVars, userVars

LEMMA ResizedMap ==
  ASSUME TypeOK, NEW i \in Ids, NEW s \in Sizes
  PROVE  (IF viewers[i] = NoViewer THEN viewers ELSE [viewers EXCEPT ![i].size = s]) \in ViewerMaps
<1>1. CASE viewers[i] = NoViewer
  BY <1>1, Zenon DEF TypeOK, ViewerMaps
<1>2. CASE viewers[i] # NoViewer
  <2>1. viewers[i] \in [chan : Channels, size : Sizes]
    BY <1>2, Zenon DEF TypeOK
  <2>2. [viewers[i] EXCEPT !.size = s] \in [chan : Channels, size : Sizes]
    BY <2>1, Zenon
  <2> QED BY <1>2, <2>2, Zenon DEF TypeOK, ViewerMaps
<1> QED BY <1>1, <1>2, Zenon

LEMMA ResizeKeepsChannel ==
  ASSUME ChannelInv, NEW c \in Channels, NEW s \in Sizes, Resize(c, s)
  PROVE  ChannelInv'
<1> USE ConstantsAssumption
<1>1. chan \in [Channels -> ChanType] /\ NoSize \in Windows
  BY Zenon DEF ChannelInv, TypeOK, ChanType, NoSize, Windows
<1>2. Used(c) /\ chan[c].pc = "open" /\ chan[c].used /\ chan[c].want = NoSize
  BY Zenon DEF Resize, Serves, Used
<1>3. chan[c].id \in Ids
  BY <1>2, UsedId, Zenon
<1> DEFINE i == chan[c].id
           vs == IF viewers[i] = NoViewer THEN viewers ELSE [viewers EXCEPT ![i].size = s]
<1>4. vs \in ViewerMaps
  BY <1>3, ResizedMap, Zenon DEF ChannelInv
<1>5. Effective(vs) \in Windows
  BY <1>4, EffectiveWindow, Zenon DEF ChannelInv
<1> HIDE DEF vs
<1>6. viewers' = vs /\ size' = Effective(vs) /\ reaped' = FALSE
  BY Zenon DEF Resize, Reconcile, vs
<1>7. PICK w \in Windows : chan' = [chan EXCEPT ![c].ioctl = w]
  BY <1>1, <1>5, <1>6, Zenon DEF Resize
<1>8. chan' \in [Channels -> ChanType]
  BY <1>1, <1>7, TypedIoctl, Zenon
<1>9. /\ \A d \in Channels : d # c => chan'[d] = chan[d]
      /\ chan'[c].pc = "open" /\ chan'[c].id = chan[c].id /\ chan'[c].want = NoSize
      /\ chan'[c].used = chan[c].used
  BY <1>1, <1>2, <1>7, ZenonT(60) DEF ChanType
<1>10. Touches(c)
  BY <1>2, <1>9, Zenon DEF Resize, Touches
<1>11. ChannelsInOrder' /\ AttachesOpen'
  BY <1>10, ChannelUpdate, Zenon
<1>12. viewers' \in ViewerMaps /\ size' \in Windows /\ reaped' \in BOOLEAN
  BY <1>4, <1>5, <1>6, Zenon
<1> QED BY <1>8, <1>11, <1>12, Zenon
        DEF ChannelInv, TypeOK, ChanType, ViewerMaps, TokensDrawn, Resize, countVars, userVars

LEMMA IoctlKeepsChannel ==
  ASSUME ChannelInv, NEW c \in Channels, Ioctl(c)
  PROVE  ChannelInv'
<1> USE ConstantsAssumption
<1>1. chan \in [Channels -> ChanType] /\ NoSize \in Windows /\ chan[c].ioctl \in Windows
  BY Zenon DEF ChannelInv, TypeOK, ChanType, NoSize, Windows
<1>2. chan' = [chan EXCEPT ![c].ioctl = NoSize]
  BY Zenon DEF Ioctl
<1>3. chan' \in [Channels -> ChanType]
  BY <1>1, <1>2, TypedIoctl, Zenon
<1>4. /\ \A d \in Channels : d # c => chan'[d] = chan[d]
      /\ chan'[c].pc = chan[c].pc /\ chan'[c].id = chan[c].id /\ chan'[c].used = chan[c].used
      /\ chan'[c].want = chan[c].want /\ chan'[c].attached = chan[c].attached
  BY <1>1, <1>2, ZenonT(60) DEF ChanType
<1>5. Used(c)
  BY DEF ChannelInv, ChannelsInOrder, Ioctl, Unused
<1>6. Touches(c)
  BY <1>4, <1>5, Zenon DEF ChannelInv, AttachesOpen, Ioctl, Touches, Used
<1>7. ChannelsInOrder' /\ AttachesOpen'
  BY <1>6, ChannelUpdate, Zenon
<1> QED BY <1>1, <1>3, <1>7, Zenon
        DEF ChannelInv, TypeOK, ChanType, TokensDrawn, Ioctl, countVars, userVars

LEMMA DetachChannelKeepsChannel ==
  ASSUME ChannelInv, NEW c \in Channels, DetachChannel(c)
  PROVE  ChannelInv'
<1> USE ConstantsAssumption
<1>1. chan \in [Channels -> ChanType]
  BY Zenon DEF ChannelInv, TypeOK, ChanType
<1>2. chan' = [chan EXCEPT ![c].pc = "releasing", ![c].attached = FALSE]
  BY Zenon DEF DetachChannel
<1>3. chan' \in [Channels -> ChanType]
  BY <1>1, <1>2, TypedPc, Zenon
<1>4. /\ \A d \in Channels : d # c => chan'[d] = chan[d]
      /\ chan'[c].pc = "releasing" /\ chan'[c].id = chan[c].id
      /\ chan'[c].want = chan[c].want /\ chan'[c].attached = FALSE
  BY <1>1, <1>2, ZenonT(60) DEF ChanType
<1>5. Used(c) /\ chan[c].want = NoSize
  BY Zenon DEF DetachChannel, Used
<1>6. Touches(c)
  BY <1>4, <1>5, Zenon DEF DetachChannel, Touches
<1>7. ChannelsInOrder' /\ AttachesOpen'
  BY <1>6, ChannelUpdate, Zenon
<1>8. chan[c].id \in Ids
  BY <1>5, UsedId, Zenon
<1>9. viewers' \in ViewerMaps /\ mode' \in 0..MaxChannels /\ size' \in Windows /\ reaped' \in BOOLEAN
  <2>1. CASE viewers[chan[c].id].chan = c
    BY <2>1, <1>8, LeaveType, Zenon DEF DetachChannel, ChannelInv
  <2>2. CASE viewers[chan[c].id].chan # c
    BY <2>2, Zenon DEF DetachChannel, ChannelInv, TypeOK, ViewerMaps
  <2> QED BY <2>1, <2>2, Zenon
<1> QED BY <1>3, <1>7, <1>9, Zenon
        DEF ChannelInv, TypeOK, ChanType, ViewerMaps, TokensDrawn, DetachChannel, countVars, userVars

LEMMA ReleaseConnectionKeepsChannel ==
  ASSUME ChannelInv, NEW c \in Channels, ReleaseConnection(c)
  PROVE  ChannelInv'
<1> USE ConstantsAssumption
<1>1. chan \in [Channels -> ChanType]
  BY Zenon DEF ChannelInv, TypeOK, ChanType
<1>2. Used(c) /\ chan[c].want = NoSize /\ ~chan[c].attached
  BY Zenon DEF ChannelInv, AttachesOpen, ReleaseConnection, Used
<1>3. chan[c].id \in Ids
  BY <1>2, UsedId, Zenon
<1>4. \/ \E e \in BOOLEAN : chan' = [chan EXCEPT ![c].pc = "released", ![c].empty = e]
      \/ chan' = [chan EXCEPT ![c].pc = "gone"]
  <2>1. NobodyLeft(conns') \in BOOLEAN
    BY Zenon DEF NobodyLeft
  <2> QED BY <2>1, Zenon DEF ReleaseConnection
<1>5. chan' \in [Channels -> ChanType]
  <2>1. [chan EXCEPT ![c].pc = "gone"] \in [Channels -> ChanType]
    BY <1>1, TypedPc, Zenon
  <2>2. \A e \in BOOLEAN :
          [chan EXCEPT ![c].pc = "released", ![c].empty = e] \in [Channels -> ChanType]
    BY <1>1, TypedCount, Zenon
  <2> QED BY <1>4, <2>1, <2>2, Zenon
<1>6. /\ \A d \in Channels : d # c => chan'[d] = chan[d]
      /\ chan'[c].pc \in {"released", "gone"} /\ chan'[c].id = chan[c].id
      /\ chan'[c].want = chan[c].want /\ chan'[c].attached = chan[c].attached
  <2>1. ASSUME NEW e \in BOOLEAN, chan' = [chan EXCEPT ![c].pc = "released", ![c].empty = e]
        PROVE  /\ \A d \in Channels : d # c => chan'[d] = chan[d]
               /\ chan'[c].pc = "released" /\ chan'[c].id = chan[c].id
               /\ chan'[c].want = chan[c].want /\ chan'[c].attached = chan[c].attached
    BY <1>1, <2>1, ZenonT(60) DEF ChanType
  <2>2. ASSUME chan' = [chan EXCEPT ![c].pc = "gone"]
        PROVE  /\ \A d \in Channels : d # c => chan'[d] = chan[d]
               /\ chan'[c].pc = "gone" /\ chan'[c].id = chan[c].id
               /\ chan'[c].want = chan[c].want /\ chan'[c].attached = chan[c].attached
    BY <1>1, <2>2, ZenonT(60) DEF ChanType
  <2> QED BY <1>4, <2>1, <2>2, Zenon
<1>7. Touches(c)
  BY <1>2, <1>6, Zenon DEF ReleaseConnection, Touches
<1>8. ChannelsInOrder' /\ AttachesOpen'
  BY <1>7, ChannelUpdate, Zenon
<1>9. conns' \in [Ids -> [owner : Users, gen : Nat] \cup {NoConn}]
  <2>1. conns' = [conns EXCEPT ![chan[c].id] = NoConn] \/ conns' = conns
    BY Zenon DEF ReleaseConnection
  <2> QED BY <1>3, <2>1, Zenon DEF ChannelInv, TypeOK
<1> QED BY <1>5, <1>8, <1>9, Zenon
        DEF ChannelInv, TypeOK, ChanType, TokensDrawn, ReleaseConnection, paneVars, countVars, userVars

LEMMA TypedUsed ==
  ASSUME NEW f \in [Channels -> ChanType], NEW c \in Channels
  PROVE  [f EXCEPT ![c].used = TRUE] \in [Channels -> ChanType]
BY ZenonT(120) DEF ChanType

(* The channel whose AuthResult a client receives is one of its own, open or  *)
(* already ended; all the client does to it is to use it.                    *)
LEMMA AuthResultUses ==
  ASSUME ChannelInv, NEW u \in Users, AuthResult(u)
  PROVE  /\ opening[u] \in Channels /\ Used(opening[u])
         /\ chan' \in [Channels -> ChanType]
         /\ \A d \in Channels : /\ d # opening[u] => chan'[d] = chan[d]
                                /\ chan'[d].pc = chan[d].pc /\ chan'[d].id = chan[d].id
                                /\ chan'[d].gen = chan[d].gen /\ chan'[d].want = chan[d].want
                                /\ chan'[d].attached = chan[d].attached
                                /\ chan[d].used => chan'[d].used
<1> DEFINE c == opening[u]
<1>1. c \in 0..MaxChannels /\ c # 0 /\ chan[c].pc # "unused"
  BY Zenon DEF AuthResult, ChannelInv, TypeOK
<1>2. c \in Channels /\ Used(c)
  <2>1. c \in Channels
    BY <1>1, ConstantsAssumption
  <2> QED BY <1>1, <2>1, Zenon DEF Used
<1>3. chan \in [Channels -> ChanType]
  BY Zenon DEF ChannelInv, TypeOK, ChanType
<1>4. chan' = chan \/ chan' = [chan EXCEPT ![c].used = TRUE]
  BY Zenon DEF AuthResult
<1>5. chan' \in [Channels -> ChanType]
  <2>1. [chan EXCEPT ![c].used = TRUE] \in [Channels -> ChanType]
    BY <1>2, <1>3, TypedUsed, Zenon
  <2> QED BY <1>3, <1>4, <2>1, Zenon
<1>6. CASE chan' = chan
  BY <1>2, <1>5, <1>6
<1>7. CASE chan' = [chan EXCEPT ![c].used = TRUE]
  <2>1. chan'[c] = [chan[c] EXCEPT !.used = TRUE] /\ \A d \in Channels : d # c => chan'[d] = chan[d]
    BY <1>2, <1>3, <1>7, Zenon
  <2>2. chan[c] \in ChanType
    BY <1>2, <1>3, Zenon
  <2>3. /\ chan'[c].pc = chan[c].pc /\ chan'[c].id = chan[c].id /\ chan'[c].gen = chan[c].gen
        /\ chan'[c].want = chan[c].want /\ chan'[c].attached = chan[c].attached /\ chan'[c].used
    BY <2>1, <2>2, Zenon DEF ChanType
  <2> QED BY <1>2, <1>5, <2>1, <2>3, Zenon
<1> QED BY <1>4, <1>6, <1>7, Zenon

(* Steps of the clients.                                                     *)
LEMMA UsersKeepChannel ==
  ASSUME ChannelInv, NEW u \in Users, AuthResult(u) \/ Abandon(u) \/ LoseLink(u)
  PROVE  ChannelInv'
<1> USE ConstantsAssumption
<1>1. UNCHANGED <<conns, nextId, paneVars, countVars>>
  BY Zenon DEF AuthResult, Abandon, LoseLink
<1>2. chan' \in [Channels -> ChanType] /\ ChannelsInOrder' /\ AttachesOpen'
  <2>1. CASE AuthResult(u)
    <3>1. chan' \in [Channels -> ChanType]
      BY <2>1, AuthResultUses, Zenon
    <3>2. Touches(opening[u])
      BY <1>1, <2>1, AuthResultUses, ZenonT(60) DEF Touches, ChannelInv, AttachesOpen, Used
    <3> QED BY <2>1, <3>1, <3>2, AuthResultUses, ChannelUpdate, Zenon
  <2>2. CASE Abandon(u) \/ LoseLink(u)
    <3>1. chan' = chan
      BY <2>2, Zenon DEF Abandon, LoseLink
    <3> QED BY <1>1, <3>1, Zenon DEF ChannelInv, TypeOK, ChanType, ChannelsInOrder, AttachesOpen, Used
  <2> QED BY <2>1, <2>2, Zenon
<1>3. /\ current' \in [Users -> 0..MaxChannels] /\ opening' \in [Users -> 0..MaxChannels]
      /\ token' \in [Users -> 0..MaxChannels] /\ TokensDrawn'
  <2>1. CASE AuthResult(u)
    <3>1. opening[u] \in Channels /\ Used(opening[u])
      BY <2>1, AuthResultUses, Zenon
    <3>2. chan[opening[u]].id \in 0..MaxChannels /\ chan[opening[u]].id < nextId
      <4>1. chan[opening[u]].id \in 1 .. nextId - 1
        BY <3>1, Zenon DEF ChannelInv, ChannelsInOrder
      <4>2. nextId \in 1 .. MaxChannels + 1
        BY Zenon DEF ChannelInv, TypeOK
      <4> QED BY <4>1, <4>2
    <3>3. current \in [Users -> 0..MaxChannels] /\ opening \in [Users -> 0..MaxChannels]
          /\ token \in [Users -> 0..MaxChannels] /\ TokensDrawn
      BY Zenon DEF ChannelInv, TypeOK
    <3> QED BY <1>1, <2>1, <3>1, <3>2, <3>3 DEF AuthResult, TokensDrawn
  <2>2. CASE Abandon(u)
    <3>1. 0 \in 0..MaxChannels
      OBVIOUS
    <3> QED BY <1>1, <2>2, <3>1, ZenonT(60) DEF Abandon, ChannelInv, TypeOK, TokensDrawn
  <2>3. CASE LoseLink(u)
    <3>1. 0 \in 0..MaxChannels
      OBVIOUS
    <3> QED BY <1>1, <2>3, <3>1, ZenonT(60) DEF LoseLink, ChannelInv, TypeOK, TokensDrawn
  <2> QED BY <2>1, <2>2, <2>3, Zenon
<1> QED BY <1>1, <1>2, <1>3, Zenon DEF ChannelInv, TypeOK, ChanType, paneVars, countVars

LEMMA OthersKeepChannel ==
  ASSUME ChannelInv,
         \/ \E c \in Channels : RequestInputLock(c) \/ ReleaseInputLock(c)
         \/ \E i \in Ids : Kick(i)
         \/ \E i \in Ids : Reap(i)
         \/ IdleFires
         \/ UNCHANGED vars
  PROVE  ChannelInv'
<1> USE ConstantsAssumption
<1>1. UNCHANGED <<chan, conns, nextId, current, opening, token, idle>>
  BY Zenon DEF RequestInputLock, ReleaseInputLock, Kick, Reap, IdleFires, vars, userVars, countVars
<1>2. ChannelsInOrder' /\ AttachesOpen' /\ TokensDrawn'
  BY <1>1, Zenon DEF ChannelInv, ChannelsInOrder, AttachesOpen, TokensDrawn, Used
<1>3. /\ viewers' \in ViewerMaps /\ mode' \in 0..MaxChannels /\ size' \in Windows
      /\ winsize' \in Windows /\ shutdown' \in BOOLEAN /\ reaped' \in BOOLEAN
      /\ removed' \subseteq Ids /\ late' \subseteq Ids /\ stray' \subseteq Ids
  <2>1. CASE \E c \in Channels : RequestInputLock(c) \/ ReleaseInputLock(c)
    <3>1. \A c \in Channels : chan[c].id \in 0..MaxChannels
      BY Zenon DEF ChannelInv, TypeOK
    <3>2. mode' \in 0..MaxChannels
      BY <2>1, <3>1 DEF RequestInputLock, ReleaseInputLock
    <3>3. UNCHANGED <<viewers, size, winsize, shutdown, removed, late, reaped>>
      BY <2>1, Zenon DEF RequestInputLock, ReleaseInputLock, countVars
    <3>4. stray' \subseteq Ids
      <4>1. PICK c \in Channels : RequestInputLock(c) \/ ReleaseInputLock(c)
        BY <2>1, Zenon
      <4>2. stray' = stray \/ stray' = stray \cup {chan[c].id}
        BY <4>1, Zenon DEF RequestInputLock, ReleaseInputLock
      <4>3. chan[c].id \in Ids
        BY <4>1, UsedId, Zenon DEF RequestInputLock, ReleaseInputLock, Serves, Used
      <4>4. stray \subseteq Ids
        BY Zenon DEF ChannelInv, TypeOK
      <4> QED BY <4>2, <4>3, <4>4, Zenon
    <3> QED BY <3>2, <3>3, <3>4, Zenon DEF ChannelInv, TypeOK, ViewerMaps
  <2>2. CASE \E i \in Ids : Kick(i)
    BY <2>2, LeaveType, Zenon DEF Kick, ChannelInv, TypeOK, countVars
  <2>3. CASE \E i \in Ids : Reap(i)
    BY <2>3, Zenon DEF Reap, ChannelInv, TypeOK, ViewerMaps, countVars
  <2>4. CASE IdleFires
    BY <2>4, Zenon DEF IdleFires, ChannelInv, TypeOK, ViewerMaps, paneVars
  <2>5. CASE UNCHANGED vars
    BY <2>5, Zenon DEF vars, ChannelInv, TypeOK, ViewerMaps, paneVars, countVars
  <2> QED BY <2>1, <2>2, <2>3, <2>4, <2>5, Zenon
<1> QED BY <1>1, <1>2, <1>3, Zenon DEF ChannelInv, TypeOK, ViewerMaps

LEMMA StepChannel == ChannelInv /\ [Next]_vars => ChannelInv'
BY RegisterKeepsChannel, UsersKeepChannel, SendCountKeepsChannel, DetachChannelKeepsChannel,
   ReleaseConnectionKeepsChannel, AttachKeepsChannel, IoctlKeepsChannel, OnAttachKeepsChannel,
   ResizeKeepsChannel, OnDetachKeepsChannel, OthersKeepChannel, Zenon
   DEF Next, Pane

LEMMA InvariantChannel == Spec => []ChannelInv
BY InitChannel, StepChannel, PTL DEF Spec

(* Every reachable state is well typed, and what its channels hold they hold  *)
(* while they are open.                                                      *)
THEOREM TypeCorrect == Spec => []TypeOK
<1>1. ChannelInv => TypeOK
  BY Zenon DEF ChannelInv
<1> QED BY <1>1, InvariantChannel, PTL

-----------------------------------------------------------------------------
(* SmallestWins: the pane fits its viewers. *)

LEMMA ReconcileFits ==
  ASSUME TypeOK, NEW vs \in ViewerMaps, Reconcile(vs)
  PROVE  SmallestWins'
<1>1. size' \in Windows
  BY EffectiveWindow, Zenon DEF Reconcile
<1>2. Effective(viewers)' = IF Viewing(vs) = {} THEN size' ELSE Smallest(vs)
  BY Zenon DEF Effective, Reconcile, Viewing, Smallest
<1>3. size' = Effective(viewers)'
  BY <1>2, Zenon DEF Reconcile, Effective
<1>4. size'[1] <= size'[1] /\ size'[2] <= size'[2]
  BY <1>1 DEF Windows
<1> QED BY <1>3, <1>4, Zenon DEF SmallestWins

LEMMA LeaveFits ==
  ASSUME TypeOK, NEW i \in Ids, Leave(i)
  PROVE  SmallestWins'
<1>1. [viewers EXCEPT ![i] = NoViewer] \in ViewerMaps
  BY Zenon DEF TypeOK, ViewerMaps
<1> QED BY <1>1, ReconcileFits, Zenon DEF Leave

(* Without the one reaped the others need no less: the pane is left as it is.*)
LEMMA ReapFits ==
  ASSUME TypeOK, SmallestWins, NEW i \in Ids, Reap(i)
  PROVE  SmallestWins'
<1> DEFINE vs == [viewers EXCEPT ![i] = NoViewer]
<1>1. viewers \in ViewerMaps /\ vs \in ViewerMaps /\ size \in Windows
  BY Zenon DEF TypeOK, ViewerMaps
<1>2. Viewing(vs) \subseteq Viewing(viewers) /\ \A j \in Viewing(vs) : vs[j] = viewers[j]
  BY <1>1, Zenon DEF Viewing, ViewerMaps
<1> HIDE DEF vs
<1>3. viewers' = vs /\ size' = size /\ reaped' = TRUE
  BY Zenon DEF Reap, vs
<1>4. Effective(viewers)' = IF Viewing(vs) = {} THEN size ELSE Smallest(vs)
  BY <1>3, Zenon DEF Effective, Viewing, Smallest
<1>5. CASE Viewing(vs) = {}
  BY <1>1, <1>3, <1>4, <1>5 DEF SmallestWins, Windows
<1>6. CASE Viewing(vs) # {}
  <2>1. PICK j, k \in Viewing(vs) : Smallest(vs) = <<vs[j].size[1], vs[k].size[2]>>
    BY <1>1, <1>6, SmallestFits, Zenon DEF ViewerMaps
  <2>2. Viewing(viewers) # {}
    BY <1>2, <1>6, Zenon
  <2>3. /\ Smallest(viewers) \in Windows
        /\ \A m \in Viewing(viewers) : /\ Smallest(viewers)[1] <= viewers[m].size[1]
                                       /\ Smallest(viewers)[2] <= viewers[m].size[2]
    BY <1>1, <2>2, SmallestFits, Zenon DEF ViewerMaps
  <2>4. Smallest(viewers)[1] <= viewers[j].size[1] /\ Smallest(viewers)[2] <= viewers[k].size[2]
    BY <1>2, <2>1, <2>3, Zenon
  <2>5. size[1] <= Smallest(viewers)[1] /\ size[2] <= Smallest(viewers)[2]
    BY <2>2, Zenon DEF SmallestWins, Effective
  <2>6. /\ size[1] \in Nat /\ size[2] \in Nat
        /\ Smallest(viewers)[1] \in Nat /\ Smallest(viewers)[2] \in Nat
    BY <1>1, <2>3, Zenon DEF Windows
  <2>7. \A m \in Viewing(viewers) : viewers[m].size \in Sizes
    BY <1>1, Zenon DEF ViewerMaps, Viewing
  <2>8. viewers[j].size[1] \in Nat /\ viewers[k].size[2] \in Nat
    BY <1>2, <2>1, <2>7, ConstantsAssumption, Zenon
  <2>9. size[1] <= viewers[j].size[1] /\ size[2] <= viewers[k].size[2]
    BY <2>4, <2>5, <2>6, <2>8
  <2>10. Smallest(vs)[1] = viewers[j].size[1] /\ Smallest(vs)[2] = viewers[k].size[2]
    BY <1>2, <2>1
  <2> QED BY <1>3, <1>4, <1>6, <2>9, <2>10, Zenon DEF SmallestWins
<1> QED BY <1>5, <1>6, Zenon

LEMMA StepFits == ChannelInv /\ SmallestWins /\ [Next]_vars => SmallestWins'
<1> SUFFICES ASSUME ChannelInv, SmallestWins, [Next]_vars PROVE SmallestWins'
  BY Zenon
<1>1. TypeOK
  BY Zenon DEF ChannelInv
<1>2. ASSUME UNCHANGED <<viewers, size, reaped>> PROVE SmallestWins'
  BY <1>2, Zenon DEF SmallestWins, Effective, Viewing, Smallest
<1>3. \A c \in Channels : Used(c) => chan[c].id \in Ids
  BY UsedId, Zenon
<1>4. CASE \E u \in Users, c \in Channels : Register(u, c)
  BY <1>2, <1>4, Zenon DEF Register, paneVars
<1>5. CASE \E u \in Users : AuthResult(u) \/ Abandon(u) \/ LoseLink(u)
  BY <1>2, <1>5, Zenon DEF AuthResult, Abandon, LoseLink, paneVars
<1>6. CASE \E c \in Channels : SendCount(c) \/ ReleaseConnection(c)
  BY <1>2, <1>6, Zenon DEF SendCount, ReleaseConnection, paneVars
<1>7. ASSUME NEW c \in Channels, DetachChannel(c) PROVE SmallestWins'
  BY <1>1, <1>2, <1>3, <1>7, LeaveFits, Zenon DEF DetachChannel, Used
<1>8. ASSUME NEW c \in Channels, Attach(c) PROVE SmallestWins'
  <2>1. Used(c) /\ chan[c].want \in Sizes
    BY <1>8, Zenon DEF Attach, ChannelInv, AttachesOpen, Used
  <2>2. [viewers EXCEPT ![chan[c].id] = [chan |-> c, size |-> chan[c].want]] \in ViewerMaps
    BY <1>1, <1>3, <2>1, Zenon DEF TypeOK, ViewerMaps
  <2> QED BY <1>1, <1>8, <2>2, ReconcileFits, Zenon DEF Attach
<1>9. ASSUME NEW c \in Channels, Ioctl(c) PROVE SmallestWins'
  BY <1>2, <1>9, Zenon DEF Ioctl
<1>10. ASSUME NEW c \in Channels, NEW s \in Sizes, OnAttach(c, s)
       PROVE  SmallestWins'
  BY <1>1, <1>2, <1>3, <1>10, LeaveFits, Zenon DEF OnAttach, Serves, Used
<1>11. ASSUME NEW c \in Channels, NEW s \in Sizes, Resize(c, s)
       PROVE  SmallestWins'
  <2> DEFINE i == chan[c].id
             vs == IF viewers[i] = NoViewer THEN viewers ELSE [viewers EXCEPT ![i].size = s]
  <2>1. i \in Ids
    BY <1>3, <1>11, Zenon DEF Resize, Serves, Used
  <2>2. vs \in ViewerMaps
    BY <1>1, <2>1, ResizedMap, Zenon
  <2> HIDE DEF vs
  <2>3. Reconcile(vs)
    BY <1>11, Zenon DEF Resize, vs
  <2> QED BY <1>1, <2>2, <2>3, ReconcileFits, Zenon
<1>12. ASSUME NEW c \in Channels, OnDetach(c) PROVE SmallestWins'
  BY <1>1, <1>3, <1>12, LeaveFits, Zenon DEF OnDetach, Serves, Used
<1>13. ASSUME NEW c \in Channels, RequestInputLock(c) \/ ReleaseInputLock(c)
       PROVE  SmallestWins'
  BY <1>2, <1>13, Zenon DEF RequestInputLock, ReleaseInputLock
<1>14. ASSUME NEW i \in Ids, Kick(i) PROVE SmallestWins'
  BY <1>1, <1>14, LeaveFits, Zenon DEF Kick
<1>15. ASSUME NEW i \in Ids, Reap(i) PROVE SmallestWins'
  BY <1>1, <1>15, ReapFits, Zenon
<1>16. CASE IdleFires \/ UNCHANGED vars
  BY <1>2, <1>16, Zenon DEF IdleFires, vars, paneVars
<1> QED BY <1>4, <1>5, <1>6, <1>7, <1>8, <1>9, <1>10, <1>11, <1>12, <1>13, <1>14, <1>15, <1>16, Zenon
        DEF Next, Pane

(* Smallest viewer wins: the pane is never larger than a viewer's window, and *)
(* is exactly the smallest rows by the smallest columns unless a viewer was   *)
(* reaped since the last reconcile (apply_effective_size).                   *)
THEOREM SmallestWinsAlways == Spec => []SmallestWins
<1>1. Init => SmallestWins
  <2> SUFFICES ASSUME Init PROVE SmallestWins
    BY Zenon
  <2>1. size \in Windows
    BY InitChannel, Zenon DEF ChannelInv, TypeOK
  <2>2. Viewing(viewers) = {}
    BY Zenon DEF Init, Viewing
  <2> QED BY <2>1, <2>2 DEF SmallestWins, Effective, Windows
<1> QED BY <1>1, InvariantChannel, StepFits, PTL DEF Spec

-----------------------------------------------------------------------------
(* GenInv: the registrations and their generations. *)

USE DEF Live

(* A step that leaves the registry alone and only moves one channel along     *)
(* among its live states, or from one ended state to another.                *)
Keeps(c) ==
  /\ UNCHANGED <<conns, nextId>>
  /\ \A d \in Channels : /\ chan'[d].id = chan[d].id /\ chan'[d].gen = chan[d].gen
                         /\ d # c => chan'[d].pc = chan[d].pc
  /\ \/ chan'[c].pc = chan[c].pc
     \/ chan[c].pc \in Live /\ chan'[c].pc \in Live
     \/ chan[c].pc \in {"released", "gone"} /\ chan'[c].pc \in {"released", "gone"}

LEMMA GenKept ==
  ASSUME GenInv, NEW c \in Channels, Keeps(c)
  PROVE  GenInv'
<1>1. Generations'
  BY DEF GenInv, Generations, Keeps, Used, Registered
<1>2. Held'
  BY DEF GenInv, Held, Keeps, Registered
<1>3. GivenBack'
  BY DEF GenInv, GivenBack, Keeps, Registered
<1> QED BY <1>1, <1>2, <1>3, Zenon DEF GenInv

LEMMA ResumeKeepsGen ==
  ASSUME ChannelInv, GenInv, NEW u \in Users, NEW c \in Channels, ~Used(c), Resume(u, c)
  PROVE  GenInv'
<1> USE ConstantsAssumption
<1> DEFINE i == token[u]
           g == conns[i].gen + 1
<1>1. i \in Ids /\ conns[i] \in [owner : Users, gen : Nat] /\ Registered(i) /\ i # 0
  <2>1. i \in Ids /\ conns[i] \in [owner : Users, gen : Nat]
    BY ResumableId, Zenon DEF Resume, ChannelInv
  <2>2. Registered(i)
    BY <2>1 DEF Registered, NoConn
  <2> QED BY <2>1, <2>2
<1>2. /\ chan'[c].id = i /\ chan'[c].gen = g /\ chan'[c].pc = "open"
      /\ \A d \in Channels : d # c => chan'[d] = chan[d]
      /\ nextId' = nextId
  BY Zenon DEF Resume, Unused, ChannelInv, TypeOK
<1>3. /\ conns'[i].gen = g /\ conns'[i] # NoConn
      /\ \A j \in Ids : j # i => conns'[j] = conns[j]
  BY <1>1, Zenon DEF Resume, ChannelInv, TypeOK, NoConn
<1>4. g \in Nat /\ conns[i].gen \in Nat /\ conns[i].gen < g
  BY <1>1
<1>5. \A d \in Channels : chan[d].gen \in Nat /\ (~Used(d) => chan[d].id = 0)
                          /\ (Used(d) => chan[d].id \in Ids)
  BY ChannelFacts, Zenon
<1> HIDE DEF g
<1>6. \A d \in Channels : Used(d) /\ chan[d].id = i => chan[d].gen < g
  BY <1>1, <1>4, <1>5 DEF GenInv, Generations
<1>7. Generations'
  <2>1. ASSUME NEW d \in Channels, Used(d)', Registered(chan[d].id)'
        PROVE  chan'[d].gen <= conns'[chan'[d].id].gen
    <3>1. CASE d = c
      BY <1>2, <1>3, <1>4, <3>1
    <3>2. CASE d # c /\ chan[d].id = i
      BY <1>2, <1>3, <1>4, <1>5, <1>6, <2>1, <3>2, SMTT(30) DEF Used
    <3>3. CASE d # c /\ chan[d].id # i
      BY <1>2, <1>3, <1>5, <2>1, <3>3, SMTT(30) DEF GenInv, Generations, Used, Registered
    <3> QED BY <3>1, <3>2, <3>3, Zenon
  <2>2. ASSUME NEW d \in Channels, NEW e \in Channels, Used(d)', Used(e)',
               chan'[d].id = chan'[e].id, chan'[d].gen = chan'[e].gen
        PROVE  d = e
    BY <1>2, <1>4, <1>5, <1>6, <2>2, SMTT(30) DEF GenInv, Generations, Used
  <2> QED BY <2>1, <2>2, Zenon DEF Generations
<1>8. Held'
  <2> SUFFICES ASSUME NEW j \in Ids, Registered(j)'
               PROVE  \E d \in Channels : chan'[d].id = j /\ chan'[d].gen = conns'[j].gen
                                          /\ chan'[d].pc \in Live
    BY Zenon DEF Held
  <2>1. CASE j = i
    BY <1>2, <1>3, <2>1, Zenon
  <2>2. CASE j # i
    <3>1. Registered(j)
      BY <1>3, <2>2, Zenon DEF Registered
    <3>2. PICK d \in Channels : chan[d].id = j /\ chan[d].gen = conns[j].gen /\ chan[d].pc \in Live
      BY <3>1, Zenon DEF GenInv, Held
    <3>3. d # c
      BY <3>2, Zenon DEF Used
    <3> QED BY <1>2, <1>3, <2>2, <3>2, <3>3, Zenon
  <2> QED BY <2>1, <2>2, Zenon
<1>9. GivenBack'
  <2> SUFFICES ASSUME NEW j \in Ids, j < nextId', ~Registered(j)'
               PROVE  \E d \in Channels :
                        /\ chan'[d].id = j /\ chan'[d].pc \in {"released", "gone"}
                        /\ \A e \in Channels : chan'[e].id = j => chan'[e].gen <= chan'[d].gen
    BY Zenon DEF GivenBack
  <2>1. j # i /\ ~Registered(j)
    BY <1>3, Zenon DEF Registered
  <2>2. PICK d \in Channels :
               /\ chan[d].id = j /\ chan[d].pc \in {"released", "gone"}
               /\ \A e \in Channels : chan[e].id = j => chan[e].gen <= chan[d].gen
    BY <1>2, <2>1, Zenon DEF GenInv, GivenBack
  <2>3. d # c
    BY <2>2, Zenon DEF Used
  <2> QED BY <1>2, <2>1, <2>2, <2>3, Zenon
<1> QED BY <1>7, <1>8, <1>9, Zenon DEF GenInv

LEMMA FreshKeepsGen ==
  ASSUME ChannelInv, GenInv, NEW u \in Users, NEW c \in Channels, ~Used(c), RegisterFresh(u, c)
  PROVE  GenInv'
<1> USE ConstantsAssumption
<1>1. nextId \in Ids /\ nextId \in Nat
  <2>1. nextId \in 1 .. MaxChannels + 1 /\ nextId <= c
    BY Zenon DEF ChannelInv, ChannelsInOrder, TypeOK
  <2> QED BY <2>1 DEF Channels, Ids
<1>2. /\ chan'[c].id = nextId /\ chan'[c].gen = 0 /\ chan'[c].pc = "registered"
      /\ \A d \in Channels : d # c => chan'[d] = chan[d]
      /\ nextId' = nextId + 1
  BY Zenon DEF RegisterFresh, Unused, ChannelInv, TypeOK
<1>3. /\ conns'[nextId].gen = 0 /\ conns'[nextId] # NoConn
      /\ \A j \in Ids : j # nextId => conns'[j] = conns[j]
  BY <1>1, Zenon DEF RegisterFresh, ChannelInv, TypeOK, NoConn
<1>4. \A d \in Channels : chan[d].gen \in Nat /\ chan[d].id \in 0..MaxChannels /\ chan[d].id < nextId
                          /\ (Used(d) => chan[d].id \in Ids)
  BY ChannelFacts, Zenon
<1>5. Generations'
  <2>1. ASSUME NEW d \in Channels, Used(d)', Registered(chan[d].id)'
        PROVE  chan'[d].gen <= conns'[chan'[d].id].gen
    <3>1. CASE d = c
      BY <1>2, <1>3, <3>1
    <3>2. CASE d # c
      BY <1>1, <1>2, <1>3, <1>4, <2>1, <3>2, SMTT(30) DEF GenInv, Generations, Used, Registered
    <3> QED BY <3>1, <3>2, Zenon
  <2>2. ASSUME NEW d \in Channels, NEW e \in Channels, Used(d)', Used(e)',
               chan'[d].id = chan'[e].id, chan'[d].gen = chan'[e].gen
        PROVE  d = e
    BY <1>1, <1>2, <1>4, <2>2, SMTT(30) DEF GenInv, Generations, Used
  <2> QED BY <2>1, <2>2, Zenon DEF Generations
<1>6. Held'
  <2> SUFFICES ASSUME NEW j \in Ids, Registered(j)'
               PROVE  \E d \in Channels : chan'[d].id = j /\ chan'[d].gen = conns'[j].gen
                                          /\ chan'[d].pc \in Live
    BY Zenon DEF Held
  <2>1. CASE j = nextId
    BY <1>2, <1>3, <2>1, Zenon
  <2>2. CASE j # nextId
    <3>1. Registered(j)
      BY <1>3, <2>2, Zenon DEF Registered
    <3>2. PICK d \in Channels : chan[d].id = j /\ chan[d].gen = conns[j].gen /\ chan[d].pc \in Live
      BY <3>1, Zenon DEF GenInv, Held
    <3>3. d # c
      BY <3>2, Zenon DEF Used
    <3> QED BY <1>2, <1>3, <2>2, <3>2, <3>3, Zenon
  <2> QED BY <2>1, <2>2, Zenon
<1>7. GivenBack'
  <2> SUFFICES ASSUME NEW j \in Ids, j < nextId', ~Registered(j)'
               PROVE  \E d \in Channels :
                        /\ chan'[d].id = j /\ chan'[d].pc \in {"released", "gone"}
                        /\ \A e \in Channels : chan'[e].id = j => chan'[e].gen <= chan'[d].gen
    BY Zenon DEF GivenBack
  <2>1. j # nextId /\ ~Registered(j)
    BY <1>3, Zenon DEF Registered
  <2>2. j < nextId
    BY <1>1, <1>2, <2>1
  <2>3. PICK d \in Channels :
               /\ chan[d].id = j /\ chan[d].pc \in {"released", "gone"}
               /\ \A e \in Channels : chan[e].id = j => chan[e].gen <= chan[d].gen
    BY <2>1, <2>2, Zenon DEF GenInv, GivenBack
  <2>4. d # c
    BY <2>3, Zenon DEF Used
  <2> QED BY <1>2, <2>1, <2>3, <2>4, Zenon
<1> QED BY <1>5, <1>6, <1>7, Zenon DEF GenInv

(* A channel that ends gives the registration back only if it is the newest.  *)
LEMMA ReleaseKeepsGen ==
  ASSUME ChannelInv, GenInv, NEW c \in Channels, ReleaseConnection(c)
  PROVE  GenInv'
<1> USE ConstantsAssumption
<1> DEFINE i == chan[c].id
<1>1. Used(c) /\ i \in Ids /\ chan[c].gen \in Nat /\ chan[c].pc = "releasing"
  BY UsedId, ChannelFacts, Zenon DEF ReleaseConnection, Used
<1>2. chan \in [Channels -> ChanType] /\ nextId' = nextId
  BY Zenon DEF ChannelInv, TypeOK, ChanType, ReleaseConnection
<1>3. \A d \in Channels : chan[d].gen \in Nat /\ (Used(d) <=> chan[d].id \in Ids)
  BY ChannelFacts
<1>4. CASE conns[i].gen = chan[c].gen
  <2>1. conns' = [conns EXCEPT ![i] = NoConn]
    BY <1>4, Zenon DEF ReleaseConnection
  <2>2. /\ chan'[c].pc = "released" /\ chan'[c].id = i /\ chan'[c].gen = chan[c].gen
        /\ \A d \in Channels : d # c => chan'[d] = chan[d]
    BY <1>2, <1>4 DEF ReleaseConnection, ChanType
  <2>3. conns'[i] = NoConn /\ \A j \in Ids : j # i => conns'[j] = conns[j]
    BY <1>1, <2>1, Zenon DEF ChannelInv, TypeOK
  <2>4. Registered(i)
    BY <1>1, <1>4 DEF Registered, NoConn
  <2>5. Generations'
    BY <1>1, <1>3, <2>2, <2>3, SMTT(30) DEF GenInv, Generations, Used, Registered
  <2>6. Held'
    <3> SUFFICES ASSUME NEW j \in Ids, Registered(j)'
                 PROVE  \E d \in Channels : chan'[d].id = j /\ chan'[d].gen = conns'[j].gen
                                            /\ chan'[d].pc \in Live
      BY Zenon DEF Held
    <3>1. j # i /\ Registered(j)
      BY <2>3, Zenon DEF Registered
    <3>2. PICK d \in Channels : chan[d].id = j /\ chan[d].gen = conns[j].gen /\ chan[d].pc \in Live
      BY <3>1, Zenon DEF GenInv, Held
    <3> QED BY <2>2, <2>3, <3>1, <3>2, Zenon
  <2>7. GivenBack'
    <3> SUFFICES ASSUME NEW j \in Ids, j < nextId', ~Registered(j)'
                 PROVE  \E d \in Channels :
                          /\ chan'[d].id = j /\ chan'[d].pc \in {"released", "gone"}
                          /\ \A e \in Channels : chan'[e].id = j => chan'[e].gen <= chan'[d].gen
      BY Zenon DEF GivenBack
    <3>1. CASE j = i
      <4>1. \A e \in Channels : chan[e].id = i => chan[e].gen <= chan[c].gen
        BY <1>1, <1>3, <1>4, <2>4, Zenon DEF GenInv, Generations
      <4>2. \A e \in Channels : chan'[e].id = i => chan'[e].gen <= chan'[c].gen
        BY <1>1, <2>2, <4>1, Zenon
      <4> QED BY <2>2, <3>1, <4>2, Zenon
    <3>2. CASE j # i
      <4>1. ~Registered(j)
        BY <2>3, <3>2, Zenon DEF Registered
      <4>2. PICK d \in Channels :
                   /\ chan[d].id = j /\ chan[d].pc \in {"released", "gone"}
                   /\ \A e \in Channels : chan[e].id = j => chan[e].gen <= chan[d].gen
        BY <1>2, <4>1, Zenon DEF GenInv, GivenBack
      <4>3. d # c /\ chan'[d] = chan[d]
        BY <2>2, <3>2, <4>2, Zenon
      <4>4. \A e \in Channels : chan'[e].id = chan[e].id /\ chan'[e].gen = chan[e].gen
        BY <2>2, Zenon
      <4> QED BY <4>2, <4>3, <4>4, Zenon
    <3> QED BY <3>1, <3>2, Zenon
  <2> QED BY <2>5, <2>6, <2>7, Zenon DEF GenInv
<1>5. CASE conns[i].gen # chan[c].gen
  <2>1. conns' = conns
    BY <1>5, Zenon DEF ReleaseConnection
  <2>2. /\ chan'[c].pc = "gone" /\ chan'[c].id = i /\ chan'[c].gen = chan[c].gen
        /\ \A d \in Channels : d # c => chan'[d] = chan[d]
    BY <1>2, <1>5 DEF ReleaseConnection, ChanType
  <2>3. \A d \in Channels : chan'[d].id = chan[d].id /\ chan'[d].gen = chan[d].gen
    BY <2>2, Zenon
  <2>4. Generations'
    BY <1>1, <2>1, <2>2, <2>3, SMTT(30) DEF GenInv, Generations, Used, Registered
  <2>5. Held'
    BY <1>5, <2>1, <2>2, <2>3 DEF GenInv, Held, Registered
  <2>6. GivenBack'
    <3> SUFFICES ASSUME NEW j \in Ids, j < nextId', ~Registered(j)'
                 PROVE  \E d \in Channels :
                          /\ chan'[d].id = j /\ chan'[d].pc \in {"released", "gone"}
                          /\ \A e \in Channels : chan'[e].id = j => chan'[e].gen <= chan'[d].gen
      BY Zenon DEF GivenBack
    <3>1. PICK d \in Channels :
                 /\ chan[d].id = j /\ chan[d].pc \in {"released", "gone"}
                 /\ \A e \in Channels : chan[e].id = j => chan[e].gen <= chan[d].gen
      BY <1>2, <2>1, Zenon DEF GenInv, GivenBack, Registered
    <3>2. chan'[d].pc \in {"released", "gone"}
      BY <2>2, <3>1, Zenon
    <3> QED BY <2>3, <3>1, <3>2, Zenon
  <2> QED BY <2>4, <2>5, <2>6, Zenon DEF GenInv
<1> QED BY <1>4, <1>5, Zenon

LEMMA StepGen == ChannelInv /\ GenInv /\ [Next]_vars => GenInv'
<1> SUFFICES ASSUME ChannelInv, GenInv, [Next]_vars PROVE GenInv'
  BY Zenon
<1>1. chan \in [Channels -> ChanType]
  BY Zenon DEF ChannelInv, TypeOK, ChanType
<1>2. ASSUME UNCHANGED <<chan, conns, nextId>> PROVE GenInv'
  BY <1>2, Zenon DEF GenInv, Generations, Held, GivenBack, Used, Registered
<1>3. ASSUME NEW u \in Users, NEW c \in Channels, Register(u, c) PROVE GenInv'
  BY <1>3, ResumeKeepsGen, FreshKeepsGen, Zenon DEF Register, Used
<1>4. ASSUME NEW u \in Users, AuthResult(u) PROVE GenInv'
  <2>1. Keeps(opening[u])
    BY <1>4, AuthResultUses, Zenon DEF AuthResult, Keeps
  <2> QED BY <1>4, <2>1, AuthResultUses, GenKept, Zenon
<1>14. CASE \E u \in Users : Abandon(u) \/ LoseLink(u)
  BY <1>2, <1>14, Zenon DEF Abandon, LoseLink
<1>5. ASSUME NEW c \in Channels, SendCount(c) PROVE GenInv'
  <2>1. Keeps(c)
    BY <1>1, <1>5, Zenon DEF SendCount, Keeps, ChanType
  <2> QED BY <2>1, GenKept, Zenon
<1>6. ASSUME NEW c \in Channels, DetachChannel(c) PROVE GenInv'
  <2>1. Keeps(c)
    BY <1>1, <1>6, Zenon DEF DetachChannel, Keeps, ChanType
  <2> QED BY <2>1, GenKept, Zenon
<1>7. ASSUME NEW c \in Channels, ReleaseConnection(c) PROVE GenInv'
  BY <1>7, ReleaseKeepsGen, Zenon
<1>8. ASSUME NEW c \in Channels, Attach(c) PROVE GenInv'
  <2>1. Keeps(c)
    BY <1>1, <1>8, ZenonT(60) DEF Attach, Keeps, ChanType
  <2> QED BY <2>1, GenKept, Zenon
<1>9. ASSUME NEW c \in Channels, Ioctl(c) PROVE GenInv'
  <2>1. Keeps(c)
    BY <1>1, <1>9, Zenon DEF Ioctl, Keeps, ChanType
  <2> QED BY <2>1, GenKept, Zenon
<1>10. ASSUME NEW c \in Channels, NEW s \in Sizes, OnAttach(c, s)
       PROVE  GenInv'
  <2>1. Keeps(c)
    BY <1>1, <1>10, ZenonT(60) DEF OnAttach, Keeps, ChanType
  <2> QED BY <2>1, GenKept, Zenon
<1>11. ASSUME NEW c \in Channels, NEW s \in Sizes, Resize(c, s)
       PROVE  GenInv'
  <2>1. Keeps(c)
    <3>1. PICK w : chan' = [chan EXCEPT ![c].ioctl = w]
      BY <1>11, Zenon DEF Resize
    <3>2. UNCHANGED <<conns, nextId>>
      BY <1>11, Zenon DEF Resize
    <3> QED BY <1>1, <3>1, <3>2, Zenon DEF Keeps, ChanType
  <2> QED BY <2>1, GenKept, Zenon
<1>12. ASSUME NEW c \in Channels, OnDetach(c) PROVE GenInv'
  <2>1. Keeps(c)
    BY <1>1, <1>12, Zenon DEF OnDetach, Keeps, ChanType
  <2> QED BY <2>1, GenKept, Zenon
<1>13. CASE \/ \E c \in Channels : RequestInputLock(c) \/ ReleaseInputLock(c)
            \/ \E i \in Ids : Kick(i)
            \/ \E i \in Ids : Reap(i)
            \/ IdleFires \/ UNCHANGED vars
  BY <1>2, <1>13, Zenon DEF RequestInputLock, ReleaseInputLock, Kick, Reap, IdleFires, vars
<1> QED BY <1>3, <1>4, <1>5, <1>6, <1>7, <1>8, <1>9, <1>10, <1>11, <1>12, <1>13, <1>14, Zenon
        DEF Next, Pane

LEMMA InvariantGen == Spec => []GenInv
<1>1. Init => GenInv
  BY DEF Init, GenInv, Generations, Held, GivenBack, Used, Registered, Unused
<1> QED BY <1>1, InvariantChannel, StepGen, PTL DEF Spec

(* A superseded channel leaves the registration to its successor: whatever    *)
(* the order in which channels resume and end, the newest channel of an id,   *)
(* while it is open, is the registered one (resume_connection,               *)
(* release_connection).                                                      *)
THEOREM NewestIsRegisteredAlways == Spec => []NewestIsRegistered
<1>1. ChannelInv /\ GenInv => NewestIsRegistered
  <2> SUFFICES ASSUME ChannelInv, GenInv, NEW c \in Channels,
                      chan[c].pc \in {"registered", "open"},
                      \A d \in Channels : chan[d].id = chan[c].id => chan[d].gen <= chan[c].gen
               PROVE  conns[chan[c].id].gen = chan[c].gen
    BY Zenon DEF NewestIsRegistered
  <2>1. Used(c) /\ chan[c].id \in Ids /\ chan[c].id < nextId /\ chan[c].gen \in Nat
    BY ChannelFacts, Zenon DEF Used
  <2>2. CASE Registered(chan[c].id)
    <3>1. chan[c].gen <= conns[chan[c].id].gen
      BY <2>1, <2>2, Zenon DEF GenInv, Generations
    <3>2. PICK d \in Channels : chan[d].id = chan[c].id /\ chan[d].gen = conns[chan[c].id].gen
      BY <2>1, <2>2, Zenon DEF GenInv, Held
    <3>3. chan[d].gen \in Nat /\ chan[d].gen <= chan[c].gen
      BY <3>2, ChannelFacts, Zenon
    <3> QED BY <2>1, <3>1, <3>2, <3>3, SMTT(30)
  <2>3. CASE ~Registered(chan[c].id)
    <3>1. PICK d \in Channels :
                 /\ chan[d].id = chan[c].id /\ chan[d].pc \in {"released", "gone"}
                 /\ \A e \in Channels : chan[e].id = chan[c].id => chan[e].gen <= chan[d].gen
      BY <2>1, <2>3, Zenon DEF GenInv, GivenBack
    <3>2. chan[d].gen \in Nat /\ chan[d].gen <= chan[c].gen /\ chan[c].gen <= chan[d].gen
      BY <3>1, ChannelFacts, Zenon
    <3>3. Used(d) /\ chan[d].gen = chan[c].gen
      BY <2>1, <3>1, <3>2 DEF Used
    <3>4. c = d
      BY <2>1, <3>1, <3>3, Zenon DEF GenInv, Generations
    <3> QED BY <3>1, <3>4, Zenon
  <2> QED BY <2>2, <2>3, Zenon
<1> QED BY <1>1, InvariantChannel, InvariantGen, PTL

-----------------------------------------------------------------------------
(* OwnInv: whose channels and ids are whose. *)

(* A step of the daemon's loops changes no id and no user, and brings no      *)
(* channel into use.                                                         *)
Serving ==
  /\ UNCHANGED userVars
  /\ \A d \in Channels : /\ chan'[d].id = chan[d].id /\ (Used(d) => Used(d)')
                         /\ chan'[d].used = chan[d].used

LEMMA OwnKept ==
  ASSUME ChannelInv, OwnInv, Serving
  PROVE  OwnInv'
<1>1. \A u \in Users : /\ current[u] \in 0..MaxChannels /\ opening[u] \in 0..MaxChannels
                       /\ current'[u] = current[u] /\ opening'[u] = opening[u]
                       /\ token'[u] = token[u]
  BY Zenon DEF ChannelInv, TypeOK, Serving, userVars
<1>2. \A u \in Users : /\ current[u] # 0 => current[u] \in Channels
                       /\ opening[u] # 0 => opening[u] \in Channels
  BY <1>1
<1>3. \A u \in Users : OpeningId(u)' = OpeningId(u)
  BY <1>1, <1>2, Zenon DEF OpeningId, Serving
<1>4. OwnChannels'
  <2>1. ASSUME NEW u \in Users, current[u] # 0
        PROVE  chan'[current[u]].pc # "unused" /\ chan'[current[u]].id = token[u]
    BY <1>2, <2>1, Zenon DEF OwnInv, OwnChannels, Serving, Used
  <2>2. ASSUME NEW u \in Users, opening[u] # 0
        PROVE  chan'[opening[u]].pc # "unused" /\ ~chan'[opening[u]].used
    <3>1. opening[u] \in Channels /\ Used(opening[u]) /\ ~chan[opening[u]].used
      BY <1>2, <2>2, Zenon DEF OwnInv, OwnChannels
    <3>2. chan'[opening[u]].used = chan[opening[u]].used /\ chan'[opening[u]].pc # "unused"
      BY <3>1, Zenon DEF Serving, Used
    <3> QED BY <3>1, <3>2
  <2> QED BY <1>1, <2>1, <2>2, Zenon DEF OwnChannels, Used
<1>5. OwnIds'
  <2> SUFFICES ASSUME NEW v \in Users, NEW w \in Users, v # w
               PROVE  /\ token[v] # 0 => token[v] # token[w] /\ token[v] # OpeningId(w)
                      /\ OpeningId(v) # 0 => OpeningId(v) # OpeningId(w)
    BY <1>1, <1>3 DEF OwnIds
  <2> QED BY Zenon DEF OwnInv, OwnIds
<1> QED BY <1>4, <1>5, Zenon DEF OwnInv

LEMMA RegisterKeepsOwn ==
  ASSUME ChannelInv, OwnInv, NEW u \in Users, NEW c \in Channels, Register(u, c)
  PROVE  OwnInv'
<1> USE ConstantsAssumption
<1>1. \A v \in Users : /\ current[v] \in 0..MaxChannels /\ opening[v] \in 0..MaxChannels
                       /\ token[v] \in 0..MaxChannels /\ token[v] < nextId
                       /\ current'[v] = current[v] /\ token'[v] = token[v]
                       /\ opening'[v] = IF v = u THEN c ELSE opening[v]
  <2>1. /\ \A v \in Users : /\ current[v] \in 0..MaxChannels /\ opening[v] \in 0..MaxChannels
                            /\ token[v] \in 0..MaxChannels /\ token[v] < nextId
        /\ opening \in [Users -> 0..MaxChannels]
    BY Zenon DEF ChannelInv, TypeOK, TokensDrawn
  <2>2. UNCHANGED <<current, token>> /\ opening' = [opening EXCEPT ![u] = c]
    BY Zenon DEF Register
  <2> QED BY <2>1, <2>2, Zenon
<1>2. ~Used(c) /\ opening[u] = 0 /\ nextId \in Nat /\ c # 0
  BY SMTT(30) DEF Register, Used, ChannelInv, TypeOK
<1>3. /\ \A d \in Channels : d # c => chan'[d] = chan[d]
      /\ Used(c)' /\ chan'[c].used = FALSE
      /\ (chan'[c].id = token[u] /\ token[u] # 0) \/ chan'[c].id = nextId
  <2>1. chan \in [Channels -> ChanType]
    BY Zenon DEF ChannelInv, TypeOK, ChanType
  <2>2. CASE Resume(u, c)
    BY <2>1, <2>2, Zenon DEF Resume, Resumable, Unused, Used, ChanType
  <2>3. CASE RegisterFresh(u, c)
    BY <2>1, <2>3, Zenon DEF RegisterFresh, Unused, Used, ChanType
  <2> QED BY <2>2, <2>3, Zenon DEF Register
<1>4. \A v \in Users : /\ current[v] # 0 => current[v] # c /\ chan'[current[v]] = chan[current[v]]
                       /\ opening[v] # 0 => opening[v] # c /\ chan'[opening[v]] = chan[opening[v]]
  BY <1>1, <1>2, <1>3, SMTT(30) DEF OwnInv, OwnChannels
<1>5. \A v \in Users : v # u => OpeningId(v)' = OpeningId(v)
  BY <1>1, <1>4, SMTT(30) DEF OpeningId
<1>6. OpeningId(u)' = chan'[c].id
  BY <1>1, <1>2, Zenon DEF OpeningId
<1>7. \A v \in Users : OpeningId(v) < nextId
  <2> TAKE v \in Users
  <2>1. CASE opening[v] = 0
    <3>1. nextId >= 1
      BY DEF ChannelInv, TypeOK
    <3> QED BY <1>2, <2>1, <3>1 DEF OpeningId
  <2>2. CASE opening[v] # 0
    <3>1. opening[v] \in Channels
      BY <1>1, <2>2
    <3> QED BY <2>2, <3>1, ChannelFacts, Zenon DEF OpeningId
  <2> QED BY <2>1, <2>2, Zenon
<1>8. \A v \in Users : v # u => chan'[c].id # token[v] /\ chan'[c].id # OpeningId(v)
  <2> SUFFICES ASSUME NEW v \in Users, v # u
               PROVE  chan'[c].id # token[v] /\ chan'[c].id # OpeningId(v)
    BY Zenon
  <2>1. CASE chan'[c].id = nextId
    BY <1>1, <1>2, <1>7, <2>1, SMTT(30)
  <2>2. CASE chan'[c].id = token[u] /\ token[u] # 0
    BY <2>2, Zenon DEF OwnInv, OwnIds
  <2> QED BY <1>3, <2>1, <2>2, Zenon
<1>9. OwnChannels'
  BY <1>1, <1>3, <1>4, SMTT(30) DEF OwnInv, OwnChannels, Used
<1>10. OwnIds'
  <2> SUFFICES ASSUME NEW v \in Users, NEW w \in Users, v # w
               PROVE  /\ token[v] # 0 => token[v] # token[w] /\ token[v] # OpeningId(w)'
                      /\ OpeningId(v)' # 0 => OpeningId(v)' # OpeningId(w)'
    BY <1>1 DEF OwnIds
  <2>1. CASE v # u /\ w # u
    BY <1>5, <2>1, Zenon DEF OwnInv, OwnIds
  <2>2. CASE v = u
    BY <1>5, <1>6, <1>8, <2>2, Zenon DEF OwnInv, OwnIds
  <2>3. CASE w = u
    BY <1>5, <1>6, <1>8, <2>3, Zenon DEF OwnInv, OwnIds
  <2> QED BY <2>1, <2>2, <2>3, Zenon
<1> QED BY <1>9, <1>10, Zenon DEF OwnInv

LEMMA AuthResultKeepsOwn ==
  ASSUME ChannelInv, OwnInv, NEW u \in Users, AuthResult(u)
  PROVE  OwnInv'
<1> DEFINE c == opening[u]
           i == chan[c].id
<1>1. \A v \in Users : /\ current[v] \in 0..MaxChannels /\ opening[v] \in 0..MaxChannels
                       /\ token[v] \in 0..MaxChannels
  BY Zenon DEF ChannelInv, TypeOK
<1>2. c \in Channels /\ c # 0 /\ Used(c) /\ i \in Ids /\ i # 0 /\ OpeningId(u) = i
  BY <1>1, UsedId, SMTT(30) DEF AuthResult, Used, OpeningId
<1>3. \A d \in Channels : /\ chan'[d].id = chan[d].id /\ (Used(d) => Used(d)')
                          /\ d # c => chan'[d] = chan[d]
  BY AuthResultUses, Zenon DEF Used
<1>4. \A v \in Users : opening'[v] = IF v = u THEN 0 ELSE opening[v]
  BY Zenon DEF AuthResult, ChannelInv, TypeOK
<1>5. \A v \in Users : v # u => current'[v] = current[v] /\ token'[v] = token[v]
  BY Zenon DEF AuthResult, ChannelInv, TypeOK
<1>6. \/ current'[u] = c /\ token'[u] = i
      \/ current'[u] = current[u] /\ token'[u] = token[u]
  BY Zenon DEF AuthResult, ChannelInv, TypeOK
<1>7. \A v \in Users : opening[v] # 0 => opening[v] \in Channels
  BY <1>1
<1>8. \A v \in Users : OpeningId(v)' = IF v = u THEN 0 ELSE OpeningId(v)
  BY <1>3, <1>4, <1>7, Zenon DEF OpeningId
<1>9. \A v \in Users : v # u => opening[v] # c /\ token[v] # i /\ OpeningId(v) # i
  <2> TAKE v \in Users
  <2>1. v # u => OpeningId(v) # i
    BY <1>2, Zenon DEF OwnInv, OwnIds
  <2>2. opening[v] = c => OpeningId(v) = i
    BY <1>2, Zenon DEF OpeningId
  <2>3. v # u => token[v] # i
    BY <1>2, Zenon DEF OwnInv, OwnIds
  <2> QED BY <2>1, <2>2, <2>3, Zenon
<1> HIDE DEF c, i
<1>10. OwnChannels'
  <2>1. ASSUME NEW v \in Users, current'[v] # 0
        PROVE  chan'[current'[v]].pc # "unused" /\ chan'[current'[v]].id = token'[v]
    <3>1. CASE current'[v] = c /\ token'[v] = i
      BY <1>2, <1>3, <3>1, Zenon DEF i, Used
    <3>2. CASE current'[v] = current[v] /\ token'[v] = token[v]
      <4>1. current[v] \in Channels
        BY <1>1, <2>1, <3>2
      <4>2. Used(current[v]) /\ chan[current[v]].id = token[v]
        BY <2>1, <3>2, Zenon DEF OwnInv, OwnChannels
      <4> QED BY <1>3, <3>2, <4>1, <4>2, Zenon DEF Used
    <3> QED BY <1>5, <1>6, <3>1, <3>2, Zenon
  <2>2. ASSUME NEW v \in Users, opening'[v] # 0
        PROVE  chan'[opening'[v]].pc # "unused" /\ ~chan'[opening'[v]].used
    <3>1. v # u /\ opening'[v] = opening[v] /\ opening[v] # c /\ opening[v] \in Channels
      BY <1>4, <1>7, <1>9, <2>2, Zenon
    <3>2. chan'[opening[v]] = chan[opening[v]]
      BY <1>3, <3>1, Zenon
    <3> QED BY <2>2, <3>1, <3>2, Zenon DEF OwnInv, OwnChannels, Used
  <2> QED BY <2>1, <2>2, Zenon DEF OwnChannels, Used
<1>11. OwnIds'
  <2> SUFFICES ASSUME NEW v \in Users, NEW w \in Users, v # w
               PROVE  /\ token'[v] # 0 => token'[v] # token'[w] /\ token'[v] # OpeningId(w)'
                      /\ OpeningId(v)' # 0 => OpeningId(v)' # OpeningId(w)'
    BY Zenon DEF OwnIds
  <2>1. CASE v # u /\ w # u
    BY <1>5, <1>8, <2>1 DEF OwnInv, OwnIds
  <2>2. CASE v = u
    BY <1>5, <1>6, <1>8, <1>9, <2>2, SMTT(30) DEF OwnInv, OwnIds
  <2>3. CASE w = u
    BY <1>2, <1>5, <1>6, <1>8, <1>9, <2>3, Zenon DEF OwnInv, OwnIds
  <2> QED BY <2>1, <2>2, <2>3, Zenon
<1> QED BY <1>10, <1>11, Zenon DEF OwnInv

LEMMA LeavingKeepsOwn ==
  ASSUME ChannelInv, OwnInv, NEW u \in Users, Abandon(u) \/ LoseLink(u)
  PROVE  OwnInv'
<1>1. chan' = chan /\ token' = token
  BY Zenon DEF Abandon, LoseLink
<1>2. \A v \in Users : /\ opening'[v] = opening[v] \/ opening'[v] = 0
                       /\ current'[v] = current[v] \/ current'[v] = 0
  BY Zenon DEF Abandon, LoseLink, ChannelInv, TypeOK
<1>3. \A v \in Users : OpeningId(v)' = OpeningId(v) \/ OpeningId(v)' = 0
  BY <1>1, <1>2, Zenon DEF OpeningId
<1>4. OwnChannels'
  BY <1>1, <1>2, Zenon DEF OwnInv, OwnChannels, Used
<1>5. OwnIds'
  BY <1>1, <1>3, Zenon DEF OwnInv, OwnIds
<1> QED BY <1>4, <1>5, Zenon DEF OwnInv

(* Every step of a channel's loop serves, and touches no other channel.       *)
LEMMA LoopsServe ==
  ASSUME ChannelInv, NEW c \in Channels,
         \/ SendCount(c) \/ DetachChannel(c) \/ ReleaseConnection(c) \/ Attach(c) \/ Ioctl(c)
         \/ OnDetach(c) \/ \E s \in Sizes : OnAttach(c, s) \/ Resize(c, s)
  PROVE  /\ Serving
         /\ \A d \in Channels : d # c => chan'[d] = chan[d]
<1>1. chan \in [Channels -> ChanType]
  BY Zenon DEF ChannelInv, TypeOK, ChanType
<1>2. CASE SendCount(c)
  <2>1. PICK p, e : p # "unused" /\ chan' = [chan EXCEPT ![c].pc = p, ![c].empty = e]
    BY <1>2, Zenon DEF SendCount
  <2>2. UNCHANGED userVars
    BY <1>2, Zenon DEF SendCount
  <2> QED BY <1>1, <2>1, <2>2, Zenon DEF Serving, Used, ChanType
<1>3. CASE DetachChannel(c)
  BY <1>1, <1>3, Zenon DEF DetachChannel, Serving, Used, ChanType
<1>4. CASE ReleaseConnection(c)
  <2>1. \/ chan' = [chan EXCEPT ![c].pc = "gone"]
        \/ \E e : chan' = [chan EXCEPT ![c].pc = "released", ![c].empty = e]
    BY <1>4, Zenon DEF ReleaseConnection
  <2>2. UNCHANGED userVars
    BY <1>4, Zenon DEF ReleaseConnection
  <2>3. CASE chan' = [chan EXCEPT ![c].pc = "gone"]
    BY <1>1, <2>2, <2>3, Zenon DEF Serving, Used, ChanType
  <2>4. ASSUME NEW e, chan' = [chan EXCEPT ![c].pc = "released", ![c].empty = e]
        PROVE  Serving /\ \A d \in Channels : d # c => chan'[d] = chan[d]
    BY <1>1, <2>2, <2>4, Zenon DEF Serving, Used, ChanType
  <2> QED BY <2>1, <2>3, <2>4, Zenon
<1>5. CASE Attach(c)
  <2>1. chan' = [chan EXCEPT ![c].want = NoSize, ![c].attached = TRUE] /\ chan[c].want # NoSize
    BY <1>5, Zenon DEF Attach
  <2>2. UNCHANGED userVars
    BY <1>5, Zenon DEF Attach
  <2> QED BY <1>1, <2>1, <2>2, Zenon DEF Serving, Used, ChanType
<1>6. CASE Ioctl(c)
  BY <1>1, <1>6, Zenon DEF Ioctl, Serving, Used, ChanType
<1>7. CASE OnDetach(c)
  BY <1>1, <1>7, Zenon DEF OnDetach, Serving, Used, ChanType
<1>8. ASSUME NEW s \in Sizes, Resize(c, s)
      PROVE  Serving /\ \A d \in Channels : d # c => chan'[d] = chan[d]
  <2>1. PICK w : chan' = [chan EXCEPT ![c].ioctl = w]
    BY <1>8, Zenon DEF Resize
  <2>2. UNCHANGED userVars
    BY <1>8, Zenon DEF Resize
  <2> QED BY <1>1, <2>1, <2>2, Zenon DEF Serving, Used, ChanType
<1>9. ASSUME NEW s \in Sizes, OnAttach(c, s)
      PROVE  Serving /\ \A d \in Channels : d # c => chan'[d] = chan[d]
  <2>1. chan' = [chan EXCEPT ![c].want = s, ![c].attached = FALSE] /\ UNCHANGED userVars
    BY <1>9, Zenon DEF OnAttach
  <2> QED BY <1>1, <2>1, Zenon DEF Serving, Used, ChanType
<1> QED BY <1>2, <1>3, <1>4, <1>5, <1>6, <1>7, <1>8, <1>9, Zenon

LEMMA StepOwn == ChannelInv /\ OwnInv /\ [Next]_vars => OwnInv'
<1> SUFFICES ASSUME ChannelInv, OwnInv, [Next]_vars PROVE OwnInv'
  BY Zenon
<1>1. CASE \E u \in Users, c \in Channels : Register(u, c)
  BY <1>1, RegisterKeepsOwn, Zenon
<1>2. CASE \E u \in Users : AuthResult(u) \/ Abandon(u) \/ LoseLink(u)
  BY <1>2, AuthResultKeepsOwn, LeavingKeepsOwn, Zenon
<1>4. CASE \E c \in Channels :
             \/ SendCount(c) \/ DetachChannel(c) \/ ReleaseConnection(c) \/ Attach(c) \/ Ioctl(c)
             \/ OnDetach(c) \/ \E s \in Sizes : OnAttach(c, s) \/ Resize(c, s)
  BY <1>4, LoopsServe, OwnKept, Zenon
<1>5. CASE \/ \E c \in Channels : RequestInputLock(c) \/ ReleaseInputLock(c)
           \/ \E i \in Ids : Kick(i)
           \/ \E i \in Ids : Reap(i)
           \/ IdleFires \/ UNCHANGED vars
  <2>1. UNCHANGED <<chan, userVars>>
    BY <1>5, Zenon DEF RequestInputLock, ReleaseInputLock, Kick, Reap, IdleFires, vars
  <2>2. Serving
    BY <2>1, Zenon DEF Serving, Used
  <2> QED BY <2>2, OwnKept, Zenon
<1> QED BY <1>1, <1>2, <1>4, <1>5, Zenon DEF Next, Pane

LEMMA InvariantOwn == Spec => []OwnInv
<1>1. Init => OwnInv
  BY Zenon DEF Init, OwnInv, OwnChannels, OwnIds, OpeningId
<1> QED BY <1>1, InvariantChannel, StepOwn, PTL DEF Spec

-----------------------------------------------------------------------------
(* ViewerInv: the pane's viewers and its input lock. *)

LEMMA ViewerFacts ==
  ASSUME ChannelInv
  PROVE  /\ \A i \in Ids : viewers[i] # NoViewer => viewers[i].chan \in Channels
         /\ \A i \in Ids : viewers[i].chan \in Channels => viewers[i] # NoViewer
         /\ mode \in 0..MaxChannels
         /\ \A u \in Users : current[u] # 0 => current[u] \in Channels
         /\ \A u \in Users : opening[u] # 0 => opening[u] \in Channels
<1>1. \A i \in Ids : viewers[i] # NoViewer => viewers[i].chan \in Channels
  BY Zenon DEF ChannelInv, TypeOK
<1>2. \A i \in Ids : viewers[i].chan \in Channels => viewers[i] # NoViewer
  BY DEF NoViewer
<1>3. mode \in 0..MaxChannels
  BY Zenon DEF ChannelInv, TypeOK
<1>4. \A u \in Users : current[u] \in 0..MaxChannels /\ opening[u] \in 0..MaxChannels
  BY Zenon DEF ChannelInv, TypeOK
<1> QED BY <1>1, <1>2, <1>3, <1>4

(* A client whose current channel has a registration's id is its only one.   *)
LEMMA OneCurrent ==
  ASSUME ChannelInv, OwnInv, NEW u \in Users, NEW v \in Users,
         current[u] # 0, current[v] # 0, chan[current[u]].id = chan[current[v]].id
  PROVE  u = v
<1>1. chan[current[u]].id = token[u] /\ chan[current[v]].id = token[v] /\ Used(current[u])
  BY Zenon DEF OwnInv, OwnChannels
<1>2. token[u] # 0
  BY <1>1, UsedId, ViewerFacts
<1> QED BY <1>1, <1>2, Zenon DEF OwnInv, OwnIds

(* A step of a loop that has nothing to do with the viewers.                  *)
LEMMA ViewersKept ==
  ASSUME ChannelInv, ViewerInv, UNCHANGED <<viewers, mode, removed, stray, current>>, late \subseteq late',
         \A d \in Channels : /\ Used(d) => chan'[d].id = chan[d].id
                             /\ chan[d].pc = "open" => chan'[d].pc = "open"
                             /\ chan'[d].attached => chan[d].attached
  PROVE  ViewerInv'
<1>1. ViewersOpen'
  BY ViewerFacts, Zenon DEF ViewerInv, ViewersOpen, Used
<1>2. LockHeld'
  BY Zenon DEF ViewerInv, LockHeld
<1>3. AttachedThroughCurrent'
  <2> SUFFICES ASSUME NEW u \in Users, current[u] # 0, chan'[current[u]].attached
               PROVE  \/ viewers[chan'[current[u]].id].chan = current[u]
                      \/ chan'[current[u]].id \in removed \cup late'
    BY Zenon DEF AttachedThroughCurrent
  <2>1. current[u] \in Channels /\ chan[current[u]].attached
    BY ViewerFacts, Zenon
  <2>2. chan'[current[u]].id = chan[current[u]].id
    BY <2>1, Zenon DEF ChannelInv, AttachesOpen, Used
  <2> QED BY <2>1, <2>2, Zenon DEF ViewerInv, AttachedThroughCurrent
<1> QED BY <1>1, <1>2, <1>3, Zenon DEF ViewerInv

(* Viewer i leaves: the lock it held is opened, and no client that counts on  *)
(* being attached under that id is one the daemon still serves so.           *)
LEMMA LeaveKeeps ==
  ASSUME ChannelInv, ViewerInv, NEW i \in Ids, Leave(i),
         UNCHANGED <<stray, current>>, removed \subseteq removed', late \subseteq late',
         \A d \in Channels : /\ chan'[d].id = chan[d].id
                             /\ chan'[d].attached => chan[d].attached,
         \A j \in Ids : j # i /\ viewers[j] # NoViewer => chan'[viewers[j].chan].pc = "open",
         \A u \in Users : /\ current[u] # 0 /\ chan[current[u]].id = i
                          /\ viewers[i].chan = current[u] /\ chan'[current[u]].attached
                          => i \in removed' \cup late'
  PROVE  ViewerInv'
<1>1. /\ viewers'[i] = NoViewer /\ \A j \in Ids : j # i => viewers'[j] = viewers[j]
      /\ mode' = IF mode = i THEN 0 ELSE mode
  BY Zenon DEF Leave, Reconcile, ChannelInv, TypeOK
<1>2. ViewersOpen'
  BY <1>1, ViewerFacts, SMTT(30) DEF ViewerInv, ViewersOpen
<1>3. LockHeld'
  BY <1>1, ViewerFacts, SMTT(30) DEF ViewerInv, LockHeld
<1>4. AttachedThroughCurrent'
  <2> SUFFICES ASSUME NEW u \in Users, current[u] # 0, chan'[current[u]].attached
               PROVE  \/ viewers'[chan'[current[u]].id].chan = current[u]
                      \/ chan'[current[u]].id \in removed' \cup late'
    BY Zenon DEF AttachedThroughCurrent
  <2>1. /\ current[u] \in Channels /\ chan[current[u]].attached
        /\ chan'[current[u]].id = chan[current[u]].id
    BY ViewerFacts, Zenon
  <2>2. chan[current[u]].id \in Ids
    BY <2>1, UsedId, Zenon DEF ChannelInv, AttachesOpen, Used
  <2>3. viewers[chan[current[u]].id].chan = current[u] \/ chan[current[u]].id \in removed \cup late
    BY <2>1, Zenon DEF ViewerInv, AttachedThroughCurrent
  <2> QED BY <1>1, <2>1, <2>2, <2>3, SMTT(30)
<1> QED BY <1>2, <1>3, <1>4, Zenon DEF ViewerInv

LEMMA RegisterKeepsViewers ==
  ASSUME ChannelInv, OwnInv, ViewerInv, NEW u \in Users, NEW c \in Channels, Register(u, c)
  PROVE  ViewerInv'
<1>1. ~Used(c) /\ UNCHANGED <<viewers, mode, removed, late, stray, current>>
  BY Zenon DEF Register, Used, paneVars
<1>2. chan \in [Channels -> ChanType]
  BY Zenon DEF ChannelInv, TypeOK, ChanType
<1>3. (\A d \in Channels : d # c => chan'[d] = chan[d]) /\ chan'[c].attached = FALSE
  <2>1. CASE Resume(u, c)
    BY <1>2, <2>1, Zenon DEF Resume, Unused, ChanType
  <2>2. CASE RegisterFresh(u, c)
    BY <1>2, <2>2, Zenon DEF RegisterFresh, Unused, ChanType
  <2> QED BY <2>1, <2>2, Zenon DEF Register
<1>4. \A d \in Channels : /\ Used(d) => chan'[d].id = chan[d].id
                          /\ chan[d].pc = "open" => chan'[d].pc = "open"
                          /\ chan'[d].attached => chan[d].attached
  BY <1>1, <1>3, Zenon DEF Used
<1> QED BY <1>1, <1>4, ViewersKept, Zenon

LEMMA UsersKeepViewers ==
  ASSUME ChannelInv, OwnInv, ViewerInv, NEW u \in Users, AuthResult(u) \/ Abandon(u) \/ LoseLink(u)
  PROVE  ViewerInv'
<1>1. UNCHANGED <<viewers, mode, removed, late, stray>>
  BY Zenon DEF AuthResult, Abandon, LoseLink, paneVars
<1>2. \A d \in Channels : /\ chan'[d].pc = chan[d].pc /\ chan'[d].id = chan[d].id
                          /\ chan'[d].attached = chan[d].attached
  BY AuthResultUses, Zenon DEF Abandon, LoseLink
<1>3. ViewersOpen'
  BY <1>1, <1>2, ViewerFacts, Zenon DEF ViewerInv, ViewersOpen
<1>4. LockHeld'
  BY <1>1, Zenon DEF ViewerInv, LockHeld
<1>5. AttachedThroughCurrent'
  <2> SUFFICES ASSUME NEW v \in Users, current'[v] # 0, chan'[current'[v]].attached
               PROVE  \/ viewers[chan'[current'[v]].id].chan = current'[v]
                      \/ chan'[current'[v]].id \in removed \cup late
    BY <1>1, Zenon DEF AttachedThroughCurrent
  <2>1. \/ current'[v] = current[v] \/ current'[v] = 0
        \/ opening[v] # 0 /\ current'[v] = opening[v]
    <3>1. current \in [Users -> 0..MaxChannels]
      BY Zenon DEF ChannelInv, TypeOK
    <3>2. CASE AuthResult(u)
      <4>1. opening[u] # 0
            /\ (UNCHANGED current \/ current' = [current EXCEPT ![u] = opening[u]])
        BY <3>2, Zenon DEF AuthResult
      <4> QED BY <3>1, <4>1, Zenon
    <3>3. CASE Abandon(u)
      BY <3>3, Zenon DEF Abandon
    <3>4. CASE LoseLink(u)
      BY <3>1, <3>4, Zenon DEF LoseLink
    <3> QED BY <3>2, <3>3, <3>4, Zenon
  <2>2. CASE current'[v] = current[v]
    <3>1. current[v] \in Channels /\ chan[current[v]].attached
      <4>1. current[v] \in Channels
        BY <2>2, ViewerFacts, Zenon
      <4> QED BY <1>2, <2>2, <4>1
    <3> QED BY <1>2, <2>2, <3>1, ZenonT(60) DEF ViewerInv, AttachedThroughCurrent
  <2>3. CASE opening[v] # 0 /\ current'[v] = opening[v]
    <3>1. opening[v] \in Channels /\ chan[opening[v]].attached
      BY <1>2, <2>3, ViewerFacts, Zenon
    <3>2. ~chan[opening[v]].used
      BY <2>3, Zenon DEF OwnInv, OwnChannels
    <3> QED BY <3>1, <3>2, Zenon DEF ChannelInv, AttachesOpen
  <2> QED BY <2>1, <2>2, <2>3, Zenon
<1> QED BY <1>3, <1>4, <1>5, Zenon DEF ViewerInv

(* The channels' own steps that leave the viewers alone.                     *)
LEMMA LoopsKeepViewers ==
  ASSUME ChannelInv, OwnInv, ViewerInv, NEW c \in Channels,
         SendCount(c) \/ ReleaseConnection(c) \/ Ioctl(c)
  PROVE  ViewerInv'
<1>1. /\ Serving
      /\ \A d \in Channels : d # c => chan'[d] = chan[d]
  BY LoopsServe, Zenon
<1>2. chan \in [Channels -> ChanType]
  BY Zenon DEF ChannelInv, TypeOK, ChanType
<1>3. chan'[c].attached = chan[c].attached /\ (chan[c].pc = "open" => chan'[c].pc = "open")
  <2>1. CASE SendCount(c)
    BY <1>2, <2>1, Zenon DEF SendCount, ChanType
  <2>2. CASE ReleaseConnection(c)
    <3>1. \/ chan' = [chan EXCEPT ![c].pc = "gone"]
          \/ \E e : chan' = [chan EXCEPT ![c].pc = "released", ![c].empty = e]
      BY <2>2, Zenon DEF ReleaseConnection
    <3>2. chan[c].pc = "releasing"
      BY <2>2, Zenon DEF ReleaseConnection
    <3> QED BY <1>2, <3>1, <3>2, ZenonT(120) DEF ChanType
  <2>3. CASE Ioctl(c)
    BY <1>2, <2>3, Zenon DEF Ioctl, ChanType
  <2> QED BY <2>1, <2>2, <2>3, Zenon
<1>4. UNCHANGED <<viewers, mode, removed, late, stray, current>>
  BY Zenon DEF SendCount, ReleaseConnection, Ioctl, paneVars, userVars
<1>5. \A d \in Channels : /\ Used(d) => chan'[d].id = chan[d].id
                          /\ chan[d].pc = "open" => chan'[d].pc = "open"
                          /\ chan'[d].attached => chan[d].attached
  BY <1>1, <1>3, Zenon DEF Serving
<1> QED BY <1>4, <1>5, ViewersKept, Zenon

(* on_attach and on_detach: of the channels that share the id, the one that   *)
(* asked is the client's current one, or the lapse is recorded.              *)
LEMMA RequestsKeepViewers ==
  ASSUME ChannelInv, OwnInv, ViewerInv, NEW c \in Channels,
         OnDetach(c) \/ \E s \in Sizes : OnAttach(c, s)
  PROVE  ViewerInv'
<1>1. chan \in [Channels -> ChanType]
  BY Zenon DEF ChannelInv, TypeOK, ChanType
<1>2. /\ \A d \in Channels : d # c => chan'[d] = chan[d]
      /\ chan'[c].pc = "open" /\ chan'[c].id = chan[c].id /\ chan'[c].attached = FALSE
  <2>1. CASE OnDetach(c)
    BY <1>1, <2>1, Zenon DEF OnDetach, Serves, ChanType
  <2>2. ASSUME NEW s \in Sizes, OnAttach(c, s)
        PROVE  /\ \A d \in Channels : d # c => chan'[d] = chan[d]
               /\ chan'[c].pc = "open" /\ chan'[c].id = chan[c].id /\ chan'[c].attached = FALSE
    <3>1. chan' = [chan EXCEPT ![c].want = s, ![c].attached = FALSE] /\ chan[c].pc = "open"
      BY <2>2, Zenon DEF OnAttach, Serves
    <3> QED BY <1>1, <3>1, Zenon DEF ChanType
  <2> QED BY <2>1, <2>2, Zenon
<1>3. Used(c) /\ chan[c].id \in Ids
  BY UsedId, Zenon DEF OnDetach, OnAttach, Serves, Used
<1>4. UNCHANGED <<removed, stray, current>>
  BY Zenon DEF OnDetach, OnAttach, userVars
<1>5. \A d \in Channels : /\ chan'[d].id = chan[d].id
                          /\ chan[d].pc = "open" => chan'[d].pc = "open"
                          /\ chan'[d].attached => chan[d].attached
  BY <1>2, Zenon
<1>6. CASE UNCHANGED <<viewers, mode, late>>
  BY <1>4, <1>5, <1>6, ViewersKept, Zenon
<1>7. CASE Leave(chan[c].id) /\ late' = LateThrough(c)
  <2>1. \A j \in Ids : viewers[j] # NoViewer => chan'[viewers[j].chan].pc = "open"
    BY <1>5, ViewerFacts, Zenon DEF ViewerInv, ViewersOpen
  <2>2. late \subseteq late'
    BY <1>7, Zenon DEF LateThrough
  <2>3. ASSUME NEW v \in Users, current[v] # 0, chan[current[v]].id = chan[c].id,
               chan'[current[v]].attached
        PROVE  chan[c].id \in late'
    <3>1. current[v] # c
      BY <1>2, <2>3, Zenon
    <3>2. ~InUse(c)
      <4> SUFFICES ASSUME NEW w \in Users, current[w] = c PROVE FALSE
        BY Zenon DEF InUse
      <4>1. c # 0
        OBVIOUS
      <4>2. v = w
        BY <2>3, <4>1, OneCurrent, Zenon
      <4> QED BY <3>1, <4>2, Zenon
    <3> QED BY <1>7, <3>2, Zenon DEF LateThrough
  <2> QED BY <1>3, <1>4, <1>5, <1>7, <2>1, <2>2, <2>3, LeaveKeeps, Zenon
<1> QED BY <1>6, <1>7, Zenon DEF OnDetach, OnAttach

LEMMA DetachChannelKeepsViewers ==
  ASSUME ChannelInv, OwnInv, ViewerInv, NEW c \in Channels, DetachChannel(c)
  PROVE  ViewerInv'
<1> DEFINE i == chan[c].id
<1>1. chan \in [Channels -> ChanType]
  BY Zenon DEF ChannelInv, TypeOK, ChanType
<1>2. /\ \A d \in Channels : d # c => chan'[d] = chan[d]
      /\ chan'[c].id = chan[c].id /\ chan'[c].attached = FALSE
  BY <1>1, Zenon DEF DetachChannel, ChanType
<1>3. i \in Ids /\ UNCHANGED <<removed, late, stray, current>>
  BY UsedId, Zenon DEF DetachChannel, Used, userVars
<1>4. \A d \in Channels : /\ chan'[d].id = chan[d].id
                          /\ chan'[d].attached => chan[d].attached
  BY <1>2, Zenon
<1>5. \A j \in Ids : viewers[j] # NoViewer /\ viewers[j].chan = c => j = i
  BY Zenon DEF ViewerInv, ViewersOpen
<1>6. CASE viewers[i].chan = c
  <2>1. Leave(i)
    BY <1>6, Zenon DEF DetachChannel
  <2>2. \A j \in Ids : j # i /\ viewers[j] # NoViewer => chan'[viewers[j].chan].pc = "open"
    BY <1>2, <1>5, ViewerFacts, Zenon DEF ViewerInv, ViewersOpen
  <2>3. \A u \in Users : viewers[i].chan = current[u] => ~chan'[current[u]].attached
    BY <1>2, <1>6, Zenon
  <2> QED BY <1>3, <1>4, <1>6, <2>1, <2>2, <2>3, LeaveKeeps, Zenon
<1>7. CASE viewers[i].chan # c
  <2>1. UNCHANGED <<viewers, mode>>
    BY <1>7, Zenon DEF DetachChannel
  <2>2. ViewersOpen'
    BY <1>2, <1>5, <1>7, <2>1, ViewerFacts, SMTT(30) DEF ViewerInv, ViewersOpen
  <2>3. LockHeld'
    BY <1>3, <2>1, Zenon DEF ViewerInv, LockHeld
  <2>4. AttachedThroughCurrent'
    BY <1>2, <1>3, <2>1, ViewerFacts, ZenonT(30) DEF ViewerInv, AttachedThroughCurrent
  <2> QED BY <2>2, <2>3, <2>4, Zenon DEF ViewerInv
<1> QED BY <1>6, <1>7, Zenon

LEMMA AttachKeepsViewers ==
  ASSUME ChannelInv, OwnInv, ViewerInv, NEW c \in Channels, Attach(c)
  PROVE  ViewerInv'
<1> DEFINE i == chan[c].id
<1>1. chan \in [Channels -> ChanType]
  BY Zenon DEF ChannelInv, TypeOK, ChanType
<1>2. chan[c].want # NoSize /\ chan[c].pc = "open" /\ Used(c) /\ i \in Ids
  BY UsedId, Zenon DEF Attach, ChannelInv, AttachesOpen, Used
<1>3. /\ \A d \in Channels : d # c => chan'[d] = chan[d]
      /\ chan'[c].pc = "open" /\ chan'[c].id = i
  <2>1. chan' = [chan EXCEPT ![c].want = NoSize, ![c].attached = TRUE]
    BY Zenon DEF Attach
  <2> QED BY <1>1, <1>2, <2>1, Zenon DEF ChanType
<1>4. /\ viewers'[i].chan = c /\ viewers'[i] # NoViewer
      /\ \A j \in Ids : j # i => viewers'[j] = viewers[j]
  BY <1>2, Zenon DEF Attach, Reconcile, ChannelInv, TypeOK, NoViewer
<1>5. /\ removed' = removed \ {i} /\ stray' = stray \ {i} /\ UNCHANGED <<mode, current>>
      /\ late' = IF InUse(c) THEN late \ {i} ELSE late \cup {i}
  BY Zenon DEF Attach, userVars
<1>6. ViewersOpen'
  BY <1>2, <1>3, <1>4, ViewerFacts, SMTT(30) DEF ViewerInv, ViewersOpen
<1>7. LockHeld'
  BY <1>4, <1>5, ViewerFacts, SMTT(30) DEF ViewerInv, LockHeld
<1>8. AttachedThroughCurrent'
  <2> SUFFICES ASSUME NEW u \in Users, current[u] # 0, chan'[current[u]].attached
               PROVE  \/ viewers'[chan'[current[u]].id].chan = current[u]
                      \/ chan'[current[u]].id \in removed' \cup late'
    BY <1>5, Zenon DEF AttachedThroughCurrent
  <2>1. current[u] \in Channels /\ chan'[current[u]].id = chan[current[u]].id
    BY <1>3, ViewerFacts, Zenon
  <2>2. CASE chan[current[u]].id = i
    <3>1. CASE InUse(c)
      <4>1. PICK w \in Users : current[w] = c
        BY <3>1, Zenon DEF InUse
      <4>2. c # 0
        OBVIOUS
      <4>3. u = w
        BY <2>2, <4>1, <4>2, OneCurrent, Zenon
      <4> QED BY <1>4, <2>1, <2>2, <4>1, <4>3, Zenon
    <3>2. CASE ~InUse(c)
      BY <1>5, <2>1, <2>2, <3>2, Zenon
    <3> QED BY <3>1, <3>2, Zenon
  <2>3. CASE chan[current[u]].id # i
    <3>1. chan[current[u]].attached
      BY <1>3, <2>1, <2>3, Zenon
    <3>2. chan[current[u]].id \in Ids
      BY <2>1, <3>1, UsedId, Zenon DEF ChannelInv, AttachesOpen, Used
    <3>3. \/ viewers[chan[current[u]].id].chan = current[u]
          \/ chan[current[u]].id \in removed \cup late
      BY <3>1, Zenon DEF ViewerInv, AttachedThroughCurrent
    <3> QED BY <1>4, <1>5, <2>1, <2>3, <3>2, <3>3, Zenon
  <2> QED BY <2>2, <2>3, Zenon
<1> QED BY <1>6, <1>7, <1>8, Zenon DEF ViewerInv

LEMMA ResizeKeepsViewers ==
  ASSUME ChannelInv, OwnInv, ViewerInv, NEW c \in Channels, NEW s \in Sizes, Resize(c, s)
  PROVE  ViewerInv'
<1> DEFINE i == chan[c].id
<1>1. /\ Serving
      /\ \A d \in Channels : d # c => chan'[d] = chan[d]
  BY LoopsServe, Zenon
<1>2. chan'[c].attached = chan[c].attached /\ chan'[c].pc = chan[c].pc /\ chan[c].pc = "open"
  <2>1. chan \in [Channels -> ChanType]
    BY Zenon DEF ChannelInv, TypeOK, ChanType
  <2>2. PICK w : chan' = [chan EXCEPT ![c].ioctl = w]
    BY Zenon DEF Resize
  <2>3. chan[c].pc = "open"
    BY Zenon DEF Resize, Serves
  <2> QED BY <2>1, <2>2, <2>3, Zenon DEF ChanType
<1>3. i \in Ids
  BY <1>2, UsedId, Zenon DEF Used
<1>4. \A j \in Ids : /\ viewers'[j].chan = viewers[j].chan
                     /\ viewers'[j] = NoViewer <=> viewers[j] = NoViewer
  <2>1. CASE viewers[i] = NoViewer
    BY <2>1, Zenon DEF Resize, Reconcile
  <2>2. CASE viewers[i] # NoViewer
    <3>1. viewers' = [viewers EXCEPT ![i].size = s]
      BY <2>2, Zenon DEF Resize, Reconcile
    <3>2. viewers[i] \in [chan : Channels, size : Sizes]
      BY <1>3, <2>2, Zenon DEF ChannelInv, TypeOK
    <3>3. viewers'[i].chan = viewers[i].chan /\ \A j \in Ids : j # i => viewers'[j] = viewers[j]
      BY <1>3, <3>1, <3>2, Zenon DEF ChannelInv, TypeOK
    <3>4. viewers'[i] # NoViewer
      BY <3>2, <3>3, SMTT(30) DEF NoViewer
    <3> QED BY <2>2, <3>3, <3>4, Zenon
  <2> QED BY <2>1, <2>2, Zenon
<1>5. UNCHANGED <<mode, removed, late, stray, current>>
  BY Zenon DEF Resize, userVars
<1>6. \A d \in Channels : /\ chan'[d].id = chan[d].id /\ chan'[d].pc = chan[d].pc
                          /\ chan'[d].attached = chan[d].attached
  BY <1>1, <1>2, Zenon DEF Serving
<1>7. ViewersOpen'
  BY <1>4, <1>6, ViewerFacts, SMTT(30) DEF ViewerInv, ViewersOpen
<1>8. LockHeld'
  <2> SUFFICES ASSUME mode # 0
               PROVE  viewers'[mode] # NoViewer \/ mode \in removed \/ mode \in stray
    BY <1>5, Zenon DEF LockHeld
  <2>1. mode \in Ids
    BY ViewerFacts
  <2> QED BY <1>4, <2>1, Zenon DEF ViewerInv, LockHeld
<1>9. AttachedThroughCurrent'
  <2> SUFFICES ASSUME NEW v \in Users, current[v] # 0, chan'[current[v]].attached
               PROVE  \/ viewers'[chan'[current[v]].id].chan = current[v]
                      \/ chan'[current[v]].id \in removed' \cup late'
    BY <1>5, Zenon DEF AttachedThroughCurrent
  <2>1. current[v] \in Channels /\ chan[current[v]].attached
    BY <1>6, ViewerFacts, Zenon
  <2>2. chan[current[v]].id \in Ids
    BY <2>1, UsedId, Zenon DEF ChannelInv, AttachesOpen, Used
  <2> QED BY <1>4, <1>5, <1>6, <2>1, <2>2, Zenon DEF ViewerInv, AttachedThroughCurrent
<1> QED BY <1>7, <1>8, <1>9, Zenon DEF ViewerInv

(* The lock, the kick and the relay's reaping.                               *)
LEMMA LockKeepsViewers ==
  ASSUME ChannelInv, ViewerInv, NEW c \in Channels, RequestInputLock(c) \/ ReleaseInputLock(c)
  PROVE  ViewerInv'
<1>1. UNCHANGED <<chan, viewers, removed, late, current>>
  BY ZenonT(30) DEF RequestInputLock, ReleaseInputLock, userVars
<1>2. ViewersOpen' /\ AttachedThroughCurrent'
  BY <1>1, Zenon DEF ViewerInv, ViewersOpen, AttachedThroughCurrent
<1>3. LockHeld'
  <2>1. CASE ReleaseInputLock(c)
    BY <2>1, Zenon DEF ReleaseInputLock, LockHeld
  <2>2. CASE RequestInputLock(c)
    <3>1. mode' = chan[c].id /\ (viewers[chan[c].id] = NoViewer => chan[c].id \in stray')
      BY <2>2, Zenon DEF RequestInputLock
    <3> QED BY <1>1, <3>1, Zenon DEF LockHeld
  <2> QED BY <2>1, <2>2, Zenon
<1> QED BY <1>2, <1>3, Zenon DEF ViewerInv

LEMMA KickKeepsViewers ==
  ASSUME ChannelInv, ViewerInv, NEW i \in Ids, Kick(i)
  PROVE  ViewerInv'
<1>1. Leave(i) /\ removed' = removed \cup {i} /\ UNCHANGED <<chan, late, stray, current>>
  BY Zenon DEF Kick, userVars
<1>2. \A j \in Ids : viewers[j] # NoViewer => chan'[viewers[j].chan].pc = "open"
  BY <1>1, Zenon DEF ViewerInv, ViewersOpen
<1> QED BY <1>1, <1>2, LeaveKeeps, Zenon

LEMMA ReapKeepsViewers ==
  ASSUME ChannelInv, ViewerInv, NEW i \in Ids, Reap(i)
  PROVE  ViewerInv'
<1>1. /\ viewers'[i] = NoViewer /\ \A j \in Ids : j # i => viewers'[j] = viewers[j]
      /\ removed' = removed \cup {i} /\ UNCHANGED <<chan, mode, late, stray, current>>
  BY Zenon DEF Reap, ChannelInv, TypeOK, userVars
<1>2. ViewersOpen'
  BY <1>1, Zenon DEF ViewerInv, ViewersOpen
<1>3. LockHeld'
  BY <1>1, ViewerFacts DEF ViewerInv, LockHeld
<1>4. AttachedThroughCurrent'
  <2> SUFFICES ASSUME NEW v \in Users, current[v] # 0, chan[current[v]].attached
               PROVE  \/ viewers'[chan[current[v]].id].chan = current[v]
                      \/ chan[current[v]].id \in removed' \cup late
    BY <1>1, Zenon DEF AttachedThroughCurrent
  <2>1. chan[current[v]].id \in Ids
    BY ViewerFacts, UsedId, Zenon DEF ChannelInv, AttachesOpen, Used
  <2> QED BY <1>1, <2>1, Zenon DEF ViewerInv, AttachedThroughCurrent
<1> QED BY <1>2, <1>3, <1>4, Zenon DEF ViewerInv

LEMMA StepViewer == ChannelInv /\ OwnInv /\ ViewerInv /\ [Next]_vars => ViewerInv'
<1> SUFFICES ASSUME ChannelInv, OwnInv, ViewerInv, [Next]_vars PROVE ViewerInv'
  BY Zenon
<1>1. CASE IdleFires \/ UNCHANGED vars
  <2>1. UNCHANGED <<chan, viewers, mode, removed, late, stray, current>>
    BY <1>1, Zenon DEF IdleFires, vars, paneVars, userVars
  <2> QED BY <2>1, Zenon DEF ViewerInv, ViewersOpen, LockHeld, AttachedThroughCurrent
<1> QED BY <1>1, RegisterKeepsViewers, UsersKeepViewers, LoopsKeepViewers, RequestsKeepViewers,
           DetachChannelKeepsViewers, AttachKeepsViewers, ResizeKeepsViewers, LockKeepsViewers,
           KickKeepsViewers, ReapKeepsViewers, Zenon
        DEF Next, Pane

LEMMA InvariantViewer == Spec => []ViewerInv
<1>1. Init => ViewerInv
  BY Zenon DEF Init, ViewerInv, ViewersOpen, LockHeld, AttachedThroughCurrent
<1> QED BY <1>1, InvariantChannel, InvariantOwn, StepViewer, PTL DEF Spec

(* Nothing is left of a channel that has ended: no registration without a     *)
(* channel that still holds it, no viewer without an open channel, and no     *)
(* input lock without a viewer but one reaped with it or granted to a client  *)
(* that did not view the pane (release_channel: detach_channel, then         *)
(* release_connection).                                                      *)
THEOREM NoGhostsAlways == Spec => []NoGhosts
<1>1. GenInv /\ ViewerInv => NoGhosts
  BY Zenon DEF GenInv, Held, ViewerInv, ViewersOpen, LockHeld, NoGhosts
<1> QED BY <1>1, InvariantGen, InvariantViewer, PTL

(* What a client attached through the channel it uses stays attached through  *)
(* it, whichever of its older channels the daemon releases meanwhile, until   *)
(* a kick, a reap or a late Attach or Detach of an older channel takes it.    *)
THEOREM AttachedThroughCurrentAlways == Spec => []AttachedThroughCurrent
<1>1. ViewerInv => AttachedThroughCurrent
  BY Zenon DEF ViewerInv
<1> QED BY <1>1, InvariantViewer, PTL
=============================================================================
