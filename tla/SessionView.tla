---------------------------- MODULE SessionView -----------------------------
(***************************************************************************)
(* What a client makes of the daemon's sessions: the cached list, the       *)
(* session, tab and pane on screen, and the panes it is attached to         *)
(* (kmux-client/src/session_manager/), fed by the connection's forwarders   *)
(* (kmuxd/src/client_handler/session.rs).                                   *)
(*                                                                         *)
(* A client learns of every change twice, from the reply to the one who     *)
(* asked and from a broadcast; the replies, the daemon's broadcasts and     *)
(* those of the PTY registry reach it in one stream, but each of the three  *)
(* keeps only its own order.  Handlers are operators on the record of one   *)
(* client's state; `out` is what it has sent and the daemon not yet read.   *)
(***************************************************************************)
EXTENDS Sessions

VARIABLES view, slips

viewVars == <<vars, view, slips>>

NoWord == ""
NoId == <<>>

NewView == [list |-> <<>>, session |-> NoWord, tab |-> NoPane, visible |-> <<>>, pane |-> NoId,
            bufs |-> {}, sync |-> {}, pending |-> NoId, out |-> <<[q |-> "list"]>>]

EntryAt(v, w) == SelectInSeq(v.list, LAMBDA e : e.word = w)
KnowsSession(v, w) == EntryAt(v, w) # 0
EntryOf(v, w) == v.list[EntryAt(v, w)]

PaneIds(w, panes) == [i \in DOMAIN panes |-> <<w, panes[i]>>]

KnowsPane(v, id) ==
  \/ id \in v.bufs \union v.sync
  \/ KnowsSession(v, id[1]) /\ id[2] \in Range(EntryOf(v, id[1]).panes)

RequestSessionList(v) == [v EXCEPT !.out = Append(@, [q |-> "list"])]

ResyncUnlessCached_Never(v, cached) == v
ResyncUnlessCached(v, cached) == IF cached THEN v ELSE RequestSessionList(v)

ForgetPanes(v, ids) == [v EXCEPT !.bufs = @ \ ids, !.sync = @ \ ids]

EnsurePanes(v, ids) == [v EXCEPT !.bufs = @ \union ids]
-----------------------------------------------------------------------------
\* What is on screen.

\* tab_view: <<focused pane, panes in order>> of a cached tab, or <<>>.
TabView(v, w, t) ==
  IF KnowsSession(v, w) /\ HasTab(EntryOf(v, w), t)
  THEN LET tab == TabOf(EntryOf(v, w), t) IN <<tab.focus, PaneIds(w, Leaves(tab.tree))>>
  ELSE <<>>

\* The tab of the cached layouts that shows the pane, or NoPane.
LocatePane(v, id) ==
  IF KnowsSession(v, id[1]) /\ TabOfPane(EntryOf(v, id[1]), id[2]) # 0
  THEN EntryOf(v, id[1]).tabs[TabOfPane(EntryOf(v, id[1]), id[2])].idx
  ELSE NoPane

AttachFresh(v, id) ==
  [v EXCEPT !.sync = @ \union {id}, !.out = Append(@, [q |-> "attach", id |-> id])]

SetVisibleSet(v, new) ==
  LET gone == SelectSeq(v.visible, LAMBDA id : id \notin Range(new))
      fresh == SelectSeq(new, LAMBDA id : id \notin Range(v.visible))
      left_ == [v EXCEPT !.visible = new, !.sync = @ \ Range(gone),
                         !.out = @ \o [i \in DOMAIN gone |-> [q |-> "detach", id |-> gone[i]]]]
  IN  FoldSeq(LAMBDA id, u : AttachFresh(u, id), left_, fresh)

FocusFromTab(v, w, focus) ==
  [v EXCEPT !.pane = IF <<w, focus>> \in Range(v.visible) THEN <<w, focus>>
                     ELSE IF v.visible = <<>> THEN NoId ELSE v.visible[1]]

SelectSession(v, w) ==
  LET e == EntryOf(v, w)
      t == IF HasTab(e, e.active) THEN e.active ELSE IF e.tabs # <<>> THEN e.tabs[1].idx ELSE NoPane
      shown == IF t # NoPane THEN TabView(v, w, t)
               ELSE IF e.panes # <<>> THEN <<e.panes[1], <<<<w, e.panes[1]>>>>>> ELSE <<0, <<>>>>
  IN  IF ~KnowsSession(v, w) THEN v
      ELSE FocusFromTab(SetVisibleSet([v EXCEPT !.session = w, !.tab = t], shown[2]), w, shown[1])

SelectTab(v, t) ==
  LET shown == TabView(v, v.session, t)
  IN  IF shown = <<>> THEN v
      ELSE FocusFromTab(SetVisibleSet([v EXCEPT !.tab = t], shown[2]), v.session, shown[1])

\* focus_pane and select_pane call each other until the pane is on screen; with
\* the pane's tab on screen and the pane not among its visible ones they never
\* stop.
Endless(v, id) ==
  id \notin Range(v.visible) /\ v.session = id[1] /\ LocatePane(v, id) \notin {NoPane}
  /\ v.tab = LocatePane(v, id)

Focused(v, id) ==
  [v EXCEPT !.pane = id,
            !.out = IF v.session # NoWord /\ v.tab # NoPane
                    THEN Append(@, [q |-> "focus", word |-> v.session, tab |-> v.tab, pane |-> id[2]])
                    ELSE @]

\* A pane in no cached tab is attached alone.
AttachAlone(v, id) ==
  LET rest == SelectSeq(v.visible, LAMBDA x : x # id)
  IN  AttachFresh([v EXCEPT !.pane = id, !.visible = <<id>>,
                            !.out = @ \o [i \in DOMAIN rest |-> [q |-> "detach", id |-> rest[i]]]], id)

RECURSIVE SelectPane(_, _)
SelectPane(v, id) ==
  LET t == LocatePane(v, id)
      moved == IF v.session # id[1] THEN SelectSession(v, id[1])
               ELSE IF v.tab # t THEN SelectTab(v, t) ELSE v
  IN  IF t = NoPane THEN AttachAlone(v, id)
      ELSE IF id \in Range(moved.visible) THEN Focused(moved, id)
      ELSE IF Endless(moved, id) THEN moved
      ELSE SelectPane(moved, id)

FocusPane(v, id) == IF id \in Range(v.visible) THEN Focused(v, id) ELSE SelectPane(v, id)
-----------------------------------------------------------------------------
\* The daemon's messages.

FallbackPane(v) ==
  LET here == IF KnowsSession(v, v.session) THEN EntryOf(v, v.session).panes ELSE <<>>
      some == SelectInSeq(v.list, LAMBDA e : e.panes # <<>>)
  IN  IF here # <<>> THEN <<v.session, here[1]>>
      ELSE IF some # 0 THEN <<v.list[some].word, v.list[some].panes[1]>> ELSE NoId

Nowhere(v) == [v EXCEPT !.session = NoWord, !.tab = NoPane, !.pane = NoId, !.visible = <<>>]

OnPaneGone(v, id) ==
  LET gone == [ForgetPanes(v, {id}) EXCEPT
                 !.list = [i \in DOMAIN @ |-> IF @[i].word # id[1] THEN @[i]
                            ELSE [@[i] EXCEPT !.panes = SelectSeq(@, LAMBDA p : p # id[2])]],
                 !.visible = SelectSeq(@, LAMBDA x : x # id)]
      next == FallbackPane(gone)
  IN  IF ~KnowsPane(v, id) THEN v
      ELSE IF v.pane # id THEN gone
      ELSE IF gone.visible # <<>> THEN [gone EXCEPT !.pane = gone.visible[1]]
      ELSE IF next = NoId THEN Nowhere(gone)
      ELSE IF next[1] = v.session THEN SelectPane([gone EXCEPT !.tab = NoPane], next)
      ELSE SelectSession(gone, next[1])

OnSessionGone(v, w) ==
  LET e == EntryOf(v, w)
      gone == [ForgetPanes(v, {<<w, p>> : p \in Range(e.panes)}) EXCEPT
                 !.list = SelectSeq(@, LAMBDA x : x.word # w)]
  IN  IF ~KnowsSession(v, w) THEN v
      ELSE IF v.session # w THEN gone
      ELSE IF gone.list = <<>> THEN Nowhere(gone)
      ELSE SelectSession(Nowhere(gone), gone.list[1].word)

OnTabGone(v, w, t) ==
  LET at == EntryAt(v, w)
      e == v.list[at]
      tabs == SelectSeq(e.tabs, LAMBDA x : x.idx # t)
      had == IF at # 0 /\ HasTab(e, t) THEN Range(Leaves(TabOf(e, t).tree)) ELSE {}
      lost == had \ UNION {Range(Leaves(tabs[i].tree)) : i \in DOMAIN tabs}
      entry == [e EXCEPT !.tabs = tabs, !.panes = SelectSeq(@, LAMBDA p : p \notin lost),
                         !.active = IF @ # t THEN @ ELSE IF tabs = <<>> THEN 0 ELSE tabs[1].idx]
      gone == IF at = 0 THEN v
              ELSE ForgetPanes([v EXCEPT !.list[at] = entry], {<<w, p>> : p \in lost})
      blank == [gone EXCEPT !.tab = NoPane, !.visible = <<>>]
  IN  IF v.session # w \/ v.tab # t THEN gone
      ELSE IF at # 0 /\ tabs # <<>> THEN SelectTab(blank, tabs[1].idx)
      ELSE [blank EXCEPT !.pane = NoId]

\* forget_unlisted_sessions: the one on screen last.
ForgetUnlisted(v, listed) ==
  LET gone == SelectSeq(v.list, LAMBDA e : \A i \in DOMAIN listed : listed[i].word # e.word)
      order == SelectSeq(gone, LAMBDA e : e.word # v.session)
               \o SelectSeq(gone, LAMBDA e : e.word = v.session)
  IN  FoldSeq(LAMBDA e, u : OnSessionGone(u, e.word), v, order)

\* The focus is left where it is.
ReconcileViewedTab(v) ==
  LET shown == IF v.tab = NoPane THEN <<>> ELSE TabView(v, v.session, v.tab)
  IN  IF v.visible = <<>> \/ shown = <<>> THEN SelectSession(v, v.session)
      ELSE SetVisibleSet(v, shown[2])

OnSessionList(v, listed) ==
  LET kept == [ForgetUnlisted(v, listed) EXCEPT !.list = listed]
      u == EnsurePanes(kept, UNION {{<<listed[i].word, p>> : p \in Range(listed[i].panes)} :
                                      i \in DOMAIN listed})
  IN  IF u.pending # NoId
      THEN IF LocatePane(u, u.pending) = NoPane THEN u
           ELSE SelectPane([u EXCEPT !.pending = NoId], u.pending)
      ELSE IF u.session # NoWord THEN ReconcileViewedTab(u)
      ELSE IF listed # <<>> THEN SelectSession(u, listed[1].word)
      ELSE u

OnSessionCreated(v, e) ==
  SelectSession([EnsurePanes(v, {<<e.word, p>> : p \in Range(e.panes)}) EXCEPT
                   !.list = Append(@, e)], e.word)

OnPaneCreated(v, w, p) ==
  LET at == EntryAt(v, w)
      u == EnsurePanes(v, {<<w, p>>})
      listed == IF at # 0 /\ p \notin Range(v.list[at].panes)
                THEN [u EXCEPT !.list[at].panes = Append(@, p)] ELSE u
  IN  RequestSessionList([listed EXCEPT !.pending = <<w, p>>])

\* The viewed tab follows its cached layout: the end of on_layout_update and
\* on_pane_split.
FollowTab(v, w, t) ==
  LET shown == TabView(v, w, t)
  IN  IF v.session = w /\ v.tab = t /\ shown # <<>>
      THEN FocusFromTab(SetVisibleSet(v, shown[2]), w, shown[1]) ELSE v

PutLayout(v, w, t, tree, focus) ==
  LET at == EntryAt(v, w)
  IN  IF at = 0 \/ ~HasTab(v.list[at], t) THEN v
      ELSE [v EXCEPT !.list[at].tabs[TabAt(v.list[at], t)] = [@ EXCEPT !.tree = tree, !.focus = focus]]

OnLayoutUpdate(v, m) == FollowTab(PutLayout(v, m.word, m.tab, m.tree, m.focus), m.word, m.tab)

OnPaneSplit(v, m) ==
  LET at == EntryAt(v, m.word)
      u == EnsurePanes(v, {<<m.word, m.pane>>})
      listed == IF at # 0 /\ m.pane \notin Range(v.list[at].panes)
                THEN [u EXCEPT !.list[at].panes = Append(@, m.pane)] ELSE u
  IN  FollowTab(PutLayout(listed, m.word, m.tab, m.tree, m.pane), m.word, m.tab)

OnTabCreated(v, w, tab) ==
  LET at == EntryAt(v, w)
      u == IF at # 0 /\ ~HasTab(v.list[at], tab.idx)
           THEN [v EXCEPT !.list[at].tabs = Append(@, tab)] ELSE v
  IN  IF v.session = w THEN SelectTab(u, tab.idx) ELSE u

OnSessionRenamed(v, w, name) ==
  IF KnowsSession(v, w) THEN [v EXCEPT !.list[EntryAt(v, w)].name = name] ELSE v

OnTabRenamed(v, w, t, name) ==
  IF KnowsSession(v, w) /\ HasTab(EntryOf(v, w), t)
  THEN [v EXCEPT !.list[EntryAt(v, w)].tabs[TabAt(EntryOf(v, w), t)].name = name] ELSE v

OnTabsReordered(v, w, order) ==
  LET Place(tab) == IF tab.idx \in Range(order)
                    THEN SelectInSeq(order, LAMBDA t : t = tab.idx) ELSE Len(order) + 1
      Sorted(tabs) == FlattenSeq([k \in 1..Len(order) + 1 |->
                                    SelectSeq(tabs, LAMBDA x : Place(x) = k)])
  IN  IF KnowsSession(v, w) THEN [v EXCEPT !.list[EntryAt(v, w)].tabs = Sorted(@)] ELSE v

OnEventTabCreated(v, w, t) ==
  ResyncUnlessCached(v, ~KnowsSession(v, w) \/ HasTab(EntryOf(v, w), t))

\* handle_server_message, but for the frames of a pane's content (PaneStream).
Handled(v, m) ==
  CASE m.t = "list" -> OnSessionList(v, m.entries)
    [] m.t = "session_created" -> OnSessionCreated(v, m.entry)
    [] m.t = "session_closed" -> OnSessionGone(v, m.word)
    [] m.t = "pane_created" -> OnPaneCreated(v, m.word, m.pane)
    [] m.t = "pane_closed" -> OnPaneGone(v, <<m.word, m.pane>>)
    [] m.t = "layout" -> OnLayoutUpdate(v, m)
    [] m.t = "tab_created" -> OnTabCreated(v, m.word, m.made)
    [] m.t = "tab_closed" -> OnTabGone(v, m.word, m.tab)
    [] m.t = "pane_split" -> OnPaneSplit(v, m)
    [] m.t = "session_renamed" -> OnSessionRenamed(v, m.word, m.name)
    [] m.t = "tab_renamed" -> OnTabRenamed(v, m.word, m.tab, m.name)
    [] m.t = "tabs_reordered" -> OnTabsReordered(v, m.word, m.order)
    [] m.t = "ev_session_created" -> ResyncUnlessCached(v, KnowsSession(v, m.word))
    [] m.t = "ev_tab_created" -> OnEventTabCreated(v, m.word, m.tab)
    [] m.t = "ev_pane_spawned" -> ResyncUnlessCached(v, KnowsPane(v, <<m.word, m.pane>>))
-----------------------------------------------------------------------------
\* The connection between them.

\* A client that has something to receive receives it before its forwarders and
\* its task go on: a Receive that came later would commute with what they do,
\* and the moves of the user, with which it does not, are free to come first.
Drained(c) == wire[c].ctrl = <<>>

\* forward_broadcast: the next event of a lane joins the connection's queue.
Forward(c, lane) ==
  /\ Drained(c) /\ wire[c][lane] # <<>>
  /\ wire' = [wire EXCEPT ![c] = [@ EXCEPT !.ctrl = Append(@, Head(wire[c][lane])),
                                          ![lane] = Tail(@)]]
  /\ UNCHANGED <<left, daemon, ops, owed, lapses, view, slips>>

\* send_session_list, queued under the read lock.
ListNow == [t |-> "list", entries |-> LET words == SetToSortSeq(Live, LAMBDA a, b : sessions[a].index < sessions[b].index)
                                      IN  [i \in DOMAIN words |-> Entry(words[i], sessions[words[i]])]]

\* A list sent while a close has killed a pane and not yet removed it brings the
\* pane back to a client that has seen it go.
Dying == {<<"late", id[1]>> : id \in {i \in UNION {{<<w, p>> : p \in Panes(sessions[w])} : w \in Live} :
                                        i \notin manager}}

\* A pane is announced by the registry before it enters its session: a list asked
\* for on the announcement may come without it.
Unborn == \E a \in DOMAIN ops : ops[a].at = "insert"

\* The session c is about to be told it created; a list sent now has it too, and
\* on_session_created does not look.
Answering(c) ==
  {w \in Live : \/ ops[c].at \in {"restore_drop", "restore_write"} /\ ops[c].word = w
                \/ /\ ops[c].at = "tell"
                   /\ \E i \in DOMAIN ops[c].reply : /\ ops[c].reply[i].t = "session_created"
                                                     /\ ops[c].reply[i].word = w}

\* The events skipped are the end of a session or pane that is back.
Reborn(c, lane, n) ==
  \E i \in 1..n : LET m == wire[c][lane][i]
                  IN  \/ m.t = "session_closed" /\ m.word \in Live
                      \/ m.t = "pane_closed" /\ <<m.word, m.pane>> \in manager

\* A receiver that fell behind skips the oldest events, and the client is sent
\* the whole list.
Lag(c, lane, n) ==
  /\ Drained(c) /\ Spend("lag")
  /\ n \in 1..Len(wire[c][lane])
  /\ wire' = [wire EXCEPT ![c] = [@ EXCEPT !.ctrl = Append(@, ListNow),
                                          ![lane] = SubSeq(@, n + 1, Len(@))]]
  /\ lapses' = lapses \union {<<"late", w>> : w \in Answering(c)} \union Dying
  /\ slips' = slips \union {<<"skipped", c>>}
                    \union (IF Unborn THEN {<<"bare", c>>} ELSE {})
                    \union (IF Reborn(c, lane, n) THEN {<<"reborn", c>>} ELSE {})
  /\ UNCHANGED <<daemon, ops, owed, view>>

\* A word went and came back: the pane attached now is not the one the client
\* meant, whose end it has learnt since or has yet to learn.
Strays(c) ==
  LET v == view[c]
      m == Head(v.out)
  IN  /\ m.q = "attach"
      /\ \/ Waiting(c, m.id[1])
         \/ /\ m.id \notin Range(v.visible)
            /\ \A i \in 2..Len(v.out) : v.out[i].q = "detach" => v.out[i].id # m.id

\* The connection's task takes the client's next request.
Serve(c) ==
  /\ Drained(c) /\ up /\ ops[c] = Idle /\ view[c].out # <<>>
  /\ view' = [view EXCEPT ![c].out = Tail(@)]
  /\ Head(view[c].out).q # "list" => UNCHANGED lapses
  /\ LET m == Head(view[c].out)
         Watch(viewers) == /\ sessions' = [sessions EXCEPT ![m.id[1]].panes[m.id[2]] = viewers]
                           /\ UNCHANGED <<ops, wire>>
         Missing == ~(m.id[1] \in Live /\ m.id[2] \in Panes(sessions[m.id[1]]))
     IN  \/ /\ m.q = "list"
            /\ wire' = Reply(wire, c, ListNow)
            /\ lapses' = lapses \union Dying
            /\ UNCHANGED <<sessions, ops>>
         \/ /\ m.q \in {"attach", "detach"} /\ Missing
            /\ UNCHANGED <<sessions, ops, wire>>
         \/ /\ m.q = "attach" /\ ~Missing
            /\ Watch(sessions[m.id[1]].panes[m.id[2]] \union {c})
         \/ /\ m.q = "detach" /\ ~Missing
            /\ Watch(sessions[m.id[1]].panes[m.id[2]] \ {c})
         \/ /\ m.q = "focus" /\ ~(m.word \in Live /\ HasTab(sessions[m.word], m.tab))
            /\ UNCHANGED <<sessions, ops, wire>>
         \/ /\ m.q = "focus" /\ m.word \in Live /\ HasTab(sessions[m.word], m.tab) /\ WriteLock
            /\ LET tab == FocusedTab(sessions[m.word], m.tab, m.pane)
               IN  /\ sessions' = PutTab(m.word, m.tab, tab)
                   /\ ops' = [ops EXCEPT ![c] = Told(<<>>, <<LayoutUpdate(m.word, tab)>>)]
            /\ UNCHANGED wire
  /\ slips' = slips \union (IF Strays(c) THEN {<<"stray", c>>} ELSE {})
                    \union (IF Head(view[c].out).q = "list" /\ Unborn THEN {<<"bare", c>>} ELSE {})
  /\ UNCHANGED <<left, manager, pool, closed, disk, up, owed>>

\* A pane was attached from its layout before it was listed; the event of its
\* spawn then finds it known and asks for no list.
Bare(v) ==
  \E id \in v.sync : KnowsSession(v, id[1]) /\ id[2] \notin Range(EntryOf(v, id[1]).panes)

\* The last pane known of the session on screen went, though the session did not.
Blank(before, after) == before.session # NoWord /\ after.session = NoWord /\ after.list # <<>>

Receive(c) ==
  /\ wire[c].ctrl # <<>>
  /\ wire' = [wire EXCEPT ![c].ctrl = Tail(@)]
  /\ view' = [view EXCEPT ![c] = Handled(@, Head(wire[c].ctrl))]
  /\ slips' = slips \union (IF Bare(view'[c]) THEN {<<"bare", c>>} ELSE {})
                    \union (IF Blank(view[c], view'[c]) THEN {<<"blank", c>>} ELSE {})
  /\ UNCHANGED <<left, daemon, ops, owed, lapses>>

\* The element of a ring `step` after the given one, or after the first.
Around(ring, x, step) ==
  LET at == SelectInSeq(ring, LAMBDA y : y = x)
  IN  ring[(((IF at = 0 THEN 0 ELSE at - 1) + step) % Len(ring)) + 1]

CycleSession(v, step) ==
  IF v.list = <<>> THEN v
  ELSE SelectSession(v, Around([i \in DOMAIN v.list |-> v.list[i].word], v.session, step))

CycleTab(v, step) ==
  IF ~KnowsSession(v, v.session) THEN v
  ELSE LET tabs == TabIndices(EntryOf(v, v.session))
       IN  IF tabs = <<>> THEN v ELSE SelectTab(v, Around(tabs, v.tab, step))

\* The panes of the session as they are listed.
NextPane(v, step) ==
  LET panes == IF KnowsSession(v, v.session) THEN EntryOf(v, v.session).panes ELSE <<>>
  IN  IF panes = <<>> THEN NoId ELSE Around(PaneIds(v.session, panes), v.pane, step)

\* The panes of the tab on screen as its layout shows them.
NextPaneInTab(v, step) ==
  LET shown == IF v.session = NoWord \/ v.tab = NoPane THEN <<>> ELSE TabView(v, v.session, v.tab)
  IN  IF shown = <<>> THEN NoId ELSE Around(shown[2], v.pane, step)

\* The user moves on or back: the session, the tab, the pane.
Look(c) ==
  /\ Spend("look")
  /\ \E step \in {1, -1} :
       LET v == view[c]
           Moves(u) == view' = [view EXCEPT ![c] = u]
           listed == NextPane(v, step)
           shown == NextPaneInTab(v, step)
       IN  \/ Moves(CycleSession(v, step)) /\ UNCHANGED slips
           \/ Moves(CycleTab(v, step)) /\ UNCHANGED slips
           \/ /\ listed # NoId
              /\ Moves(SelectPane(v, listed))
              /\ slips' = IF Endless(v, listed) THEN slips \union {<<"hung", c>>} ELSE slips
           \/ /\ shown # NoId
              /\ Moves(FocusPane(v, shown))
              /\ slips' = IF Endless(v, shown) THEN slips \union {<<"hung", c>>} ELSE slips
  /\ UNCHANGED <<daemon, ops, wire, owed, lapses>>

Hung(c) == <<"hung", c>> \in slips

Client(c) ==
  /\ ~Hung(c)
  /\ \/ \E lane \in {"vt", "pty"} : Forward(c, lane)
     \/ \E lane \in {"vt", "pty"}, n \in 1..4 : Lag(c, lane, n)
     \/ Serve(c) \/ Receive(c) \/ Look(c)

ViewNext ==
  /\ \/ Step /\ UNCHANGED <<view, slips>>
     \/ \E c \in DOMAIN view : Client(c)
  /\ UNCHANGED scenario

ViewInit ==
  /\ Init
  /\ view = [c \in DOMAIN wire |-> IF scenario.events["join"] > 0 THEN NewView
                                  ELSE [Handled(NewView, ListNow) EXCEPT !.out = <<>>]]
  /\ slips = {}

ViewSpec == ViewInit /\ [][ViewNext]_viewVars
-----------------------------------------------------------------------------
\* Nothing is on its way to or from a client that still runs.
Settled(c) ==
  /\ \A a \in Tasks : ops[a] = Idle
  /\ ~Hung(c) /\ view[c].out = <<>>
  /\ wire[c] = [ctrl |-> <<>>, vt |-> <<>>, pty |-> <<>>]

\* No message about session w was overtaken by a later change of it (Late, Dying,
\* Answering), and no pane was being added to it when it was closed.
Sound(w) == ~Known("late", w) /\ ~Known("stray_pty", w)
AllSound == \A w \in Words : Sound(w)

Slipped(what, c) == <<what, c>> \in slips

Viewed(c) == {id \in UNION {{<<w, p>> : p \in Panes(sessions[w])} : w \in Live} :
                c \in sessions[id[1]].panes[id[2]]}

Lists(v, w) ==
  IF w \notin Live THEN ~KnowsSession(v, w)
  ELSE /\ Cardinality({i \in DOMAIN v.list : v.list[i].word = w}) = 1
       /\ EntryOf(v, w).name = sessions[w].name
       /\ EntryOf(v, w).tabs = sessions[w].tabs
       /\ Range(EntryOf(v, w).panes) \subseteq Panes(sessions[w])

Shows(c) ==
  LET v == view[c]
      layout == PaneIds(v.session, Leaves(TabOf(sessions[v.session], v.tab).tree))
      attached == {id \in Viewed(c) : Sound(id[1])}
  IN  /\ v.session \in Live /\ HasTab(sessions[v.session], v.tab)
      /\ v.visible = layout /\ Range(layout) \subseteq v.sync
      /\ Slipped("reborn", c) \/ Range(layout) \subseteq attached
      /\ Slipped("stray", c) \/ attached \subseteq Range(layout)

\* At rest a client lists the daemon's sessions, each once, with their names, tabs,
\* layouts, focus and panes; shows a tab that exists, attached to exactly the panes of
\* its layout, or nothing when there is no session; and types into a pane it shows --
\* in every order of the replies and the two broadcasts and whatever a lag skipped,
\* with these exceptions, which the code does meet:
\*  - a session that is not Sound: a message that says what was true before a change
\*    that had been told already is believed;
\*  - "bare": a pane attached from a layout, or missing from a list because it was
\*    not yet in its session, stays out of the list of that session's panes;
\*  - "blank": the last pane the client knew of the session on screen ended, though
\*    the session did not, and the client shows nothing;
\*  - "stray": an attach for a pane of a word that went and came back is served
\*    after the client has left it, and nobody detaches it;
\*  - "reborn": a lag skipped the end of a session or pane that is back, and the list
\*    that makes up for it looks as if nothing had happened: the client stays
\*    detached from what it shows;
\*  - "skipped": reconcile_viewed_tab leaves the focus on a pane that is gone when
\*    its list makes up for an event that was skipped.
\* A session that is not Sound excuses what is listed and shown of that session
\* alone, unless nothing is on screen.
ClientFollows ==
  \A c \in DOMAIN view : Settled(c) =>
    LET v == view[c]
    IN  /\ \A w \in Words : Sound(w) =>
             /\ Lists(v, w)
             /\ w \in Live => \/ Slipped("bare", c)
                             \/ Panes(sessions[w]) \subseteq Range(EntryOf(v, w).panes)
        /\ ~Sound(v.session) \/
             IF v.session # NoWord THEN Shows(c)
             ELSE v.visible = <<>> /\ (Live = {} \/ Slipped("blank", c) \/ ~AllSound)
        /\ Slipped("skipped", c) \/ ~Sound(v.session) \/
             v.pane \in Range(v.visible) \union (IF v.visible = <<>> THEN {NoId} ELSE {})
=============================================================================
