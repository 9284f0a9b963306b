------------------------------ MODULE Sessions ------------------------------
(***************************************************************************)
(* The daemon's session store: kmuxd/src/app/{crud,tab_crud,pane_crud,      *)
(* graveyard,restore,persistence}.rs and the handlers that call them        *)
(* (client_handler/dispatch/{session,tab,pane,layout}.rs).                  *)
(*                                                                         *)
(* A connection serves one request at a time, so every actor has at most    *)
(* one operation in flight; `ops` holds what its task has in hand between   *)
(* two awaits.  A step of an operation is what it does under one lock or    *)
(* between two awaits: the `sessions` write lock makes a change atomic,     *)
(* spawning and killing PTYs, writing a file and telling the clients are    *)
(* outside of it.                                                           *)
(***************************************************************************)
EXTENDS Layout, TLC

CONSTANTS
  Words,          \* the word list
  Actors,         \* the connections
  Watchers,       \* the connections whose client is followed (SessionView)
  MaxSessions,    \* super::MAX_SESSIONS
  ClosedKeep,     \* closed_session_keep
  Scenarios

VARIABLES
  scenario,
  left,           \* how often each kind of event may still happen
  sessions,       \* ServerApp::sessions
  manager,        \* the PTY registry: <<word, pane index>>
  pool,           \* WordlistSampler::available, as how often a word is in it
  closed,         \* ServerApp::closed_sessions, oldest first
  disk,           \* closed.bin and the checkpoint
  up,             \* whether the daemon runs
  ops,            \* what each connection's task and the checkpoint loop have in hand
  wire,           \* what is on its way to each followed client, by lane
  owed,           \* words whose close was told to be durable and not taken back
  lapses          \* races the code is known to lose, by the word they hit

daemon == <<sessions, manager, pool, closed, disk, up>>
vars == <<scenario, left, daemon, ops, wire, owed, lapses>>

Idle == [at |-> "idle"]
Tick == "checkpoint_loop"
Tasks == Actors \union {Tick}
Live == DOMAIN sessions
ClosedWords == {closed[i].word : i \in DOMAIN closed}
SavedWords == {disk.closed[i].word : i \in DOMAIN disk.closed}

Spend(what) == /\ left[what] > 0
               /\ left' = [left EXCEPT ![what] = @ - 1]

\* A read guard is held while the graveyard file of a close is written; a write
\* guard has to wait for it.
WriteLock == \A a \in Actors : ops[a].at # "close_write"

Tab(idx, name, tree, focus) == [idx |-> idx, name |-> name, tree |-> tree, focus |-> focus]

TabAt(s, t) == SelectInSeq(s.tabs, LAMBDA x : x.idx = t)
HasTab(s, t) == TabAt(s, t) # 0
TabOf(s, t) == s.tabs[TabAt(s, t)]

\* SessionState::tab_of_pane: the position of the tab that shows the pane, or 0.
TabOfPane(s, p) == SelectInSeq(s.tabs, LAMBDA x : p \in Range(Leaves(x.tree)))

TabIndices(s) == [i \in DOMAIN s.tabs |-> s.tabs[i].idx]

\* The wire form of a session: build_session_entry.
Entry(w, s) == [word |-> w, name |-> s.name, panes |-> SetToSortSeq(DOMAIN s.panes, <),
                tabs |-> s.tabs, active |-> s.active]

\* What snapshot_session keeps of a session: no relay, so no viewer either.
Snapshot(s) == [s EXCEPT !.panes = [p \in DOMAIN @ |-> {}]]

\* session_index_counter: one more for every session created.
SessionCounter == Cardinality(DOMAIN scenario.start) + scenario.events["create"] - left["create"]

NewSession(index) ==
  [index |-> index, name |-> "base", panes |-> (0 :> {}), next_pane |-> 1,
   tabs |-> <<Tab(0, "base", Leaf(0), 0)>>, next_tab |-> 1, active |-> 0]
-----------------------------------------------------------------------------
\* Telling the clients.  A reply goes straight to the requester's control
\* queue; a broadcast waits in every connection's receiver (lane "vt"), and
\* what the PTY registry emits in another one (lane "pty").

Reply(wr, a, m) ==
  IF a \in DOMAIN wr THEN [wr EXCEPT ![a].ctrl = Append(@, m)] ELSE wr

Broadcast(wr, lane, m) == [c \in DOMAIN wr |-> [wr[c] EXCEPT ![lane] = Append(@, m)]]

Spawned(wr, w, p) == Broadcast(wr, "pty", [t |-> "ev_pane_spawned", word |-> w, pane |-> p])
Killed(wr, w, p) == Broadcast(wr, "pty", [t |-> "pane_closed", word |-> w, pane |-> p])

Told(reply, cast) == [at |-> "tell", reply |-> reply, cast |-> cast]

LayoutUpdate(w, tab) ==
  [t |-> "layout", word |-> w, tab |-> tab.idx, tree |-> tab.tree, focus |-> tab.focus]

\* The end of every handler: the reply first, then the broadcast, both after the
\* lock is gone.
Stale(m) ==
  LET gone == m.word \notin DOMAIN sessions
      s == sessions[m.word]
      TabIs(tab) == ~gone /\ HasTab(s, tab.idx) /\ TabOf(s, tab.idx) = tab
      Laid(t, tree, focus) == ~gone /\ HasTab(s, t) /\ TabOf(s, t).tree = tree /\ TabOf(s, t).focus = focus
  IN  CASE m.t = "session_created" -> gone \/ Entry(m.word, s) # m.entry
        [] m.t = "tab_created" -> ~TabIs(m.made)
        [] m.t = "pane_split" -> ~Laid(m.tab, m.tree, m.pane)
        [] m.t = "layout" -> ~Laid(m.tab, m.tree, m.focus)
        [] m.t = "tab_closed" -> ~gone /\ HasTab(s, m.tab)
        [] m.t = "session_closed" -> ~gone
        [] m.t = "session_renamed" -> ~gone /\ s.name # m.name
        [] m.t = "tab_renamed" -> ~gone /\ HasTab(s, m.tab) /\ TabOf(s, m.tab).name # m.name
        [] m.t = "tabs_reordered" -> ~gone /\ TabIndices(s) # m.order
        [] OTHER -> FALSE

Waiting(c, w) == \E lane \in {"vt", "pty"} : \E i \in DOMAIN wire[c][lane] : wire[c][lane][i].word = w

\* The panes a message brings that the registry has closed by now.
Dead(m) ==
  {p \in CASE m.t = "session_created" -> Range(m.entry.panes)
           [] m.t = "tab_created" -> Range(Leaves(m.made.tree))
           [] m.t = "pane_split" -> {m.pane}
           [] OTHER -> {} : <<m.word, p>> \notin manager}

\* Words of which a is about to speak out of turn: what it says is overtaken by a
\* change that nobody is still to tell or by the end of a pane it brings, or the
\* reply that a session is back overtakes the events of its end.
Late(a) ==
  LET said == ops[a].reply \o ops[a].cast
      Overtaken(m) == /\ Stale(m)
                      /\ \A b \in DOMAIN ops \ {a} :
                           ops[b].at = "tell" /\ m.t # "session_closed" =>
                           \A k \in DOMAIN ops[b].cast : ops[b].cast[k].word # m.word
      Overtakes(m) == m.t = "session_created" /\ a \in DOMAIN wire /\ Waiting(a, m.word)
  IN  {said[i].word : i \in {j \in DOMAIN said :
         Overtaken(said[j]) \/ Overtakes(said[j]) \/ Dead(said[j]) # {}}}

Tell(a) ==
  /\ ops[a].at = "tell"
  /\ ops' = [ops EXCEPT ![a] = Idle]
  /\ wire' = FoldSeq(LAMBDA m, wr : Broadcast(wr, "vt", m),
                     FoldSeq(LAMBDA m, wr : Reply(wr, a, m), wire, ops[a].reply),
                     ops[a].cast)
  /\ lapses' = IF wire = <<>> THEN lapses ELSE lapses \union {<<"late", w>> : w \in Late(a)}
  /\ UNCHANGED <<left, daemon, owed>>
-----------------------------------------------------------------------------
\* WordlistSampler

Draw(w) == /\ pool[w] > 0
           /\ pool' = [pool EXCEPT ![w] = @ - 1]

Release(pl, w) == [pl EXCEPT ![w] = @ + 1]

Evicted(pl, gone) == FoldSeq(LAMBDA c, rest : Release(rest, c.word), pl, gone)

-----------------------------------------------------------------------------
\* Creating: a session, a tab, a pane beside another.  The indices are
\* reserved under the lock, the PTY is spawned without it, and the pane enters
\* the session under the lock again.

CreateSession(a) ==
  /\ up /\ ops[a] = Idle
  /\ Spend("create")
  /\ Cardinality(Live) < MaxSessions
  /\ \E w \in Words :
       /\ Draw(w)
       /\ ops' = [ops EXCEPT ![a] = [at |-> "spawn", what |-> "session", word |-> w, pane |-> 0,
                                     index |-> SessionCounter]]
  /\ UNCHANGED <<sessions, manager, closed, disk, up, wire, owed, lapses>>

\* create_tab, for a tab (TabCreate) or in the older form that names the pane
\* (PaneCreate): the two differ in the reply alone.
CreateTab(a, w, legacy) ==
  /\ up /\ ops[a] = Idle /\ WriteLock
  /\ Spend("tab")
  /\ LET s == sessions[w]
     IN  /\ sessions' = [sessions EXCEPT ![w].next_pane = @ + 1, ![w].next_tab = @ + 1]
         /\ ops' = [ops EXCEPT ![a] = [at |-> "spawn", what |-> "tab", word |-> w,
                                       pane |-> s.next_pane, tab |-> s.next_tab,
                                       legacy |-> legacy]]
  /\ UNCHANGED <<manager, pool, closed, disk, up, wire, owed, lapses>>

SplitPane(a, w, t, from, dir) ==
  /\ up /\ ops[a] = Idle /\ WriteLock
  /\ Spend("split")
  /\ HasTab(sessions[w], t)
  /\ from \in Range(Leaves(TabOf(sessions[w], t).tree))
  /\ sessions' = [sessions EXCEPT ![w].next_pane = @ + 1]
  /\ ops' = [ops EXCEPT ![a] = [at |-> "spawn", what |-> "split", word |-> w, tab |-> t,
                                pane |-> sessions[w].next_pane, from |-> from, dir |-> dir]]
  /\ UNCHANGED <<manager, pool, closed, disk, up, wire, owed, lapses>>

\* spawn_pane_relay through the PTY registry, which refuses a name it has.
SpawnOk(a) ==
  /\ ops[a].at = "spawn"
  /\ <<ops[a].word, ops[a].pane>> \notin manager
  /\ manager' = manager \union {<<ops[a].word, ops[a].pane>>}
  /\ ops' = [ops EXCEPT ![a].at = "insert"]
  /\ wire' = Spawned(wire, ops[a].word, ops[a].pane)
  /\ UNCHANGED <<left, sessions, pool, closed, disk, up, owed, lapses>>

\* The request is answered with an error.  create_session keeps the word it drew.
SpawnFails(a) ==
  /\ ops[a].at = "spawn"
  /\ \/ Spend("fail")
     \/ <<ops[a].word, ops[a].pane>> \in manager /\ UNCHANGED left
  /\ ops' = [ops EXCEPT ![a] = Idle]
  /\ lapses' = IF ops[a].what = "session"
               THEN lapses \union {<<"word_leaked", ops[a].word>>} ELSE lapses
  /\ UNCHANGED <<daemon, wire, owed>>

InsertSession(a) ==
  /\ ops[a].at = "insert" /\ ops[a].what = "session" /\ WriteLock
  /\ LET w == ops[a].word
         new == NewSession(ops[a].index)
     IN  /\ sessions' = (w :> new) @@ sessions
         /\ ops' = [ops EXCEPT ![a] =
              Told(<<[t |-> "session_created", word |-> w, entry |-> Entry(w, new)]>>,
                   <<[t |-> "ev_session_created", word |-> w]>>)]
  /\ UNCHANGED <<left, manager, pool, closed, disk, up, wire, owed, lapses>>

\* The session is gone: an error, and the PTY stays in the registry.
InsertTooLate(a) ==
  /\ ops[a].at = "insert" /\ ops[a].what # "session" /\ WriteLock
  /\ ops[a].word \notin Live
  /\ ops' = [ops EXCEPT ![a] = Idle]
  /\ lapses' = lapses \union {<<"stray_pty", ops[a].word>>}
  /\ UNCHANGED <<left, daemon, wire, owed>>

InsertTab(a) ==
  /\ ops[a].at = "insert" /\ ops[a].what = "tab" /\ WriteLock
  /\ ops[a].word \in Live
  /\ LET w == ops[a].word
         tab == Tab(ops[a].tab, "base", Leaf(ops[a].pane), ops[a].pane)
         reply == IF ops[a].legacy THEN [t |-> "pane_created", word |-> w, pane |-> ops[a].pane]
                  ELSE [t |-> "tab_created", word |-> w, made |-> tab]
     IN  /\ sessions' = [sessions EXCEPT ![w].panes = (ops[a].pane :> {}) @@ @,
                                         ![w].tabs = Append(@, tab)]
         /\ ops' = [ops EXCEPT ![a] =
              Told(<<reply>>, <<[t |-> "ev_tab_created", word |-> w, tab |-> tab.idx]>>)]
  /\ UNCHANGED <<left, manager, pool, closed, disk, up, wire, owed, lapses>>

\* The pane enters `panes` before its tab is looked up; when the tab is gone the
\* handler errors and the pane stays, in no tab.
InsertSplit(a) ==
  /\ ops[a].at = "insert" /\ ops[a].what = "split" /\ WriteLock
  /\ ops[a].word \in Live
  /\ LET w == ops[a].word
         new == ops[a].pane
         s == [sessions[w] EXCEPT !.panes = (new :> {}) @@ @]
         at == TabAt(s, ops[a].tab)
         old == s.tabs[at]
         target == IF ops[a].from \in Range(Leaves(old.tree)) THEN ops[a].from ELSE old.focus
         tab == [old EXCEPT !.tree = SplitLeaf(@, target, new, ops[a].dir), !.focus = new]
     IN  IF at = 0
         THEN /\ sessions' = [sessions EXCEPT ![w] = s]
              /\ ops' = [ops EXCEPT ![a] = Idle]
              /\ lapses' = lapses \union {<<"stray_pane", w>>}
         ELSE /\ sessions' = [sessions EXCEPT ![w] = [s EXCEPT !.tabs[at] = tab]]
              /\ ops' = [ops EXCEPT ![a] =
                   Told(<<[t |-> "pane_split", word |-> w, tab |-> tab.idx,
                           pane |-> new, tree |-> tab.tree]>>,
                        <<LayoutUpdate(w, tab)>>)]
              /\ UNCHANGED lapses
  /\ UNCHANGED <<left, manager, pool, closed, disk, up, wire, owed>>
-----------------------------------------------------------------------------
\* Nudging a layout: reorder, rename, swap, weights, scheme, focus.  One change
\* under the lock; the tree that is told is the one captured there.

Nudge(a, w, s, cast) ==
  /\ up /\ ops[a] = Idle /\ WriteLock
  /\ Spend("nudge")
  /\ sessions' = [sessions EXCEPT ![w] = s]
  /\ ops' = [ops EXCEPT ![a] = Told(<<>>, <<cast>>)]
  /\ UNCHANGED <<manager, pool, closed, disk, up, wire, owed, lapses>>

ReorderTab(a, w, t, pos) ==
  LET s == sessions[w]
      at == TabAt(s, t)
      rest == RemoveAt(s.tabs, at)
      moved == [s EXCEPT !.tabs = InsertAt(rest, Min({pos, Len(rest)}) + 1, @[at])]
  IN  Nudge(a, w, moved, [t |-> "tabs_reordered", word |-> w, order |-> TabIndices(moved)])

RenameTab(a, w, t, name) ==
  Nudge(a, w, [sessions[w] EXCEPT !.tabs[TabAt(sessions[w], t)].name = name],
        [t |-> "tab_renamed", word |-> w, tab |-> t, name |-> name])

RenameSession(a, w, name) ==
  Nudge(a, w, [sessions[w] EXCEPT !.name = name],
        [t |-> "session_renamed", word |-> w, name |-> name])

\* answer_layout_change after one of the four tree mutations.
PutTab(w, t, tab) == [sessions EXCEPT ![w].tabs[TabAt(sessions[w], t)] = tab]

NudgeTree(a, w, t, tab) == Nudge(a, w, PutTab(w, t, tab)[w], LayoutUpdate(w, tab))

SwapPanes(a, w, t, p, q) ==
  NudgeTree(a, w, t, [TabOf(sessions[w], t) EXCEPT !.tree = Swap(@, p, q)])

SetLayoutRatios(a, w, t, path, ratios) ==
  NudgeTree(a, w, t, [TabOf(sessions[w], t) EXCEPT !.tree = SetRatios(@, path, ratios)])

ApplyLayoutScheme(a, w, t, scheme) ==
  NudgeTree(a, w, t, [TabOf(sessions[w], t) EXCEPT !.tree = ApplyScheme(Leaves(@), scheme)])

FocusedTab(s, t, p) ==
  [TabOf(s, t) EXCEPT !.focus = IF p \in Range(Leaves(TabOf(s, t).tree)) THEN p ELSE @]

SetTabFocus(a, w, t, p) == NudgeTree(a, w, t, FocusedTab(sessions[w], t, p))
-----------------------------------------------------------------------------
\* Closing a pane or a tab.  The PTYs are killed first; the pane and its leaf
\* go together under the lock, and the last tab takes the session with it.

ClosePane(a, w, p) ==
  /\ up /\ ops[a] = Idle
  /\ Spend("close_pane")
  /\ <<w, p>> \in manager
  /\ manager' = manager \ {<<w, p>>}
  /\ sessions' = IF w \in Live /\ p \in DOMAIN sessions[w].panes
                 THEN [sessions EXCEPT ![w].panes[p] = {}] ELSE sessions
  /\ ops' = [ops EXCEPT ![a] = [at |-> "remove_pane", word |-> w, pane |-> p]]
  /\ wire' = Killed(wire, w, p)
  /\ UNCHANGED <<pool, closed, disk, up, owed, lapses>>

Without(f, S) == [x \in DOMAIN f \ S |-> f[x]]

\* Session s after the tab at `at` was dropped from it.
DropTab(s, at) ==
  LET tabs == RemoveAt(s.tabs, at)
      active == IF s.active # s.tabs[at].idx THEN s.active
                ELSE IF tabs = <<>> THEN 0 ELSE tabs[1].idx
  IN  [s EXCEPT !.tabs = tabs, !.active = active]

PaneRemoved(s, p) == [s EXCEPT !.panes = Without(@, {p})]

Collapse_KeepsFocus(s, at, p) == [s EXCEPT !.tabs[at].tree = RemovePane(@, p)]

\* Session s after the leaf of pane p was collapsed in the tab at `at`.
Collapse(s, at, p) ==
  LET tab == s.tabs[at]
      tree == RemovePane(tab.tree, p)
      next == NextFocusAfterRemoval(tab.tree, p)
      focus == IF tab.focus # p THEN tab.focus
               ELSE IF next # NoPane THEN next ELSE Head(Leaves(tree))
  IN  [s EXCEPT !.tabs[at] = [tab EXCEPT !.tree = tree, !.focus = focus]]

\* Session w, of which s is left, leaves the map and its word goes back to the pool.
Drain(w, s) ==
  /\ sessions' = Without(sessions, {w})
  /\ pool' = Release(pool, w)
  /\ lapses' = lapses
       \union (IF w \in ClosedWords THEN {<<"drained", w>>} ELSE {})
       \union (IF \E p \in DOMAIN s.panes : <<w, p>> \in manager
               THEN {<<"stray_pty", w>>} ELSE {})

RemoveClosedPane(a) ==
  /\ ops[a].at = "remove_pane" /\ WriteLock
  /\ LET w == ops[a].word
         p == ops[a].pane
         s == PaneRemoved(sessions[w], p)
         at == TabOfPane(s, p)
         End(cast) == ops' = [ops EXCEPT ![a] =
                        Told(<<[t |-> "pane_closed", word |-> w, pane |-> p]>>, cast)]
         Keep(t) == /\ sessions' = [sessions EXCEPT ![w] = t]
                    /\ UNCHANGED <<pool, lapses>>
         LastOne == Len(Leaves(s.tabs[at].tree)) <= 1
     IN  \/ /\ w \notin Live
            /\ End(<<>>)
            /\ UNCHANGED <<sessions, pool, lapses>>
         \/ /\ w \in Live /\ at = 0 /\ DOMAIN s.panes # {}
            /\ Keep(s)
            /\ End(<<>>)
         \/ /\ w \in Live
            /\ IF at = 0 THEN DOMAIN s.panes = {} ELSE LastOne /\ Len(s.tabs) = 1
            /\ Drain(w, s)
            /\ End(<<[t |-> "session_closed", word |-> w]>>)
         \/ /\ w \in Live /\ at # 0 /\ LastOne /\ Len(s.tabs) > 1
            /\ Keep(DropTab(s, at))
            /\ End(<<[t |-> "tab_closed", word |-> w, tab |-> s.tabs[at].idx]>>)
         \/ /\ w \in Live /\ at # 0 /\ ~LastOne
            /\ Keep(Collapse(s, at, p))
            /\ End(<<LayoutUpdate(w, Collapse(s, at, p).tabs[at])>>)
  /\ UNCHANGED <<left, manager, closed, disk, up, wire, owed>>

CloseTab(a, w, t) ==
  /\ up /\ ops[a] = Idle
  /\ Spend("close_tab")
  /\ HasTab(sessions[w], t)
  /\ LET panes == Leaves(TabOf(sessions[w], t).tree)
     IN  ops' = [ops EXCEPT ![a] = [at |-> "kill", then |-> "remove_tab", word |-> w, tab |-> t,
                                    panes |-> Range(panes), todo |-> Range(panes)]]
  /\ UNCHANGED <<daemon, wire, owed, lapses>>

Kill_Forgets(a, p) ==
  /\ ops[a].at = "kill"
  /\ p \in ops[a].todo
  /\ ops' = [ops EXCEPT ![a].todo = {}, ![a].at = ops[a].then]
  /\ UNCHANGED <<left, daemon, wire, owed, lapses>>

\* One pane of a close after the other: close_nowait on the registry, whose
\* refusal is ignored.
Kill(a, p) ==
  /\ ops[a].at = "kill"
  /\ p \in ops[a].todo
  /\ LET w == ops[a].word
         todo == ops[a].todo \ {p}
     IN  /\ manager' = manager \ {<<w, p>>}
         /\ wire' = IF <<w, p>> \in manager THEN Killed(wire, w, p) ELSE wire
         /\ sessions' = IF w \in Live /\ p \in DOMAIN sessions[w].panes
                           /\ ops[a].then = "remove_tab"
                        THEN [sessions EXCEPT ![w].panes[p] = {}] ELSE sessions
         /\ ops' = [ops EXCEPT ![a].todo = todo,
                               ![a].at = IF todo = {} THEN ops[a].then ELSE @]
  /\ UNCHANGED <<left, pool, closed, disk, up, owed, lapses>>

\* Only the panes collected before the kills leave the session: one that was
\* split into the tab meanwhile stays, in no tab.
RemoveTab(a) ==
  /\ ops[a].at = "remove_tab" /\ WriteLock
  /\ LET w == ops[a].word
         t == ops[a].tab
         s == [sessions[w] EXCEPT !.panes = Without(@, ops[a].panes)]
         at == TabAt(s, t)
         gone == IF at = 0 THEN s ELSE DropTab(s, at)
         End(m) == ops' = [ops EXCEPT ![a] =
                     Told(<<[t |-> "tab_closed", word |-> w, tab |-> t]>>, <<m>>)]
         Closed == [t |-> "session_closed", word |-> w]
         stray == IF at # 0 /\ Range(Leaves(s.tabs[at].tree)) \cap DOMAIN s.panes # {}
                  THEN {<<"stray_pane", w>>} ELSE {}
     IN  \/ /\ w \notin Live
            /\ End(Closed)
            /\ UNCHANGED <<sessions, pool, lapses>>
         \/ /\ w \in Live /\ gone.tabs = <<>>
            /\ Drain(w, s)
            /\ End(Closed)
         \/ /\ w \in Live /\ gone.tabs # <<>>
            /\ sessions' = [sessions EXCEPT ![w] = gone]
            /\ End([t |-> "tab_closed", word |-> w, tab |-> t])
            /\ lapses' = lapses \union stray
            /\ UNCHANGED pool
  /\ UNCHANGED <<left, manager, closed, disk, up, wire, owed>>
-----------------------------------------------------------------------------
\* The graveyard of closed sessions.

\* prune_graveyard: the `aged` oldest entries are past the TTL, and at most
\* ClosedKeep of the others stay.  The words of the evicted are released.
Pruned(list, aged) == Max({aged, Len(list) - ClosedKeep, 0})

PruneTo(list, cut) ==
  /\ closed' = SubSeq(list, cut + 1, Len(list))
  /\ pool' = Evicted(pool, SubSeq(list, 1, cut))
  /\ owed' = owed \ {list[i].word : i \in 1..cut}
  /\ lapses' = lapses \union
       {<<"evicted", list[i].word>> : i \in
          {j \in 1..cut : \/ list[j].word \in Live
                          \/ \E k \in cut + 1..Len(list) : list[k].word = list[j].word
                          \/ \E k \in 1..j - 1 : list[k].word = list[j].word
                          \/ \E b \in Actors : /\ ops[b].at \in {"restore", "restore_insert"}
                                               /\ ops[b].word = list[j].word}}

Aged == {0} \union (IF left["age"] > 0 THEN 1..Len(closed) ELSE {})

SpendAge(aged) == [left EXCEPT !["age"] = IF aged > 0 THEN @ - 1 ELSE @]

\* close_session up to the end of its read guard: the snapshot is pushed, the
\* caps are applied, and the list to persist is cloned, before any PTY is killed.
CloseSession(a, w) ==
  /\ up /\ ops[a] = Idle
  /\ left["close"] > 0
  /\ LET list == Append(closed, [word |-> w, session |-> Snapshot(sessions[w])])
     IN  \E aged \in Aged :
           /\ left' = [SpendAge(aged) EXCEPT !["close"] = @ - 1]
           /\ PruneTo(list, Pruned(list, aged))
  /\ ops' = [ops EXCEPT ![a] = [at |-> "close_write", word |-> w, image |-> closed',
                                panes |-> DOMAIN sessions[w].panes]]
  /\ UNCHANGED <<sessions, manager, disk, up, wire>>

Persist_Skips(image) == UNCHANGED <<left, disk, lapses>>

FileLapses == {<<"stale_file", "">>, <<"unwritten", "">>}

\* persist_graveyard clones the list under its lock and writes the file outside
\* of it, so two writers may finish in the other order.  A write that fails leaves
\* the old file and a warning; the caller is not told and goes on.
Persist(image) ==
  \/ /\ disk' = [disk EXCEPT !.closed = image]
     /\ lapses' = IF image # closed THEN lapses \union {<<"stale_file", "">>}
                  ELSE lapses \ FileLapses
     /\ UNCHANGED left
  \/ /\ Spend("full")
     /\ lapses' = lapses \union {<<"unwritten", "">>}
     /\ UNCHANGED disk

CloseWrite(a) ==
  /\ ops[a].at = "close_write"
  /\ LET w == ops[a].word
     IN  /\ Persist(ops[a].image)
         /\ owed' = IF w \in ClosedWords THEN owed \union {w} ELSE owed
         /\ ops' = [ops EXCEPT ![a] = [at |-> IF ops[a].panes = {} THEN "remove_session" ELSE "kill",
                                       then |-> "remove_session", word |-> w,
                                       panes |-> ops[a].panes, todo |-> ops[a].panes]]
  /\ UNCHANGED <<sessions, manager, pool, closed, up, wire>>

RemoveSession_Releases(a) ==
  /\ ops[a].at = "remove_session" /\ WriteLock
  /\ sessions' = Without(sessions, {ops[a].word})
  /\ pool' = Release(pool, ops[a].word)
  /\ ops' = [ops EXCEPT ![a] = Told(<<>>, <<[t |-> "session_closed", word |-> ops[a].word]>>)]
  /\ UNCHANGED <<left, manager, closed, disk, up, wire, owed, lapses>>

\* The last step of close_session removes whatever session has the word by now.
RemoveSession(a) ==
  /\ ops[a].at = "remove_session" /\ WriteLock
  /\ LET w == ops[a].word
     IN  /\ sessions' = Without(sessions, {w})
         /\ lapses' = IF w \in Live /\ \E p \in DOMAIN sessions[w].panes \ ops[a].panes : <<w, p>> \in manager
                      THEN lapses \union {<<"stray_pty", w>>} ELSE lapses
         /\ ops' = [ops EXCEPT ![a] = Told(<<[t |-> "session_closed", word |-> w]>>,
                                           <<[t |-> "session_closed", word |-> w]>>)]
  /\ UNCHANGED <<left, manager, pool, closed, disk, up, wire, owed>>
-----------------------------------------------------------------------------
\* Restoring.  restore_one_session rebuilds a session from a snapshot and the
\* panes that came back.

DropLeaves(tree, missing) == FoldLeft(RemovePane, tree, missing)

Refocused(tab, tree, back) ==
  LET alive == SelectSeq(Leaves(tree), LAMBDA p : p \in back)
  IN  [tab EXCEPT !.tree = tree,
                  !.focus = IF @ \in back \/ alive = <<>> THEN @ ELSE alive[1]]

RestoredTab(tab, back) ==
  Refocused(tab, DropLeaves(tab.tree, SelectSeq(Leaves(tab.tree), LAMBDA p : p \notin back)), back)

\* A snapshot without a usable tab gets one per pane.
Wrapped(back) ==
  LET indices == SetToSortSeq(back, <)
  IN  [i \in DOMAIN indices |-> Tab(i - 1, "base", Leaf(indices[i]), indices[i])]

WithTabs(snap, back, usable) ==
  LET tabs == IF usable = <<>> THEN Wrapped(back)
              ELSE [i \in DOMAIN usable |-> RestoredTab(usable[i], back)]
  IN  [snap EXCEPT !.panes = [p \in back |-> {}], !.tabs = tabs,
                   !.next_tab = Max({@} \union {tabs[i].idx + 1 : i \in DOMAIN tabs})]

Reactivated(s) == [s EXCEPT !.active = IF HasTab(s, @) THEN @ ELSE s.tabs[1].idx]

RestoreOneSession(snap, back) ==
  Reactivated(WithTabs(snap, back,
                       SelectSeq(snap.tabs, LAMBDA x : Range(Leaves(x.tree)) \cap back # {})))

AtWork(w) == \E b \in Actors : ops[b].at \notin {"idle", "tell"} /\ ops[b].word = w

\* Nothing tells a restore that the close, or another operation on the session
\* it was, is still at work.
RestoreSession(a, w) ==
  /\ up /\ ops[a] = Idle
  /\ Spend("restore")
  /\ LET i == SelectInSeq(closed, LAMBDA c : c.word = w)
         snap == closed[i].session
     IN  /\ i # 0
         /\ ops' = [ops EXCEPT ![a] = [at |-> "restore", word |-> w, snap |-> snap,
                                       todo |-> DOMAIN snap.panes, back |-> {}]]
  /\ lapses' = IF AtWork(w) THEN lapses \union {<<"overtaken", w>>} ELSE lapses
  /\ UNCHANGED <<daemon, wire, owed>>

\* One pane after the other is respawned; one that fails is left out.
RestorePane(a, p) ==
  /\ ops[a].at = "restore"
  /\ p = Min(ops[a].todo)
  /\ LET w == ops[a].word
         todo == ops[a].todo \ {p}
         After(back) == [ops EXCEPT ![a].todo = todo, ![a].back = back,
                                    ![a].at = IF todo # {} THEN @ ELSE "restore_insert"]
     IN  \/ /\ <<w, p>> \notin manager
            /\ manager' = manager \union {<<w, p>>}
            /\ wire' = Spawned(wire, w, p)
            /\ ops' = After(ops[a].back \union {p})
            /\ UNCHANGED left
         \/ /\ \/ Spend("fail")
               \/ <<w, p>> \in manager /\ UNCHANGED left
            /\ ops' = After(ops[a].back)
            /\ UNCHANGED <<manager, wire>>
  /\ UNCHANGED <<sessions, pool, closed, disk, up, owed, lapses>>

RestoreInsert(a) ==
  /\ ops[a].at = "restore_insert" /\ WriteLock
  /\ LET w == ops[a].word
         s == RestoreOneSession(ops[a].snap, ops[a].back)
     IN  IF ops[a].back = {}
         THEN /\ ops' = [ops EXCEPT ![a] = Idle]
              /\ UNCHANGED <<sessions, lapses>>
         ELSE /\ sessions' = (w :> s) @@ sessions
              /\ ops' = [ops EXCEPT ![a] = [at |-> "restore_drop", word |-> w, entry |-> Entry(w, s)]]
              /\ lapses' = lapses
                   \union (IF w \in Live THEN {<<"stray_pty", w>>} ELSE {})
  /\ UNCHANGED <<left, manager, pool, closed, disk, up, wire, owed>>

RestoreDrop(a) ==
  /\ ops[a].at = "restore_drop"
  /\ closed' = SelectSeq(closed, LAMBDA c : c.word # ops[a].word)
  /\ owed' = owed \ {ops[a].word}
  /\ ops' = [ops EXCEPT ![a] = [at |-> "restore_write", word |-> ops[a].word,
                                image |-> closed', entry |-> ops[a].entry]]
  /\ UNCHANGED <<left, sessions, manager, pool, disk, up, wire, lapses>>

RestoreWrite(a) ==
  /\ ops[a].at = "restore_write"
  /\ Persist(ops[a].image)
  /\ ops' = [ops EXCEPT ![a] =
       Told(<<[t |-> "session_created", word |-> ops[a].word, entry |-> ops[a].entry]>>,
            <<[t |-> "ev_session_created", word |-> ops[a].word]>>)]
  /\ UNCHANGED <<sessions, manager, pool, closed, up, wire, owed>>
-----------------------------------------------------------------------------
\* The checkpoint, the end of the process, and the next start.

\* checkpoint_loop: the state is gathered under the read lock and written
\* without it; then the graveyard is swept, whether or not the write failed.
TickGathers ==
  /\ up /\ ops[Tick] = Idle
  /\ Spend("tick")
  /\ ops' = [ops EXCEPT ![Tick] = [at |-> "tick_write",
                                  image |-> [w \in Live |-> Snapshot(sessions[w])]]]
  /\ UNCHANGED <<daemon, wire, owed, lapses>>

TickWrites ==
  /\ ops[Tick].at = "tick_write"
  /\ \/ disk' = [disk EXCEPT !.sessions = ops[Tick].image] /\ UNCHANGED left
     \/ Spend("full") /\ UNCHANGED disk
  /\ ops' = [ops EXCEPT ![Tick] = [at |-> "tick_sweep"]]
  /\ UNCHANGED <<sessions, manager, pool, closed, up, wire, owed, lapses>>

\* sweep_graveyard: the file is rewritten only when something was pruned.
TickSweeps ==
  /\ ops[Tick].at = "tick_sweep"
  /\ \E aged \in Aged :
       LET cut == Pruned(closed, aged)
       IN  /\ left' = SpendAge(aged)
           /\ PruneTo(closed, cut)
           /\ ops' = [ops EXCEPT ![Tick] = IF cut = 0 THEN Idle
                                           ELSE [at |-> "sweep_write", image |-> closed']]
  /\ UNCHANGED <<sessions, manager, disk, up, wire>>

SweepWrites ==
  /\ ops[Tick].at = "sweep_write"
  /\ Persist(ops[Tick].image)
  /\ ops' = [ops EXCEPT ![Tick] = Idle]
  /\ UNCHANGED <<sessions, manager, pool, closed, up, wire, owed>>

Crash ==
  /\ up /\ Spend("crash")
  /\ up' = FALSE
  /\ sessions' = <<>> /\ manager' = {} /\ closed' = <<>>
  /\ pool' = [w \in Words |-> 1]
  /\ ops' = [a \in Tasks |-> Idle]
  /\ wire' = [c \in DOMAIN wire |-> [ctrl |-> <<>>, vt |-> <<>>, pty |-> <<>>]]
  /\ UNCHANGED <<disk, owed, lapses>>

\* restore_from: the used words are reserved, every pane respawns or fails, and
\* a session none of whose panes came back gives its word back.
Restored(back) ==
  [w \in {v \in DOMAIN disk.sessions : back[v] # {}} |->
     RestoreOneSession(disk.sessions[w], back[w])]

\* load_graveyard: a live session wins over its closed copy.
Loaded(live) ==
  LET kept == SelectSeq(disk.closed, LAMBDA c : c.word \notin live)
  IN  SubSeq(kept, Max({0, Len(kept) - ClosedKeep}) + 1, Len(kept))

\* A start on what came back.  The graveyard's file is rewritten if loading it
\* dropped something, and a failure to do so only warned of.  A word that a failed
\* or late write had left off the file is lost here.
Boot(back, restored, written) ==
  LET live == DOMAIN restored
      list == Loaded(live)
  IN  /\ sessions' = restored
      /\ manager' = UNION {{<<w, p>> : p \in back[w]} : w \in live}
      /\ closed' = list
      /\ pool' = [w \in Words |->
                    IF w \in live \union {list[i].word : i \in DOMAIN list} THEN 0 ELSE 1]
      /\ disk' = [disk EXCEPT !.closed = IF written /\ Len(list) # Len(@) THEN list ELSE @]
      /\ owed' = (IF FileLapses \cap lapses = {} THEN owed ELSE owed \cap SavedWords)
                 \ (live \union (SavedWords \ {list[i].word : i \in DOMAIN list}))

OnDisk == UNION {{<<w, p>> : p \in DOMAIN disk.sessions[w].panes} : w \in DOMAIN disk.sessions}

Restart ==
  /\ ~up
  /\ \E lost \in {{}} \union (IF left["fail"] > 0 THEN {{id} : id \in OnDisk} ELSE {}),
        written \in {TRUE} \union (IF left["full"] > 0 THEN {FALSE} ELSE {}) :
       LET back == [w \in DOMAIN disk.sessions |->
                      {p \in DOMAIN disk.sessions[w].panes : <<w, p>> \notin lost}]
       IN  /\ left' = [left EXCEPT !["fail"] = IF lost = {} THEN @ ELSE @ - 1,
                                   !["full"] = IF written THEN @ ELSE @ - 1]
           /\ Boot(back, Restored(back), written)
  /\ up' = TRUE
  /\ lapses' = {}
  /\ UNCHANGED <<ops, wire>>
-----------------------------------------------------------------------------
Panes(s) == DOMAIN s.panes
Shown(s) == UNION {Range(Leaves(s.tabs[i].tree)) : i \in DOMAIN s.tabs}

Ratios == {<<0, 1000>>, <<1, 2>>, <<7, 7, 7>>}
Paths == {<<>>, <<0>>, <<1>>}

Nudges(a) ==
  /\ left["nudge"] > 0
  /\ \E w \in Live :
       \/ RenameSession(a, w, "new")
       \/ \E i \in DOMAIN sessions[w].tabs :
            LET t == sessions[w].tabs[i].idx
                tree == sessions[w].tabs[i].tree
                leaves == Range(Leaves(tree))
            IN  \/ \E pos \in 0..Len(sessions[w].tabs) : ReorderTab(a, w, t, pos)
                \/ RenameTab(a, w, t, "new")
                \/ \E p \in leaves, q \in leaves : p < q /\ SwapPanes(a, w, t, p, q)
                \/ \E path \in Paths, ratios \in Ratios : SetLayoutRatios(a, w, t, path, ratios)
                \/ \E scheme \in Schemes : ApplyLayoutScheme(a, w, t, scheme)
                \/ \E p \in leaves : SetTabFocus(a, w, t, p)

Requests(a) ==
  \/ CreateSession(a)
  \/ \E w \in Live :
       \/ \E legacy \in IF a \in DOMAIN wire THEN BOOLEAN ELSE {FALSE} : CreateTab(a, w, legacy)
       \/ CloseSession(a, w)
       \/ \E i \in DOMAIN sessions[w].tabs :
            LET t == sessions[w].tabs[i].idx
            IN  \/ CloseTab(a, w, t)
                \/ \E p \in Range(Leaves(sessions[w].tabs[i].tree)), dir \in {"h", "v"} :
                     SplitPane(a, w, t, p, dir)
       \/ \E p \in Panes(sessions[w]) : ClosePane(a, w, p)
  \/ \E w \in ClosedWords : RestoreSession(a, w)
  \/ Nudges(a)

Works(a) ==
  \/ Tell(a)
  \/ SpawnOk(a) \/ SpawnFails(a)
  \/ InsertSession(a) \/ InsertTab(a) \/ InsertSplit(a) \/ InsertTooLate(a)
  \/ RemoveClosedPane(a)
  \/ ops[a].at = "kill" /\ \E p \in ops[a].todo : Kill(a, p)
  \/ RemoveTab(a) \/ CloseWrite(a) \/ RemoveSession(a)
  \/ ops[a].at = "restore" /\ \E p \in ops[a].todo : RestorePane(a, p)
  \/ RestoreInsert(a) \/ RestoreDrop(a) \/ RestoreWrite(a)

Step ==
  \/ \E a \in scenario.actors : Requests(a) \/ Works(a)
  \/ TickGathers \/ TickWrites \/ TickSweeps \/ SweepWrites
  \/ Crash \/ Restart

\* A session whose tabs have the given trees, none of its panes ever closed; the
\* followed clients view the first tab of the first one.
Start(index, trees, viewers) ==
  LET panes == UNION {Range(Leaves(trees[i])) : i \in DOMAIN trees}
      At(p) == IF index = 0 /\ p \in Range(Leaves(trees[1])) THEN viewers ELSE {}
  IN  [index |-> index, name |-> "base", panes |-> [p \in panes |-> At(p)], next_pane |-> Max(panes) + 1,
       tabs |-> [i \in DOMAIN trees |-> Tab(i - 1, "base", trees[i], Head(Leaves(trees[i])))],
       next_tab |-> Len(trees), active |-> 0]

Init ==
  /\ scenario \in Scenarios
  /\ left = scenario.events
  /\ sessions = LET words == SetToSeq(DOMAIN scenario.start)
                IN  [w \in Range(words) |->
                       Start(SelectInSeq(words, LAMBDA x : x = w) - 1, scenario.start[w],
                             IF scenario.events["join"] > 0 THEN {} ELSE Watchers \cap scenario.actors)]
  /\ manager = UNION {{<<w, p>> : p \in Panes(sessions[w])} : w \in Live}
  /\ pool = [w \in Words |-> IF w \in Live THEN 0 ELSE 1]
  /\ closed = <<>>
  /\ disk = [closed |-> <<>>, sessions |-> sessions]
  /\ up = TRUE
  /\ ops = [a \in Tasks |-> Idle]
  /\ wire = [c \in Watchers \cap scenario.actors |-> [ctrl |-> <<>>, vt |-> <<>>, pty |-> <<>>]]
  /\ owed = {}
  /\ lapses = {}
-----------------------------------------------------------------------------
Known(what, w) == <<what, w>> \in lapses

Snapshots == {<<w, disk.sessions[w]>> : w \in DOMAIN disk.sessions}
             \union {<<disk.closed[i].word, disk.closed[i].session>> : i \in DOMAIN disk.closed}
             \union {<<closed[i].word, closed[i].session>> : i \in DOMAIN closed}

SessionOK(s) ==
  /\ \A i \in DOMAIN s.tabs : WellFormed(s.tabs[i].tree)
  /\ \A i \in DOMAIN s.tabs : s.tabs[i].focus \in Range(Leaves(s.tabs[i].tree))
  /\ IsInjective(FlattenSeq([i \in DOMAIN s.tabs |-> Leaves(s.tabs[i].tree)]))
  /\ IsInjective(TabIndices(s))
  /\ s.active \in Range(TabIndices(s))
  /\ Shown(s) \subseteq Panes(s)
  /\ \A p \in Panes(s) : p < s.next_pane
  /\ \A t \in Range(TabIndices(s)) : t < s.next_tab

\* Whatever splits, closes, swaps, resizes and restores came before, and however
\* they interleaved, every session the daemon holds or has on disk is whole:
\* its trees are well formed with weights that sum to 1000, no pane is shown
\* twice, every focus is a leaf of its tab, the active tab exists, every leaf
\* has its pane, the next indices are unused, and every pane of a live session is
\* in one of its tabs.  Known: a pane that was being added while its session was
\* closed and restored enters the restored one under an index this one will hand
\* out again ("overtaken"); and the two races that InsertSplit and RemoveTab
\* record leave a pane that no client can reach ("stray_pane").
SessionsWhole ==
  /\ \A e \in {<<w, sessions[w]>> : w \in Live} \union Snapshots :
       SessionOK(e[2]) \/ Known("overtaken", e[1])
  /\ \A w \in Live : Known("stray_pane", w) \/ Shown(sessions[w]) = Panes(sessions[w])

Holds(op, w, p) ==
  \/ op.at = "insert" /\ op.word = w /\ op.pane = p
  \/ op.at \in {"restore", "restore_insert"} /\ op.word = w /\ p \in op.back

\* Every PTY in the registry belongs to a pane of a live session or to an
\* operation that is about to put it there: no child runs on that nothing can
\* close, but for the races recorded.  The other way around, a pane of a live
\* session has its PTY unless a close of it is in flight, or it was restored under
\* a close that was still killing.
PtysAreOwned ==
  /\ \A e \in manager :
       \/ e[1] \in Live /\ e[2] \in Panes(sessions[e[1]])
       \/ \E a \in Actors : Holds(ops[a], e[1], e[2])
       \/ Known("stray_pty", e[1]) \/ Known("stray_pane", e[1]) \/ Known("overtaken", e[1])
  /\ \A w \in Live : \A p \in Panes(sessions[w]) :
       \/ <<w, p>> \in manager \/ Known("overtaken", w)
       \/ \E a \in Actors :
            \/ ops[a].at = "remove_pane" /\ ops[a].word = w /\ ops[a].pane = p
            \/ ops[a].at \in {"kill", "remove_tab", "remove_session"} /\ ops[a].word = w /\ p \in ops[a].panes

Creating(w) ==
  \E a \in Actors : ops[a].at \in {"spawn", "insert"} /\ ops[a].what = "session" /\ ops[a].word = w

\* A word in the pool names no session: none that is live, being created, or
\* closed and restorable.  A second session under a word would take the first
\* one's place in the map.  "The word is intentionally not released - it stays
\* reserved while the session is in the graveyard" (crud.rs).  Two races break
\* this, and a word they hit is excepted: close_tab or close_pane empties a session
\* that a close has put into the graveyard and not yet removed, or that a restore
\* has brought back and not yet taken out of it, and releases the word of the entry
\* ("drained"); and the caps evict the entry of a session whose close or restore is
\* at work, and release the word of a session that is live ("evicted").
\*
\* And none is lost: a word that is not in the pool names a session, live or
\* restorable.  Known to lose one: a spawn that fails (create_session keeps the
\* word), and a restore that began while the close was at work, whose session the
\* close's last step removes.  With nothing in flight no word is both live and in
\* the graveyard, not even after a crash between the two files' writes.
WordsAreKept ==
  /\ \A w \in Words :
       \/ Known("drained", w) \/ Known("evicted", w)
       \/ /\ pool[w] <= 1
          /\ pool[w] = 1 => w \notin Live \union ClosedWords /\ ~Creating(w)
  /\ up => \A w \in Words :
             \/ pool[w] > 0 \/ w \in Live \union ClosedWords \/ Creating(w)
             \/ Known("word_leaked", w) \/ Known("overtaken", w)
  /\ (\A a \in Tasks : ops[a] = Idle) =>
       Live \cap ClosedWords = {}

\* Once the first PTY of a closing session can be killed, its snapshot is in
\* closed.bin, whatever crashes follow, until it is evicted or restored ("so the
\* snapshot is durable even across a crash", graveyard.rs).  Two exceptions, each
\* until the next write that brings the file up to the list: a write of the file
\* that failed, which close_session is not told of ("unwritten"), and two writes
\* that finished in the other order ("stale_file").
ClosedIsDurable == FileLapses \cap lapses # {} \/ owed \subseteq SavedWords

Next == Step /\ UNCHANGED scenario
Spec == Init /\ [][Next]_vars
=============================================================================
