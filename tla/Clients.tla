------------------------------- MODULE Clients -------------------------------
(***************************************************************************)
(* Who is connected to a daemon and how they share a pane.                  *)
(*                                                                         *)
(* A client opens a channel, proves its identity and is registered           *)
(* (ServerApp::register_client), afresh or by resuming the registration it  *)
(* already has: a reconnect while the old channel's loop still runs, or a   *)
(* probe of another transport the supervisor may then switch to.  Through   *)
(* its channel it attaches to the pane, reports its window's size and takes *)
(* the input lock.  A channel's loop that ends gives back what that channel *)
(* made (release_channel).  The number of registrations is published on a   *)
(* watch, which the idle-shutdown watcher follows.                          *)
(*                                                                         *)
(* A client's ClientId and ConnectionId are drawn together: one number      *)
(* stands for both.  A client sends through the channel it currently uses;  *)
(* the daemon may come to read what it sent after the client has moved on.  *)
(***************************************************************************)
EXTENDS Integers, FiniteSets, FiniteSetsExt

CONSTANTS
  Users,        \* the client programs, each with an identity of its own
  MaxChannels,  \* bound: channels opened
  Sizes,        \* the window sizes clients report, <<rows, cols>>
  Events        \* which optional events happen

AllEvents == {"lock", "kick", "reap", "resize", "abandon", "idle"}
NoSize == <<0, 0>>

ASSUME ConstantsAssumption ==
  /\ IsFiniteSet(Users) /\ Users # {}
  /\ "nobody" \notin Users     \* NoConn's owner is none of them
  /\ MaxChannels \in Nat \ {0}
  /\ Sizes \subseteq (Nat \ {0}) \X (Nat \ {0}) /\ IsFiniteSet(Sizes) /\ Sizes # {}
  /\ Events \subseteq AllEvents

VARIABLES
  chan,      \* per channel: the daemon's loop for it
  conns,     \* the registrations: per id, its owner and generation
  nextId,    \* next_client_id and next_connection_id
  viewers,   \* the pane's client map: per id, the channel and size attached with
  mode,      \* InputMode: the id holding the input lock, 0 when Open
  size,      \* the size of the pane and its emulator
  winsize,   \* the size the kernel's pty has
  idle,      \* conn_count: the count last sent is 0 (of a count, only that matters)
  shutdown,  \* the idle-shutdown watcher has asked for a shutdown
  current,   \* per user: the channel it uses, 0 if none
  opening,   \* per user: a channel it is connecting or probing, 0 if none
  token,     \* per user: the id it resumes from, 0 before the first AuthResult
  removed,   \* history variable: ids kicked or reaped since they last attached
  late,      \* history variable: ids an older channel attached or detached since
  stray,     \* history variable: ids that took the lock with no viewer, since then
  reaped     \* history variable: a viewer was reaped since the last reconcile

paneVars == <<viewers, mode, size, winsize, removed, late, stray, reaped>>
countVars == <<idle, shutdown>>
userVars == <<current, opening, token>>
vars == <<chan, conns, nextId, paneVars, countVars, userVars>>

Channels == 1..MaxChannels
Ids == 1..MaxChannels
Windows == Nat \X Nat           \* rows and columns may come from different clients

NoConn == [owner |-> "nobody", gen |-> -1]
NoViewer == [chan |-> 0, size |-> NoSize]
Unused == [pc |-> "unused", id |-> 0, gen |-> 0, attached |-> FALSE,
           want |-> NoSize, ioctl |-> NoSize, used |-> FALSE, empty |-> FALSE]

TypeOK ==
  /\ chan \in [Channels -> [pc : {"unused", "registered", "open", "releasing", "released", "gone"},
                            id : 0..MaxChannels, gen : Nat, attached : BOOLEAN,
                            want : Windows, ioctl : Windows, used : BOOLEAN,
                            empty : BOOLEAN]]
  /\ conns \in [Ids -> [owner : Users, gen : Nat] \cup {NoConn}]
  /\ nextId \in 1..MaxChannels + 1
  /\ viewers \in [Ids -> [chan : Channels, size : Sizes] \cup {NoViewer}]
  /\ mode \in 0..MaxChannels /\ size \in Windows /\ winsize \in Windows
  /\ idle \in BOOLEAN /\ shutdown \in BOOLEAN
  /\ current \in [Users -> 0..MaxChannels] /\ opening \in [Users -> 0..MaxChannels]
  /\ token \in [Users -> 0..MaxChannels]
  /\ removed \subseteq Ids /\ late \subseteq Ids /\ stray \subseteq Ids /\ reaped \in BOOLEAN

(* A pane spawned at some size, nobody connected yet. *)
Init ==
  /\ chan = [c \in Channels |-> Unused]
  /\ conns = [i \in Ids |-> NoConn] /\ nextId = 1
  /\ viewers = [i \in Ids |-> NoViewer]
  /\ mode = 0 /\ size = (CHOOSE s \in Sizes : TRUE) /\ winsize = size
  /\ idle = FALSE /\ shutdown = FALSE
  /\ current = [u \in Users |-> 0] /\ opening = current /\ token = current
  /\ removed = {} /\ late = {} /\ stray = {} /\ reaped = FALSE

-----------------------------------------------------------------------------
(* Connections. *)

Registered(i) == conns[i] # NoConn
NobodyLeft(registry) == \A i \in Ids : registry[i] = NoConn

(* resume_connection: a live registration made by the same machine. *)
Resumable(u) == token[u] # 0 /\ conns[token[u]].owner = u

(* on_auth_proof, register_client: resume, which bumps the generation, or    *)
(* draw fresh ids; the count of a fresh registration is sent once the        *)
(* registry is unlocked.                                                     *)
Resume(u, c) ==
  LET i == token[u]
      gen == conns[i].gen + 1
  IN /\ Resumable(u)
     /\ conns' = [conns EXCEPT ![i].gen = gen]
     /\ chan' = [chan EXCEPT ![c] = [Unused EXCEPT !.pc = "open", !.id = i, !.gen = gen]]
     /\ UNCHANGED nextId

RegisterFresh(u, c) ==
  /\ ~Resumable(u)
  /\ conns' = [conns EXCEPT ![nextId] = [owner |-> u, gen |-> 0]]
  /\ chan' = [chan EXCEPT ![c] = [Unused EXCEPT
       !.pc = "registered", !.id = nextId, !.empty = NobodyLeft(conns')]]
  /\ nextId' = nextId + 1

(* A user without a link connects; one with a link probes another transport. *)
Register(u, c) ==
  /\ opening[u] = 0 /\ chan[c].pc = "unused"
  /\ \A d \in Channels : d < c => chan[d].pc # "unused"
  /\ opening' = [opening EXCEPT ![u] = c]
  /\ Resume(u, c) \/ RegisterFresh(u, c)
  /\ UNCHANGED <<paneVars, countVars, current, token>>

(* With idle shutdown off the watch has no receiver and send does nothing.   *)
SendCount(c) ==
  /\ chan[c].pc \in {"registered", "released"}
  /\ idle' = ("idle" \in Events /\ chan[c].empty)
  /\ chan' = [chan EXCEPT ![c].pc = IF @ = "registered" THEN "open" ELSE "gone",
                          ![c].empty = FALSE]
  /\ UNCHANGED <<conns, nextId, paneVars, shutdown, userVars>>

(* The AuthResult arrives: a connect is made whatever the id; a probe is     *)
(* switched to only if it resumed this registration (probe_verdict,          *)
(* apply_transport_upgrade), else it fails.  What the old channel was sent,   *)
(* an attach it has begun included, it still serves.                         *)
AuthResult(u) ==
  LET c == opening[u]
      i == chan[c].id
  IN /\ c # 0 /\ chan[c].pc \notin {"unused", "registered"}
     /\ opening' = [opening EXCEPT ![u] = 0]
     /\ IF current[u] = 0 \/ i = token[u]
        THEN /\ current' = [current EXCEPT ![u] = c] /\ token' = [token EXCEPT ![u] = i]
             /\ chan' = [chan EXCEPT ![c].used = TRUE]
        ELSE UNCHANGED <<chan, current, token>>
     /\ UNCHANGED <<conns, nextId, paneVars, countVars>>

(* The answer to a connect or a probe is late (PROBE_AUTH_TIMEOUT) or the    *)
(* link is cut: the user gives that channel up.                              *)
Abandon(u) ==
  /\ "abandon" \in Events /\ opening[u] # 0
  /\ opening' = [opening EXCEPT ![u] = 0]
  /\ UNCHANGED <<chan, conns, nextId, paneVars, countVars, current, token>>

LoseLink(u) ==
  /\ current[u] # 0
  /\ current' = [current EXCEPT ![u] = 0]
  /\ UNCHANGED <<chan, conns, nextId, paneVars, countVars, opening, token>>

-----------------------------------------------------------------------------
(* The pane: its viewers, its size and its input lock. *)

Viewing(vs) == {i \in Ids : vs[i] # NoViewer}

(* effective_size: the smallest rows and the smallest columns. *)
Smallest(vs) ==
  <<Min({vs[i].size[1] : i \in Viewing(vs)}), Min({vs[i].size[2] : i \in Viewing(vs)})>>

(* apply_effective_size: no viewer left keeps the size. *)
Effective(vs) == IF Viewing(vs) = {} THEN size ELSE Smallest(vs)

Reconcile(vs) ==
  /\ viewers' = vs /\ size' = Effective(vs)
  /\ reaped' = FALSE

Leave(i) ==
  /\ Reconcile([viewers EXCEPT ![i] = NoViewer])
  /\ mode' = IF mode = i THEN 0 ELSE mode

(* The channel's loop, done with the last request, reads the next one.       *)
Serves(c) ==
  /\ chan[c].used /\ chan[c].pc = "open"
  /\ chan[c].want = NoSize /\ chan[c].ioctl = NoSize

InUse(c) == \E u \in Users : current[u] = c
LateThrough(c) == IF InUse(c) THEN late ELSE late \cup {chan[c].id}

(* on_attach: a pane this channel already attached is detached first, whoever *)
(* acts in between; then ServerApp::attach.                                   *)
OnAttach(c, s) ==
  /\ Serves(c)
  /\ chan' = [chan EXCEPT ![c].want = s, ![c].attached = FALSE]
  /\ IF chan[c].attached THEN Leave(chan[c].id) /\ late' = LateThrough(c)
     ELSE UNCHANGED <<viewers, mode, size, late, reaped>>
  /\ UNCHANGED <<conns, nextId, winsize, removed, stray, countVars, userVars>>

Attach_NoReconcile(c) ==
  LET i == chan[c].id
  IN /\ chan[c].want # NoSize
     /\ viewers' = [viewers EXCEPT ![i] = [chan |-> c, size |-> chan[c].want]]
     /\ chan' = [chan EXCEPT ![c].want = NoSize, ![c].attached = TRUE]
     /\ removed' = removed \ {i} /\ stray' = stray \ {i}
     /\ late' = IF InUse(c) THEN late \ {i} ELSE late \cup {i}
     /\ UNCHANGED <<conns, nextId, mode, size, reaped, winsize, countVars, userVars>>

Attach(c) ==
  LET i == chan[c].id
  IN /\ chan[c].want # NoSize
     /\ Reconcile([viewers EXCEPT ![i] = [chan |-> c, size |-> chan[c].want]])
     /\ chan' = [chan EXCEPT ![c].want = NoSize, ![c].attached = TRUE]
     /\ removed' = removed \ {i} /\ stray' = stray \ {i}
     /\ late' = IF InUse(c) THEN late \ {i} ELSE late \cup {i}
     /\ UNCHANGED <<conns, nextId, mode, winsize, countVars, userVars>>

(* on_detach, detach_from_pane *)
OnDetach(c) ==
  /\ Serves(c) /\ chan[c].attached
  /\ chan' = [chan EXCEPT ![c].attached = FALSE]
  /\ Leave(chan[c].id) /\ late' = LateThrough(c)
  /\ UNCHANGED <<conns, nextId, winsize, removed, stray, countVars, userVars>>

(* ServerApp::resize: the pane follows under the session map's lock, the     *)
(* kernel's pty after it is released.                                        *)
Resize(c, s) ==
  LET i == chan[c].id
      vs == IF viewers[i] = NoViewer THEN viewers ELSE [viewers EXCEPT ![i].size = s]
  IN /\ "resize" \in Events /\ Serves(c)
     /\ Reconcile(vs)
     /\ chan' = [chan EXCEPT ![c].ioctl = IF size' = size THEN NoSize ELSE size']
     /\ UNCHANGED <<conns, nextId, mode, winsize, removed, late, stray, countVars, userVars>>

Ioctl(c) ==
  /\ chan[c].ioctl # NoSize
  /\ winsize' = chan[c].ioctl
  /\ chan' = [chan EXCEPT ![c].ioctl = NoSize]
  /\ UNCHANGED <<conns, nextId, viewers, mode, size, removed, late, stray, reaped>>
  /\ UNCHANGED <<countVars, userVars>>

(* request_input_lock, which does not ask whether the client views the pane; *)
(* a denial or a repeated grant changes nothing.                             *)
RequestInputLock(c) ==
  LET i == chan[c].id
  IN /\ "lock" \in Events /\ Serves(c) /\ mode = 0
     /\ mode' = i
     /\ stray' = IF viewers[i] = NoViewer THEN stray \cup {i} ELSE stray
     /\ UNCHANGED <<chan, conns, nextId, viewers, size, winsize, removed, late, reaped>>
     /\ UNCHANGED <<countVars, userVars>>

ReleaseInputLock(c) ==
  /\ Serves(c) /\ mode = chan[c].id
  /\ mode' = 0
  /\ UNCHANGED <<chan, conns, nextId, viewers, size, winsize, removed, late, stray, reaped>>
  /\ UNCHANGED <<countVars, userVars>>

(* kick_client_from_session: the target keeps its connection. *)
Kick(i) ==
  /\ "kick" \in Events /\ \E c \in Channels : Serves(c)
  /\ viewers[i] # NoViewer
  /\ Leave(i)
  /\ removed' = removed \cup {i}
  /\ UNCHANGED <<chan, conns, nextId, winsize, late, stray, countVars, userVars>>

(* broadcast_to_clients: a viewer whose channel is full or closed is dropped *)
(* from the map, and nothing else is done about it there.                    *)
Reap(i) ==
  /\ "reap" \in Events /\ viewers[i] # NoViewer
  /\ viewers' = [viewers EXCEPT ![i] = NoViewer]
  /\ removed' = removed \cup {i} /\ reaped' = TRUE
  /\ UNCHANGED <<chan, conns, nextId, mode, size, winsize, late, stray, countVars, userVars>>

Pane ==
  \/ \E c \in Channels :
       \/ Attach(c) \/ Ioctl(c)
       \/ \E s \in Sizes : OnAttach(c, s) \/ Resize(c, s)
       \/ OnDetach(c) \/ RequestInputLock(c) \/ ReleaseInputLock(c)
  \/ \E i \in Ids : Kick(i) \/ Reap(i)

-----------------------------------------------------------------------------
(* A channel's loop ends, because the client or the link is gone or because  *)
(* the daemon closes it (a missed pong, a failed write): release_channel.    *)

DetachChannel_ById(c) ==
  /\ chan[c].pc = "open"
  /\ chan[c].want = NoSize /\ chan[c].ioctl = NoSize
  /\ chan' = [chan EXCEPT ![c].pc = "releasing", ![c].attached = FALSE]
  /\ Leave(chan[c].id)
  /\ UNCHANGED <<conns, nextId, winsize, removed, late, stray, countVars, userVars>>

DetachChannel_IfCurrent(c) ==
  LET i == chan[c].id
  IN /\ chan[c].pc = "open"
     /\ chan[c].want = NoSize /\ chan[c].ioctl = NoSize
     /\ chan' = [chan EXCEPT ![c].pc = "releasing", ![c].attached = FALSE]
     /\ IF viewers[i].chan = c /\ conns[i].gen = chan[c].gen
        THEN Leave(i) ELSE UNCHANGED <<viewers, mode, size, reaped>>
     /\ UNCHANGED <<conns, nextId, winsize, removed, late, stray, countVars, userVars>>

(* detach_channel: only a viewer attached through this channel. *)
DetachChannel(c) ==
  LET i == chan[c].id
  IN /\ chan[c].pc = "open"
     /\ chan[c].want = NoSize /\ chan[c].ioctl = NoSize
     /\ chan' = [chan EXCEPT ![c].pc = "releasing", ![c].attached = FALSE]
     /\ IF viewers[i].chan = c THEN Leave(i) ELSE UNCHANGED <<viewers, mode, size, reaped>>
     /\ UNCHANGED <<conns, nextId, winsize, removed, late, stray, countVars, userVars>>

ReleaseConnection_AnyGeneration(c) ==
  /\ chan[c].pc = "releasing"
  /\ conns' = [conns EXCEPT ![chan[c].id] = NoConn]
  /\ chan' = [chan EXCEPT ![c].pc = "released", ![c].empty = NobodyLeft(conns')]
  /\ UNCHANGED <<nextId, paneVars, countVars, userVars>>

(* release_connection: only the generation this channel registered with;     *)
(* the new count is sent once the registry is unlocked.                      *)
ReleaseConnection(c) ==
  LET i == chan[c].id
  IN /\ chan[c].pc = "releasing"
     /\ \/ /\ conns[i].gen = chan[c].gen
           /\ conns' = [conns EXCEPT ![i] = NoConn]
           /\ chan' = [chan EXCEPT ![c].pc = "released", ![c].empty = NobodyLeft(conns')]
        \/ /\ conns[i].gen # chan[c].gen
           /\ chan' = [chan EXCEPT ![c].pc = "gone"]
           /\ UNCHANGED conns
     /\ UNCHANGED <<nextId, paneVars, countVars, userVars>>

-----------------------------------------------------------------------------
(* The idle-shutdown watcher: a count of 0 starts a debounce that any later  *)
(* count restarts or cancels.  It fires when idle_secs pass with 0 the last  *)
(* count sent; they outlast the step between a change of the registry and    *)
(* its publication, and the watcher's own wake-up.                           *)
IdleFires ==
  /\ idle
  /\ \A c \in Channels : chan[c].pc \notin {"registered", "releasing", "released"}
  /\ shutdown' = TRUE
  /\ UNCHANGED <<chan, conns, nextId, paneVars, idle, userVars>>

Next ==
  /\ ~shutdown
  /\ \/ \E u \in Users, c \in Channels : Register(u, c)
     \/ \E u \in Users : AuthResult(u) \/ Abandon(u) \/ LoseLink(u)
     \/ \E c \in Channels : SendCount(c) \/ DetachChannel(c) \/ ReleaseConnection(c)
     \/ Pane \/ IdleFires

Spec == Init /\ [][Next]_vars

-----------------------------------------------------------------------------
(* Properties. *)

(* A superseded channel leaves the registration to the one that resumed it:  *)
(* the newest open channel of an id finds the id registered, at its own      *)
(* generation (connection.md, "Generations").                                *)
NewestIsRegistered ==
  \A c \in Channels :
    /\ chan[c].pc \in {"registered", "open"}
    /\ \A d \in Channels : chan[d].id = chan[c].id => chan[d].gen <= chan[c].gen
    => conns[chan[c].id].gen = chan[c].gen

(* Nothing is left of a channel that has ended: every registration and every *)
(* viewer belongs to a channel whose loop still runs or is releasing it, so  *)
(* a departed client never holds a pane's size down.  And whoever holds the   *)
(* input lock views the pane, so that its channel's end gives the lock back, *)
(* with two exceptions the code makes: a viewer the relay reaped keeps it,    *)
(* and request_input_lock grants it to a client that does not view the pane  *)
(* (not attached yet, detached, or kicked).  In both the lock outlives the    *)
(* client unless it attaches again or releases it first.                     *)
NoGhosts ==
  /\ \A i \in Ids : Registered(i) =>
       \E c \in Channels : chan[c].id = i /\ chan[c].gen = conns[i].gen
                           /\ chan[c].pc \in {"registered", "open", "releasing"}
  /\ \A i \in Ids : viewers[i] # NoViewer => chan[viewers[i].chan].pc = "open"
  /\ mode # 0 => viewers[mode] # NoViewer \/ mode \in removed \/ mode \in stray

(* A pane attached through the channel a client uses stays attached through  *)
(* it, whichever older channel of the client ends meanwhile (detach_channel  *)
(* is scoped to the channel).  Three things take it away, until the channel   *)
(* attaches again: a kick, a reap, and an Attach or a Detach the client had   *)
(* sent through an older channel and the daemon serves after this one's       *)
(* Attach, for those go by the client's id.                                  *)
AttachedThroughCurrent ==
  \A u \in Users :
    LET c == current[u]
    IN c # 0 /\ chan[c].attached =>
         viewers[chan[c].id].chan = c \/ chan[c].id \in removed \cup late

(* The pane has the smallest rows and columns of its viewers' windows, so it *)
(* fits every one of them; only after the relay has reaped a viewer may it   *)
(* be smaller, until the next reconcile.                                     *)
SmallestWins ==
  LET fit == Effective(viewers)
  IN size[1] <= fit[1] /\ size[2] <= fit[2] /\ (~reaped => size = fit)
=============================================================================
