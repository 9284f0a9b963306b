------------------------------ MODULE MCClients ------------------------------
(* Clients for TLC: two window sizes neither of which fits the other.        *)
EXTENDS Clients, TLC

CONSTANTS u1, u2
MCSizes == {<<2, 3>>, <<3, 2>>}

(* What is left out of the VIEW: the size of the kernel's pty, which is      *)
(* written and never read; the published count, which only decides whether   *)
(* the daemon stops; and of the history variables the ids no property can    *)
(* ask about before they are set afresh.  An id's lapse is forgiven when its *)
(* client attaches, and a channel is attached only after it came into use;   *)
(* a lock taken without a viewer is excused by stray alone.  States that     *)
(* agree on the rest satisfy the same invariants and so do their futures.    *)
Attached == {chan[current[u]].id : u \in {v \in Users : current[v] # 0 /\ chan[current[v]].attached}}
Loop(c) == <<chan[c].pc, chan[c].id, chan[c].gen, chan[c].attached, chan[c].want, chan[c].ioctl # NoSize,
             chan[c].pc = "open" /\ chan[c].used>>
WhatMatters ==
  <<[c \in Channels |-> Loop(c)], conns, nextId, viewers, mode, size, shutdown, reaped,
    removed \cap (Attached \cup ({mode} \ stray)), late \cap Attached, stray \cap {mode}, userVars>>
UserSymmetry == Permutations({u1, u2})
=============================================================================
