---------------------------- MODULE MCFederation ----------------------------
(***************************************************************************)
(* Federation for TLC: the link to one peer and the locks behind it, or    *)
(* the hub's peers and their words.  The two do not meet: a behaviour is   *)
(* one of FedLink's with no peer opened, or one of FedPeers' with an idle  *)
(* link.                                                                   *)
(***************************************************************************)
EXTENDS FedLink, FedPeers

CONSTANTS c1, c2, hostP, hostQ, rem1, rem2, wordA, wordB, wordC, wordD, gui1, gui2

ClientSymmetry == Permutations(Clients)

Link(events, count, pings, links) ==
  [events |-> events, sizes |-> {1}, ops |-> count, pings |-> pings, links |-> links]

LinkOff == Link({}, 0, 0, 0)

\* Locks that cross; locks over a link that breaks; a client that resumes or is
\* dropped; answers with and without an id among lock answers; a session that
\* closes under its requests; the sizes of two windows.
MCScenarios ==
  {LinkOff,
   Link({"lock", "other"}, 5, 0, 0),
   Link({"lock", "other"}, 4, 0, 1),
   Link({"lock", "resume", "lag"}, 3, 0, 0),
   Link({"forward", "lock"}, 4, 0, 0),
   Link({"forward", "close"}, 3, 1, 1),
   Link({"lock", "close"}, 3, 0, 0),
   [Link({"size", "lag"}, 4, 0, 1) EXCEPT !.sizes = Sizes]}

Hosts(atP, atQ) == [host \in Peers |-> IF host = hostP THEN atP ELSE atQ]

Open(hosted, guis_, words, requests, changes, locals, losses, restarts) ==
  [hosted |-> hosted, guis |-> guis_, words |-> words, requests |-> requests, changes |-> changes,
   locals |-> locals, losses |-> losses, restarts |-> restarts]

PeersOff == Open(Hosts({}, {}), {}, {wordA}, 0, 0, 0, 0, 0)

\* Two GUIs open a peer at once, on a pool too small for both; a peer that restarts;
\* sessions that come and go while a peer is opened and closed, or its link lost;
\* words that are drawn again by a local session, or by another peer's.
MCFpScenarios ==
  {PeersOff,
   Open(Hosts({rem1, rem2}, {}), {gui1, gui2}, {wordA, wordB, wordC}, 3, 0, 0, 0, 0),
   Open(Hosts({rem1}, {}), {gui1, gui2}, {wordA, wordB}, 3, 0, 0, 0, 1),
   Open(Hosts({rem1}, {}), {gui1}, {wordA, wordB, wordC}, 2, 2, 0, 0, 0),
   Open(Hosts({rem1}, {}), {gui1}, {wordA, wordB, wordC}, 2, 1, 0, 1, 0),
   Open(Hosts({rem1}, {}), {gui1}, {wordA, wordB}, 1, 2, 0, 1, 0),
   Open(Hosts({rem1}, {rem1}), {gui1}, {wordA, wordB}, 3, 1, 1, 0, 0),
   Open(Hosts({rem1, rem2}, {}), {gui1}, {wordA, wordB}, 3, 0, 1, 1, 0)}

MCInit == Init /\ FpInit /\ (scenario = LinkOff \/ fpScenario = PeersOff)

MCNext == \/ Next /\ UNCHANGED fpVars
          \/ FpNext /\ UNCHANGED vars

MCSpec == MCInit /\ [][MCNext]_<<vars, fpVars>>
=============================================================================
