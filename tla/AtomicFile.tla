----------------------------- MODULE AtomicFile -----------------------------
(***************************************************************************)
(* What saving a graph promises: a file holds one whole graph or does not  *)
(* exist, a save replaces the graph in one step or not at all, and after a *)
(* system crash the files are as they all were at one earlier moment.      *)
(***************************************************************************)
CONSTANTS Savers, Paths, Graphs, Absent, NoRequest

VARIABLES current, persisted, request

vars == <<current, persisted, request>>

Init ==
  /\ current \in [Paths -> Graphs \cup {Absent}]
  /\ persisted = current
  /\ request = [s \in Savers |-> NoRequest]

Ask(s, p, g) ==
  /\ request[s] = NoRequest
  /\ request' = [request EXCEPT ![s] = [path |-> p, graph |-> g]]
  /\ UNCHANGED <<current, persisted>>

Publish(s) ==
  /\ request[s] # NoRequest
  /\ current' = [current EXCEPT ![request[s].path] = request[s].graph]
  /\ request' = [request EXCEPT ![s] = NoRequest]
  /\ UNCHANGED persisted

GiveUp(s) ==
  /\ request' = [request EXCEPT ![s] = NoRequest]
  /\ UNCHANGED <<current, persisted>>

Persist ==
  /\ persisted' = current
  /\ UNCHANGED <<current, request>>

Crash ==
  /\ current' = persisted
  /\ request' = [s \in Savers |-> NoRequest]
  /\ UNCHANGED persisted

Next ==
  \/ \E s \in Savers : Publish(s) \/ GiveUp(s) \/ \E p \in Paths, g \in Graphs : Ask(s, p, g)
  \/ Persist
  \/ Crash

Spec == Init /\ [][Next]_vars
=============================================================================
