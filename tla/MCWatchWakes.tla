---------------------------- MODULE MCWatchWakes ----------------------------
(* Instances of WatchWakes for TLC. *)
EXTENDS WatchWakes, TLC

CONSTANT r1

\* All requests are about one scope and have one parent.
OneScope == [r \in Requests |-> "scope"]
OneParent == [r \in Requests |-> "parent"]

\* Of three bytes, two responses of two bytes are too many.
TwoPolls == [f \in Fields |-> IF f = "bytes" THEN 3 ELSE 2]

Symmetry == Permutations(Pollers) \cup Permutations(Runners)

\* The first poll has just written the first wake.
FirstWake ==
  /\ outbox = {[watch |-> Root(r1), new |-> {1}]}
  /\ used[Root(r1)] = [polls |-> 1, bytes |-> 2, wakes |-> 1]
  /\ status[Root(r1)] = "triggered" /\ cooling[Root(r1)]
  /\ base[Root(r1)] = {} /\ journaled = 1
  /\ \A k \in Pollers : pc[k] = "idle"
  /\ \A o \in Owners : ~past[o]

\* Bound: the request r1 comes first.  The others, and the runners, come when its watch
\* has written its first wake; then the pollers and the clocks rest, and only the
\* callback of r1 is judged.
Staged ==
  \/ /\ FirstWake
     /\ \A r \in Requests \ {r1} : outcome[r] # "rejected"
     /\ \A c \in Callbacks : c[2] # r1 => role[c] = "none"
  \/ /\ \A k \in Runners : at[k] = "idle"
     /\ \A r \in Requests \ {r1} : outcome[r] = "none"
     /\ \A m \in Wakes : subscribers[m] = {}
=============================================================================
