--------------------------- MODULE MCTriageQueue ---------------------------
(* Instances of TriageQueue for TLC. *)
EXTENDS TriageQueue, TLC

\* The first plan has two units of one phase side by side, then one of the next; the
\* second has a single unit.
CONSTANTS a, b, d
WavesOf == <<<<{a, b}, {d}>>, <<{d}>>>>

\* Each version comes by a lane of its own.
LaneEach == [v \in Versions |-> v]

\* Units of one wave are alike, and so are callers.
AllSymmetry == Permutations(Callers) \cup Permutations({a, b})

\* Bound: a comparison does not touch the runs of the members, so a second run is
\* authorized only while no batch is compared.
SecondsAlone == (\E j \in Members : second[j]) => bound = {}
=============================================================================
