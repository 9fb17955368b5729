----------------------------- MODULE MCCollector -----------------------------
(* Collector on a small instance: ann has two sessions, bob has none. *)
EXTENDS Collector

CONSTANTS ann, bob

SmallOwner == [s \in Sessions |-> ann]
=============================================================================
