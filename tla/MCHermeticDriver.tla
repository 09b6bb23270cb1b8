-------------------------- MODULE MCHermeticDriver --------------------------
(* HermeticDriver with two runs in one namespace.  The runs have different *)
(* keys; the network files before and after a migration differ.            *)
EXTENDS HermeticDriver

CONSTANTS d1, d2, key1, key2, pre, post

MCDrivers == {d1, d2}
MCKeys == {key1, key2}
MCKey == [d \in MCDrivers |-> IF d = d1 THEN key1 ELSE key2]
MCSpecs == {pre, post}
MCSpec0 == [d \in MCDrivers |-> pre]
MCSpec1 == [d \in MCDrivers |-> post]
=============================================================================
