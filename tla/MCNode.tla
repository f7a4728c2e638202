-------------------------------- MODULE MCNode --------------------------------
(* Small instances of Node: one name, under which pods are created again, and integers
   up to 100000 in the validator, so that minutes overflow. *)
EXTENDS Node

CONSTANT a

OnePod == {a}

Text(n, unit) == [number |-> {n}, unit |-> unit]

MCTimeouts == {Text(10, "s"), Text(2, "m"), Text(120, ""), Text(0, "")}
=============================================================================
