-------------------------- MODULE MCRepairController --------------------------
(* Small instances of RepairController: one pod at the start, a channel with *)
(* room for one reference, and a watch at most two events behind.            *)
EXTENDS RepairController

CONSTANTS a, b

OnePod  == {a}
TwoPods == {a, b}
=============================================================================
