--------------------------- MODULE MCGhostRemoval ---------------------------
(* A small instance: one listed entry, one request about it, two           *)
(* conversations (the visitor's second click, or an admin).                *)
EXTENDS GhostRemoval, TLC

CONSTANTS e1, r1, x1, x2

OneEntry == [r \in Requests |-> e1]
=============================================================================
