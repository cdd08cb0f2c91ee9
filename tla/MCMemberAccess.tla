--------------------------- MODULE MCMemberAccess ---------------------------
(* The owner, one more member, and a browser each.                         *)
EXTENDS MemberAccess, TLC

CONSTANTS m1, m2, x1, x2

Own == (x1 :> m1) @@ (x2 :> m2)
=============================================================================
