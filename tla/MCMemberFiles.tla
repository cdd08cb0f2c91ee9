---------------------------- MODULE MCMemberFiles ----------------------------
(* One member of the staff and one other, a browser that shows one form at *)
(* a time, two files.                                                      *)
EXTENDS MemberFiles

CONSTANTS m1, m2, x1
=============================================================================
