------------------------------- MODULE MCPages -------------------------------
(***************************************************************************)
(* The members' directory, the wall of memories, the tributes and the      *)
(* nominations: parts that share no state, so a behaviour uses one of      *)
(* them.                                                                   *)
(*                                                                         *)
(* Two members of one name, one of them with a profession, "tailleur"; two *)
(* cities, one of them often misspelt ("naimey"); a year only one of them  *)
(* attended.  Two requests of admins about one memory, that has up to      *)
(* three photos, and about one tribute.                                    *)
(* A member with two tabs, two nominations, two days; one review at a      *)
(* time, and deletions under it.                                           *)
(***************************************************************************)
EXTENDS Directory, Memories, Tributes, Nominations, TLC

CONSTANTS m1, m2, niamey, zinder, amadou, tailleur, naimey, w1, e1, a1, a2, r1,
  n1, n2, x1, x2

VARIABLE part

(* The two admins of the wall and of the tributes.                         *)
TwoAdmins == Permutations({a1, a2})

Names == (m1 :> {amadou, tailleur}) @@ (m2 :> {amadou})
Trades == (m1 :> {tailleur}) @@ (m2 :> {})
Attended == (m1 :> {1980}) @@ (m2 :> {})
Accounts == (m1 :> {}) @@ (m2 :> {})
Typed == {amadou, tailleur, niamey, naimey, 1980}
Chars == [t \in Typed |-> IF t = 1980 THEN 4 ELSE 6]
OneMember == [x \in Tabs |-> m1]
Parts == {<<amadou, amadou>>, <<tailleur, tailleur>>, <<niamey, niamey>>}
Alike == Parts \cup {<<naimey, niamey>>}

Init ==
  /\ part \in {"directory", "wall", "tributes", "nominations"}
  /\ DirectoryInit /\ WallInit /\ TributeInit /\ NominationInit

Next ==
  /\ UNCHANGED part
  /\ \/ part = "directory" /\ DirectoryNext /\ UNCHANGED <<wallVars, tributeVars, nominationVars>>
     \/ part = "wall" /\ WallNext /\ UNCHANGED <<row, tributeVars, nominationVars>>
     \/ part = "tributes" /\ TributeNext /\ UNCHANGED <<row, wallVars, nominationVars>>
     \/ part = "nominations" /\ NominationNext /\ UNCHANGED <<row, wallVars, tributeVars>>

Spec == Init /\ [][Next]_<<part, row, wallVars, tributeVars, nominationVars>>
=============================================================================
