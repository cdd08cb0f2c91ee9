------------------------------ MODULE Candidacy ------------------------------
(***************************************************************************)
(* What the cooptation promises a candidate, whatever processes carry it   *)
(* out: an application is open to its parrains, goes under review, and is  *)
(* decided once; a vote is cast once and only before the decision; the     *)
(* last vote puts the application under review in the same step; an        *)
(* approval creates the account of the address in the same step; what is   *)
(* erased was rejected or never decided, and stays erased.                 *)
(***************************************************************************)
CONSTANTS Apps, Parrains, Emails, EmailOf, None

VARIABLES
  phase,   \* phase[a] of application a
  votes,   \* votes[a][p]: what parrain p said about a
  owner    \* owner[e]: the application whose approval gave e its account

vars == <<phase, votes, owner>>

Phases == {"absent", "open", "review", "approved", "rejected", "erased"}
Undecided == {"open", "review"}

Init ==
  /\ phase = [a \in Apps |-> "absent"]
  /\ votes = [a \in Apps |-> [p \in Parrains |-> "none"]]
  /\ owner = [e \in Emails |-> None]

Move(a, from, to) ==
  /\ phase[a] \in from
  /\ phase' = [phase EXCEPT ![a] = to]

Submit(a) ==
  /\ Move(a, {"absent"}, "open")
  /\ votes' = [votes EXCEPT ![a] = [p \in Parrains |-> "pending"]]
  /\ UNCHANGED owner

Vote(a, p) ==
  /\ votes[a][p] = "pending"
  /\ \E v \in {"accepted", "refused"} : votes' = [votes EXCEPT ![a][p] = v]
  /\ IF \E q \in Parrains : votes'[a][q] = "pending"
     THEN phase[a] \in Undecided /\ UNCHANGED phase
     ELSE Move(a, Undecided, "review")
  /\ UNCHANGED owner

Escalate(a) == Move(a, {"open"}, "review") /\ UNCHANGED <<votes, owner>>

Approve(a) ==
  /\ Move(a, Undecided, "approved")
  /\ owner[EmailOf[a]] = None
  /\ owner' = [owner EXCEPT ![EmailOf[a]] = a]
  /\ UNCHANGED votes

Reject(a) == Move(a, Undecided, "rejected") /\ UNCHANGED <<votes, owner>>

Erase(a) == Move(a, {"review", "rejected"}, "erased") /\ UNCHANGED <<votes, owner>>

Next ==
  \E a \in Apps :
    \/ Submit(a) \/ Escalate(a) \/ Approve(a) \/ Reject(a) \/ Erase(a)
    \/ \E p \in Parrains : Vote(a, p)

Spec == Init /\ [][Next]_vars
=============================================================================
