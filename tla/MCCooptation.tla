---------------------------- MODULE MCCooptation ----------------------------
(* Small instances of the cooptation: the .cfg files name the processes.  *)
EXTENDS CooptationProperties, TLC

CONSTANTS a1, a2, p1, p2, x1, x2, e1, e2

(* All applications come from one address.                                *)
OneAddress == [a \in Apps |-> e1]

(* Who works alone: whoever decides or edits, whoever signs up, nobody.    *)
Deciders == {"approve", "approved", "reject", "rejected", "tab", "edit"}
Signers == {"signup"}
Nobody == {}

(* Parrains and conversations are interchangeable.                        *)
Symmetric == Permutations(Parrains) \cup Permutations(Clients)

(* So are applications of one address.                                    *)
SameAddress == Symmetric \cup Permutations(Apps)
=============================================================================
