--------------------------- MODULE MCRosterClaims ---------------------------
(* An entry of the files and one an admin adds, in either of two years,    *)
(* with m1's names and m2's, or one token of m1's only; m2 is staff.  One  *)
(* of the files names an entry twice.                                      *)
EXTENDS RosterClaims, TLC

CONSTANTS e1, e2, m1, m2, x1, x2, a, b, c

Tokens == (m1 :> {a, b}) @@ (m2 :> {b, c})
Own == (x1 :> m1) @@ (x2 :> m2)
L(e, n, y) == [ref |-> e, name |-> n, year |-> y, ok |-> TRUE]
Files == {<<L(e1, {a, b, c}, 1980)>>, <<L(e1, {b}, 1981)>>,
          <<L(e1, {a, b, c}, 1980), L(e1, {b}, 1980)>>}
F(n, y, m) == [name |-> n, year |-> y, member |-> m]
Posts == {F({a, b, c}, 1980, None), F({a, b, c}, 1981, m1)}
Written == {{a, b, c}, {b}}
=============================================================================
