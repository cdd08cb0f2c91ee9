------------------------------ MODULE Directory ------------------------------
(***************************************************************************)
(* The members' directory and its two searches (members/search.py,         *)
(* directory_view, member_list_view), as functions of the columns of the   *)
(* member rows they read, and the forms that write those columns.          *)
(*                                                                         *)
(* A query is the set of its tokens.  What the database decides about two  *)
(* strings is given: whether a column contains a token, accents and case   *)
(* folded, and whether the two are similar enough (trigrams).  Paging and  *)
(* sorting are left out.                                                   *)
(***************************************************************************)
EXTENDS Integers

CONSTANTS
  Members,
  Cities,     \* a city and its country, shown or hidden together
  Said,       \* Said[m]: the words of m's names and profession
  Works,      \* Works[m]: those of the profession
  Years,      \* Years[m]: the years m attended
  Logins,     \* Logins[m]: m's username, email and number
  Promotions, \* the years of the school, 1980 to 1985
  Tokens,     \* what people type
  Length,     \* Length[t]: the number of characters of t
  Numeric,    \* the tokens made of digits
  Contains,   \* pairs of a token and a word that contains it
  Similar,    \* pairs of a token and a word similar to it
  None        \* no city, year or profession chosen

ASSUME DirectoryAssumption ==
  /\ Length \in [Tokens -> Nat] /\ Numeric \subseteq Tokens
  /\ Promotions \subseteq Numeric \cap (1980..1985)    \* VALID_YEARS
  /\ \A m \in Members : Works[m] \subseteq Said[m] /\ Years[m] \subseteq Promotions
  /\ None \notin Cities \cup Tokens /\ Cities # {}

VARIABLE row    \* row[m]: the columns of Member the directory reads

MinFuzzy == 4    \* _TRIGRAM_MIN_TOKEN_LEN

Statuses == {"active", "suspended", "deleted"}
MemberRow == [stored: BOOLEAN, status: Statuses, city: Cities, show: BOOLEAN]

(* show_city is opt-out.                                                   *)
NewRow(c) == [stored |-> TRUE, status |-> "active", city |-> c, show |-> TRUE]

-----------------------------------------------------------------------------
(* What a member may be found by: the city only when the member shows it.  *)
Text(rows, m) == Said[m] \cup (IF rows[m].show THEN {rows[m].city} ELSE {})

Active(rows) == {m \in Members : rows[m].stored /\ rows[m].status = "active"}

(* _token_block: the token is in one of the columns, or is a year.         *)
TokenBlock(rows, m, t) ==
  \/ \E w \in Text(rows, m) : <<t, w>> \in Contains
  \/ t \in Numeric /\ t \in Years[m]

Exact(rows, q) == {m \in Active(rows) : \A t \in q : TokenBlock(rows, m, t)}

(* _longest_non_numeric_token.                                             *)
Longest(q) ==
  LET words == q \ Numeric
  IN  IF words = {} THEN None
      ELSE CHOOSE t \in words : \A u \in words : Length[u] <= Length[t]

(* _trigram_fallback.  Mutant: the similarity of the city counts for       *)
(* everybody.                                                              *)
TrigramUngated(rows, t) ==
  {m \in Active(rows) : \E w \in Said[m] \cup {rows[m].city} : <<t, w>> \in Similar}

Trigram(rows, t) == {m \in Active(rows) : \E w \in Text(rows, m) : <<t, w>> \in Similar}

(* search_members: every token, or else members like the longest one.      *)
SearchMembers(rows, q) ==
  IF q = {} THEN Active(rows)
  ELSE IF Exact(rows, q) # {} THEN Exact(rows, q)
  ELSE IF Longest(q) = None \/ Length[Longest(q)] < MinFuzzy THEN {}
  ELSE Trigram(rows, Longest(q))

(* directory_view: the search, then the facets chosen, each by itself; a   *)
(* year out of range is no filter.  A city is asked of those who show it.  *)
Query == [q: SUBSET Tokens, year: Numeric \cup {None}, city: Cities \cup {None},
          work: Tokens \cup {None}]
InYear(y) == {m \in Members : y \in Promotions => y \in Years[m]}
InCity(rows, c) == {m \in Members : c # None => rows[m].show /\ rows[m].city = c}
InWork(t) == {m \in Members : t # None => \E w \in Works[m] : <<t, w>> \in Contains}

Page(rows, f) ==
  SearchMembers(rows, f.q) \cap InYear(f.year) \cap InCity(rows, f.city) \cap InWork(f.work)

(* The page's links: a chip drops one filter, "Ma promotion" chooses the   *)
(* first of one's years.                                                   *)
Chips(f) == {[f EXCEPT !.q = {}], [f EXCEPT !.year = None], [f EXCEPT !.city = None],
             [f EXCEPT !.work = None]}
Mine(f, m) ==
  [f EXCEPT !.year = IF Years[m] = {} THEN None
                     ELSE CHOOSE y \in Years[m] : \A z \in Years[m] : y <= z]

(* search_members_staff: cities and logins included, years not, and no     *)
(* fuzzy fallback.  Mutant: the query is one string, as it once was.       *)
Record(rows, m) == Said[m] \cup Logins[m] \cup {rows[m].city}

SearchStaffWhole(rows, base, q) ==
  {m \in base : \E w \in Record(rows, m) : \A t \in q : <<t, w>> \in Contains}

SearchStaff(rows, base, q) ==
  {m \in base : \A t \in q : \E w \in Record(rows, m) : <<t, w>> \in Contains}

(* member_list_view: never the deleted, and of one status if asked.        *)
StaffPage(rows, q, status) ==
  SearchStaff(rows, {m \in Members : /\ rows[m].stored /\ rows[m].status # "deleted"
                                     /\ status \in {"all", rows[m].status}}, q)

-----------------------------------------------------------------------------
NoRow == [NewRow(CHOOSE c \in Cities : TRUE) EXCEPT !.stored = FALSE]
DirectoryInit == row = [m \in Members |-> NoRow]

(* An account is created by an approval or an import.                      *)
Create(m) ==
  /\ ~row[m].stored
  /\ \E c \in Cities : row' = [row EXCEPT ![m] = NewRow(c)]

(* The command create_member creates the account of an address, or updates *)
(* the oldest that has it; the status and what is shown are not its.       *)
CreateMember(m) ==
  \E c \in Cities :
    row' = [row EXCEPT ![m] = IF row[m].stored THEN [row[m] EXCEPT !.city = c] ELSE NewRow(c)]

(* ProfileEditForm.                                                        *)
Profile(m) ==
  /\ row[m].stored
  /\ \E c \in Cities, s \in BOOLEAN :
       row' = [row EXCEPT ![m].city = c, ![m].show = s]

(* MemberAdminEditForm has the city, and not what the member shows.        *)
StaffEdit(m) ==
  /\ row[m].stored
  /\ \E c \in Cities : row' = [row EXCEPT ![m].city = c]

(* member_status_view, and MemberAdmin's form, that has every column.      *)
Status(m) ==
  /\ row[m].stored
  /\ \E s \in {"active", "suspended"} : row' = [row EXCEPT ![m].status = s]

AdminEdit(m) ==
  /\ row[m].stored
  /\ \E r \in MemberRow : r.stored /\ row' = [row EXCEPT ![m] = r]

(* rgpd_purge_member.                                                      *)
Purge(m) ==
  /\ row[m].stored
  /\ row' = [row EXCEPT ![m].stored = FALSE]

DirectoryNext ==
  \E m \in Members :
    \/ Create(m) \/ CreateMember(m) \/ Purge(m)
    \/ Profile(m) \/ StaffEdit(m) \/ Status(m) \/ AdminEdit(m)

DirectorySpec == DirectoryInit /\ [][DirectoryNext]_row

-----------------------------------------------------------------------------
(* The row stays in its type.                                              *)
DirectoryTypeOK == row \in [Members -> MemberRow]

(* show_city = FALSE hides the city from the other members, who may search *)
(* for what they like, exact or misspelt, and choose any city, year and    *)
(* profession ("anyone could probe ~6 plausible cities and infer exactly   *)
(* what the privacy toggle promised to hide"): the directory answers as if *)
(* the hidden city were any other.                                         *)
HiddenCityUnguessable ==
  /\ DirectoryTypeOK
  /\ \A m \in Members : ~row[m].show =>
       \A f \in Query, c \in Cities : Page(row, f) = Page([row EXCEPT ![m].city = c], f)

(* Whoever a member finds by exact words, the console finds too (it "had   *)
(* drifted": a full name once found nobody), years apart, which only the   *)
(* directory searches.  Whom a page shows, the pages without one of its    *)
(* filters show too, the fuzzy answers included, and "Ma promotion" keeps  *)
(* the member who asks.                                                    *)
ConsoleFindsAll ==
  /\ \A q \in SUBSET (Tokens \ Numeric) : Exact(row, q) \subseteq StaffPage(row, q, "active")
  /\ Active(row) # {} => \A f \in Query :
       /\ LET found == Page(row, f) IN \A g \in Chips(f) : found \subseteq Page(row, g)
       /\ \A m \in Page(row, [f EXCEPT !.year = None]) : m \in Page(row, Mine(f, m))
=============================================================================
