--------------------------- MODULE GuideAssignment ---------------------------
(***************************************************************************)
(* The assignment of least cost between the guides of a description and the   *)
(* curves of a guide cache (src/xgen_classic_alembic.cpp,                    *)
(* apply_xgen_classic_alembic_guide_cache_impl).                             *)
(*                                                                          *)
(* Rows are guides, columns are curves, and 0 is none.  A state is [row, at,  *)
(* used, previous, minimum, rowPotential, columnPotential], where row says    *)
(* whose each column is.                                                     *)
(***************************************************************************)
EXTENDS Vectors

\* One turn of the search for a free column.  In the first, no column has been
\* reached: its minimum is infinite.  With no column left the code fails.
Grow(costs, count, s) ==
  LET used == s.used \cup {s.at}
      row == s.row[s.at]
      free == 1 .. count \ used
      Reduced(c) == costs[row][c] - s.rowPotential[row] - s.columnPotential[c]
      nearer == {c \in free : s.used = {} \/ Reduced(c) < s.minimum[c]}
      minimum == [c \in 0 .. count |-> IF c \in nearer THEN Reduced(c) ELSE s.minimum[c]]
      delta == Min({minimum[c] : c \in free})
      rows == {s.row[c] : c \in used}
  IN IF row = 0 \/ free = {} THEN s
     ELSE [s EXCEPT
       !.used = used,
       !.previous = [c \in 0 .. count |-> IF c \in nearer THEN s.at ELSE s.previous[c]],
       !.minimum = [c \in 0 .. count |-> IF c \in used THEN minimum[c] ELSE minimum[c] - delta],
       !.rowPotential = [r \in 0 .. count |-> IF r \in rows THEN s.rowPotential[r] + delta ELSE s.rowPotential[r]],
       !.columnPotential = [c \in 0 .. count |-> IF c \in used THEN s.columnPotential[c] - delta ELSE s.columnPotential[c]],
       !.at = Min({c \in free : minimum[c] = delta})]

\* The rows move along the path that was found.
Augment(s, k) ==
  IF s.at = 0 THEN s
  ELSE [s EXCEPT !.row[s.at] = s.row[s.previous[s.at]], !.at = s.previous[s.at]]

\* Mutation of AssignRow: the path that was found is not followed back.
AssignRowGreedy(costs, count, s, row) ==
  LET free == {c \in 1 .. count : s.row[c] = 0}
      best == Min({c \in free : \A d \in free : costs[row][c] <= costs[row][d]})
  IN [s EXCEPT !.row[best] = row]

\* A search ends within as many turns as there are columns, a path within as
\* many steps.
Search(costs, count, s) == FoldLeft(LAMBDA t, k : Grow(costs, count, t), s, [k \in 1 .. count + 1 |-> k])

FollowBack(count, s) == FoldLeft(Augment, s, [k \in 1 .. count + 1 |-> k])

AssignRow(costs, count, s, row) ==
  FollowBack(count, Search(costs, count, [s EXCEPT !.row[0] = row, !.at = 0, !.used = {}]))

\* Before the first guide no column is given.
Unassigned(count) ==
  LET none == [c \in 0 .. count |-> 0]
  IN [row |-> none, at |-> 0, used |-> {}, previous |-> none, minimum |-> none,
      rowPotential |-> none, columnPotential |-> none]

\* The columns are given to one guide after another.
AssignRows(costs, count) ==
  FoldLeft(LAMBDA s, row : AssignRow(costs, count, s, row), Unassigned(count), [r \in 1 .. count |-> r])

\* For each guide its curve.
Assignment(costs) ==
  LET done == AssignRows(costs, Len(costs))
  IN [g \in 1 .. Len(costs) |-> CHOOSE c \in 1 .. Len(costs) : done.row[c] = g]

TotalCost(costs, mapping) == NumberSum([g \in 1 .. Len(costs) |-> costs[g][mapping[g]]])

\* The ways to give each guide a curve of its own.
Matchings(n) == Bijection(1 .. n, 1 .. n)

CostsLeast(costs, mapping) ==
  /\ mapping \in Matchings(Len(costs))
  /\ \A other \in Matchings(Len(costs)) : TotalCost(costs, mapping) <= TotalCost(costs, other)

=============================================================================
