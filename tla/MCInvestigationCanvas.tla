----------------------- MODULE MCInvestigationCanvas -----------------------
(* Two cases with equal graph keys and different layouts.  Columns fall on  *)
(* the borders of the quadtree's cells, as they do in the console.          *)
EXTENDS InvestigationCanvas

P(x, y) == [x |-> x, y |-> y]
MCFirstSeen == [c \in {"A", "B"} |-> IF c = "A" THEN <<0, 5, 0, 10, 10>> ELSE <<0, 10, 10, 5, 10>>]
L(from, to, evidence) == [from |-> from, to |-> to, evidence |-> evidence]
MCLinks == [c \in {"A", "B"} |->
               IF c = "A" THEN <<L(3, 4, {4}), L(1, 2, {1, 3}), L(2, 2, {9}), L(1, 5, {2})>>
               ELSE <<L(4, 5, {6, 7}), L(1, 2, {5})>>]
MCCursors == {P(4, 4), P(20, 4), P(12, 12)}
MCSizes == {P(48, 24), P(0, 0)}
=============================================================================
