------------------------------ MODULE Quadtree ------------------------------
(***************************************************************************)
(* The point quadtree of the Investigation Canvas                          *)
(* (web/src/components/investigation-canvas/quadtree.ts).  Cells are       *)
(* closed below and open above, the range of a query is closed on both     *)
(* sides, and a cell is visited only if it overlaps the range properly.    *)
(***************************************************************************)
EXTENDS Integers, Sequences, SequencesExt

CONSTANTS MAX_POINTS_PER_NODE, MAX_DEPTH

contains(b, p) == /\ p.x >= b.x /\ p.x < b.x + b.w
                  /\ p.y >= b.y /\ p.y < b.y + b.h

\* Mutant: only the cell around the middle of the range is visited.
intersectsCentre(a, b) == contains(a, [x |-> b.x + b.w \div 2, y |-> b.y + b.h \div 2])

intersects(a, b) == /\ a.x < b.x + b.w /\ a.x + a.w > b.x
                    /\ a.y < b.y + b.h /\ a.y + a.h > b.y

Within(p, b) == /\ p.x >= b.x /\ p.x <= b.x + b.w
                /\ p.y >= b.y /\ p.y <= b.y + b.h

QuadNode(bounds, depth) ==
    [bounds |-> bounds, depth |-> depth, points |-> << >>, children |-> << >>]

RECURSIVE insert(_, _)

\* Into the first child that contains the point.
insertIntoChildren(node, p) ==
    LET takers == {i \in DOMAIN node.children : contains(node.children[i].bounds, p)}
    IN  IF takers = {} THEN node
        ELSE [node EXCEPT !.children[Min(takers)] = insert(@, p)]

Quarters(node) ==
    LET b == node.bounds
        hw == b.w \div 2
        hh == b.h \div 2
        Child(x, y) == QuadNode([x |-> x, y |-> y, w |-> hw, h |-> hh], node.depth + 1)
    IN  <<Child(b.x, b.y), Child(b.x + hw, b.y), Child(b.x, b.y + hh), Child(b.x + hw, b.y + hh)>>

subdivide(node) ==
    FoldLeft(insertIntoChildren,
             [node EXCEPT !.children = Quarters(node), !.points = << >>], node.points)

insert(node, p) ==
    IF ~contains(node.bounds, p) THEN node
    ELSE IF node.children # << >> THEN insertIntoChildren(node, p)
    ELSE LET grown == [node EXCEPT !.points = Append(@, p)]
         IN  IF Len(grown.points) > MAX_POINTS_PER_NODE /\ node.depth < MAX_DEPTH
             THEN subdivide(grown) ELSE grown

QuadtreeOf(bounds, points) == FoldLeft(insert, QuadNode(bounds, 0), points)

RECURSIVE queryRange(_, _)
queryRange(node, range) ==
    IF ~intersects(node.bounds, range) THEN << >>
    ELSE IF node.children # << >>
    THEN FlattenSeq([i \in DOMAIN node.children |-> queryRange(node.children[i], range)])
    ELSE SelectSeq(node.points, LAMBDA p : Within(p, range))

DistSq(p, x, y) == (p.x - x) * (p.x - x) + (p.y - y) * (p.y - y)

\* The last of the nearest candidates, or none.
nearest(tree, x, y, radius, none) ==
    FoldLeft(LAMBDA best, p :
                IF DistSq(p, x, y) <= (IF best = none THEN radius * radius ELSE DistSq(best, x, y))
                THEN p ELSE best,
             none,
             queryRange(tree, [x |-> x - radius, y |-> y - radius, w |-> 2 * radius, h |-> 2 * radius]))
=============================================================================
