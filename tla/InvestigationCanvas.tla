------------------------ MODULE InvestigationCanvas ------------------------
(***************************************************************************)
(* The two pages that show one case, the Investigation Canvas and the      *)
(* Timeline, in one tab: web/src/components/investigation-canvas and       *)
(* components/timeline, over the graphs of lib/data/graph.ts.              *)
(*                                                                         *)
(* The case is in the URL.  A page stays mounted when only the case        *)
(* changes (back and forward), so its selection and a running replay       *)
(* survive; the canvas inside it is there only while its graph is loaded.  *)
(* Gestures queue updates of the viewport, a later render applies them,    *)
(* and an effect after that copies the viewport to the ref that drawing    *)
(* and hit-testing read.  The zoom is in quarters, doubles per notch       *)
(* (1.12 in the code) and is exact on coordinates that are multiples of 8. *)
(***************************************************************************)
EXTENDS Quadtree, Timeline, WebMerkle, TLC

CONSTANTS Cases,
          FirstSeen,     \* firstSeenMs of the nodes of a case
          Links,         \* its edges: nodes from and to, and evidence
          columnCount,
          COLUMN_WIDTH, ROW_HEIGHT, HIT_RADIUS_PX,
          MIN_ZOOM, MAX_ZOOM, LABEL_ZOOM_THRESHOLD, MAX_LABELS,
          REPLAY_LIMIT,  \* edges of a replay, 80 in the code
          Cursors,       \* bound: where on the screen the pointer is used
          Sizes,         \* bound: what the resize observer reports
          MaxOps,        \* bound: what the operator does
          None

ASSUME CanvasAssumption ==
    \A c \in Cases : /\ FirstSeen[c] # << >>
                     /\ \E i \in DOMAIN Links[c] : Links[c][i].from # Links[c][i].to
                                                   /\ Links[c][i].evidence # {}

(***************************************************************************)
(* The graph of a case.  The server caches it, and makes the same one      *)
(* again after a restart.                                                  *)
(***************************************************************************)
\* An edge starts when the later of its ends was first seen; an edge from a
\* node to itself is not made.
generateGraph(case) ==
    LET all == [i \in DOMAIN Links[case] |->
                   [case |-> case, n |-> i, from |-> Links[case][i].from, to |-> Links[case][i].to,
                    evidence |-> Links[case][i].evidence,
                    start |-> Max({FirstSeen[case][Links[case][i].from],
                                   FirstSeen[case][Links[case][i].to]})]]
    IN  SelectSeq(all, LAMBDA e : e.from # e.to)

Edges == [case \in Cases |-> generateGraph(case)]

graphEvidence(case) ==
    SetToSortSeq(UNION {e.evidence : e \in Range(Edges[case])}, <)

\* Mutant: the index is the one in the list before it was sorted.
proveGraphEvidenceInclusionUnsorted(case, id) ==
    IF id \notin Range(graphEvidence(case)) THEN None
    ELSE proveInclusion(buildMerkleTree(graphEvidence(case)),
            Len(graphEvidence(case)) - (CHOOSE i \in DOMAIN graphEvidence(case) : graphEvidence(case)[i] = id))

proveGraphEvidenceInclusion(case, id) ==
    IF id \notin Range(graphEvidence(case)) THEN None
    ELSE proveInclusion(buildMerkleTree(graphEvidence(case)),
            (CHOOSE i \in DOMAIN graphEvidence(case) : graphEvidence(case)[i] = id) - 1)

ColumnOf(times, i) ==
    Min({columnCount - 1,
         ((times[i] - Min(Range(times))) * columnCount)
            \div Max({1, Max(Range(times)) - Min(Range(times))})})

\* Columns in the order in which a node first needs them, each packed from the
\* top in the order of ids.
layoutNodes(times) ==
    LET nodes == [i \in DOMAIN times |-> i]
        Above(i) == {j \in 1..i - 1 : ColumnOf(times, j) = ColumnOf(times, i)}
        Column(first) == SelectSeq(nodes, LAMBDA i : ColumnOf(times, i) = ColumnOf(times, first))
        Place(i) == [id |-> i, column |-> ColumnOf(times, i), x |-> ColumnOf(times, i) * COLUMN_WIDTH,
                     y |-> Cardinality(Above(i)) * ROW_HEIGHT]
        firsts == SelectSeq(nodes, LAMBDA i : Above(i) = {})
        order == FlattenSeq([k \in DOMAIN firsts |-> Column(firsts[k])])
    IN  [k \in DOMAIN order |-> Place(order[k])]

laidOut == [case \in Cases |-> layoutNodes(FirstSeen[case])]

nodeById(case, id) == CHOOSE n \in Range(laidOut[case]) : n.id = id

Extent(nodes) ==
    [minX |-> Min({n.x : n \in nodes}), maxX |-> Max({n.x : n \in nodes}),
     minY |-> Min({n.y : n \in nodes}), maxY |-> Max({n.y : n \in nodes})]

RootBounds(e) ==
    [x |-> e.minX - COLUMN_WIDTH, w |-> e.maxX - e.minX + 2 * COLUMN_WIDTH,
     y |-> e.minY - ROW_HEIGHT, h |-> e.maxY - e.minY + 2 * ROW_HEIGHT]

quadtree == [case \in Cases |->
                QuadtreeOf(RootBounds(Extent(Range(laidOut[case]))), laidOut[case])]

graphKey(case) == <<Len(laidOut[case]), Max({n.column : n \in Range(laidOut[case])})>>

(***************************************************************************)
(* The viewport.                                                           *)
(***************************************************************************)
InitialView == [panX |-> 0, panY |-> 0, zoom |-> 4, width |-> 24, height |-> 24]

screenToWorld(s, v) ==
    [x |-> ((s.x - v.width \div 2) * 4) \div v.zoom + v.panX,
     y |-> ((s.y - v.height \div 2) * 4) \div v.zoom + v.panY]

FitTo(v, e) ==
    [v EXCEPT !.panX = (e.minX + e.maxX) \div 2, !.panY = (e.minY + e.maxY) \div 2,
              !.zoom = Min({4, (4 * v.width) \div Max({1, e.maxX - e.minX + COLUMN_WIDTH}),
                               (4 * v.height) \div Max({1, e.maxY - e.minY + ROW_HEIGHT})})]

NextZoom(v, u) == IF u.dir = "in" THEN Min({MAX_ZOOM, v.zoom * 2}) ELSE Max({MIN_ZOOM, v.zoom \div 2})

\* Mutant: the pan is computed with the zoom before it is clamped.
zoomAroundUnclamped(v, u) ==
    LET raw == IF u.dir = "in" THEN v.zoom * 2 ELSE v.zoom \div 2 IN
    [v EXCEPT !.zoom = NextZoom(v, u),
              !.panX = u.world.x - ((u.world.x - @) * v.zoom) \div raw,
              !.panY = u.world.y - ((u.world.y - @) * v.zoom) \div raw]

\* The notch of the wheel u keeps the point u.world where it is.
zoomAround(v, u) ==
    [v EXCEPT !.zoom = NextZoom(v, u),
              !.panX = u.world.x - ((u.world.x - @) * v.zoom) \div NextZoom(v, u),
              !.panY = u.world.y - ((u.world.y - @) * v.zoom) \div NextZoom(v, u)]

Updated(v, u) ==
    CASE u.by = "wheel" -> zoomAround(v, u)
      [] u.by = "drag" -> [v EXCEPT !.panX = u.panX - (u.dx * 4) \div v.zoom,
                                    !.panY = u.panY - (u.dy * 4) \div v.zoom]
      [] u.by = "resize" -> [v EXCEPT !.width = u.size.x, !.height = u.size.y]

(***************************************************************************)
(* State.                                                                  *)
(***************************************************************************)
VARIABLES url,       \* page and case
          graphs,    \* the cases whose graph the browser has
          selected,  \* selectedNodeId and selectedEdge
          replay,    \* replayEdgeIds, the intervals, replayTimer.current
          canvas,    \* the mounted GraphCanvas: viewport, ref, updates, drag
          panel,     \* the mounted ClaimPanel: its edge and proof marks
          checks,    \* its proof requests under way
          track,     \* the mounted Timeline and its events
          click,     \* the last hit test: where, how far, what
          anchor,    \* the point under a cursor that only turns the wheel
          ops

vars == <<url, graphs, selected, replay, canvas, panel, checks, track, click, anchor, ops>>

NothingSelected == [node |-> None, edge |-> None]
NoReplay == [n |-> 0, path |-> << >>, shown |-> None, timers |-> {}, current |-> 0]

Operate == ops < MaxOps /\ ops' = ops + 1

Ready == url.page = "canvas" /\ url.case \in graphs

(***************************************************************************)
(* Mounting, rendering.                                                    *)
(***************************************************************************)
\* A render flushes the effect of the one before, applies the queued updates,
\* and fits the graph if its key is new.
Rendered(cv, case) ==
    LET v == FoldLeft(Updated, cv.view, cv.queue)
    IN  [cv EXCEPT !.ref = cv.view, !.queue = << >>, !.fitted = graphKey(case),
            !.view = IF cv.fitted = graphKey(case) THEN v ELSE FitTo(v, Extent(Range(laidOut[case])))]

Mount == [view |-> InitialView, ref |-> InitialView, queue |-> << >>, drag |-> None, fitted |-> None]

\* A page just opened, with the graphs of cases visited before.
Init ==
    /\ url \in [page : {"canvas", "timeline"}, case : Cases]
    /\ graphs \in SUBSET Cases
    /\ selected = NothingSelected /\ replay = NoReplay
    /\ canvas = IF Ready THEN Rendered(Mount, url.case) ELSE None
    /\ panel = None /\ checks = {}
    /\ track = [state |-> TimelineInit, events |-> None]
    /\ click = None /\ anchor = None /\ ops = 0

\* The canvas is kept, made or dropped.
ShowCanvas(case, shown) ==
    canvas' = IF ~shown THEN None ELSE Rendered(IF canvas = None THEN Mount ELSE canvas, case)

\* The claim panel is keyed by its edge; the answers for one that is gone go
\* nowhere.
ShowPanel(shown, edge) ==
    LET kept == shown /\ panel # None /\ panel.edge = edge IN
    /\ panel' = IF kept THEN panel
                ELSE IF shown /\ edge # None THEN [edge |-> edge, marks |-> << >>]
                ELSE None
    /\ checks' = IF kept THEN checks ELSE {}

Render ==
    /\ canvas # None /\ canvas.queue # << >>
    /\ canvas' = Rendered(canvas, url.case)
    /\ UNCHANGED <<url, graphs, selected, replay, panel, checks, track, click, anchor, ops>>

Effect ==
    /\ canvas # None /\ canvas.ref # canvas.view
    /\ canvas' = [canvas EXCEPT !.ref = canvas.view]
    /\ UNCHANGED <<url, graphs, selected, replay, panel, checks, track, click, anchor, ops>>

(***************************************************************************)
(* Navigation and data.                                                    *)
(***************************************************************************)
\* Another page unmounts this one; another case, or none, does not.
Go(page, case) ==
    /\ Operate
    /\ <<page, case>> # <<url.page, url.case>>
    /\ url' = [page |-> page, case |-> case]
    /\ LET stays == page = url.page IN
          /\ selected' = IF stays THEN selected ELSE NothingSelected
          /\ replay' = IF stays THEN replay ELSE NoReplay
          /\ track' = IF stays THEN [track EXCEPT !.events = None]
                      ELSE [state |-> TimelineInit, events |-> None]
    /\ ShowCanvas(case, page = "canvas" /\ case \in graphs)
    /\ ShowPanel(page = "canvas" /\ case \in graphs, selected'.edge)
    /\ click' = None /\ anchor' = None
    /\ UNCHANGED graphs

fetchGraph ==
    /\ url.page = "canvas" /\ url.case \notin graphs \cup {None}
    /\ graphs' = graphs \cup {url.case}
    /\ ShowCanvas(url.case, TRUE)
    /\ ShowPanel(TRUE, selected.edge)
    /\ UNCHANGED <<url, selected, replay, track, click, anchor, ops>>

fetchTimeline ==
    /\ url.page = "timeline" /\ url.case # None /\ track.events = None
    /\ \E events \in SUBSET Times : track' = [track EXCEPT !.events = events]
    /\ UNCHANGED <<url, graphs, selected, replay, canvas, panel, checks, click, anchor, ops>>

UseTrack ==
    /\ Operate
    /\ url.page = "timeline" /\ track.events # None
    /\ \E state \in {toggleCompress(track.state), zoomOut(track.state), zoomIn(track.state)}
                    \cup {onSelectEvent(track.state, e) : e \in track.events} :
          track' = [track EXCEPT !.state = state]
    /\ UNCHANGED <<url, graphs, selected, replay, canvas, panel, checks, click, anchor>>

(***************************************************************************)
(* Gestures on the canvas.                                                 *)
(***************************************************************************)
Settled(cv) == FoldLeft(Updated, cv.view, cv.queue)

handleWheel(s, dir) ==
    /\ Operate /\ canvas # None
    /\ LET world == screenToWorld(s, canvas.ref) IN
          /\ canvas' = [canvas EXCEPT !.queue =
                Append(@, [by |-> "wheel", dir |-> dir, world |-> world])]
          /\ anchor' = IF anchor # None /\ anchor.at = s THEN anchor
                       ELSE IF canvas.queue = << >> /\ canvas.ref = canvas.view THEN [at |-> s, world |-> world]
                       ELSE None
    /\ UNCHANGED <<url, graphs, selected, replay, panel, checks, track, click>>

\* A report of 0 x 0 is ignored.
ResizeObserver(size) ==
    /\ Operate /\ canvas # None
    /\ canvas' = IF size.x <= 0 \/ size.y <= 0 THEN canvas
                 ELSE [canvas EXCEPT !.queue = Append(@, [by |-> "resize", size |-> size])]
    /\ anchor' = IF canvas' = canvas THEN anchor ELSE None
    /\ UNCHANGED <<url, graphs, selected, replay, panel, checks, track, click>>

onPointerDown(s) ==
    /\ Operate /\ canvas # None /\ canvas.drag = None
    /\ canvas' = [canvas EXCEPT !.drag = [at |-> s, panX |-> canvas.view.panX,
                                          panY |-> canvas.view.panY, dragged |-> FALSE]]
    /\ UNCHANGED <<url, graphs, selected, replay, panel, checks, track, click, anchor>>

\* The pan follows the pointer from where the drag began.
onPointerMove(s) ==
    /\ Operate /\ canvas # None /\ canvas.drag # None
    /\ LET d == canvas.drag
           dx == s.x - d.at.x
           dy == s.y - d.at.y
       IN  canvas' = [canvas EXCEPT
              !.drag.dragged = @ \/ dx \notin -2..2 \/ dy \notin -2..2,
              !.queue = Append(@, [by |-> "drag", panX |-> d.panX, panY |-> d.panY,
                                   dx |-> dx, dy |-> dy])]
    /\ anchor' = None
    /\ UNCHANGED <<url, graphs, selected, replay, panel, checks, track, click>>

\* The square of the distance from w to the segment a b, as a fraction.
pointToSegmentDistance(w, a, b) ==
    LET dx == b.x - a.x
        dy == b.y - a.y
        lenSq == dx * dx + dy * dy
        along == (w.x - a.x) * dx + (w.y - a.y) * dy
        across == (w.x - a.x) * dy - (w.y - a.y) * dx
    IN  IF along <= 0 THEN <<DistSq(a, w.x, w.y), 1>>
        ELSE IF along >= lenSq THEN <<DistSq(b, w.x, w.y), 1>>
        ELSE <<across * across, lenSq>>

Less(p, q) == p[1] * q[2] < q[1] * p[2]

\* The first of the nearest edges that are nearer than the tolerance.
EdgeHit(case, w, tolerance) ==
    LET far == [edge |-> None, dist |-> <<tolerance * tolerance, 1>>]
        Dist(e) == pointToSegmentDistance(w, nodeById(case, e.from), nodeById(case, e.to))
    IN  FoldLeft(LAMBDA best, e : IF Less(Dist(e), best.dist) THEN [edge |-> e, dist |-> Dist(e)] ELSE best,
                 far, Edges[case]).edge

\* A press without a drag selects the nearest node, else the nearest edge, else
\* nothing.
onPointerUp(s) ==
    /\ Operate /\ canvas # None /\ canvas.drag # None
    /\ LET world == screenToWorld(s, canvas.ref)
           hitRadius == (HIT_RADIUS_PX * 4) \div canvas.view.zoom
           node == nearest(quadtree[url.case], world.x, world.y, hitRadius, None)
       IN  IF canvas.drag.dragged THEN UNCHANGED <<selected, click>>
           ELSE /\ click' = [at |-> world, radius |-> hitRadius, node |-> node]
                /\ selected' = IF node # None THEN [node |-> <<url.case, node.id>>, edge |-> None]
                               ELSE [node |-> None, edge |-> EdgeHit(url.case, world, (hitRadius * 3) \div 2)]
    /\ ShowPanel(TRUE, selected'.edge)
    /\ canvas' = [canvas EXCEPT !.drag = None]
    /\ UNCHANGED <<url, graphs, replay, track, anchor>>

(***************************************************************************)
(* The panels.                                                             *)
(***************************************************************************)
\* The entity panel is there if the selected node is one of the graph shown;
\* its list of claims selects an edge.
onSelectEdge(e) ==
    /\ Operate /\ Ready
    /\ selected.node \in {<<url.case, e.from>>, <<url.case, e.to>>}
    /\ selected' = [node |-> None, edge |-> e]
    /\ ShowPanel(TRUE, e)
    /\ UNCHANGED <<url, graphs, replay, canvas, track, click, anchor>>

Mark(id, mark) == panel' = [panel EXCEPT !.marks = (id :> mark) @@ @]

\* The button beside an evidence id, disabled while its check is under way.
CanVerify(id) == panel # None /\ \A k \in checks : k.id # id

\* The request is for the case of the URL, whatever case the edge is of.
verify(id) ==
    /\ Operate /\ CanVerify(id)
    /\ checks' = checks \cup {[id |-> id, case |-> url.case]}
    /\ Mark(id, [state |-> "checking", of |-> url.case, lost |-> FALSE])
    /\ UNCHANGED <<url, graphs, selected, replay, canvas, track, click, anchor>>

\* An id without a proof is answered with an error status.
AnswerProof(k) ==
    /\ checks' = checks \ {k}
    /\ LET proof == proveGraphEvidenceInclusion(k.case, k.id)
       IN  Mark(k.id, [state |-> IF proof = None THEN "error"
                                 ELSE IF verifyInclusion(k.id, proof) THEN "valid" ELSE "invalid",
                       of |-> k.case, lost |-> FALSE])
    /\ UNCHANGED <<url, graphs, selected, replay, canvas, track, click, anchor, ops>>

LoseProof(k) ==
    /\ checks' = checks \ {k}
    /\ Mark(k.id, [state |-> "error", of |-> k.case, lost |-> TRUE])
    /\ UNCHANGED <<url, graphs, selected, replay, canvas, track, click, anchor, ops>>

(***************************************************************************)
(* Replay of the attack path.                                              *)
(***************************************************************************)
\* The edges by start, those of one time in their own order.
chronological(case) ==
    LET sorted == SortSeq(Edges[case], LAMBDA a, b : a.start < b.start \/ (a.start = b.start /\ a.n < b.n))
    IN  SubSeq(sorted, 1, Min({REPLAY_LIMIT, Len(sorted)}))

Prefix(path, i) == {path[k] : k \in 1..i}

clearInterval(n) == {t \in replay.timers : t.n # n}

\* Mutant: the interval of the replay before is left running.
replayAttackPathKeeps(reducedMotion) ==
    /\ Operate /\ Ready
    /\ LET path == chronological(url.case)
           n == replay.n + 1
       IN  replay' = IF reducedMotion
                     THEN [replay EXCEPT !.n = n, !.path = path, !.shown = Range(path)]
                     ELSE [n |-> n, path |-> path, shown |-> {}, current |-> n,
                           timers |-> replay.timers \cup {[n |-> n, path |-> path, i |-> 0]}]
    /\ UNCHANGED <<url, graphs, selected, canvas, panel, checks, track, click, anchor>>

\* With reduced motion the whole path at once, else an edge per tick.
replayAttackPath(reducedMotion) ==
    /\ Operate /\ Ready
    /\ LET path == chronological(url.case)
           n == replay.n + 1
           others == clearInterval(replay.current)
       IN  replay' = IF reducedMotion
                     THEN [replay EXCEPT !.n = n, !.path = path, !.shown = Range(path), !.timers = others]
                     ELSE [n |-> n, path |-> path, shown |-> {}, current |-> n,
                           timers |-> others \cup {[n |-> n, path |-> path, i |-> 0]}]
    /\ UNCHANGED <<url, graphs, selected, canvas, panel, checks, track, click, anchor>>

\* An interval shows one edge more of its path, or ends.
Tick(t) ==
    /\ replay' = IF t.i >= Len(t.path) THEN [replay EXCEPT !.timers = clearInterval(replay.current)]
                 ELSE [replay EXCEPT !.shown = Prefix(t.path, t.i + 1),
                                     !.timers = (@ \ {t}) \cup {[t EXCEPT !.i = @ + 1]}]
    /\ UNCHANGED <<url, graphs, selected, canvas, panel, checks, track, click, anchor, ops>>

(***************************************************************************)
(* What a frame draws.                                                     *)
(***************************************************************************)
Highlighted == IF replay.shown = None \/ ~Ready THEN {}
               ELSE replay.shown \cap Range(Edges[url.case])

\* Labels of the nodes in view, when it is zoomed in far enough.
labels ==
    LET v == canvas.view
        halfW == (v.width * 2) \div v.zoom
        halfH == (v.height * 2) \div v.zoom
        visible == queryRange(quadtree[url.case], [x |-> v.panX - halfW, y |-> v.panY - halfH,
                                                   w |-> 2 * halfW, h |-> 2 * halfH])
    IN  IF v.zoom < LABEL_ZOOM_THRESHOLD THEN << >>
        ELSE SubSeq(visible, 1, Min({MAX_LABELS, Len(visible)}))

Next ==
    \/ Render \/ Effect \/ fetchGraph \/ fetchTimeline \/ UseTrack
    \/ \E page \in {"canvas", "timeline"}, case \in Cases \cup {None} : Go(page, case)
    \/ \E s \in Cursors : \/ onPointerDown(s) \/ onPointerMove(s) \/ onPointerUp(s)
                          \/ \E dir \in {"in", "out"} : handleWheel(s, dir)
    \/ \E size \in Sizes : ResizeObserver(size)
    \/ Ready /\ \E e \in Range(Edges[url.case]) : onSelectEdge(e)
    \/ panel # None /\ \E id \in panel.edge.evidence : verify(id)
    \/ \E k \in checks : AnswerProof(k) \/ LoseProof(k)
    \/ \E reducedMotion \in BOOLEAN : replayAttackPath(reducedMotion)
    \/ \E t \in replay.timers : Tick(t)

Spec == Init /\ [][Next]_vars

(***************************************************************************)
(* Properties.                                                             *)
(***************************************************************************)
\* The tree misses nothing.  A click selects a node that no other is nearer
\* than, if there is one within the radius, on the border of its cell or exactly at
\* the radius too; but for one exactly to the right or below by the radius, as
\* intersects skips a cell that begins where the range ends (quadtree.ts:93).  A
\* node properly inside the viewport has its label, unless there are too many.
TreeMissesNothing ==
    /\ click # None /\ canvas # None =>
          LET Dist(n) == DistSq(n, click.at.x, click.at.y)
              near == {n \in Range(laidOut[url.case]) :
                          /\ Dist(n) <= click.radius * click.radius
                          /\ n.x < click.at.x + click.radius /\ n.y < click.at.y + click.radius}
          IN  /\ near # {} => click.node # None /\ \A n \in near : Dist(click.node) <= Dist(n)
              /\ click.node # None => Dist(click.node) <= click.radius * click.radius
    /\ canvas # None /\ canvas.view.zoom >= LABEL_ZOOM_THRESHOLD /\ Len(labels) < MAX_LABELS =>
          \A n \in Range(laidOut[url.case]) :
              LET v == canvas.view
                  Inside(at, pan, size) == (IF at > pan THEN at - pan ELSE pan - at) * v.zoom < 2 * size
              IN  Inside(n.x, v.panX, v.width) /\ Inside(n.y, v.panY, v.height) => n \in Range(labels)

\* However many notches of the wheel are queued, rendered or half applied, the
\* point under a cursor that does not move stays under it.
CursorKeepsItsPoint ==
    anchor # None => screenToWorld(anchor.at, Settled(canvas)) = anchor.world

\* A claim is marked verified only if the tree of its own case proves it; no
\* mark says a proof failed; an error means the request was lost, or that the
\* URL had another case than the claim.
MarksAreHonest ==
    panel # None => \A id \in DOMAIN panel.marks :
        LET m == panel.marks[id]
        IN  /\ m.state # "invalid"
            /\ m.state = "valid" => m.of = panel.edge.case
            /\ m.state = "error" => m.lost \/ m.of # panel.edge.case

\* Until the next replay or another case, the highlighted edges change only by
\* the next edge in chronological order.
ReplayAdvances ==
    [][replay'.n = replay.n /\ url' = url /\ Ready /\ replay.shown # None =>
          \/ Highlighted' = Highlighted
          \/ \E i \in DOMAIN replay.path :
                /\ replay.shown = Prefix(replay.path, i - 1)
                /\ replay'.shown = Prefix(replay.path, i)]_vars

\* Events of the timeline are drawn in their order, apart from each other, and
\* on the track, whether idle time is compressed or not.
TimelineKeepsOrder ==
    track.events # None =>
        LET px == pxPerMsActive(track.state.zoom)
            At(e) == toPx(track.events, track.state.compress, px, e)
        IN  \A e \in track.events :
                /\ At(e) \in 0..totalPx(track.events, track.state.compress, px)
                /\ \A f \in track.events : e < f => At(e) < At(f)
=============================================================================
