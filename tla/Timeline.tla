------------------------------ MODULE Timeline ------------------------------
(***************************************************************************)
(* The Timeline page: web/src/components/timeline.  Times are in units of  *)
(* ten minutes, zoom and pixels in eighths.                                *)
(***************************************************************************)
EXTENDS Integers, Sequences, FiniteSets, SequencesExt

CONSTANTS Times,   \* when the events of a timeline may be
          NoEvent

IDLE_GAP_THRESHOLD == 6
COMPRESSED_GAP_PX == 24 * 8
PX_PER_UNIT == 36      \* 0.00006 per millisecond

TimelineInit == [compress |-> FALSE, zoom |-> 8, selected |-> NoEvent]

-----------------------------------------------------------------------------
(* buildScale *)

\* The stretches of activity: maximal runs of events with no idle gap between
\* neighbours.
segments(events) ==
    LET Starts == {e \in events : \A f \in events : f < e => e - f > IDLE_GAP_THRESHOLD}
        End(s) == Max({e \in events : e >= s /\ \A t \in Starts : t > s => e < t})
    IN  [i \in 1..Cardinality(Starts) |->
            LET s == SetToSortSeq(Starts, <)[i] IN [startMs |-> s, endMs |-> End(s)]]

Width(seg, px) == Max({4 * 8, (seg.endMs - seg.startMs) * px})

\* Mutant: the gap between two stretches takes no room.
PxStartNoGap(segs, px, i) ==
    FoldLeft(LAMBDA cursor, k : cursor + Width(segs[k], px), 0, [k \in 1..i - 1 |-> k])

\* Everything before the stretch, and a short gap after each.
PxStart(segs, px, i) ==
    FoldLeft(LAMBDA cursor, k : cursor + Width(segs[k], px) + COMPRESSED_GAP_PX,
             0, [k \in 1..i - 1 |-> k])

pxPerMsActive(zoom) == PX_PER_UNIT * zoom

totalPx(events, compress, px) ==
    IF events = {} THEN 0
    ELSE IF ~compress THEN Max({8, (Max(events) - Min(events)) * px})
    ELSE LET segs == segments(events)
         IN  PxStart(segs, px, Len(segs)) + Width(segs[Len(segs)], px)

\* Where an event of the timeline is drawn.
toPx(events, compress, px, at) ==
    IF ~compress THEN (at - Min(events)) * px
    ELSE LET segs == segments(events)
             i == CHOOSE k \in DOMAIN segs : at >= segs[k].startMs /\ at <= segs[k].endMs
         IN  PxStart(segs, px, i) + (at - segs[i].startMs) * px

-----------------------------------------------------------------------------
(* The controls: each changes the state t of a mounted page.               *)
toggleCompress(t) == [t EXCEPT !.compress = ~@]
zoomOut(t) == [t EXCEPT !.zoom = Max({2, (@ * 2) \div 3})]
zoomIn(t) == [t EXCEPT !.zoom = Min({64, (@ * 3) \div 2})]
onSelectEvent(t, event) == [t EXCEPT !.selected = event]
=============================================================================
