----------------------------- MODULE Watchfloor -----------------------------
(***************************************************************************)
(* The Watchfloor in one browser: filters, case table, selection and the   *)
(* dismissal dialog (web/src/components/watchfloor) over the live feed of  *)
(* CaseFeed, under the global key handler, palette and help overlay of the *)
(* console (components/console-chrome-provider.tsx).                        *)
(*                                                                         *)
(* Both key handlers listen on window and run in the order in which they   *)
(* subscribed; React subscribes one of them anew whenever something it     *)
(* depends on changes.  A key press is one step: both handlers read the    *)
(* state of the last render.                                               *)
(***************************************************************************)
EXTENDS CaseFeed

CONSTANTS FilterOptions,  \* the boxes of the filter rail offered: <<dimension, value>>
          MaxSteps,       \* bound: keys and clicks of the analyst, typing apart
          Null

VARIABLES filters,        \* the boxes that are ticked
          selectedId,
          overrides,      \* what the analyst did to a case in this browser
          dismissTarget,  \* the case the dialog was opened for
          reason,         \* the text in the dialog: Null or the case it was written for
          paletteOpen, helpOpen,
          chord,          \* g was pressed and its timer runs
          queueFirst,     \* the queue's handler runs before the console's
          steps

uiVars == <<filters, selectedId, overrides, dismissTarget, reason>>
chromeVars == <<paletteOpen, helpOpen, chord, queueFirst>>
floorVars == <<feedVars, uiVars, chromeVars, steps>>

\* Something the analyst does.
Act == steps < MaxSteps /\ steps' = steps + 1

(***************************************************************************)
(* What is on screen.                                                      *)
(***************************************************************************)
Status(id) == IF id \in DOMAIN overrides THEN overrides[id].status ELSE view.cases[id].status

Ticked(dimension) == {o[2] : o \in {p \in filters : p[1] = dimension}}

applyFilters(id) ==
    LET c == view.cases[id]
        pass(dimension, values) ==
            Ticked(dimension) = {} \/ Ticked(dimension) \cap values # {}
    IN  /\ pass("severity", {c.severity})
        /\ pass("disposition", {c.disposition})
        /\ pass("tenant", {Profile[id].tenant})
        /\ pass("tactic", Profile[id].tactics)
        /\ pass("unassigned", {Profile[id].assignee = Null})

filteredCases == SelectSeq(view.order, applyFilters)

\* findIndex: -1 in the code is 0 here.
IndexOf(id) ==
    IF id \in Range(filteredCases)
    THEN CHOOSE i \in DOMAIN filteredCases :
            filteredCases[i] = id /\ \A j \in 1..(i - 1) : filteredCases[j] # id
    ELSE 0

AtLeast(a, b) == IF a < b THEN b ELSE a
AtMost(a, b) == IF a > b THEN b ELSE a

Below(id) == filteredCases[AtLeast(AtMost(IndexOf(id) + 1, Len(filteredCases)), 1)]
Above(id) == filteredCases[AtLeast(IndexOf(id) - 1, 1)]

\* A patch is merged over the earlier ones, so a case escalated after its
\* dismissal keeps the reason.
setStatus(id, patch) ==
    LET old == IF id \in DOMAIN overrides THEN overrides[id] ELSE NoCases
    IN  overrides' = (id :> (patch @@ old)) @@ overrides

(***************************************************************************)
(* Keys.  The two handlers, and the order they are in.                     *)
(***************************************************************************)
Letters == {"j", "k", "e", "d", "i", "w"}
Keys == Letters \cup {"g", "/", "?"}

\* Second keys of a chord: w, i and d among these letters name a surface.
Surface == [w |-> "/", i |-> "/investigation-canvas", d |-> "/drift-monitor"]

\* The queue's handler ignores the key.
QueueDeaf(editable) ==
    paletteOpen \/ helpOpen \/ editable \/ filteredCases = << >>

\* The queue's handler takes the key and prevents its default.
QueueTakes(key, editable) ==
    /\ ~QueueDeaf(editable)
    /\ key \in {"j", "k"} \/ (key \in {"e", "d", "i"} /\ selectedId # Null)

\* event.defaultPrevented, as the console's handler finds it.
Prevented(key, editable) == queueFirst /\ QueueTakes(key, editable)

ChordJumps(key, editable) ==
    /\ ~Prevented(key, editable)
    /\ chord /\ ~editable
    /\ key \in DOMAIN Surface

\* What the console's handler does with a key that is not taken by a chord.
ChromeTakes(key, editable) ==
    ~Prevented(key, editable) /\ ~(chord /\ ~editable) /\ ~editable

Jump(key, editable) == ChordJumps(key, editable) /\ Surface[key] # "/"

\* The queue's handler; i only navigates, see LeavesPage.
Queue(key, editable) ==
    IF ~QueueTakes(key, editable)
    THEN UNCHANGED <<selectedId, overrides, dismissTarget>>
    ELSE CASE key = "j" -> selectedId' = Below(selectedId) /\ UNCHANGED <<overrides, dismissTarget>>
           [] key = "k" -> selectedId' = Above(selectedId) /\ UNCHANGED <<overrides, dismissTarget>>
           [] key = "e" -> setStatus(selectedId, [status |-> "escalated"])
                           /\ UNCHANGED <<selectedId, dismissTarget>>
           [] key = "d" -> dismissTarget' = (IF selectedId \in Range(filteredCases) THEN selectedId ELSE Null)
                           /\ UNCHANGED <<selectedId, overrides>>

\* A key that leaves the page ends the state of the Watchfloor.
Forget ==
    /\ filters' = {} /\ selectedId' = Null /\ overrides' = NoCases
    /\ dismissTarget' = Null /\ reason' = Null

LeavesPage(key, editable) ==
    (QueueTakes(key, editable) /\ key = "i") \/ Jump(key, editable)

\* A handler that changed what the other depends on is subscribed anew, behind
\* it; a change of the overlays renews both, the queue's first, and ends a chord.
Chrome(key, editable) ==
    LET chorded == chord /\ ~editable /\ ~Prevented(key, editable)
        opens == ChromeTakes(key, editable) /\ key \in {"/", "?"}
    IN  /\ paletteOpen' = (paletteOpen \/ (opens /\ key = "/"))
        /\ helpOpen' = (helpOpen \/ (opens /\ key = "?"))
        /\ chord' = CASE chorded -> FALSE
                      [] ~chorded /\ ChromeTakes(key, editable) /\ key = "g" -> TRUE
                      [] OTHER -> chord /\ paletteOpen' = paletteOpen /\ helpOpen' = helpOpen

Press(key, editable) ==
    /\ Act
    /\ mounted
    /\ Chrome(key, editable)
    /\ IF LeavesPage(key, editable)
       THEN /\ Leave /\ Forget
            /\ queueFirst' = FALSE
            /\ UNCHANGED <<cases, order, clock, query, drops, mounts>>
       ELSE /\ Queue(key, editable)
            /\ queueFirst' = CASE paletteOpen' # paletteOpen \/ helpOpen' # helpOpen -> TRUE
                               [] selectedId' # selectedId \/ overrides' # overrides -> FALSE
                               [] OTHER -> queueFirst
            /\ UNCHANGED <<feedVars, filters, reason>>

\* Ctrl+K or the search button of the top bar; the help button.
OpenPalette ==
    /\ Act
    /\ ~paletteOpen
    /\ paletteOpen' = TRUE /\ chord' = FALSE /\ queueFirst' = TRUE
    /\ UNCHANGED <<feedVars, uiVars, helpOpen>>

OpenHelp ==
    /\ Act
    /\ ~helpOpen
    /\ helpOpen' = TRUE /\ chord' = FALSE /\ queueFirst' = TRUE
    /\ UNCHANGED <<feedVars, uiVars, paletteOpen>>

\* Escape, a click outside, or a palette item that stays on the page.
CloseOverlay ==
    /\ Act
    /\ paletteOpen \/ helpOpen
    /\ \/ paletteOpen /\ paletteOpen' = FALSE /\ UNCHANGED helpOpen
       \/ helpOpen /\ helpOpen' = FALSE /\ UNCHANGED paletteOpen
    /\ chord' = FALSE /\ queueFirst' = TRUE
    /\ UNCHANGED <<feedVars, uiVars>>

\* The chord's timer, or Escape with nothing open.
clearChord ==
    /\ chord
    /\ chord' = FALSE
    /\ UNCHANGED <<feedVars, uiVars, paletteOpen, helpOpen, queueFirst, steps>>

\* A surface chosen in the palette, the sidebar or a link.
GoElsewhere ==
    /\ Act
    /\ mounted
    /\ Leave /\ Forget
    /\ paletteOpen' = FALSE
    /\ chord' = (chord /\ ~paletteOpen)
    /\ queueFirst' = FALSE
    /\ UNCHANGED <<cases, order, clock, query, drops, mounts, helpOpen>>

(***************************************************************************)
(* Mouse and dialog.                                                       *)
(***************************************************************************)
ToggleFilter(option) ==
    /\ Act
    /\ mounted
    /\ filters' = IF option \in filters THEN filters \ {option} ELSE filters \cup {option}
    /\ queueFirst' = FALSE
    /\ UNCHANGED <<feedVars, selectedId, overrides, dismissTarget, reason,
                   paletteOpen, helpOpen, chord>>

\* The table shows the filtered cases, sorted; a click selects a row.
ClickRow ==
    /\ Act
    /\ mounted /\ dismissTarget = Null /\ ~paletteOpen /\ ~helpOpen
    /\ \E id \in Range(filteredCases) :
          /\ selectedId' = id
          /\ queueFirst' = (queueFirst /\ selectedId = id)
    /\ UNCHANGED <<feedVars, filters, overrides, dismissTarget, reason,
                   paletteOpen, helpOpen, chord>>

TypeReason ==
    /\ dismissTarget # Null
    /\ reason' \in {Null, dismissTarget}
    /\ UNCHANGED <<feedVars, filters, selectedId, overrides, dismissTarget, chromeVars, steps>>

\* Cancel, Escape or a click outside: the text stays.
CancelDismiss ==
    /\ Act
    /\ dismissTarget # Null
    /\ dismissTarget' = Null
    /\ UNCHANGED <<feedVars, filters, selectedId, overrides, reason, chromeVars>>

ConfirmDismiss ==
    /\ Act
    /\ dismissTarget # Null /\ reason # Null
    /\ setStatus(dismissTarget, [status |-> "dismissed", about |-> reason])
    /\ reason' = Null
    /\ dismissTarget' = Null
    /\ queueFirst' = FALSE
    /\ UNCHANGED <<feedVars, filters, selectedId, paletteOpen, helpOpen, chord>>

(***************************************************************************)
(* Composition with the feed.                                              *)
(***************************************************************************)
\* A step of the feed that changes the cases or their order renews the queue's
\* handler; opening the page subscribes it behind the console's.
FeedStep ==
    /\ FeedNext
    /\ queueFirst' = (queueFirst /\ view'.cases = view.cases /\ view'.order = view.order)
    /\ UNCHANGED <<uiVars, paletteOpen, helpOpen, chord, steps>>

\* The first load mounts page and console together, the page's effects first.
Open ==
    /\ Mount
    /\ queueFirst' = (mounts = 0)
    /\ UNCHANGED <<uiVars, paletteOpen, helpOpen, chord, steps>>

FloorInit ==
    /\ FeedInit
    /\ filters = {} /\ selectedId = Null /\ overrides = NoCases
    /\ dismissTarget = Null /\ reason = Null
    /\ paletteOpen = FALSE /\ helpOpen = FALSE /\ chord = FALSE /\ queueFirst = FALSE
    /\ steps = 0

FloorNext ==
    \/ FeedStep \/ Open
    \/ \E key \in Keys, editable \in BOOLEAN : Press(key, editable)
    \/ OpenPalette \/ OpenHelp \/ CloseOverlay \/ clearChord \/ GoElsewhere
    \/ \E option \in FilterOptions : ToggleFilter(option)
    \/ ClickRow
    \/ TypeReason \/ CancelDismiss \/ ConfirmDismiss

FloorSpec == FloorInit /\ [][FloorNext]_floorVars

\* Requests are answered and received, and EventSource reconnects by itself.
FairFloorSpec ==
    /\ FloorSpec
    /\ WF_floorVars((AnswerSnapshot \/ ReceiveSnapshot \/ Connected \/ Reconnect) /\ FeedStep)

(***************************************************************************)
(* Properties.                                                             *)
(***************************************************************************)
\* An open Watchfloor ends up seeded and connected, whatever drops and in
\* whatever order snapshot and stream arrive (use-case-stream.ts:41-50).
EventuallyLive == mounted ~> (view.seeded /\ view.connected) \/ ~mounted

\* A chord is for jumping: while the console waits for its second key, no key
\* opens the dismissal of a case.
ChordOnlyJumps == [][chord /\ dismissTarget = Null => dismissTarget' = Null]_floorVars
=============================================================================
