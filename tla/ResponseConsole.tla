--------------------------- MODULE ResponseConsole ---------------------------
(***************************************************************************)
(* The Response Console in several tabs at once: the proposed actions of   *)
(* the store (web/src/lib/data/store.ts), the routes under                 *)
(* app/api/response-actions, and the two queries and three buttons of      *)
(* components/response-console.  Signing in and out is that of Session.    *)
(*                                                                         *)
(* A tab decides on its own copy of the list, which is up to a polling     *)
(* interval old; a decision is posted without looking at the answer; and   *)
(* the store takes every decision, first or not.  A request is let in if   *)
(* the cookie was there when it was sent.  Each process of the server      *)
(* proposes the same actions at times of its own, and draws another blast  *)
(* radius for each; a tab keeps the radius it has.                         *)
(***************************************************************************)
EXTENDS Session, Sequences

CONSTANTS Proposed,    \* the proposed actions, in the order of the store
          Buttons,     \* buttons the operators use
          MaxClicks    \* bound: decisions clicked

ActionIds == {Proposed[i] : i \in DOMAIN Proposed}

\* A blast radius, by the action and the process that drew it; what an operator
\* had when clicking; and a decision in the store.
Radii == [id : ActionIds, process : Nat]
Had == [radius : Radii, openedUnder : Nat, readAt : Nat]
Decisions == [with : Had, at : Nat]

ASSUME ConsoleAssumption ==
    /\ Len(Proposed) \in Nat \ {0} /\ DOMAIN Proposed = 1..Len(Proposed)
    /\ Buttons \subseteq {"approved", "modified", "rejected"}
    /\ None \notin Decisions /\ None # "/response-console"

VARIABLES process,     \* the server's, counted in releases
          actions,     \* status per action in the store
          stored,      \* history: how many decisions the stores have taken
          decidedBy,   \* history: what the operator who set it had, and when; or None
          openedUnder, \* history, per tab: the process its query client was made under
          list,        \* per tab: the query "response-actions", None before data
          listReq,     \* per tab: its request
          selected,    \* per tab: the action the detail pane shows
          radius,      \* per tab: what the queries "blast-radius" hold, by key
          radiusReq,   \* per tab: the keys asked for, and the process asked
          posts,       \* decisions under way
          clicks

storeVars == <<process, actions, stored, decidedBy>>
clientVars == <<list, listReq, selected, radius, radiusReq>>
consoleVars == <<storeVars, clientVars, openedUnder, posts, clicks>>
vars == <<sessionVars, consoleVars>>

Idle == [state |-> "idle"]
Nothing == [key \in {} |-> None]
Pending == [id \in ActionIds |-> "pending"]

OnPage(t) == tab[t].page = "/response-console"

\* selectedId = null shows the first action; no action ever leaves the list.
First == Proposed[1]

\* The key of the query for the blast radius of an action.
radiusKey(id) == id

\* Mutant: the status is not looked at.
canApproveDecided(t) ==
    /\ OnPage(t) /\ list[t] # None
    /\ radiusKey(selected[t]) \in DOMAIN radius[t]

canApprove(t) ==
    /\ OnPage(t) /\ list[t] # None
    /\ radiusKey(selected[t]) \in DOMAIN radius[t]
    /\ list[t].status[selected[t]] = "pending"

\* Mutant: the query cache is kept for the next client.
DropClientKeepsRadii(t) ==
    /\ list' = [list EXCEPT ![t] = None]
    /\ listReq' = [listReq EXCEPT ![t] = Idle]
    /\ selected' = [selected EXCEPT ![t] = First]
    /\ radiusReq' = [radiusReq EXCEPT ![t] = {}]
    /\ posts' = {p \in posts : p.tab # t}
    /\ UNCHANGED radius

\* The query client goes with the console's layout, and what was asked for it is
\* lost.  A post that has been sent arrives all the same; nobody waits for it.
DropClient(t) ==
    /\ list' = [list EXCEPT ![t] = None]
    /\ listReq' = [listReq EXCEPT ![t] = Idle]
    /\ selected' = [selected EXCEPT ![t] = First]
    /\ radius' = [radius EXCEPT ![t] = Nothing]
    /\ radiusReq' = [radiusReq EXCEPT ![t] = {}]
    /\ posts' = {IF p.tab = t THEN [p EXCEPT !.tab = None] ELSE p :
                    p \in {q \in posts : q.tab # t \/ q.state = "sent"}}

(***************************************************************************)
(* The list.  The login page in place of an answer is an error: the query  *)
(* keeps its data.                                                         *)
(***************************************************************************)
\* GET /api/response-actions, on its way back.
listResponseActions(t) ==
    [state |-> "answered",
     data  |-> IF HasCookie(t) THEN [status |-> actions, process |-> process, readAt |-> stored]
               ELSE None]

\* Mutant: no refetchInterval.
FetchListOnce(t) ==
    /\ OnPage(t) /\ listReq[t] = Idle
    /\ list[t] = None
    /\ listReq' = [listReq EXCEPT ![t] = listResponseActions(t)]
    /\ UNCHANGED <<sessionVars, storeVars, openedUnder, list, selected, radius, radiusReq, posts, clicks>>

\* The page is mounted or focused, or its interval comes round.
FetchList(t) ==
    /\ OnPage(t) /\ listReq[t] = Idle
    /\ listReq' = [listReq EXCEPT ![t] = listResponseActions(t)]
    /\ UNCHANGED <<sessionVars, storeVars, openedUnder, list, selected, radius, radiusReq, posts, clicks>>

\* A blast radius is asked for, unless it is already.
Asks(t, id) ==
    radiusReq' = [radiusReq EXCEPT ![t] =
        IF \E r \in @ : r.key = radiusKey(id) THEN @
        ELSE @ \cup {[key |-> radiusKey(id), process |-> process]}]

\* The detail pane of an action is mounted: what it has may be fresh enough.
Shows(t, id) ==
    \/ Asks(t, id)
    \/ radiusKey(id) \in DOMAIN radius[t] /\ UNCHANGED radiusReq

\* The first list brings the pane with it; later ones leave it mounted.
ReceiveList(t) ==
    /\ listReq[t] # Idle
    /\ listReq' = [listReq EXCEPT ![t] = Idle]
    /\ IF listReq[t].data = None
       THEN UNCHANGED <<list, radiusReq>>
       ELSE /\ list' = [list EXCEPT ![t] = listReq[t].data]
            /\ IF OnPage(t) /\ list[t] = None THEN Shows(t, selected[t]) ELSE UNCHANGED radiusReq
    /\ UNCHANGED <<sessionVars, storeVars, openedUnder, selected, radius, posts, clicks>>

Select(t, id) ==
    /\ Move
    /\ OnPage(t) /\ list[t] # None /\ id # selected[t]
    /\ selected' = [selected EXCEPT ![t] = id]
    /\ Shows(t, id)
    /\ UNCHANGED <<cookie, secret, tab, storeVars, openedUnder, list, listReq, radius, posts, clicks>>

\* The window is focused, or online again, and the radius on screen is stale.
refetchOnWindowFocus(t) ==
    /\ Move
    /\ OnPage(t) /\ list[t] # None
    /\ Asks(t, selected[t])
    /\ UNCHANGED <<cookie, secret, tab, storeVars, openedUnder, list, listReq, selected, radius, posts, clicks>>

\* The draws are seeded with the id and the time the process proposed it at.
computeBlastRadius(id, proposer) == [id |-> id, process |-> proposer]

\* The data of a query are set in the cache.
WithEntry(cache, key, data) ==
    [k \in DOMAIN cache \cup {key} |-> IF k = key THEN data ELSE cache[k]]

\* At least 900 ms later the radius of an action asked for arrives, selected or
\* not, from the process that was asked or one that a retry met; a refused
\* request leaves its query as it is.
fetchBlastRadius(t, id) ==
    \E r \in radiusReq[t] :
        /\ r.key = radiusKey(id)
        /\ radiusReq' = [radiusReq EXCEPT ![t] = @ \ {r}]
        /\ IF HasCookie(t)
           THEN \E proposer \in r.process..process :
                   radius' = [radius EXCEPT ![t] =
                                 WithEntry(@, radiusKey(id), computeBlastRadius(id, proposer))]
           ELSE UNCHANGED radius
        /\ UNCHANGED <<sessionVars, storeVars, openedUnder, list, listReq, selected, posts, clicks>>

(***************************************************************************)
(* A decision.                                                             *)
(***************************************************************************)
\* A button; it stays enabled until a new list says otherwise.
decide(t, status) ==
    /\ clicks < MaxClicks
    /\ canApprove(t)
    /\ clicks' = clicks + 1
    /\ posts' = posts \cup
          {[no |-> clicks', tab |-> t, id |-> selected[t], status |-> status, state |-> "sent",
            cookie |-> HasCookie(t),
            with |-> [radius |-> radius[t][radiusKey(selected[t])],
                      openedUnder |-> openedUnder[t], readAt |-> list[t].readAt]]}
    /\ UNCHANGED <<sessionVars, storeVars, openedUnder, clientVars>>

\* POST /api/response-actions/[id]/decision, handled in any order.
decideResponseAction(p) ==
    /\ p.state = "sent"
    /\ IF p.cookie
       THEN /\ actions' = [actions EXCEPT ![p.id] = p.status]
            /\ stored' = stored + 1
            /\ decidedBy' = [decidedBy EXCEPT ![p.id] = [with |-> p.with, at |-> stored']]
       ELSE UNCHANGED <<actions, stored, decidedBy>>
    /\ posts' = (posts \ {p}) \cup (IF p.tab = None THEN {} ELSE {[p EXCEPT !.state = "done"]})
    /\ UNCHANGED <<sessionVars, process, openedUnder, clientVars, clicks>>

\* The answer, whatever it is: invalidateQueries drops a request under way and
\* asks again where the list is on screen.
invalidateQueries(p) ==
    /\ p.state = "done"
    /\ posts' = posts \ {p}
    /\ listReq' = IF OnPage(p.tab)
                  THEN [listReq EXCEPT ![p.tab] = listResponseActions(p.tab)]
                  ELSE listReq
    /\ UNCHANGED <<sessionVars, storeVars, openedUnder, list, selected, radius, radiusReq, clicks>>

(***************************************************************************)
(* Composition with the session.                                           *)
(***************************************************************************)
\* The console's layout and its query client are gone with the way to the login
\* page, and made anew with the way back.  Leaving the page for another one of
\* the console ends the selection; the page shows its list at once when it comes
\* back.
Navigate(t) ==
    /\ Hop(t)
    /\ \/ /\ InConsole(t) /\ ~InConsole(t)'
          /\ DropClient(t)
          /\ UNCHANGED openedUnder
       \/ /\ ~InConsole(t) \/ InConsole(t)'
          /\ openedUnder' = IF ~InConsole(t) /\ InConsole(t)'
                            THEN [openedUnder EXCEPT ![t] = process] ELSE openedUnder
          /\ IF tab'[t].page = tab[t].page
             THEN UNCHANGED <<selected, radiusReq>>
             ELSE /\ selected' = [selected EXCEPT ![t] = First]
                  /\ IF OnPage(t)' /\ list[t] # None THEN Shows(t, First) ELSE UNCHANGED radiusReq
          /\ UNCHANGED <<list, listReq, radius, posts>>
    /\ UNCHANGED <<storeVars, clicks>>

Load(t, path) ==
    /\ Visit(t, path)
    /\ DropClient(t)
    /\ UNCHANGED <<storeVars, openedUnder, clicks>>

Operate ==
    /\ \/ \E t \in Tabs, path \in Paths : Follow(t, path)
       \/ \E t \in Tabs, role \in Roles, valid \in BOOLEAN : signIn(t, role, valid)
       \/ \E t \in Tabs : signOutAction(t)
       \/ \E b \in Browsers : CookieExpires(b)
    /\ UNCHANGED consoleVars

\* The server is replaced: a new secret, or the old one, and a store built anew.
Release ==
    /\ Move
    /\ secret' \in {secret, secret + 1}
    /\ process' = process + 1
    /\ actions' = Pending
    /\ decidedBy' = [id \in ActionIds |-> None]
    /\ UNCHANGED <<cookie, tab, stored, openedUnder, clientVars, posts, clicks>>

Init ==
    /\ SessionInit
    /\ process = 0 /\ stored = 0
    /\ actions = Pending
    /\ decidedBy = [id \in ActionIds |-> None]
    /\ openedUnder = [t \in Tabs |-> 0]
    /\ list = [t \in Tabs |-> None]
    /\ listReq = [t \in Tabs |-> Idle]
    /\ selected = [t \in Tabs |-> First]
    /\ radius = [t \in Tabs |-> Nothing]
    /\ radiusReq = [t \in Tabs |-> {}]
    /\ posts = {} /\ clicks = 0

Next ==
    \/ \E t \in Tabs :
          \/ Navigate(t) \/ FetchList(t) \/ ReceiveList(t) \/ refetchOnWindowFocus(t)
          \/ \E path \in Paths : Load(t, path)
          \/ \E id \in ActionIds : Select(t, id) \/ fetchBlastRadius(t, id)
          \/ \E status \in Buttons : decide(t, status)
    \/ \E p \in posts : decideResponseAction(p) \/ invalidateQueries(p)
    \/ Operate \/ Release

Spec == Init /\ [][Next]_vars

\* Requests are answered, and the interval of a page on screen comes round.
FairSpec ==
    /\ Spec
    /\ \A t \in Tabs : /\ WF_vars(Navigate(t))
                       /\ WF_vars(FetchList(t))
                       /\ WF_vars(ReceiveList(t))

(***************************************************************************)
(* Properties.                                                             *)
(***************************************************************************)
\* A decision in the store was clicked next to a blast radius of that very
\* action, whatever was selected, refetched or signed out since
\* (action-detail.tsx:43-48); and in a console opened since the server's last
\* restart, by a load or a sign-in, next to the one this server has for it.  A
\* page that stays open over a restart may show the old server's: the entry is
\* kept by the id alone, and store.ts:228 draws with the time of the proposal.
DecisionsAreInformed ==
    \A id \in ActionIds : decidedBy[id] # None =>
        LET had == decidedBy[id].with IN
        /\ had.radius.id = id
        /\ had.openedUnder = process => had.radius = computeBlastRadius(id, process)

\* The store takes a second decision on an action (store.ts:212), but nobody
\* overrides what their page had been told: a decision is replaced only by one
\* clicked on a list that was read before the replaced one reached the store,
\* however lists, posts and restarts cross.
OnlyBlindOverwrites ==
    [][\A id \in ActionIds :
          decidedBy[id] # None /\ decidedBy'[id] # None /\ decidedBy'[id] # decidedBy[id] =>
              decidedBy'[id].with.readAt < decidedBy[id].at]_vars

\* A Response Console that stays open and signed in comes to show what the
\* store holds, after the decisions of others, lost requests and a restart.
ConsolesConverge ==
    \A t \in Tabs : []<>(\/ list[t] # None /\ list[t].status = actions /\ list[t].process = process
                      \/ ~OnPage(t) \/ ~HasCookie(t))

\* Every navigation ends on a page, whatever other tabs do between its
\* redirects, unless the cookie is one that the middleware accepts and the
\* layout refuses: then login and console redirect to each other for ever.
NavigationEnds ==
    \A t \in Tabs : tab[t].want # None ~> tab[t].want = None \/ StaleCookie(t)
=============================================================================
