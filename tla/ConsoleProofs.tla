---------------------------- MODULE ConsoleProofs ----------------------------
(***************************************************************************)
(* Proofs about the browser's pages.                                       *)
(*                                                                         *)
(* The Response Console: decisions are informed, and only blind ones       *)
(* overwrite, for any number of tabs, browsers, proposed actions, moves    *)
(* and clicks.  What an operator had when clicking travels with the        *)
(* request, so the invariant follows it from the query client of the tab   *)
(* over the request to the store; and a list that shows an action as       *)
(* pending was read before any decision on it that stands was stored.      *)
(*                                                                         *)
(* The live case data of one browser (CaseFeed), in every step the         *)
(* Watchfloor takes: a row is an older or the present state of its case    *)
(* because every case on its way, in the snapshot or in the view is one    *)
(* the store has or had.  A row is set back only by old news because       *)
(* events travel in the order of their ticks, and the view never shows a   *)
(* case later than one still on its way unless the snapshot brought it.    *)
(***************************************************************************)
EXTENDS ResponseConsole, Watchfloor, Basics

-----------------------------------------------------------------------------
(* The Response Console.                                                   *)

\* What an operator had when clicking is a radius of the action, drawn after the
\* tab's console was opened, and a list of some time before.
HadOK(w, id) ==
    /\ w \in Had /\ w.radius.id = id
    /\ w.openedUnder <= w.radius.process /\ w.radius.process <= process
    /\ w.readAt <= stored

\* The store and the history of its decisions.
ActionStoreOK ==
    /\ process \in Nat /\ stored \in Nat
    /\ decidedBy \in [ActionIds -> {None} \cup Decisions]
    /\ actions \in [ActionIds -> {"pending"} \cup Buttons]
    /\ \A id \in ActionIds :
          IF actions[id] = "pending" THEN decidedBy[id] = None
          ELSE /\ decidedBy[id] # None /\ HadOK(decidedBy[id].with, id)
               /\ decidedBy[id].at <= stored

\* A list shows the decisions that stand and had been stored when it was read.
Knows(l) ==
    /\ l.readAt \in Nat /\ l.readAt <= stored
    /\ \A id \in ActionIds :
          decidedBy[id] # None /\ decidedBy[id].at <= l.readAt => l.status[id] # "pending"

ListsOK ==
    /\ DOMAIN list = Tabs /\ listReq = [t \in Tabs |-> listReq[t]]
    /\ \A t \in Tabs : /\ list[t] # None => Knows(list[t])
                       /\ listReq[t] # Idle /\ listReq[t].data # None => Knows(listReq[t].data)

\* A tab is a record, whatever its fields hold.
TabFields == {"page", "want", "soft", "from", "role"}
TabsOK == tab = [t \in Tabs |-> [f \in TabFields |-> tab[t][f]]]

\* What a query client holds and asks for is of its keys, and of the processes
\* since it was made; a tab outside the console has none.
ClientsOK ==
    /\ selected \in [Tabs -> ActionIds] /\ openedUnder \in [Tabs -> Nat]
    /\ DOMAIN radius = Tabs /\ DOMAIN radiusReq = Tabs
    /\ \A t \in Tabs :
          /\ openedUnder[t] <= process
          /\ \A key \in DOMAIN radius[t] :
                /\ radius[t][key] \in Radii /\ radius[t][key].id = key
                /\ openedUnder[t] <= radius[t][key].process /\ radius[t][key].process <= process
          /\ \A r \in radiusReq[t] :
                r.process \in Nat /\ openedUnder[t] <= r.process /\ r.process <= process
          /\ ~InConsole(t) => DOMAIN radius[t] = {} /\ radiusReq[t] = {}

\* A decision under way was clicked on an informed page, which did not know of
\* the decision that stands, if one does.
PostOK(p) ==
    /\ p.id \in ActionIds /\ p.status \in Buttons /\ HadOK(p.with, p.id)
    /\ decidedBy[p.id] # None => p.with.readAt < decidedBy[p.id].at

PostsOK == \A p \in posts : PostOK(p)

\* The inductive invariant.
ConsoleInv == ActionStoreOK /\ ListsOK /\ TabsOK /\ ClientsOK /\ PostsOK

\* The pane has an action to show.
LEMMA FirstIsProposed == First \in ActionIds
BY ConsoleAssumption DEF First, ActionIds

\* No button sets an action back to pending.
LEMMA ButtonsDecide == "pending" \notin Buttons
BY ConsoleAssumption

\* A tab that shows the Response Console is in the console.
LEMMA OnPageInConsole == ASSUME NEW t, OnPage(t) PROVE InConsole(t)
BY ConsoleAssumption DEF OnPage, InConsole

\* Where the store is left alone, what was true of it stays true.
LEMMA StoreUntouched ==
    ASSUME UNCHANGED storeVars
    PROVE  /\ ActionStoreOK => ActionStoreOK'
           /\ \A w, id : HadOK(w, id) => HadOK(w, id)'
           /\ \A l : Knows(l) => Knows(l)'
           /\ \A p : PostOK(p) => PostOK(p)'
<1>1. UNCHANGED <<process, actions, stored, decidedBy>>
  BY DEF storeVars
<1>2. \A w, id : HadOK(w, id) => HadOK(w, id)'
  BY <1>1 DEF HadOK
<1>3. QED
  BY <1>1, <1>2 DEF ActionStoreOK, Knows, PostOK

\* The invariant holds when the server has started and the tabs are blank.
LEMMA InitConsoleInv == Init => ConsoleInv
<1> SUFFICES ASSUME Init PROVE ConsoleInv
  OBVIOUS
<1>1. ActionStoreOK
  BY DEF Init, Pending, ActionStoreOK
<1>2. ListsOK
  BY DEF Init, ListsOK
<1>3. TabsOK
  BY DEF Init, SessionInit, TabsOK, TabFields
<1>4. ClientsOK
  BY FirstIsProposed DEF Init, ClientsOK, Nothing
<1>5. PostsOK
  BY DEF Init, PostsOK
<1>6. QED
  BY <1>1, <1>2, <1>3, <1>4, <1>5 DEF ConsoleInv

\* What is on its way from the store knows all decisions that stand.
LEMMA AnswerKnows ==
    ASSUME ActionStoreOK, NEW t, listResponseActions(t).data # None
    PROVE  Knows(listResponseActions(t).data)
<1>1. PICK l : l = [status |-> actions, process |-> process, readAt |-> stored]
  OBVIOUS
<1>2. listResponseActions(t).data = l
  BY <1>1 DEF listResponseActions
<1>3. Knows(l)
  BY <1>1 DEF ActionStoreOK, Knows
<1>4. QED
  BY <1>2, <1>3

\* A request asks the process that runs.
LEMMA AsksOK ==
    ASSUME ActionStoreOK, ClientsOK, NEW t \in Tabs, NEW id \in ActionIds, Shows(t, id)
    PROVE  /\ DOMAIN radiusReq' = Tabs
           /\ \A u \in Tabs : u # t => radiusReq'[u] = radiusReq[u]
           /\ \A r \in radiusReq'[t] :
                 r.process \in Nat /\ openedUnder[t] <= r.process /\ r.process <= process
<1>1. CASE UNCHANGED radiusReq
  BY <1>1 DEF ClientsOK
<1>2. CASE Asks(t, id)
  <2>1. PICK new : new = [key |-> radiusKey(id), process |-> process]
    OBVIOUS
  <2>2. new.process \in Nat /\ openedUnder[t] <= new.process /\ new.process <= process
    BY <2>1 DEF ActionStoreOK, ClientsOK
  <2>3. /\ DOMAIN radiusReq' = Tabs
        /\ \A u \in Tabs : u # t => radiusReq'[u] = radiusReq[u]
        /\ radiusReq'[t] = radiusReq[t] \/ radiusReq'[t] = radiusReq[t] \cup {new}
    BY <1>2, <2>1 DEF Asks, ClientsOK
  <2>4. QED
    BY <2>2, <2>3 DEF ClientsOK
<1>3. QED
  BY <1>1, <1>2 DEF Shows

\* The clients stay sound when a tab in the console selects and asks.
LEMMA AskKeepsClients ==
    ASSUME ActionStoreOK, ClientsOK, NEW t \in Tabs, NEW id \in ActionIds, Shows(t, id), InConsole(t)',
           UNCHANGED <<process, radius, openedUnder>>, selected' \in [Tabs -> ActionIds],
           \A u \in Tabs : u # t => InConsole(u)' = InConsole(u)
    PROVE  ClientsOK'
<1>1. /\ DOMAIN radiusReq' = Tabs
      /\ \A u \in Tabs : u # t => radiusReq'[u] = radiusReq[u]
      /\ \A r \in radiusReq'[t] :
            r.process \in Nat /\ openedUnder[t] <= r.process /\ r.process <= process
  BY AsksOK
<1> SUFFICES ASSUME NEW u \in Tabs
             PROVE  /\ openedUnder'[u] <= process'
                    /\ \A key \in DOMAIN radius'[u] :
                          /\ radius'[u][key] \in Radii /\ radius'[u][key].id = key
                          /\ openedUnder'[u] <= radius'[u][key].process
                          /\ radius'[u][key].process <= process'
                    /\ \A r \in radiusReq'[u] :
                          r.process \in Nat /\ openedUnder'[u] <= r.process /\ r.process <= process'
                    /\ ~InConsole(u)' => DOMAIN radius'[u] = {} /\ radiusReq'[u] = {}
  BY <1>1 DEF ClientsOK
<1>2. CASE u = t
  BY <1>1, <1>2 DEF ClientsOK
<1>3. CASE u # t
  BY <1>1, <1>3 DEF ClientsOK
<1>4. QED
  BY <1>2, <1>3

\* A client that is dropped leaves nothing but posts that were sent.
LEMMA DropKeeps ==
    ASSUME ConsoleInv, NEW t \in Tabs, DropClient(t), UNCHANGED <<storeVars, openedUnder>>, TabsOK',
           \A u \in Tabs : u # t => InConsole(u)' = InConsole(u)
    PROVE  ConsoleInv'
<1>1. ActionStoreOK' /\ process' = process
  BY StoreUntouched DEF ConsoleInv, storeVars
<1>2. ListsOK'
  <2>1. /\ DOMAIN list' = Tabs /\ listReq' = [u \in Tabs |-> listReq'[u]]
        /\ \A u \in Tabs : list'[u] = IF u = t THEN None ELSE list[u]
        /\ \A u \in Tabs : listReq'[u] = IF u = t THEN Idle ELSE listReq[u]
    BY DEF DropClient, ConsoleInv, ListsOK
  <2>2. \A u \in Tabs : /\ list'[u] # None => Knows(list'[u])
                        /\ listReq'[u] # Idle /\ listReq'[u].data # None => Knows(listReq'[u].data)
    BY <2>1 DEF ConsoleInv, ListsOK
  <2>3. \A l : Knows(l) => Knows(l)'
    BY StoreUntouched
  <2>4. \A u \in Tabs : /\ list'[u] # None => Knows(list[u])'
                        /\ listReq'[u] # Idle /\ listReq'[u].data # None => Knows(listReq[u].data)'
    BY <2>2, <2>3 DEF Knows
  <2>5. QED
    BY <2>1, <2>4 DEF ListsOK, Idle
<1>3. ClientsOK'
  <2>1. /\ DOMAIN radius' = Tabs /\ DOMAIN radiusReq' = Tabs
        /\ \A u \in Tabs : radius'[u] = IF u = t THEN Nothing ELSE radius[u]
        /\ \A u \in Tabs : radiusReq'[u] = IF u = t THEN {} ELSE radiusReq[u]
    BY DEF DropClient, ConsoleInv, ClientsOK
  <2>2. selected' \in [Tabs -> ActionIds] /\ DOMAIN Nothing = {}
    BY FirstIsProposed DEF DropClient, ConsoleInv, ClientsOK, Nothing
  <2> HIDE DEF Nothing
  <2>3. QED
    BY <1>1, <2>1, <2>2 DEF ConsoleInv, ClientsOK
<1>4. PostsOK'
  <2>1. ASSUME NEW p \in posts' PROVE PostOK(p)
    <3>1. PICK q \in posts : p = IF q.tab = t THEN [q EXCEPT !.tab = None] ELSE q
      BY DEF DropClient
    <3>2. p.id = q.id /\ p.status = q.status /\ p.with = q.with
      BY <3>1
    <3>3. QED
      BY <3>2 DEF ConsoleInv, PostsOK, PostOK
  <2>2. QED
    BY <2>1, StoreUntouched DEF PostsOK
<1>5. QED
  BY <1>1, <1>2, <1>3, <1>4 DEF ConsoleInv

\* Where store and lists are left alone, lists stay honest; and so posts.
LEMMA ListsKept ==
    ASSUME ListsOK, UNCHANGED <<storeVars, list, listReq>>
    PROVE  ListsOK'
BY DEF ListsOK, Knows, storeVars

LEMMA PostsKept ==
    ASSUME PostsOK, UNCHANGED <<storeVars, posts>>
    PROVE  PostsOK'
BY StoreUntouched DEF PostsOK, PostOK, HadOK, storeVars

LEMMA ClientsKept ==
    ASSUME ClientsOK, UNCHANGED <<process, selected, openedUnder, radius, radiusReq>>,
           \A u \in Tabs : InConsole(u)' = InConsole(u)
    PROVE  ClientsOK'
BY DEF ClientsOK

\* A step of one tab leaves the others where they are.
LEMMA OtherTabs ==
    ASSUME TabsOK, NEW t \in Tabs, NEW new, tab' = [tab EXCEPT ![t] = new],
           new = [f \in TabFields |-> new[f]]
    PROVE  /\ TabsOK' /\ tab'[t] = new
           /\ \A u \in Tabs : u # t => tab'[u] = tab[u] /\ InConsole(u)' = InConsole(u)
<1>1. tab'[t] = new /\ \A u \in Tabs : u # t => tab'[u] = tab[u]
  BY DEF TabsOK
<1>2. DOMAIN tab' = Tabs /\ tab' = [u \in Tabs |-> tab'[u]]
  BY DEF TabsOK
<1>3. \A u \in Tabs : tab'[u] = [f \in TabFields |-> tab'[u][f]]
  BY <1>1 DEF TabsOK
<1>4. TabsOK'
  BY <1>2, <1>3 DEF TabsOK
<1>5. QED
  BY <1>1, <1>4 DEF InConsole

LEMMA HopMovesOne ==
    ASSUME TabsOK, NEW t \in Tabs, Hop(t)
    PROVE  TabsOK' /\ \A u \in Tabs : u # t => InConsole(u)' = InConsole(u)
<1>1. tab[t] = [f \in TabFields |-> tab[t][f]] /\ DOMAIN tab = Tabs
  BY DEF TabsOK
<1>2. tab' = [tab EXCEPT ![t] = tab'[t]]
  <2>1. PICK new : tab' = [tab EXCEPT ![t] = new]
    BY Zenon DEF Hop
  <2>2. QED
    BY <1>1, <2>1
<1>3. PICK path, role, from :
          \/ tab'[t] = [tab[t] EXCEPT !.want = path, !.from = from]
          \/ tab'[t] = [tab[t] EXCEPT !.want = path]
          \/ tab'[t] = [tab[t] EXCEPT !.want = None, !.page = path, !.role = role]
          \/ tab'[t] = [tab[t] EXCEPT !.want = None, !.page = path, !.from = from, !.role = role]
  BY <1>1 DEF Hop, middleware, Pass
<1>4. tab'[t] = [f \in TabFields |-> tab'[t][f]]
  BY <1>1, <1>3 DEF TabFields
<1>5. QED
  BY <1>2, <1>4, OtherTabs

\* What operators do in a tab begins with the page they have.
LEMMA OperateKeepsPages ==
    ASSUME TabsOK, Operate
    PROVE  TabsOK' /\ \A u \in Tabs : InConsole(u)' = InConsole(u)
<1>1. CASE \E b \in Browsers : CookieExpires(b)
  BY <1>1 DEF CookieExpires, TabsOK, InConsole
<1>2. CASE \/ \E t \in Tabs, path \in Paths : Follow(t, path)
           \/ \E t \in Tabs, role \in Roles, valid \in BOOLEAN : signIn(t, role, valid)
           \/ \E t \in Tabs : signOutAction(t)
  <2>1. PICK t \in Tabs : \/ \E path \in Paths : Follow(t, path)
                          \/ \E role \in Roles, valid \in BOOLEAN : signIn(t, role, valid)
                          \/ signOutAction(t)
    BY <1>2
  <2>2. tab[t] = [f \in TabFields |-> tab[t][f]] /\ DOMAIN tab = Tabs
    BY DEF TabsOK
  <2>3. tab' = [tab EXCEPT ![t] = tab'[t]]
    BY <2>1, <2>2 DEF Follow, signIn, signOutAction
  <2>4. tab'[t] = [f \in TabFields |-> tab'[t][f]] /\ tab'[t].page = tab[t].page
    <3>1. CASE \E path \in Paths : Follow(t, path)
      BY <2>2, <3>1 DEF Follow, TabFields
    <3>2. ASSUME NEW role \in Roles, NEW valid \in BOOLEAN, signIn(t, role, valid)
          PROVE  tab'[t] = [f \in TabFields |-> tab'[t][f]] /\ tab'[t].page = tab[t].page
      <4>1. \/ tab'[t] = [tab[t] EXCEPT !.want = "/", !.soft = FALSE]
            \/ tab'[t] = [tab[t] EXCEPT !.want = "/login", !.from = "/", !.soft = FALSE]
            \/ tab'[t] = [tab[t] EXCEPT !.want = tab[t].from, !.soft = FALSE]
        BY <2>2, <3>2 DEF signIn
      <4>2. QED
        BY <2>2, <4>1 DEF TabFields
    <3>3. CASE signOutAction(t)
      BY <2>2, <3>3 DEF signOutAction, TabFields
    <3>4. QED
      BY <2>1, <3>1, <3>2, <3>3
  <2>5. QED
    BY <2>3, <2>4, OtherTabs DEF InConsole
<1>3. QED
  BY <1>1, <1>2 DEF Operate

\* A list that was asked for knows what the store knew.
LEMMA AskedListKnows ==
    ASSUME ActionStoreOK, ListsOK, NEW t \in Tabs, UNCHANGED <<storeVars, list>>,
           listReq' = [listReq EXCEPT ![t] = listResponseActions(t)]
    PROVE  ListsOK'
<1>1. /\ listReq' = [u \in Tabs |-> listReq'[u]]
      /\ \A u \in Tabs : listReq'[u] = IF u = t THEN listResponseActions(t) ELSE listReq[u]
  BY DEF ListsOK
<1>2. \A u \in Tabs : listReq'[u] # Idle /\ listReq'[u].data # None => Knows(listReq'[u].data)
  BY <1>1, AnswerKnows DEF ListsOK
<1>3. \A l : Knows(l) => Knows(l)'
  BY StoreUntouched
<1>4. list' = list
  OBVIOUS
<1>5. QED
  BY <1>1, <1>2, <1>3, <1>4 DEF ListsOK

\* The requests of a tab for its list.
LEMMA FetchListKeeps ==
    ASSUME ConsoleInv, NEW t \in Tabs, FetchList(t)
    PROVE  ConsoleInv'
<1>1. /\ UNCHANGED <<tab, storeVars, openedUnder, list, selected, radius, radiusReq, posts>>
      /\ listReq' = [listReq EXCEPT ![t] = listResponseActions(t)]
  BY DEF FetchList, sessionVars
<1>2. TabsOK' /\ \A u \in Tabs : InConsole(u)' = InConsole(u)
  BY <1>1 DEF ConsoleInv, TabsOK, InConsole
<1>3. ListsOK'
  BY <1>1, AskedListKnows DEF ConsoleInv
<1>4. QED
  BY <1>1, <1>2, <1>3, StoreUntouched, PostsKept, ClientsKept DEF ConsoleInv, storeVars

LEMMA ReceiveListKeeps ==
    ASSUME ConsoleInv, NEW t \in Tabs, ReceiveList(t)
    PROVE  ConsoleInv'
<1>1. UNCHANGED <<tab, storeVars, openedUnder, selected, radius, posts>>
  BY DEF ReceiveList, sessionVars
<1>2. TabsOK' /\ \A u \in Tabs : InConsole(u)' = InConsole(u)
  BY <1>1 DEF ConsoleInv, TabsOK, InConsole
<1>3. ListsOK'
  <2>1. /\ DOMAIN list' = Tabs /\ listReq' = [u \in Tabs |-> listReq'[u]]
        /\ \A u \in Tabs : listReq'[u] = IF u = t THEN Idle ELSE listReq[u]
        /\ \A u \in Tabs : \/ list'[u] = list[u]
                           \/ list'[u] = listReq[u].data /\ listReq[u] # Idle /\ listReq[u].data # None
    BY DEF ReceiveList, ConsoleInv, ListsOK
  <2>2. \A u \in Tabs : /\ list'[u] # None => Knows(list'[u])
                        /\ listReq'[u] # Idle /\ listReq'[u].data # None => Knows(listReq'[u].data)
    BY <2>1 DEF ConsoleInv, ListsOK
  <2>3. \A l : Knows(l) => Knows(l)'
    BY <1>1, StoreUntouched
  <2>4. QED
    BY <2>1, <2>2, <2>3 DEF ListsOK
<1>4. ClientsOK'
  <2>1. CASE UNCHANGED radiusReq
    BY <1>1, <1>2, <2>1, ClientsKept DEF ConsoleInv, storeVars
  <2>2. CASE OnPage(t) /\ Shows(t, selected[t])
    <3>1. InConsole(t)' /\ selected[t] \in ActionIds /\ selected' \in [Tabs -> ActionIds]
      BY <1>1, <1>2, <2>2, OnPageInConsole DEF ConsoleInv, ClientsOK
    <3>2. QED
      BY <1>1, <1>2, <2>2, <3>1, AskKeepsClients DEF ConsoleInv, storeVars
  <2>3. QED
    BY <2>1, <2>2 DEF ReceiveList
<1>5. QED
  BY <1>1, <1>2, <1>3, <1>4, StoreUntouched, PostsKept DEF ConsoleInv

\* A pane is shown, or its radius asked for again.
LEMMA SelectKeeps ==
    ASSUME ConsoleInv, NEW t \in Tabs, NEW id \in ActionIds, Select(t, id)
    PROVE  ConsoleInv'
<1>1. UNCHANGED <<tab, storeVars, openedUnder, list, listReq, radius, posts>>
  BY DEF Select, sessionVars
<1>2. TabsOK' /\ \A u \in Tabs : InConsole(u)' = InConsole(u)
  BY <1>1 DEF ConsoleInv, TabsOK, InConsole
<1>3. InConsole(t)' /\ Shows(t, id) /\ selected' \in [Tabs -> ActionIds]
  BY <1>2, OnPageInConsole DEF Select, ConsoleInv, ClientsOK
<1>4. ClientsOK'
  BY <1>1, <1>2, <1>3, AskKeepsClients DEF ConsoleInv, storeVars
<1>5. QED
  BY <1>1, <1>2, <1>4, StoreUntouched, ListsKept, PostsKept DEF ConsoleInv

LEMMA FocusKeeps ==
    ASSUME ConsoleInv, NEW t \in Tabs, refetchOnWindowFocus(t)
    PROVE  ConsoleInv'
<1>1. UNCHANGED <<tab, storeVars, openedUnder, list, listReq, selected, radius, posts>>
  BY DEF refetchOnWindowFocus, sessionVars
<1>2. TabsOK' /\ \A u \in Tabs : InConsole(u)' = InConsole(u)
  BY <1>1 DEF ConsoleInv, TabsOK, InConsole
<1>3. /\ InConsole(t)' /\ Shows(t, selected[t]) /\ selected[t] \in ActionIds
      /\ selected' \in [Tabs -> ActionIds]
  BY <1>1, <1>2, OnPageInConsole DEF refetchOnWindowFocus, Shows, ConsoleInv, ClientsOK
<1>4. ClientsOK'
  BY <1>1, <1>2, <1>3, AskKeepsClients DEF ConsoleInv, storeVars
<1>5. QED
  BY <1>1, <1>2, <1>4, StoreUntouched, ListsKept, PostsKept DEF ConsoleInv

\* The radius that arrives is of its key and of a process since the request.
LEMMA RadiusKeeps ==
    ASSUME ConsoleInv, NEW t \in Tabs, NEW id \in ActionIds, fetchBlastRadius(t, id)
    PROVE  ConsoleInv'
<1>1. UNCHANGED <<tab, storeVars, openedUnder, list, listReq, selected, posts>>
  BY DEF fetchBlastRadius, sessionVars
<1>2. TabsOK' /\ \A u \in Tabs : InConsole(u)' = InConsole(u)
  BY <1>1 DEF ConsoleInv, TabsOK, InConsole
<1>3. PICK r \in radiusReq[t] :
          /\ r.key = radiusKey(id)
          /\ radiusReq' = [radiusReq EXCEPT ![t] = @ \ {r}]
          /\ \/ UNCHANGED radius
             \/ \E proposer \in r.process..process :
                   radius' = [radius EXCEPT ![t] =
                                 WithEntry(@, radiusKey(id), computeBlastRadius(id, proposer))]
  BY DEF fetchBlastRadius
<1>4. /\ process \in Nat /\ process' = process
      /\ r.process \in Nat /\ openedUnder[t] \in Nat /\ openedUnder[t] <= r.process
      /\ InConsole(t)
  BY <1>1 DEF ConsoleInv, ActionStoreOK, ClientsOK, storeVars
<1>5. /\ DOMAIN radiusReq' = Tabs
      /\ \A u \in Tabs : radiusReq'[u] \subseteq radiusReq[u]
  BY <1>3 DEF ConsoleInv, ClientsOK
<1>6. CASE UNCHANGED radius
  BY <1>1, <1>2, <1>4, <1>5, <1>6, StoreUntouched, ListsKept, PostsKept DEF ConsoleInv, ClientsOK
<1>7. ASSUME NEW proposer \in r.process..process,
             radius' = [radius EXCEPT ![t] =
                           WithEntry(@, radiusKey(id), computeBlastRadius(id, proposer))]
      PROVE  ClientsOK'
  <2>1. PICK new : new = computeBlastRadius(id, proposer)
    OBVIOUS
  <2>2. /\ new \in Radii /\ new.id = id /\ new.process = proposer
        /\ openedUnder[t] <= new.process /\ new.process <= process
    BY <1>4, <2>1 DEF computeBlastRadius, Radii
  <2>3. /\ DOMAIN radius' = Tabs
        /\ \A u \in Tabs : u # t => radius'[u] = radius[u]
        /\ radius'[t] = WithEntry(radius[t], id, new)
    BY <1>7, <2>1 DEF radiusKey, ConsoleInv, ClientsOK
  <2>4. \A key \in DOMAIN radius'[t] :
           /\ key = id => radius'[t][key] = new
           /\ key # id => key \in DOMAIN radius[t] /\ radius'[t][key] = radius[t][key]
    BY <2>3 DEF WithEntry
  <2>5. \A key \in DOMAIN radius'[t] :
           /\ radius'[t][key] \in Radii /\ radius'[t][key].id = key
           /\ openedUnder[t] <= radius'[t][key].process /\ radius'[t][key].process <= process
    BY <2>2, <2>4 DEF ConsoleInv, ClientsOK
  <2>6. ASSUME NEW u \in Tabs
        PROVE  /\ \A key \in DOMAIN radius'[u] :
                     /\ radius'[u][key] \in Radii /\ radius'[u][key].id = key
                     /\ openedUnder[u] <= radius'[u][key].process /\ radius'[u][key].process <= process
               /\ \A q \in radiusReq'[u] :
                     q.process \in Nat /\ openedUnder[u] <= q.process /\ q.process <= process
               /\ ~InConsole(u) => DOMAIN radius'[u] = {} /\ radiusReq'[u] = {}
    <3>1. CASE u = t
      BY <1>4, <1>5, <2>5, <3>1 DEF ConsoleInv, ClientsOK
    <3>2. CASE u # t
      BY <1>5, <2>3, <3>2 DEF ConsoleInv, ClientsOK
    <3>3. QED
      BY <3>1, <3>2
  <2>7. QED
    BY <1>1, <1>2, <1>4, <1>5, <2>3, <2>6 DEF ConsoleInv, ClientsOK
<1>8. QED
  BY <1>1, <1>2, <1>3, <1>6, <1>7, StoreUntouched, ListsKept, PostsKept DEF ConsoleInv

\* A click posts what the page has: it shows the action as pending, so it does
\* not know of a decision that stands.
LEMMA ClickKeeps ==
    ASSUME ConsoleInv, NEW t \in Tabs, NEW status \in Buttons, decide(t, status)
    PROVE  ConsoleInv'
<1>1. UNCHANGED <<tab, storeVars, openedUnder, list, listReq, selected, radius, radiusReq>>
  BY DEF decide, sessionVars, clientVars
<1>2. TabsOK' /\ \A u \in Tabs : InConsole(u)' = InConsole(u)
  BY <1>1 DEF ConsoleInv, TabsOK, InConsole
<1>3. PICK had, id : /\ id = selected[t]
                     /\ had = [radius |-> radius[t][radiusKey(selected[t])],
                               openedUnder |-> openedUnder[t], readAt |-> list[t].readAt]
  OBVIOUS
<1>4. /\ id \in ActionIds /\ id \in DOMAIN radius[t]
      /\ Knows(list[t]) /\ list[t].status[id] = "pending"
  BY <1>3 DEF decide, canApprove, radiusKey, ConsoleInv, ClientsOK, ListsOK
<1>5. HadOK(had, id)
  <2>1. /\ had.radius = radius[t][id] /\ had.openedUnder = openedUnder[t] /\ had.readAt = list[t].readAt
        /\ radius[t][id] \in Radii /\ radius[t][id].id = id /\ openedUnder[t] \in Nat
        /\ openedUnder[t] <= radius[t][id].process /\ radius[t][id].process <= process
        /\ list[t].readAt \in Nat /\ list[t].readAt <= stored
    BY <1>3, <1>4 DEF radiusKey, ConsoleInv, ClientsOK, Knows
  <2>2. had \in Had
    BY <1>3, <2>1 DEF Had, radiusKey
  <2>3. QED
    BY <2>1, <2>2 DEF HadOK
<1>6. decidedBy[id] # None => had.readAt < decidedBy[id].at
  <2>1. decidedBy[id] # None => decidedBy[id].at \in Nat
    BY <1>4 DEF ConsoleInv, ActionStoreOK, Decisions
  <2>2. had.readAt \in Nat /\ had.readAt = list[t].readAt
    BY <1>3, <1>4 DEF Knows
  <2>3. QED
    BY <1>4, <2>1, <2>2 DEF Knows
<1>7. PostsOK'
  <2>1. ASSUME NEW p \in posts' PROVE PostOK(p)
    <3>1. CASE p \in posts
      BY <3>1 DEF ConsoleInv, PostsOK
    <3>2. CASE p \notin posts
      <4>1. p.id = id /\ p.status = status /\ p.with = had
        BY <1>3, <3>2 DEF decide
      <4>2. QED
        BY <1>4, <1>5, <1>6, <4>1 DEF PostOK
    <3>3. QED
      BY <3>1, <3>2
  <2>2. QED
    BY <1>1, <2>1, StoreUntouched DEF PostsOK
<1>8. QED
  BY <1>1, <1>2, <1>7, StoreUntouched, ListsKept, ClientsKept DEF ConsoleInv, storeVars

\* The new decision is later than every list read and every decision clicked.
LEMMA StoreKeeps ==
    ASSUME ConsoleInv, NEW p \in posts, decideResponseAction(p)
    PROVE  ConsoleInv'
<1>1. UNCHANGED <<tab, process, openedUnder, list, listReq, selected, radius, radiusReq>>
  BY DEF decideResponseAction, sessionVars, clientVars
<1>2. TabsOK' /\ \A u \in Tabs : InConsole(u)' = InConsole(u)
  BY <1>1 DEF ConsoleInv, TabsOK, InConsole
<1>3. ClientsOK'
  BY <1>1, <1>2, ClientsKept DEF ConsoleInv
<1>4. ASSUME NEW q \in posts'
      PROVE  PostOK(q)
  <2>1. CASE q \in posts
    BY <2>1 DEF ConsoleInv, PostsOK
  <2>2. CASE q = [p EXCEPT !.state = "done"]
    <3>1. q.id = p.id /\ q.status = p.status /\ q.with = p.with
      BY <2>2
    <3>2. QED
      BY <3>1 DEF ConsoleInv, PostsOK, PostOK
  <2>3. QED
    BY <2>1, <2>2 DEF decideResponseAction
<1>5. CASE ~p.cookie
  <2>1. UNCHANGED storeVars
    BY <1>5 DEF decideResponseAction, storeVars
  <2>2. PostsOK'
    BY <1>4, <2>1, StoreUntouched DEF PostsOK
  <2>3. QED
    BY <1>1, <1>2, <1>3, <2>1, <2>2, StoreUntouched, ListsKept DEF ConsoleInv
<1>6. CASE p.cookie
  <2>1. PICK new : new = [with |-> p.with, at |-> stored']
    OBVIOUS
  <2>2. /\ stored \in Nat /\ stored' = stored + 1 /\ process \in Nat
        /\ PostOK(p) /\ p.with \in Had
    BY <1>6 DEF decideResponseAction, ConsoleInv, ActionStoreOK, PostsOK, PostOK, HadOK
  <2>3. \A w, id : HadOK(w, id) => HadOK(w, id)' /\ w.readAt < stored'
    BY <1>1, <2>2 DEF HadOK, Had
  <2>4. new \in Decisions /\ new.with = p.with /\ new.at = stored' /\ new # None
    BY <2>1, <2>2, ConsoleAssumption DEF Decisions
  <2>5. /\ p.id \in ActionIds
        /\ actions' \in [ActionIds -> {"pending"} \cup Buttons]
        /\ decidedBy' \in [ActionIds -> {None} \cup Decisions]
        /\ actions'[p.id] = p.status /\ decidedBy'[p.id] = new
        /\ \A id \in ActionIds : id # p.id => actions'[id] = actions[id] /\ decidedBy'[id] = decidedBy[id]
    BY <1>6, <2>1, <2>2, <2>4 DEF decideResponseAction, ConsoleInv, ActionStoreOK, PostOK
  <2>6. ActionStoreOK'
    <3>1. p.status # "pending" /\ HadOK(p.with, p.id)'
      BY <2>2, <2>3, ButtonsDecide DEF PostOK
    <3>2. ASSUME NEW id \in ActionIds
          PROVE  IF actions'[id] = "pending" THEN decidedBy'[id] = None
                 ELSE /\ decidedBy'[id] # None /\ HadOK(decidedBy[id].with, id)'
                      /\ decidedBy'[id].at <= stored'
      <4>1. CASE id = p.id
        BY <2>2, <2>4, <2>5, <3>1, <4>1 DEF HadOK
      <4>2. CASE id # p.id
        <5>1. actions[id] # "pending" => decidedBy[id].at \in Nat
          BY DEF ConsoleInv, ActionStoreOK, Decisions
        <5>2. PICK w : w = decidedBy[id].with
          OBVIOUS
        <5>3. actions[id] # "pending" => HadOK(w, id)'
          BY <2>3, <5>2 DEF ConsoleInv, ActionStoreOK
        <5>4. QED
          BY <2>2, <2>5, <4>2, <5>1, <5>2, <5>3 DEF ConsoleInv, ActionStoreOK, HadOK
      <4>3. QED
        BY <4>1, <4>2
    <3>3. QED
      BY <1>1, <2>2, <2>5, <3>2 DEF ActionStoreOK
  <2>7. \A l : Knows(l) => Knows(l)'
    <3>1. SUFFICES ASSUME NEW l, Knows(l), NEW id \in ActionIds,
                          decidedBy'[id] # None, decidedBy'[id].at <= l.readAt
                   PROVE  l.readAt <= stored' /\ l.status[id] # "pending"
      BY <2>2 DEF Knows
    <3>2. QED
      BY <2>2, <2>4, <2>5, <3>1 DEF Knows
  <2>8. ListsOK'
    BY <1>1, <2>7 DEF ConsoleInv, ListsOK, Knows
  <2>9. PostsOK'
    <3>1. ASSUME NEW q \in posts' PROVE PostOK(q)'
      <4>1. PostOK(q) /\ HadOK(q.with, q.id)' /\ q.with.readAt < stored'
        BY <1>4, <2>3, <3>1 DEF PostOK
      <4>2. QED
        BY <2>4, <2>5, <4>1 DEF PostOK, HadOK
    <3>2. QED
      BY <3>1 DEF PostsOK
  <2>10. QED
    BY <1>2, <1>3, <2>6, <2>8, <2>9 DEF ConsoleInv
<1>7. QED
  BY <1>5, <1>6

LEMMA InvalidateKeeps ==
    ASSUME ConsoleInv, NEW p \in posts, invalidateQueries(p)
    PROVE  ConsoleInv'
<1>1. /\ UNCHANGED <<tab, storeVars, openedUnder, list, selected, radius, radiusReq>>
      /\ posts' \subseteq posts
  BY DEF invalidateQueries, sessionVars
<1>2. TabsOK' /\ \A u \in Tabs : InConsole(u)' = InConsole(u)
  BY <1>1 DEF ConsoleInv, TabsOK, InConsole
<1>3. ListsOK'
  <2>1. CASE UNCHANGED listReq
    BY <1>1, <2>1, ListsKept DEF ConsoleInv
  <2>2. CASE OnPage(p.tab) /\ p.tab \in Tabs
    BY <1>1, <2>2, AskedListKnows DEF invalidateQueries, ConsoleInv
  <2>3. CASE p.tab \notin Tabs
    BY <2>1, <2>3 DEF invalidateQueries, ConsoleInv, ListsOK
  <2>4. QED
    BY <2>1, <2>2, <2>3 DEF invalidateQueries
<1>4. PostsOK'
  BY <1>1, StoreUntouched DEF ConsoleInv, PostsOK
<1>5. QED
  BY <1>1, <1>2, <1>3, <1>4, StoreUntouched, ClientsKept DEF ConsoleInv, storeVars

\* A way into the console begins with an empty client; one inside it keeps it.
LEMMA NavigateKeeps ==
    ASSUME ConsoleInv, NEW t \in Tabs, Navigate(t)
    PROVE  ConsoleInv'
<1>1. TabsOK' /\ \A u \in Tabs : u # t => InConsole(u)' = InConsole(u)
  BY HopMovesOne DEF Navigate, ConsoleInv
<1>2. CASE InConsole(t) /\ ~InConsole(t)'
  BY <1>1, <1>2, DropKeeps DEF Navigate
<1>3. CASE ~InConsole(t) \/ InConsole(t)'
  <2>1. /\ UNCHANGED <<storeVars, process, list, listReq, radius, posts>>
        /\ openedUnder' = IF ~InConsole(t) /\ InConsole(t)'
                          THEN [openedUnder EXCEPT ![t] = process] ELSE openedUnder
        /\ UNCHANGED radiusReq \/ (OnPage(t)' /\ Shows(t, First))
        /\ selected' = selected \/ selected' = [selected EXCEPT ![t] = First]
    BY <1>3 DEF Navigate, storeVars
  <2>2. selected' \in [Tabs -> ActionIds]
    BY <2>1, FirstIsProposed DEF ConsoleInv, ClientsOK
  <2>3. OnPage(t)' => InConsole(t)'
    BY ConsoleAssumption DEF OnPage, InConsole
  <2>4. PICK new : new = [key |-> radiusKey(First), process |-> process]
    OBVIOUS
  <2>5. new.process = process /\ process \in Nat
    BY <2>4 DEF ConsoleInv, ActionStoreOK
  <2>6. /\ DOMAIN radiusReq' = Tabs
        /\ \A u \in Tabs : u # t => radiusReq'[u] = radiusReq[u]
        /\ \/ radiusReq'[t] = radiusReq[t]
           \/ InConsole(t)' /\ radiusReq'[t] = radiusReq[t] \cup {new}
    BY <2>1, <2>3, <2>4 DEF Shows, Asks, ConsoleInv, ClientsOK
  <2>7. /\ openedUnder' \in [Tabs -> Nat]
        /\ \A u \in Tabs : openedUnder'[u] = IF u = t /\ ~InConsole(t) /\ InConsole(t)'
                                             THEN process ELSE openedUnder[u]
    BY <2>1, <2>5 DEF ConsoleInv, ClientsOK
  <2>8. ASSUME NEW u \in Tabs
        PROVE  /\ openedUnder'[u] <= process
               /\ \A key \in DOMAIN radius[u] :
                     /\ radius[u][key] \in Radii /\ radius[u][key].id = key
                     /\ openedUnder'[u] <= radius[u][key].process /\ radius[u][key].process <= process
               /\ \A r \in radiusReq'[u] :
                     r.process \in Nat /\ openedUnder'[u] <= r.process /\ r.process <= process
               /\ ~InConsole(u)' => DOMAIN radius[u] = {} /\ radiusReq'[u] = {}
    <3>1. CASE u # t
      BY <1>1, <2>6, <2>7, <3>1 DEF ConsoleInv, ClientsOK
    <3>2. CASE u = t /\ ~InConsole(t)
      BY <2>5, <2>6, <2>7, <3>2 DEF ConsoleInv, ClientsOK
    <3>3. CASE u = t /\ InConsole(t)
      BY <1>3, <2>5, <2>6, <2>7, <3>3 DEF ConsoleInv, ClientsOK
    <3>4. QED
      BY <3>1, <3>2, <3>3
  <2>9. ClientsOK'
    BY <2>1, <2>2, <2>6, <2>7, <2>8 DEF ConsoleInv, ClientsOK
  <2>10. QED
    BY <1>1, <2>1, <2>9, StoreUntouched, ListsKept, PostsKept DEF ConsoleInv
<1>4. QED
  BY <1>2, <1>3

LEMMA LoadKeeps ==
    ASSUME ConsoleInv, NEW t \in Tabs, NEW path \in Paths, Load(t, path)
    PROVE  ConsoleInv'
<1>1. PICK new : new = [page |-> None, want |-> path, soft |-> FALSE, from |-> "/", role |-> None]
  OBVIOUS
<1>2. tab' = [tab EXCEPT ![t] = new] /\ new = [f \in TabFields |-> new[f]]
  BY <1>1 DEF Load, Visit, TabFields
<1>3. TabsOK' /\ \A u \in Tabs : u # t => InConsole(u)' = InConsole(u)
  BY <1>2, OtherTabs DEF ConsoleInv
<1>4. QED
  BY <1>3, DropKeeps DEF Load

\* A restart empties the store: nothing is decided, and no radius is of a process
\* to come.
LEMMA ReleaseKeeps ==
    ASSUME ConsoleInv, Release
    PROVE  ConsoleInv'
<1>1. /\ UNCHANGED <<tab, stored, openedUnder, list, listReq, selected, radius, radiusReq, posts>>
      /\ process' = process + 1 /\ process \in Nat /\ stored \in Nat
      /\ actions' = [id \in ActionIds |-> "pending"] /\ decidedBy' = [id \in ActionIds |-> None]
  BY DEF Release, clientVars, Pending, ConsoleInv, ActionStoreOK
<1>2. TabsOK' /\ \A u \in Tabs : InConsole(u)' = InConsole(u)
  BY <1>1 DEF ConsoleInv, TabsOK, InConsole
<1>3. ActionStoreOK'
  BY <1>1 DEF ActionStoreOK
<1>4. ListsOK'
  BY <1>1 DEF ConsoleInv, ListsOK, Knows
<1>5. ClientsOK'
  <2>1. ASSUME NEW u \in Tabs
        PROVE  /\ openedUnder[u] <= process'
               /\ \A key \in DOMAIN radius[u] : radius[u][key].process <= process'
               /\ \A r \in radiusReq[u] : r.process <= process'
    <3>1. openedUnder[u] \in Nat /\ openedUnder[u] <= process
      BY DEF ConsoleInv, ClientsOK
    <3>2. \A key \in DOMAIN radius[u] : radius[u][key].process \in Nat /\ radius[u][key].process <= process
      BY DEF ConsoleInv, ClientsOK, Radii
    <3>3. \A r \in radiusReq[u] : r.process \in Nat /\ r.process <= process
      BY DEF ConsoleInv, ClientsOK
    <3>4. QED
      BY <1>1, <3>1, <3>2, <3>3
  <2>2. QED
    BY <1>1, <1>2, <2>1 DEF ConsoleInv, ClientsOK
<1>6. PostsOK'
  <2>1. \A w, id : HadOK(w, id) => HadOK(w, id)'
    BY <1>1 DEF HadOK, Had, Radii
  <2>2. QED
    BY <1>1, <2>1 DEF ConsoleInv, PostsOK, PostOK
<1>7. QED
  BY <1>2, <1>3, <1>4, <1>5, <1>6 DEF ConsoleInv

LEMMA NextConsoleInv == ConsoleInv /\ [Next]_vars => ConsoleInv'
<1> SUFFICES ASSUME ConsoleInv, [Next]_vars PROVE ConsoleInv'
  OBVIOUS
<1>1. ASSUME NEW t \in Tabs, Navigate(t) \/ FetchList(t) \/ ReceiveList(t) \/ refetchOnWindowFocus(t)
      PROVE  ConsoleInv'
  BY <1>1, NavigateKeeps, FetchListKeeps, ReceiveListKeeps, FocusKeeps
<1>2. ASSUME NEW t \in Tabs, NEW path \in Paths, Load(t, path)
      PROVE  ConsoleInv'
  BY <1>2, LoadKeeps
<1>3. ASSUME NEW t \in Tabs, NEW id \in ActionIds, Select(t, id) \/ fetchBlastRadius(t, id)
      PROVE  ConsoleInv'
  BY <1>3, SelectKeeps, RadiusKeeps
<1>4. ASSUME NEW t \in Tabs, NEW status \in Buttons, decide(t, status)
      PROVE  ConsoleInv'
  BY <1>4, ClickKeeps
<1>5. ASSUME NEW p \in posts, decideResponseAction(p) \/ invalidateQueries(p)
      PROVE  ConsoleInv'
  BY <1>5, StoreKeeps, InvalidateKeeps
<1>6. CASE Release
  BY <1>6, ReleaseKeeps
<1>7. CASE Operate \/ UNCHANGED vars
  <2>1. UNCHANGED <<storeVars, openedUnder, list, listReq, selected, radius, radiusReq, posts>>
    BY <1>7 DEF Operate, vars, consoleVars, clientVars
  <2>2. TabsOK' /\ \A u \in Tabs : InConsole(u)' = InConsole(u)
    <3>1. CASE Operate
      BY <3>1, OperateKeepsPages DEF ConsoleInv
    <3>2. CASE UNCHANGED tab
      BY <3>2 DEF ConsoleInv, TabsOK, InConsole
    <3>3. QED
      BY <1>7, <3>1, <3>2 DEF vars, sessionVars
  <2>3. QED
    BY <2>1, <2>2, StoreUntouched, ListsKept, ClientsKept, PostsKept DEF ConsoleInv, storeVars
<1>8. QED
  BY <1>1, <1>2, <1>3, <1>4, <1>5, <1>6, <1>7 DEF Next

\* Whatever is decided, in however many tabs, under any releases, expiries,
\* refetches and orders of requests: who decided had a blast radius of that action
\* in front of them, and, if their console was opened under the server that holds
\* the decision, the one that server has (action-detail.tsx:43-48, store.ts:228).
THEOREM InformedDecisions == Spec => []DecisionsAreInformed
<1>1. ConsoleInv => DecisionsAreInformed
  <2>1. SUFFICES ASSUME ConsoleInv, NEW id \in ActionIds, decidedBy[id] # None
                 PROVE  /\ decidedBy[id].with.radius.id = id
                        /\ decidedBy[id].with.openedUnder = process =>
                               decidedBy[id].with.radius = computeBlastRadius(id, process)
    BY DEF DecisionsAreInformed
  <2>2. PICK w : w = decidedBy[id].with
    OBVIOUS
  <2>3. HadOK(w, id) /\ process \in Nat
    BY <2>1, <2>2 DEF ConsoleInv, ActionStoreOK
  <2>4. w.radius \in Radii /\ w.radius = [id |-> w.radius.id, process |-> w.radius.process]
    BY <2>3 DEF HadOK, Had, Radii
  <2>5. w.openedUnder = process => w.radius.process = process
    BY <2>3 DEF HadOK, Had, Radii
  <2>6. QED
    BY <2>2, <2>3, <2>4, <2>5 DEF HadOK, computeBlastRadius
<1>2. QED
  BY <1>1, InitConsoleInv, NextConsoleInv, PTL DEF Spec

\* A decision that stands is replaced only by one clicked on a list read before it
\* was stored, for any tabs, orders of posts and lists, and restarts: the buttons
\* are off on a list that has a decision (action-detail.tsx:48, store.ts:212).
THEOREM OverwritesAreBlind == Spec => OnlyBlindOverwrites
<1> DEFINE Step == \A id \in ActionIds :
              decidedBy[id] # None /\ decidedBy'[id] # None /\ decidedBy'[id] # decidedBy[id] =>
                  decidedBy'[id].with.readAt < decidedBy[id].at
<1>1. ConsoleInv /\ [Next]_vars => [Step]_vars
  <2>1. SUFFICES ASSUME ConsoleInv, Next, NEW id \in ActionIds, decidedBy[id] # None,
                        decidedBy'[id] # None, decidedBy'[id] # decidedBy[id]
                 PROVE  decidedBy'[id].with.readAt < decidedBy[id].at
    BY DEF Step
  <2>2. ~Release
    BY <2>1 DEF Release
  <2>3. PICK p \in posts : decideResponseAction(p)
    BY <2>1, <2>2 DEF Next, Navigate, Load, FetchList, ReceiveList, refetchOnWindowFocus, Select,
          fetchBlastRadius, decide, invalidateQueries, Operate, consoleVars, storeVars
  <2>4. p.id = id /\ decidedBy'[id] = [with |-> p.with, at |-> stored']
    BY <2>1, <2>3 DEF decideResponseAction, ConsoleInv, ActionStoreOK
  <2>5. QED
    BY <2>1, <2>4 DEF ConsoleInv, PostsOK, PostOK
<1>2. QED
  BY <1>1, InitConsoleInv, NextConsoleInv, PTL DEF Spec, OnlyBlindOverwrites

-----------------------------------------------------------------------------
(* The Watchfloor.                                                         *)


\* The page is left: what every key and link that leaves it does to the feed.
Left == Leave /\ UNCHANGED <<cases, order, clock, query, drops, mounts>>

\* A case as the store has it, or had it before.
Known(c, store) ==
    /\ c.id \in DOMAIN store
    /\ c.updatedAt \in Nat /\ c.updatedAt <= store[c.id].updatedAt
    /\ c.updatedAt = store[c.id].updatedAt => c = store[c.id]

CaseFields == {"id", "riskScore", "severity", "disposition", "status", "updatedAt"}

\* The store: every case under its id, none from the future, and rows for cases.
StoreOK ==
    /\ clock \in Nat
    /\ order \in Seq(DOMAIN cases)
    /\ \A id \in DOMAIN cases :
          /\ cases[id] = [f \in CaseFields |-> cases[id][f]] /\ cases[id].id = id
          /\ cases[id].updatedAt \in Nat /\ cases[id].updatedAt <= clock

\* The snapshot: cases as they were by the time it was taken.
SnapshotOK ==
    /\ query = [state |-> query.state, data |-> query.data, takenAt |-> query.takenAt]
    /\ query.takenAt \in Nat
    /\ query.data \in Seq(Range(query.data))
    /\ \A i \in DOMAIN query.data : Known(query.data[i], cases) /\ query.data[i].updatedAt <= query.takenAt

HasCase(event) == event.kind # "fire"

\* What is on its way: known cases, in the order of their times.
StreamOK ==
    /\ stream = [open |-> stream.open, ticking |-> stream.ticking, sent |-> stream.sent]
    /\ stream.sent \in Seq(Range(stream.sent))
    /\ \A i \in DOMAIN stream.sent :
          /\ stream.sent[i].kind \in {"new", "update", "fire"}
          /\ HasCase(stream.sent[i]) => Known(stream.sent[i].case, cases)
          /\ \A j \in DOMAIN stream.sent :
                i < j /\ HasCase(stream.sent[i]) /\ HasCase(stream.sent[j]) =>
                    stream.sent[i].case.updatedAt < stream.sent[j].case.updatedAt

\* What the page shows: known cases, no later than what is still to come or else
\* no later than the snapshot.
ViewOK ==
    /\ view = [cases |-> view.cases, order |-> view.order, seeded |-> view.seeded,
               connected |-> view.connected]
    /\ view.seeded \in BOOLEAN
    /\ view.order \in Seq(DOMAIN view.cases)
    /\ view.seeded => /\ mounted /\ query.state = "cached"
                      /\ Range(view.order) = SnapshotIds \cup heard
    /\ \A id \in DOMAIN view.cases : view.cases[id].id = id /\ Known(view.cases[id], cases)
    /\ view.seeded =>
          \A id \in DOMAIN view.cases : \A j \in DOMAIN stream.sent :
              HasCase(stream.sent[j]) =>
                  \/ view.cases[id].updatedAt <= query.takenAt
                  \/ view.cases[id].updatedAt < stream.sent[j].case.updatedAt

FeedInv == StoreOK /\ SnapshotOK /\ StreamOK /\ ViewOK

-----------------------------------------------------------------------------
\* A list with one more element in front.
LEMMA Prepended ==
    ASSUME NEW S, NEW s \in Seq(S), NEW e
    PROVE  /\ <<e>> \o s \in Seq(S \cup {e})
           /\ Range(<<e>> \o s) = {e} \cup Range(s)
<1> DEFINE T == S \cup {e}
           c == <<e>> \o s
<1>1. s \in Seq(T) /\ <<e>> \in Seq(T) /\ Len(<<e>>) = 1
  BY SeqMonotonic
<1>2. /\ c \in Seq(T) /\ Len(c) = Len(s) + 1
      /\ \A i \in 1..Len(s) + 1 : c[i] = IF i <= 1 THEN <<e>>[i] ELSE s[i - 1]
  BY <1>1, ConcatProperties
<1> HIDE DEF c
<1>3. Len(s) \in Nat /\ DOMAIN s = 1..Len(s) /\ DOMAIN c = 1..Len(s) + 1
  BY <1>1, <1>2, LenProperties
<1>4. c[1] = e
  BY <1>2, <1>3
<1>5. \A i \in 1..Len(s) : c[i + 1] = s[i] /\ i + 1 \in 1..Len(s) + 1
  BY <1>2, <1>3
<1>6. \A i \in 1..Len(s) + 1 : c[i] = e \/ (c[i] = s[i - 1] /\ i - 1 \in 1..Len(s))
  BY <1>2, <1>3, <1>4
<1>7. 1 \in 1..Len(s) + 1
  BY <1>3
<1>8. Range(c) = {e} \cup Range(s)
  <2>1. e \in Range(c)
    BY <1>3, <1>4, <1>7 DEF Range
  <2>2. \A i \in 1..Len(s) : s[i] \in Range(c)
    BY <1>3, <1>5 DEF Range
  <2>3. \A i \in 1..Len(s) + 1 : c[i] \in {e} \cup Range(s)
    BY <1>3, <1>6 DEF Range
  <2>4. QED
    BY <1>3, <2>1, <2>2, <2>3 DEF Range
<1>9. QED
  BY <1>2, <1>8 DEF c

\* A case put into a map.
LEMMA PutProperties ==
    ASSUME NEW map, NEW c
    PROVE  /\ DOMAIN Put(map, c) = DOMAIN map \cup {c.id}
           /\ Put(map, c)[c.id] = c
           /\ \A id \in DOMAIN map : id # c.id => Put(map, c)[id] = map[id]
BY DEF Put

\* A tick makes one case newer than everything known, and what was known stays.
LEMMA TickAges ==
    ASSUME StoreOK, NEW event \in TickEvents, tick(event)
    PROVE  /\ StoreOK' /\ clock' = clock + 1
           /\ \A c : Known(c, cases) => Known(c, cases')
           /\ event.kind \in {"new", "update", "fire"}
           /\ HasCase(event) => /\ Known(event.case, cases')
                                /\ event.case.updatedAt = clock + 1
<1>1. clock \in Nat /\ clock' = clock + 1
  BY DEF StoreOK, tick
<1>2. CASE event.kind = "fire"
  <2>1. cases' = cases /\ order' = order
    BY <1>2 DEF tick
  <2>2. QED
    BY <1>1, <1>2, <2>1 DEF StoreOK, HasCase
<1>3. ASSUME event.kind # "fire"
      PROVE  /\ event.kind \in {"new", "update"}
             /\ event.case.updatedAt = clock + 1
             /\ event.case = [f \in CaseFields |-> event.case[f]]
             /\ event.kind # "new" => event.case.id \in DOMAIN cases
  <2>1. CASE \E id \in FreshIds \ DOMAIN cases :
                event = [kind |-> "new", case |-> generateCase(id, clock + 1)]
    <3>1. PICK id \in FreshIds \ DOMAIN cases :
                event = [kind |-> "new", case |-> generateCase(id, clock + 1)]
      BY <2>1
    <3>2. QED
      BY <3>1 DEF generateCase, CaseFields
  <2>2. CASE \E id \in Range(order), d \in Deltas :
                event = [kind |-> "update", case |-> Rescored(cases[id], d, clock + 1)]
    <3>1. PICK id \in Range(order), d \in Deltas :
                event = [kind |-> "update", case |-> Rescored(cases[id], d, clock + 1)]
      BY <2>2
    <3>2. id \in DOMAIN cases /\ cases[id].id = id
      <4>1. Len(order) \in Nat /\ order \in [1..Len(order) -> DOMAIN cases]
        BY LenProperties DEF StoreOK
      <4>2. QED
        BY <4>1 DEF StoreOK, Range
    <3>3. PICK c : c = cases[id] /\ c = [f \in CaseFields |-> c[f]] /\ c.id = id
      BY <3>2 DEF StoreOK
    <3>4. PICK e : e = Rescored(c, d, clock + 1)
      OBVIOUS
    <3>5. DOMAIN c = CaseFields
      BY <3>3
    <3>6. e.id = id /\ e.updatedAt = clock + 1 /\ e = [f \in CaseFields |-> e[f]]
      BY <3>3, <3>4, <3>5 DEF Rescored, CaseFields
    <3>7. QED
      BY <3>1, <3>2, <3>3, <3>4, <3>6
  <2>3. QED
    BY <1>3, <2>1, <2>2 DEF TickEvents
<1>4. CASE event.kind # "fire"
  <2> PICK c : c = event.case
    OBVIOUS
  <2>1. /\ c = [f \in CaseFields |-> c[f]]
        /\ event.kind \in {"new", "update"} /\ c.updatedAt = clock + 1
        /\ event.kind # "new" => c.id \in DOMAIN cases
    BY <1>3, <1>4
  <2>2. cases' = Put(cases, c)
    BY <1>4 DEF tick
  <2>3. /\ DOMAIN cases' = DOMAIN cases \cup {c.id}
        /\ cases'[c.id] = c
        /\ \A id \in DOMAIN cases : id # c.id => cases'[id] = cases[id]
    <3>1. PICK m : m = Put(cases, c)
      OBVIOUS
    <3>2. /\ DOMAIN m = DOMAIN cases \cup {c.id} /\ m[c.id] = c
          /\ \A id \in DOMAIN cases : id # c.id => m[id] = cases[id]
      BY <3>1 DEF Put
    <3>3. QED
      BY <2>2, <3>1, <3>2
  <2>4. \A id \in DOMAIN cases' :
           /\ cases'[id] = [f \in CaseFields |-> cases'[id][f]] /\ cases'[id].id = id
           /\ cases'[id].updatedAt \in Nat /\ cases'[id].updatedAt <= clock'
    <3> SUFFICES ASSUME NEW id \in DOMAIN cases'
                 PROVE  /\ cases'[id] = [f \in CaseFields |-> cases'[id][f]] /\ cases'[id].id = id
                        /\ cases'[id].updatedAt \in Nat /\ cases'[id].updatedAt <= clock'
      OBVIOUS
    <3>1. CASE id = c.id
      <4>1. cases'[id] = c /\ clock' \in Nat
        BY <1>1, <2>3, <3>1
      <4>2. QED
        BY <1>1, <2>1, <3>1, <4>1
    <3>2. CASE id # c.id
      <4>1. id \in DOMAIN cases /\ cases'[id] = cases[id]
        BY <2>3, <3>2
      <4>2. /\ cases[id] = [f \in CaseFields |-> cases[id][f]] /\ cases[id].id = id
            /\ cases[id].updatedAt \in Nat /\ cases[id].updatedAt <= clock
        BY <4>1 DEF StoreOK
      <4>3. QED
        BY <1>1, <4>1, <4>2
    <3>3. QED
      BY <3>1, <3>2
  <2>5. order' \in Seq(DOMAIN cases')
    <3>1. CASE event.kind = "new"
      <4>1. order' = <<c.id>> \o order
        BY <3>1 DEF tick
      <4>2. QED
        BY <2>3, <4>1, Prepended DEF StoreOK
    <3>2. CASE event.kind # "new"
      <4>1. order' = order /\ DOMAIN cases' = DOMAIN cases
        BY <2>1, <2>3, <3>2 DEF tick
      <4>2. QED
        BY <4>1 DEF StoreOK
    <3>3. QED
      BY <3>1, <3>2
  <2>6. ASSUME NEW k, Known(k, cases) PROVE Known(k, cases')
    <3>1. CASE k.id = c.id
      <4>1. k.updatedAt \in Nat /\ k.updatedAt <= clock
        BY <1>1, <2>6 DEF Known, StoreOK
      <4>2. k.updatedAt < c.updatedAt
        BY <1>1, <2>1, <4>1
      <4>3. QED
        BY <1>1, <2>1, <2>3, <3>1, <4>1, <4>2 DEF Known
    <3>2. CASE k.id # c.id
      BY <2>3, <2>6, <3>2 DEF Known
    <3>3. QED
      BY <3>1, <3>2
  <2>7. Known(c, cases')
    BY <1>1, <2>1, <2>3 DEF Known
  <2>8. QED
    BY <1>1, <2>1, <2>4, <2>5, <2>6, <2>7 DEF StoreOK
<1>5. QED
  BY <1>2, <1>4

\* So does the rest of the feed, which a tick of another browser leaves alone.
LEMMA OtherTickKeeps ==
    ASSUME FeedInv, OtherTick
    PROVE  FeedInv'
<1>1. PICK event \in TickEvents : tick(event)
  BY DEF OtherTick
<1>2. StoreOK' /\ \A c : Known(c, cases) => Known(c, cases')
  BY <1>1, TickAges DEF FeedInv
<1>3. UNCHANGED <<query, stream, view, mounted, heard>>
  BY DEF OtherTick
<1>4. SnapshotOK'
  BY <1>2, <1>3 DEF FeedInv, SnapshotOK
<1>5. StreamOK'
  BY <1>2, <1>3 DEF FeedInv, StreamOK, HasCase
<1>6. ViewOK'
  BY <1>2, <1>3 DEF FeedInv, ViewOK, SnapshotIds, HasCase
<1>7. QED
  BY <1>2, <1>4, <1>5, <1>6 DEF FeedInv

\* A tick of this browser's stream also sends what it did.
LEMMA StreamTickKeeps ==
    ASSUME FeedInv, StreamTick
    PROVE  FeedInv'
<1>1. PICK event \in TickEvents :
         tick(event) /\ stream' = [stream EXCEPT !.sent = Append(@, event)]
  BY DEF StreamTick
<1>2. /\ StoreOK' /\ \A c : Known(c, cases) => Known(c, cases')
      /\ event.kind \in {"new", "update", "fire"}
      /\ HasCase(event) => Known(event.case, cases') /\ event.case.updatedAt = clock + 1
  BY <1>1, TickAges DEF FeedInv
<1>3. UNCHANGED <<query, view, mounted, heard>>
  BY DEF StreamTick
<1>4. SnapshotOK'
  BY <1>2, <1>3 DEF FeedInv, SnapshotOK
<1>5. PICK s, n : s = stream.sent /\ n = Len(s)
  OBVIOUS
<1>6. /\ stream' = [open |-> stream.open, ticking |-> stream.ticking, sent |-> Append(s, event)]
      /\ s \in Seq(Range(s))
  BY <1>1, <1>5 DEF FeedInv, StreamOK
<1>7. PICK t : t = Append(s, event) /\ stream'.sent = t
  BY <1>6
<1>8. /\ t \in Seq(Range(t)) /\ n \in Nat
      /\ DOMAIN s = 1..n /\ DOMAIN t = 1..n + 1
      /\ (\A i \in 1..n : t[i] = s[i]) /\ t[n + 1] = event
  BY <1>5, <1>6, <1>7, Appended
<1>9. \A c : Known(c, cases) => c.updatedAt \in Nat /\ c.updatedAt < clock + 1
  <2> SUFFICES ASSUME NEW c, Known(c, cases) PROVE c.updatedAt \in Nat /\ c.updatedAt < clock + 1
    OBVIOUS
  <2>1. /\ c.updatedAt \in Nat /\ c.updatedAt <= cases[c.id].updatedAt
        /\ cases[c.id].updatedAt \in Nat /\ cases[c.id].updatedAt <= clock /\ clock \in Nat
    BY DEF Known, FeedInv, StoreOK
  <2>2. QED
    BY <2>1
<1>10. \A i \in 1..n : /\ s[i].kind \in {"new", "update", "fire"}
                       /\ HasCase(s[i]) => Known(s[i].case, cases)
                       /\ \A j \in 1..n : i < j /\ HasCase(s[i]) /\ HasCase(s[j]) =>
                              s[i].case.updatedAt < s[j].case.updatedAt
  BY <1>5, <1>8 DEF FeedInv, StreamOK
<1>11. \A i \in 1..n + 1 : i = n + 1 \/ i \in 1..n
  BY <1>8
<1>12. StreamOK'
  <2>1. ASSUME NEW i \in 1..n + 1
        PROVE  t[i].kind \in {"new", "update", "fire"} /\ (HasCase(t[i]) => Known(t[i].case, cases'))
    BY <1>2, <1>8, <1>10, <1>11
  <2>2. ASSUME NEW i \in 1..n + 1, NEW j \in 1..n + 1, i < j, HasCase(t[i]), HasCase(t[j])
        PROVE  t[i].case.updatedAt < t[j].case.updatedAt
    <3>1. i \in 1..n
      BY <1>8, <2>2
    <3>2. CASE j = n + 1
      BY <1>2, <1>8, <1>9, <1>10, <2>2, <3>1, <3>2
    <3>3. CASE j \in 1..n
      BY <1>8, <1>10, <2>2, <3>1, <3>3
    <3>4. QED
      BY <1>11, <3>2, <3>3
  <2>3. stream' = [open |-> stream'.open, ticking |-> stream'.ticking, sent |-> stream'.sent]
    BY <1>6
  <2>4. QED
    BY <1>7, <1>8, <2>1, <2>2, <2>3 DEF StreamOK, HasCase
<1>13. ViewOK'
  <2>1. \A id \in DOMAIN view.cases : view.cases[id].id = id /\ Known(view.cases[id], cases)
    BY DEF FeedInv, ViewOK
  <2>2. ASSUME view.seeded, NEW id \in DOMAIN view.cases, NEW j \in 1..n + 1, HasCase(t[j])
        PROVE  \/ view.cases[id].updatedAt <= query.takenAt
               \/ view.cases[id].updatedAt < t[j].case.updatedAt
    <3>1. CASE j = n + 1
      BY <1>2, <1>8, <1>9, <2>1, <2>2, <3>1
    <3>2. CASE j \in 1..n
      BY <1>5, <1>8, <2>2, <3>2 DEF FeedInv, ViewOK
    <3>3. QED
      BY <1>11, <3>1, <3>2
  <2>3. QED
    BY <1>2, <1>3, <1>7, <1>8, <2>1, <2>2 DEF FeedInv, ViewOK, SnapshotIds, HasCase
<1>14. QED
  BY <1>2, <1>4, <1>12, <1>13 DEF FeedInv

\* The snapshot that is answered holds the cases of the store.
LEMMA AnswerKeeps ==
    ASSUME FeedInv, AnswerSnapshot
    PROVE  FeedInv'
<1>1. /\ query' = [state |-> "answered", data |-> listCases, takenAt |-> clock]
      /\ UNCHANGED <<cases, order, clock, stream, view, mounted, heard>>
      /\ query.state = "asked"
  BY DEF AnswerSnapshot
<1>2. PICK s : s = listCases
  OBVIOUS
<1>3. Len(order) \in Nat /\ \A i \in 1..Len(order) : order[i] \in DOMAIN cases
  BY LenProperties DEF FeedInv, StoreOK
<1>4. DOMAIN s = 1..Len(order) /\ \A i \in 1..Len(order) : s[i] = cases[order[i]]
  BY <1>2 DEF listCases
<1>5. s \in Seq(Range(s))
  <2>1. s \in [1..Len(order) -> Range(s)]
    BY <1>2, <1>4 DEF listCases, Range
  <2>2. QED
    BY <1>3, <2>1, SeqDef
<1>6. \A i \in DOMAIN s : Known(s[i], cases) /\ s[i].updatedAt <= clock
  BY <1>3, <1>4 DEF Known, FeedInv, StoreOK
<1>7. SnapshotOK'
  BY <1>1, <1>2, <1>5, <1>6 DEF SnapshotOK, FeedInv, StoreOK
<1>8. ~view.seeded
  BY <1>1 DEF FeedInv, ViewOK
<1>9. QED
  BY <1>1, <1>7, <1>8 DEF FeedInv, StoreOK, StreamOK, ViewOK, HasCase

\* A view seeded with a snapshot shows the snapshot.
LEMMA SeedShows ==
    ASSUME SnapshotOK, NEW v
    PROVE  LET w == Seeded(v, query.data)
           IN  /\ w = [cases |-> w.cases, order |-> w.order, seeded |-> TRUE, connected |-> v.connected]
               /\ w.order \in Seq(DOMAIN w.cases)
               /\ Range(w.order) = SnapshotIds
               /\ \A id \in DOMAIN w.cases : /\ w.cases[id].id = id /\ Known(w.cases[id], cases)
                                              /\ w.cases[id].updatedAt <= query.takenAt
<1> DEFINE data == query.data
           At(id) == CHOOSE i \in DOMAIN data : data[i].id = id
           w == Seeded(v, data)
<1>1. PICK n \in Nat : n = Len(data) /\ DOMAIN data = 1..n
  BY LenProperties DEF SnapshotOK
<1>2. w = [cases |-> [id \in SnapshotIds |-> data[At(id)]],
           order |-> [i \in DOMAIN data |-> data[i].id], seeded |-> TRUE, connected |-> v.connected]
  BY DEF Seeded, SnapshotIds
<1>3. \A id \in SnapshotIds : At(id) \in DOMAIN data /\ data[At(id)].id = id
  BY DEF SnapshotIds
<1>4. PICK o, c : o = w.order /\ c = w.cases
  OBVIOUS
<1>5. o = [i \in 1..n |-> data[i].id] /\ DOMAIN c = SnapshotIds
      /\ \A id \in SnapshotIds : c[id] = data[At(id)]
  BY <1>1, <1>2, <1>4
<1> HIDE DEF At, w
<1>6. o \in [1..n -> SnapshotIds]
  BY <1>1, <1>5 DEF SnapshotIds
<1>7. o \in Seq(SnapshotIds)
  BY <1>6, SeqDef
<1>8. Range(o) = SnapshotIds
  BY <1>1, <1>5 DEF Range, SnapshotIds
<1>9. \A id \in SnapshotIds : /\ c[id].id = id /\ Known(c[id], cases)
                               /\ c[id].updatedAt <= query.takenAt
  BY <1>3, <1>5 DEF SnapshotOK
<1>10. w = [cases |-> c, order |-> o, seeded |-> TRUE, connected |-> v.connected]
  BY <1>2, <1>4
<1>11. QED
  BY <1>4, <1>5, <1>7, <1>8, <1>9, <1>10 DEF w

LEMMA ReceiveKeeps ==
    ASSUME FeedInv, ReceiveSnapshot
    PROVE  FeedInv'
<1>1. /\ query.state = "answered"
      /\ query' = [state |-> "cached", data |-> query.data, takenAt |-> query.takenAt]
      /\ UNCHANGED <<cases, order, clock, stream, mounted>>
  BY DEF ReceiveSnapshot, FeedInv, SnapshotOK
<1>2. StoreOK' /\ StreamOK'
  BY <1>1 DEF FeedInv, StoreOK, StreamOK, HasCase
<1>3. SnapshotOK' /\ SnapshotIds' = SnapshotIds
  BY <1>1 DEF FeedInv, SnapshotOK, SnapshotIds
<1>4. ~view.seeded
  BY <1>1 DEF FeedInv, ViewOK
<1>5. CASE mounted
  <2>1. view' = Seeded(view, query.data) /\ heard' = {}
    BY <1>4, <1>5 DEF ReceiveSnapshot
  <2>2. /\ view' = [cases |-> view'.cases, order |-> view'.order, seeded |-> TRUE,
                    connected |-> view.connected]
        /\ view'.order \in Seq(DOMAIN view'.cases)
        /\ Range(view'.order) = SnapshotIds
        /\ \A id \in DOMAIN view'.cases : /\ view'.cases[id].id = id /\ Known(view'.cases[id], cases)
                                           /\ view'.cases[id].updatedAt <= query.takenAt
    BY <2>1, SeedShows DEF FeedInv, ViewOK
  <2>3. view'.seeded = TRUE /\ view'.connected = view.connected
    BY <2>2
  <2>4. query'.state = "cached" /\ query'.takenAt = query.takenAt
    BY <1>1
  <2>5. ViewOK'
    BY <1>1, <1>3, <1>5, <2>1, <2>2, <2>3, <2>4 DEF ViewOK, HasCase
  <2>6. QED
    BY <1>2, <1>3, <2>5 DEF FeedInv
<1>6. CASE ~mounted
  <2>1. UNCHANGED <<view, heard>>
    BY <1>6 DEF ReceiveSnapshot
  <2>2. ViewOK'
    BY <1>1, <1>4, <2>1 DEF FeedInv, ViewOK, HasCase
  <2>3. QED
    BY <1>2, <1>3, <2>2 DEF FeedInv
<1>7. QED
  BY <1>5, <1>6

\* An empty view, and a stream with nothing on its way.
LEMMA FreshIsOK ==
    /\ EmptyView = [cases |-> NoCases, order |-> << >>, seeded |-> FALSE, connected |-> FALSE]
    /\ DOMAIN NoCases = {} /\ << >> \in Seq({}) /\ Range(<< >>) = {}
    /\ \A s \in {Opened, Closed} : /\ s = [open |-> s.open, ticking |-> s.ticking, sent |-> << >>]
                                    /\ s.sent = << >>
<1>1. << >> \in Seq({}) /\ DOMAIN << >> = {}
  OBVIOUS
<1>2. QED
  BY <1>1 DEF EmptyView, NoCases, Opened, Closed, Range

LEMMA MountKeeps ==
    ASSUME FeedInv, Mount
    PROVE  FeedInv'
<1>1. mounted' /\ heard' = {} /\ stream' = Opened /\ UNCHANGED <<cases, order, clock>>
  BY DEF Mount
<1>2. StoreOK' /\ StreamOK'
  <2>1. /\ stream' = [open |-> stream'.open, ticking |-> stream'.ticking, sent |-> << >>]
        /\ stream'.sent = << >>
    BY <1>1, FreshIsOK
  <2>2. DOMAIN stream'.sent = {} /\ stream'.sent \in Seq(Range(stream'.sent))
    BY <2>1, FreshIsOK
  <2>3. StreamOK'
    BY <2>1, <2>2 DEF StreamOK
  <2>4. QED
    BY <1>1, <2>3 DEF FeedInv, StoreOK
<1>3. query'.data = query.data /\ query'.takenAt = query.takenAt
      /\ query' = [state |-> query'.state, data |-> query.data, takenAt |-> query.takenAt]
  BY DEF Mount, FeedInv, SnapshotOK
<1>4. SnapshotOK' /\ SnapshotIds' = SnapshotIds
  BY <1>1, <1>3 DEF FeedInv, SnapshotOK, SnapshotIds
<1>5. stream'.sent = << >> /\ DOMAIN stream'.sent = {}
  BY <1>1, FreshIsOK
<1>6. CASE query.state = "cached"
  <2>1. view' = Seeded(EmptyView, query.data) /\ query'.state = "cached"
    BY <1>6 DEF Mount
  <2>2. PICK v : v = EmptyView
    OBVIOUS
  <2>3. /\ view' = [cases |-> view'.cases, order |-> view'.order, seeded |-> TRUE,
                    connected |-> v.connected]
        /\ view'.order \in Seq(DOMAIN view'.cases)
        /\ Range(view'.order) = SnapshotIds
        /\ \A id \in DOMAIN view'.cases : view'.cases[id].id = id /\ Known(view'.cases[id], cases)
    BY <2>1, <2>2, SeedShows DEF FeedInv
  <2>4. view'.seeded = TRUE /\ view'.connected = v.connected
    BY <2>3
  <2>5. ViewOK'
    BY <1>1, <1>4, <1>5, <2>1, <2>3, <2>4 DEF ViewOK
  <2>6. QED
    BY <1>2, <1>4, <2>5 DEF FeedInv
<1>7. CASE query.state # "cached"
  <2>1. view' = EmptyView
    BY <1>7 DEF Mount
  <2>2. ViewOK'
    BY <2>1, FreshIsOK DEF ViewOK
  <2>3. QED
    BY <1>2, <1>4, <2>2 DEF FeedInv
<1>8. QED
  BY <1>6, <1>7

\* A list that is not empty, without its head.
LEMMA Consumed ==
    ASSUME NEW s, s \in Seq(Range(s)), s # << >>
    PROVE  \E n \in Nat : /\ DOMAIN s = 1..n + 1 /\ Head(s) = s[1]
                          /\ Tail(s) \in Seq(Range(Tail(s))) /\ DOMAIN Tail(s) = 1..n
                          /\ \A i \in 1..n : Tail(s)[i] = s[i + 1]
<1>1. /\ Tail(s) \in Seq(Range(s)) /\ Len(Tail(s)) = Len(s) - 1 /\ Head(s) = s[1]
      /\ \A i \in 1..Len(Tail(s)) : Tail(s)[i] = s[i + 1]
  BY HeadTailProperties
<1>2. Len(s) \in Nat /\ Len(s) # 0 /\ DOMAIN s = 1..Len(s)
      /\ Len(Tail(s)) \in Nat /\ DOMAIN Tail(s) = 1..Len(Tail(s))
  BY <1>1, LenProperties, EmptySeq
<1>3. Tail(s) \in Seq(Range(Tail(s)))
  BY <1>1, ListOfItsElements
<1>4. PICK n \in Nat : n = Len(Tail(s)) /\ Len(s) = n + 1
  <2>1. PICK m, l : m = Len(Tail(s)) /\ l = Len(s)
    OBVIOUS
  <2>2. m \in Nat /\ l \in Nat /\ m = l - 1
    BY <1>1, <1>2, <2>1
  <2>3. l = m + 1
    BY <2>2
  <2>4. QED
    BY <2>1, <2>2, <2>3
<1>5. QED
  BY <1>1, <1>2, <1>3, <1>4

\* The map of a view after an event: at most the case of the event is put in it.
LEMMA MergedShows ==
    ASSUME NEW v, NEW event, event.kind \in {"new", "update", "fire"},
           v = [cases |-> v.cases, order |-> v.order, seeded |-> v.seeded, connected |-> v.connected]
    PROVE  LET w == Merged(v, event)
               c == event.case
           IN  /\ w = [cases |-> w.cases, order |-> w.order, seeded |-> v.seeded, connected |-> v.connected]
               /\ event.kind = "fire" => w = v
               /\ HasCase(event) => w.cases = Put(v.cases, c)
               /\ w.order = IF event.kind = "new" THEN <<c.id>> \o v.order ELSE v.order
<1>1. CASE event.kind = "fire"
  BY <1>1 DEF Merged, HasCase
<1>2. CASE event.kind = "new"
  BY <1>2 DEF Merged, HasCase
<1>3. CASE event.kind = "update"
  BY <1>3 DEF Merged, HasCase
<1>4. QED
  BY <1>1, <1>2, <1>3

\* An event is merged: what the page shows, and what is still to come.
LEMMA MessageMerged ==
    ASSUME FeedInv, onmessage
    PROVE  /\ FeedInv'
           /\ DOMAIN view.cases \subseteq DOMAIN view'.cases
           /\ view.seeded =>
                 \A id \in DOMAIN view.cases :
                    \/ view'.cases[id].updatedAt >= view.cases[id].updatedAt
                    \/ view'.cases[id].updatedAt <= query.takenAt
<1>1. PICK s : s = stream.sent
  OBVIOUS
<1>2. s \in Seq(Range(s)) /\ s # << >> /\ UNCHANGED <<cases, order, clock, query, mounted>>
  BY <1>1 DEF onmessage, FeedInv, StreamOK
<1>3. PICK n \in Nat : /\ DOMAIN s = 1..n + 1 /\ Head(s) = s[1]
                       /\ Tail(s) \in Seq(Range(Tail(s))) /\ DOMAIN Tail(s) = 1..n
                       /\ \A i \in 1..n : Tail(s)[i] = s[i + 1]
  BY <1>2, Consumed
<1>4. PICK event, t : event = Head(s) /\ t = Tail(s)
  OBVIOUS
<1>5. /\ view' = Merged(view, event)
      /\ stream' = [stream EXCEPT !.sent = t]
      /\ heard' = IF view.seeded /\ event.kind = "new" THEN heard \cup {event.case.id} ELSE heard
  BY <1>1, <1>4 DEF onmessage
<1>6. /\ event = s[1] /\ 1 \in 1..n + 1
      /\ \A i \in 1..n : t[i] = s[i + 1] /\ i + 1 \in 1..n + 1
      /\ t \in Seq(Range(t)) /\ DOMAIN t = 1..n
  BY <1>3, <1>4
<1>7. \A i \in 1..n + 1 :
         /\ s[i].kind \in {"new", "update", "fire"}
         /\ HasCase(s[i]) => Known(s[i].case, cases)
         /\ \A j \in 1..n + 1 : i < j /\ HasCase(s[i]) /\ HasCase(s[j]) =>
                s[i].case.updatedAt < s[j].case.updatedAt
  BY <1>1, <1>3 DEF FeedInv, StreamOK
<1>8. stream' = [open |-> stream.open, ticking |-> stream.ticking, sent |-> t] /\ stream'.sent = t
  BY <1>5 DEF FeedInv, StreamOK
<1>9. StreamOK'
  <2>1. \A i \in 1..n : t[i].kind \in {"new", "update", "fire"} /\ (HasCase(t[i]) => Known(t[i].case, cases))
    BY <1>6, <1>7
  <2>2. ASSUME NEW i \in 1..n, NEW j \in 1..n, i < j, HasCase(t[i]), HasCase(t[j])
        PROVE  t[i].case.updatedAt < t[j].case.updatedAt
    <3>1. i + 1 < j + 1
      BY <2>2
    <3>2. QED
      BY <1>6, <1>7, <2>2, <3>1
  <2>3. stream' = [open |-> stream'.open, ticking |-> stream'.ticking, sent |-> stream'.sent]
    BY <1>8
  <2>4. QED
    BY <1>2, <1>6, <1>8, <2>1, <2>2, <2>3 DEF StreamOK, HasCase
<1>10. StoreOK' /\ SnapshotOK' /\ SnapshotIds' = SnapshotIds
  BY <1>2 DEF FeedInv, StoreOK, SnapshotOK, SnapshotIds
<1>11. PICK v, w, c : v = view /\ w = view' /\ c = event.case
  OBVIOUS
<1>12. event.kind \in {"new", "update", "fire"} /\ (HasCase(event) => Known(c, cases))
  BY <1>6, <1>7, <1>11
<1>13. /\ v = [cases |-> v.cases, order |-> v.order, seeded |-> v.seeded, connected |-> v.connected]
       /\ v.seeded \in BOOLEAN /\ v.order \in Seq(DOMAIN v.cases)
       /\ v.seeded => mounted /\ query.state = "cached" /\ Range(v.order) = SnapshotIds \cup heard
       /\ \A id \in DOMAIN v.cases : v.cases[id].id = id /\ Known(v.cases[id], cases)
       /\ v.seeded =>
            \A id \in DOMAIN v.cases : \A j \in 1..n + 1 : HasCase(s[j]) =>
               \/ v.cases[id].updatedAt <= query.takenAt
               \/ v.cases[id].updatedAt < s[j].case.updatedAt
  BY <1>1, <1>3, <1>11 DEF FeedInv, ViewOK
<1>14. /\ w = [cases |-> w.cases, order |-> w.order, seeded |-> v.seeded, connected |-> v.connected]
       /\ event.kind = "fire" => w = v
       /\ HasCase(event) => w.cases = Put(v.cases, c)
       /\ w.order = IF event.kind = "new" THEN <<c.id>> \o v.order ELSE v.order
  BY <1>5, <1>11, <1>12, <1>13, MergedShows
<1>15. w.seeded = v.seeded /\ w.connected = v.connected
  BY <1>14
<1>16. /\ DOMAIN v.cases \subseteq DOMAIN w.cases
       /\ \A id \in DOMAIN w.cases :
             \/ id \in DOMAIN v.cases /\ w.cases[id] = v.cases[id]
             \/ HasCase(event) /\ id = c.id /\ w.cases[id] = c
       /\ HasCase(event) => c.id \in DOMAIN w.cases
  <2>1. CASE HasCase(event)
    <3>1. PICK m, u : m = v.cases /\ u = w.cases
      OBVIOUS
    <3>2. u = Put(m, c)
      BY <1>14, <2>1, <3>1
    <3>3. /\ DOMAIN u = DOMAIN m \cup {c.id} /\ u[c.id] = c
          /\ \A id \in DOMAIN m : id # c.id => u[id] = m[id]
      BY <3>2 DEF Put
    <3>4. \A id \in DOMAIN u : \/ id \in DOMAIN m /\ u[id] = m[id]
                               \/ id = c.id /\ u[id] = c
      BY <3>3
    <3>5. QED
      BY <2>1, <3>1, <3>3, <3>4
  <2>2. CASE ~HasCase(event)
    BY <1>14, <2>2 DEF HasCase
  <2>3. QED
    BY <2>1, <2>2
<1>17. \A id \in DOMAIN w.cases : w.cases[id].id = id /\ Known(w.cases[id], cases)
  BY <1>12, <1>13, <1>16
<1>18. /\ w.order \in Seq(DOMAIN w.cases)
       /\ Range(w.order) = IF event.kind = "new" THEN {c.id} \cup Range(v.order) ELSE Range(v.order)
  <2>1. v.order \in Seq(DOMAIN w.cases)
    BY <1>13, <1>16, SeqMonotonic
  <2>2. CASE event.kind = "new"
    <3>1. c.id \in DOMAIN w.cases
      BY <1>16, <2>2 DEF HasCase
    <3>2. DOMAIN w.cases \cup {c.id} = DOMAIN w.cases
      BY <3>1
    <3>3. QED
      BY <1>14, <2>1, <2>2, <3>2, Prepended
  <2>3. CASE event.kind # "new"
    BY <1>14, <2>1, <2>3
  <2>4. QED
    BY <2>2, <2>3
<1>19. v.seeded => Range(w.order) = SnapshotIds \cup heard'
  BY <1>5, <1>11, <1>13, <1>18
<1>20. ASSUME v.seeded, NEW id \in DOMAIN w.cases, NEW j \in 1..n, HasCase(t[j])
       PROVE  \/ w.cases[id].updatedAt <= query.takenAt
              \/ w.cases[id].updatedAt < t[j].case.updatedAt
  <2>1. t[j] = s[j + 1] /\ j + 1 \in 1..n + 1 /\ 1 < j + 1
    BY <1>6
  <2>2. CASE id \in DOMAIN v.cases /\ w.cases[id] = v.cases[id]
    BY <1>13, <1>20, <2>1, <2>2
  <2>3. CASE HasCase(event) /\ id = c.id /\ w.cases[id] = c
    BY <1>6, <1>7, <1>11, <1>20, <2>1, <2>3
  <2>4. QED
    BY <1>16, <2>2, <2>3
<1>21. ViewOK'
  <2>1. view' = [cases |-> view'.cases, order |-> view'.order, seeded |-> view'.seeded,
                 connected |-> view'.connected]
    BY <1>11, <1>14, <1>15
  <2>2. view'.seeded \in BOOLEAN /\ view'.order \in Seq(DOMAIN view'.cases)
    BY <1>11, <1>13, <1>15, <1>18
  <2>3. view'.seeded => /\ mounted' /\ query'.state = "cached"
                        /\ Range(view'.order) = SnapshotIds' \cup heard'
    BY <1>2, <1>10, <1>11, <1>13, <1>15, <1>19
  <2>4. QED
    BY <1>2, <1>6, <1>8, <1>11, <1>15, <1>17, <1>20, <2>1, <2>2, <2>3 DEF ViewOK, HasCase
<1>22. ASSUME v.seeded, NEW id \in DOMAIN v.cases
       PROVE  \/ w.cases[id].updatedAt >= v.cases[id].updatedAt
              \/ w.cases[id].updatedAt <= query.takenAt
  <2>1. id \in DOMAIN w.cases /\ v.cases[id].updatedAt \in Nat /\ query.takenAt \in Nat
    BY <1>13, <1>16 DEF Known, FeedInv, SnapshotOK
  <2>2. CASE w.cases[id] = v.cases[id]
    BY <2>1, <2>2
  <2>3. CASE HasCase(event) /\ id = c.id /\ w.cases[id] = c
    <3>1. \/ v.cases[id].updatedAt <= query.takenAt
          \/ v.cases[id].updatedAt < c.updatedAt
      BY <1>6, <1>11, <1>13, <1>22, <2>3
    <3>2. c.updatedAt \in Nat
      BY <1>12, <2>3 DEF Known
    <3>3. QED
      BY <2>1, <2>3, <3>1, <3>2
  <2>4. QED
    BY <1>16, <2>1, <2>2, <2>3
<1>23. QED
  BY <1>9, <1>10, <1>11, <1>16, <1>21, <1>22 DEF FeedInv

\* A connection that starts or ends with nothing on its way, a view that is kept.
LEMMA RestartKeeps ==
    ASSUME FeedInv, stream' \in {Opened, Closed},
           \/ view' = view \/ view' = [view EXCEPT !.connected = FALSE],
           UNCHANGED <<cases, order, clock, query, mounted, heard>>
    PROVE  FeedInv'
<1>1. /\ stream' = [open |-> stream'.open, ticking |-> stream'.ticking, sent |-> << >>]
      /\ stream'.sent = << >>
  BY FreshIsOK
<1>2. DOMAIN stream'.sent = {} /\ stream'.sent \in Seq(Range(stream'.sent))
  BY <1>1, FreshIsOK
<1>3. StreamOK'
  BY <1>1, <1>2 DEF StreamOK
<1>4. StoreOK' /\ SnapshotOK' /\ SnapshotIds' = SnapshotIds
  BY DEF FeedInv, StoreOK, SnapshotOK, SnapshotIds
<1>5. /\ view'.cases = view.cases /\ view'.order = view.order /\ view'.seeded = view.seeded
      /\ view' = [cases |-> view'.cases, order |-> view'.order, seeded |-> view'.seeded,
                  connected |-> view'.connected]
  BY DEF FeedInv, ViewOK
<1>6. ViewOK'
  BY <1>2, <1>4, <1>5 DEF FeedInv, ViewOK
<1>7. QED
  BY <1>3, <1>4, <1>6 DEF FeedInv

\* The tick that throws moves the time and nothing else.
LEMMA ThrowKeeps ==
    ASSUME FeedInv, StreamTickThrows
    PROVE  FeedInv'
<1>1. /\ UNCHANGED <<cases, order, query, view, mounted, heard>>
      /\ clock' = clock + 1 /\ stream' = [stream EXCEPT !.ticking = FALSE]
  BY DEF StreamTickThrows
<1>2. StoreOK'
  BY <1>1 DEF FeedInv, StoreOK
<1>3. /\ stream' = [open |-> stream'.open, ticking |-> stream'.ticking, sent |-> stream'.sent]
      /\ stream'.sent = stream.sent
  BY <1>1 DEF FeedInv, StreamOK
<1>4. StreamOK'
  BY <1>1, <1>3 DEF FeedInv, StreamOK
<1>5. SnapshotOK' /\ SnapshotIds' = SnapshotIds
  BY <1>1 DEF FeedInv, SnapshotOK, SnapshotIds
<1>6. ViewOK'
  BY <1>1, <1>3, <1>5 DEF FeedInv, ViewOK
<1>7. QED
  BY <1>2, <1>4, <1>5, <1>6 DEF FeedInv

LEMMA ConnectedKeeps ==
    ASSUME FeedInv, Connected
    PROVE  FeedInv'
<1>1. UNCHANGED <<cases, order, clock, query, stream, mounted, heard>>
  BY DEF Connected
<1>2. /\ view'.cases = view.cases /\ view'.order = view.order /\ view'.seeded = view.seeded
      /\ view' = [cases |-> view'.cases, order |-> view'.order, seeded |-> view'.seeded,
                  connected |-> view'.connected]
  BY DEF Connected, FeedInv, ViewOK
<1>3. StoreOK' /\ SnapshotOK' /\ StreamOK' /\ SnapshotIds' = SnapshotIds
  BY <1>1 DEF FeedInv, StoreOK, SnapshotOK, StreamOK, SnapshotIds
<1>4. ViewOK'
  BY <1>1, <1>2, <1>3 DEF FeedInv, ViewOK
<1>5. QED
  BY <1>3, <1>4 DEF FeedInv

\* A snapshot nobody uses is dropped: no page is open, so none was seeded by it.
LEMMA ExpiryKeeps ==
    ASSUME FeedInv, CacheExpires
    PROVE  FeedInv'
<1>1. ~mounted /\ query' = NoSnapshot /\ UNCHANGED <<cases, order, clock, stream, view, mounted, heard>>
  BY DEF CacheExpires
<1>2. StoreOK' /\ StreamOK'
  BY <1>1 DEF FeedInv, StoreOK, StreamOK
<1>3. /\ query'.data = << >> /\ query'.takenAt = 0
      /\ query' = [state |-> query'.state, data |-> query'.data, takenAt |-> query'.takenAt]
  BY <1>1 DEF NoSnapshot
<1>4. DOMAIN query'.data = {} /\ query'.data \in Seq(Range(query'.data))
  BY <1>3, FreshIsOK
<1>5. SnapshotOK'
  BY <1>3, <1>4 DEF SnapshotOK
<1>6. ~view.seeded
  BY <1>1 DEF FeedInv, ViewOK
<1>7. ViewOK'
  BY <1>1, <1>6 DEF FeedInv, ViewOK
<1>8. QED
  BY <1>2, <1>5, <1>7 DEF FeedInv

LEMMA LeaveKeeps ==
    ASSUME FeedInv, Left
    PROVE  FeedInv'
<1>1. view' = EmptyView /\ stream' = Closed /\ UNCHANGED <<cases, order, clock, query>>
  BY DEF Left, Leave
<1>2. /\ stream' = [open |-> stream'.open, ticking |-> stream'.ticking, sent |-> << >>]
      /\ stream'.sent = << >>
  BY <1>1, FreshIsOK
<1>3. DOMAIN stream'.sent = {} /\ stream'.sent \in Seq(Range(stream'.sent))
  BY <1>2, FreshIsOK
<1>4. StreamOK'
  BY <1>2, <1>3 DEF StreamOK
<1>5. StoreOK' /\ SnapshotOK'
  BY <1>1 DEF FeedInv, StoreOK, SnapshotOK
<1>6. ViewOK'
  BY <1>1, FreshIsOK DEF ViewOK
<1>7. QED
  BY <1>4, <1>5, <1>6 DEF FeedInv

-----------------------------------------------------------------------------
\* Every step of the Watchfloor is one of these for the feed.
LEMMA WatchfloorStep ==
    ASSUME [FloorNext]_floorVars
    PROVE  FeedNext \/ Mount \/ Left \/ UNCHANGED feedVars
<1>1. CASE UNCHANGED floorVars
  BY <1>1 DEF floorVars
<1>2. CASE FeedStep \/ Open
  BY <1>2 DEF FeedStep, Open
<1>3. ASSUME NEW key \in Keys, NEW editable \in BOOLEAN, Press(key, editable)
      PROVE  Left \/ UNCHANGED feedVars
  BY <1>3 DEF Press, Left
<1>4. CASE OpenPalette \/ OpenHelp \/ CloseOverlay \/ clearChord
  BY <1>4 DEF OpenPalette, OpenHelp, CloseOverlay, clearChord
<1>5. CASE GoElsewhere
  BY <1>5 DEF GoElsewhere, Left
<1>6. ASSUME NEW option \in FilterOptions, ToggleFilter(option)
      PROVE  UNCHANGED feedVars
  BY <1>6 DEF ToggleFilter
<1>7. CASE ClickRow \/ TypeReason \/ CancelDismiss \/ ConfirmDismiss
  BY <1>7 DEF ClickRow, TypeReason, CancelDismiss, ConfirmDismiss
<1>8. QED
  BY <1>1, <1>2, <1>3, <1>4, <1>5, <1>6, <1>7 DEF FloorNext

LEMMA FeedInvStarts ==
    ASSUME FloorInit
    PROVE  FeedInv
<1>1. /\ cases = [id \in Range(SeedIds) |-> generateCase(id, 0)]
      /\ order = SeedIds /\ clock = 0 /\ query = NoSnapshot /\ stream = Closed
      /\ view = EmptyView
  BY DEF FloorInit, FeedInit
<1>2. StoreOK
  <2>1. DOMAIN cases = Range(SeedIds) /\ order \in Seq(DOMAIN cases)
    BY <1>1, FeedAssumption
  <2>2. ASSUME NEW id \in DOMAIN cases
        PROVE  /\ cases[id] = [f \in CaseFields |-> cases[id][f]] /\ cases[id].id = id
               /\ cases[id].updatedAt = 0
    BY <1>1, <2>2 DEF generateCase, CaseFields
  <2>3. QED
    BY <1>1, <2>1, <2>2 DEF StoreOK
<1>3. SnapshotOK
  <2>1. /\ query.data = << >> /\ query.takenAt = 0
        /\ query = [state |-> query.state, data |-> query.data, takenAt |-> query.takenAt]
    BY <1>1 DEF NoSnapshot
  <2>2. DOMAIN query.data = {} /\ query.data \in Seq(Range(query.data))
    BY <2>1, FreshIsOK
  <2>3. QED
    BY <2>1, <2>2 DEF SnapshotOK
<1>4. StreamOK
  <2>1. /\ stream = [open |-> stream.open, ticking |-> stream.ticking, sent |-> << >>]
        /\ stream.sent = << >>
    BY <1>1, FreshIsOK
  <2>2. DOMAIN stream.sent = {} /\ stream.sent \in Seq(Range(stream.sent))
    BY <2>1, FreshIsOK
  <2>3. QED
    BY <2>1, <2>2 DEF StreamOK
<1>5. ViewOK
  BY <1>1, FreshIsOK DEF ViewOK
<1>6. QED
  BY <1>2, <1>3, <1>4, <1>5 DEF FeedInv

LEMMA FeedInvKept ==
    ASSUME FeedInv, [FloorNext]_floorVars
    PROVE  FeedInv'
<1>1. CASE StreamTick \/ StreamTickThrows \/ OtherTick
  BY <1>1, StreamTickKeeps, ThrowKeeps, OtherTickKeeps
<1>2. CASE AnswerSnapshot \/ ReceiveSnapshot \/ CacheExpires
  BY <1>2, AnswerKeeps, ReceiveKeeps, ExpiryKeeps
<1>3. CASE Connected
  BY <1>3, ConnectedKeeps
<1>4. CASE onmessage
  BY <1>4, MessageMerged
<1>5. CASE DropConnection
  BY <1>5, RestartKeeps DEF DropConnection
<1>6. CASE Reconnect
  BY <1>6, RestartKeeps DEF Reconnect
<1>7. CASE Mount \/ Left
  BY <1>7, MountKeeps, LeaveKeeps
<1>8. CASE UNCHANGED feedVars
  BY <1>8 DEF feedVars, FeedInv, StoreOK, SnapshotOK, StreamOK, ViewOK, SnapshotIds, Known
<1>9. QED
  BY <1>1, <1>2, <1>3, <1>4, <1>5, <1>6, <1>7, <1>8, WatchfloorStep DEF FeedNext

\* The inductive invariant of the live case data: store, snapshot, events on
\* their way and view hold states of the same cases, in the order of their ticks.
THEOREM FeedInvariant == FloorSpec => []FeedInv
<1>1. FloorInit => FeedInv
  BY FeedInvStarts
<1>2. FeedInv /\ [FloorNext]_floorVars => FeedInv'
  BY FeedInvKept
<1>3. QED
  BY <1>1, <1>2, PTL DEF FloorSpec

\* Whatever keys are pressed, streams lost and snapshots late, a seeded page
\* shows the snapshot's rows and the new ones, each with a state its case had
\* (use-case-stream.ts:41-89, watchfloor-client.tsx:45).
THEOREM RowsShowTheStore == FloorSpec => []RowsAreReal
<1>1. FeedInv => RowsAreReal
  <2>1. SUFFICES ASSUME FeedInv
                 PROVE  RowsAreReal
    OBVIOUS
  <2>2. Range(view.order) \subseteq DOMAIN view.cases
    <3>1. PICK s, S : s = view.order /\ S = DOMAIN view.cases
      OBVIOUS
    <3>2. s \in Seq(S)
      BY <2>1, <3>1 DEF FeedInv, ViewOK
    <3>3. Len(s) \in Nat /\ s \in [1..Len(s) -> S]
      BY <3>2, LenProperties
    <3>4. QED
      BY <3>1, <3>3 DEF Range
  <2>3. QED
    BY <2>1, <2>2 DEF FeedInv, ViewOK, Known, RowsAreReal
<1>2. QED
  BY <1>1, FeedInvariant, PTL

\* While a seeded page stays open no row disappears, and only an event sent
\* before the snapshot was taken sets a row back (use-case-stream.ts:52-89).
THEOREM SetbacksAreOldNews == FloorSpec => OnlyOldNewsSetsBack
<1> DEFINE Step == mounted' /\ view.seeded =>
              \A id \in DOMAIN view.cases :
                 /\ id \in DOMAIN view'.cases
                 /\ \/ view'.cases[id].updatedAt >= view.cases[id].updatedAt
                    \/ view'.cases[id].updatedAt <= query.takenAt
<1>1. FeedInv /\ [FloorNext]_floorVars => [Step]_feedVars
  <2>1. SUFFICES ASSUME FeedInv, [FloorNext]_floorVars, mounted', view.seeded, ~UNCHANGED feedVars,
                        NEW id \in DOMAIN view.cases
                 PROVE  /\ id \in DOMAIN view'.cases
                        /\ \/ view'.cases[id].updatedAt >= view.cases[id].updatedAt
                           \/ view'.cases[id].updatedAt <= query.takenAt
    BY DEF Step
  <2>2. view.cases[id].updatedAt \in Nat /\ mounted
    BY <2>1 DEF FeedInv, ViewOK, Known
  <2>3. ~Mount /\ ~Left /\ FeedNext
    BY <2>1, <2>2, WatchfloorStep DEF Mount, Left, Leave
  <2>4. CASE onmessage
    BY <2>1, <2>4, MessageMerged
  <2>5. CASE ~onmessage
    <3>1. view'.cases = view.cases
      BY <2>1, <2>2, <2>3, <2>5 DEF FeedNext, StreamTick, StreamTickThrows, OtherTick, AnswerSnapshot,
             ReceiveSnapshot, CacheExpires, Connected, DropConnection, Reconnect, FeedInv, ViewOK
    <3>2. QED
      BY <2>2, <3>1
  <2>6. QED
    BY <2>4, <2>5
<1>2. QED
  BY <1>1, FeedInvariant, PTL DEF FloorSpec, OnlyOldNewsSetsBack
=============================================================================
