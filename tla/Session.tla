------------------------------- MODULE Session -------------------------------
(***************************************************************************)
(* Signing in and getting to a page of the console: the middleware that    *)
(* only looks whether a cookie is there (web/src/middleware.ts), the       *)
(* console layout that verifies it (app/(console)/layout.tsx), the two     *)
(* server actions and the signed cookie (lib/auth/session.ts).             *)
(*                                                                         *)
(* Tabs of one browser share a cookie.  A page load is a chain of requests *)
(* (Hop), and other tabs sign in and out between them.  A release may      *)
(* change what the server signs with; a cookie lives for eight hours and   *)
(* may be older than that.                                                 *)
(***************************************************************************)
EXTENDS Naturals, FiniteSets

CONSTANTS Tabs, Browsers,
          Jar,         \* the browser of a tab
          Paths,       \* the pages the operators visit
          Roles,       \* the roles they sign in with
          MaxMoves,    \* bound: visits, links, selections, refetches on focus, sign-ins,
                       \* sign-outs, expiries, releases
          None

ASSUME SessionAssumption ==
    /\ Jar \in [Tabs -> Browsers]
    /\ Roles \subseteq {"analyst", "senior", "engineer", "admin", "auditor"}
    /\ Paths \subseteq {"/", "/investigation-canvas", "/timeline", "/verdict-ledger",
                        "/drift-monitor", "/response-console", "/coverage-map",
                        "/detection-studio", "/tenant-admin"}

VARIABLES cookie,   \* per browser: None, or the role and the secret it is signed with
          secret,   \* DEV_SIGNING_SECRET, counted in releases
          tab,      \* per tab: page shown, request under way, role of the shell
          moves

sessionVars == <<cookie, secret, tab, moves>>

Move == moves < MaxMoves /\ moves' = moves + 1

HasCookie(t) == cookie[Jar[t]] # None

\* getSession and decode: the session of a cookie, or None.
getSession(t) ==
    IF HasCookie(t) /\ cookie[Jar[t]].key = secret THEN cookie[Jar[t]] ELSE None

\* A cookie the middleware accepts and the layout does not.
StaleCookie(t) == HasCookie(t) /\ getSession(t) = None

\* The surfaces the sidebar, the palette and the chords offer to a role.
Reachable(role) ==
    {p \in Paths : p = "/tenant-admin" => role \in {"admin", "auditor"}}

(***************************************************************************)
(* One request.  The middleware lets it pass or redirects it.              *)
(***************************************************************************)
Pass == "pass"

\* Mutant: the login page is not exempt.
middlewareEverywhere(path, hasSession) ==
    CASE ~hasSession -> "/login"
      [] hasSession /\ path = "/login" -> "/"
      [] OTHER -> Pass

middleware(path, hasSession) ==
    CASE ~hasSession /\ path # "/login" -> "/login"
      [] hasSession /\ path = "/login" -> "/"
      [] OTHER -> Pass

\* The page a request that passed ends on.
Shown(t, path) ==
    IF path = "/tenant-admin"
       /\ ~(getSession(t) # None /\ getSession(t).role \in {"admin", "auditor"})
    THEN "restricted" ELSE path

\* The request of tab t is answered.  A load of the document renders the
\* layout, which sends an unverified session to the login page; a navigation
\* inside the console keeps the layout it has.
Hop(t) ==
    LET path == tab[t].want
        verdict == middleware(path, HasCookie(t))
        turnedAway == verdict = Pass /\ path # "/login" /\ ~tab[t].soft /\ getSession(t) = None
    IN  /\ path # None
        /\ tab' = [tab EXCEPT ![t] =
              CASE verdict = "/login" -> [@ EXCEPT !.want = "/login", !.from = path]
                [] verdict = "/" -> [@ EXCEPT !.want = "/"]
                [] turnedAway -> [@ EXCEPT !.want = "/login", !.from = "/"]
                [] verdict = Pass /\ path = "/login" ->
                      [@ EXCEPT !.want = None, !.page = "/login", !.role = None]
                [] verdict = Pass /\ path # "/login" /\ ~turnedAway ->
                      [@ EXCEPT !.want = None, !.page = Shown(t, path), !.from = "/",
                                !.role = IF tab[t].soft THEN @ ELSE getSession(t).role]]
        /\ UNCHANGED <<cookie, secret, moves>>

(***************************************************************************)
(* What operators do.                                                      *)
(***************************************************************************)
InConsole(t) == tab[t].page \notin {None, "/login"}

\* An address typed, a bookmark or a reload: the old document is gone.
Visit(t, path) ==
    /\ Move
    /\ tab' = [tab EXCEPT ![t] = [page |-> None, want |-> path, soft |-> FALSE,
                                  from |-> "/", role |-> None]]
    /\ UNCHANGED <<cookie, secret>>

\* A link of the console.
Follow(t, path) ==
    /\ Move
    /\ InConsole(t) /\ tab[t].want = None
    /\ path \in Reachable(tab[t].role)
    /\ tab' = [tab EXCEPT ![t].want = path, ![t].soft = TRUE]
    /\ UNCHANGED <<cookie, secret>>

\* The form of the login page is there to be sent.
LoginForm(t) == tab[t].page = "/login" /\ tab[t].want = None

\* With a cookie already there the middleware sends the form's request to "/"
\* and signIn never runs.
signIn(t, role, valid) ==
    /\ Move
    /\ LoginForm(t)
    /\ \/ /\ HasCookie(t)
          /\ tab' = [tab EXCEPT ![t].want = "/", ![t].soft = FALSE]
          /\ UNCHANGED cookie
       \/ /\ ~HasCookie(t) /\ ~valid
          /\ tab' = [tab EXCEPT ![t].want = "/login", ![t].from = "/", ![t].soft = FALSE]
          /\ UNCHANGED cookie
       \/ /\ ~HasCookie(t) /\ valid
          /\ cookie' = [cookie EXCEPT ![Jar[t]] = [role |-> role, key |-> secret]]
          /\ tab' = [tab EXCEPT ![t].want = tab[t].from, ![t].soft = FALSE]
    /\ UNCHANGED secret

\* Without a cookie the middleware answers this request, with the same end.
signOutAction(t) ==
    /\ Move
    /\ InConsole(t) /\ tab[t].want = None
    /\ cookie' = [cookie EXCEPT ![Jar[t]] = None]
    /\ tab' = [tab EXCEPT ![t].want = "/login", ![t].from = "/", ![t].soft = TRUE]
    /\ UNCHANGED secret

\* maxAge.
CookieExpires(b) ==
    /\ Move
    /\ cookie[b] # None
    /\ cookie' = [cookie EXCEPT ![b] = None]
    /\ UNCHANGED <<secret, tab>>

\* A browser holds the cookie of an earlier visit and its tabs are blank, or it
\* holds none and its tabs show the login page.
SessionInit ==
    /\ cookie \in [Browsers -> {None} \cup [role : Roles, key : {0}]]
    /\ secret = 0
    /\ tab = [t \in Tabs |-> [page |-> IF HasCookie(t) THEN None ELSE "/login", want |-> None,
                              soft |-> FALSE, from |-> "/", role |-> None]]
    /\ moves = 0
=============================================================================
