---------------------------- MODULE ConsoleData ----------------------------
(***************************************************************************)
(* What the consoles, apps/web-v2 and apps/web, show after one of their     *)
(* calls has changed the server's data.                                     *)
(*                                                                          *)
(* A case is a call of one component and a view of another (or the same)    *)
(* that reads something the call writes, with the places where the two are  *)
(* mounted.  The server's data is a version number; the browser holds       *)
(* copies of it in react-query's cache, in the payload of the server        *)
(* components, and in the payload that the router keeps for the Back        *)
(* button.  The module follows one case at a time: the user calls, answers  *)
(* come back, pages are left and entered, dialogs opened and closed, queries*)
(* are polled, grow stale, fail and are forgotten.                          *)
(***************************************************************************)
EXTENDS Screens

CONSTANTS
    Cases,      \* the cases under study, as profiles
    MaxCalls    \* bound: how many calls succeed

\* Three places tell the cases apart: the page of the call, the page of the view (the
\* only one of the two if they are the same), and one outside the dashboard.
PlaceNames == {"caller", "viewer", "outside"}

\* What is known of a case: how the view gets its data (a query, seeded from the props,
\* polled, asked for again when the window gets the focus; or props, copied into a form),
\* whether the page only tries to load it, whether it is in a dialog, what the call's
\* handler does, and at which places the call can be made and the view is mounted.
Profiles ==
    [query : BOOLEAN, seeded : BOOLEAN, polled : BOOLEAN, focused : BOOLEAN, copied : BOOLEAN,
     tried : BOOLEAN, modal : BOOLEAN,
     healed : BOOLEAN, puts : BOOLEAN, refreshes : BOOLEAN, leaves : BOOLEAN,
     callFrom : SUBSET PlaceNames, seenFrom : SUBSET PlaceNames]

ASSUME CasesAssumption ==
    /\ Cases \subseteq Profiles
    /\ \A c \in Cases : "viewer" \in c.seenFrom /\ "outside" \notin c.seenFrom
ASSUME BoundAssumption == MaxCalls \in Nat

\* The profile of call c of a component on page a, and view v of a component on page b,
\* in a console whose queries look at the window's focus or do not.
Profile(c, a, v, b, modal, focused) ==
    LET place == [caller |-> a.at, viewer |-> b.at, outside |-> <<"outside">>]
        props == v.kind \cap {"seeded", "props", "copied"} # {}
    IN  [query     |-> "query" \in v.kind,
         seeded    |-> "seeded" \in v.kind,
         polled    |-> "polled" \in v.kind,
         focused   |-> focused,
         copied    |-> "copied" \in v.kind,
         tried     |-> props /\ v.reads \in b.tries,
         modal     |-> modal,
         healed    |-> "query" \in v.kind /\ \E p \in c.heals : Reaches(p, v.key),
         puts      |-> "puts" \in c.does,
         refreshes |-> "refresh" \in c.does,
         leaves    |-> "leaves" \in c.does,
         callFrom  |-> {p \in PlaceNames : Around(a.at, place[p])},
         seenFrom  |-> {p \in PlaceNames : Around(b.at, place[p])}]

\* The call of a case reaches the copy of the data that its view shows: a view that is
\* not polled is a query that the handler invalidates, and does not write into the cache
\* itself, or a view of props that the handler has loaded again.  (A dialog's query is
\* not seeded: it would be seeded long after the page was loaded.)
Covered(c) ==
    \/ c.polled
    \/ c.query /\ c.healed /\ ~c.puts /\ ~(c.seeded /\ c.modal)
    \/ ~c.query /\ c.refreshes

VARIABLES
    case,       \* the case, chosen once
    here,       \* the place where the browser is
    open,       \* the dialog of the view is open, if it is in one
    server,     \* the version of the data that the API holds
    call,       \* the call: "idle", "sent", or "applied" and not yet answered
    due,        \* the version that the view owes the user, 0 for none
    cache,      \* the entry of the view's key in the query cache
    fetch,      \* the query's request: "none", "asked", "read"
    payload,    \* the props that the page has, and whether they are tryGet's fallback
    copy,       \* the props that a form copied when it was mounted
    kept,       \* the payload of the page, kept for the Back button
    load,       \* the request of router.refresh
    nav,        \* the navigation under way
    failed      \* what the query holds is a fallback, or its last request has failed

vars == <<case, here, open, server, call, due, cache, fetch, payload, copy, kept, load, nav, failed>>

Versions == 0..MaxCalls
NoRequest == [phase |-> "none", ver |-> 0]
Asked     == [phase |-> "asked", ver |-> 0]
Answered(v) == [phase |-> "read", ver |-> v]
NoEntry   == [has |-> FALSE, ver |-> 0, stale |-> FALSE]
Entry(v)  == [has |-> TRUE, ver |-> v, stale |-> FALSE]
Loaded(v, fell) == [ver |-> v, fell |-> fell]
NotKept   == [has |-> FALSE, was |-> Loaded(0, FALSE)]
NoNav(h)  == [phase |-> "none", to |-> h, got |-> Loaded(0, FALSE)]

\* The call and the view on one page: "caller" and "viewer" are the same place.
Places == IF case.callFrom = case.seenFrom THEN {"viewer", "outside"} ELSE PlaceNames

MountedAt(place) == place \in case.seenFrom
Mounted == MountedAt(here)
On      == Mounted /\ (case.modal => open)

\* What the user sees.
Shown == IF case.query THEN cache.ver ELSE IF case.copied THEN copy.ver ELSE payload.ver

\* A request that the view depends on has failed.
Trouble == IF case.query THEN failed ELSE IF case.copied THEN copy.fell ELSE payload.fell

TypeOK ==
    /\ case \in Profiles /\ here \in Places /\ open \in BOOLEAN
    /\ server \in Versions /\ due \in Versions
    /\ payload \in [ver : Versions, fell : BOOLEAN] /\ copy \in [ver : Versions, fell : BOOLEAN]
    /\ call \in [phase : {"idle", "sent", "applied"}, ver : Versions]
    /\ cache \in [has : BOOLEAN, ver : Versions, stale : BOOLEAN]
    /\ fetch \in [phase : {"none", "asked", "read"}, ver : Versions]
    /\ load \in [phase : {"none", "asked", "read"}, ver : Versions]
    /\ kept \in [has : BOOLEAN, was : [ver : Versions, fell : BOOLEAN]]
    /\ nav \in [phase : {"none", "asked", "read"}, to : Places,
                got : [ver : Versions, fell : BOOLEAN]]
    /\ failed \in BOOLEAN

\* The browser starts outside the dashboard, with nothing loaded.
Init ==
    /\ case \in Cases
    /\ here = "outside" /\ open = FALSE
    /\ server = 0 /\ due = 0 /\ payload = Loaded(0, FALSE) /\ copy = Loaded(0, FALSE)
    /\ call = [phase |-> "idle", ver |-> 0]
    /\ cache = NoEntry /\ fetch = NoRequest /\ load = NoRequest
    /\ kept = NotKept /\ nav = NoNav(here) /\ failed = FALSE

(********************************* the call ********************************)

Send ==
    /\ call.phase = "idle" /\ server < MaxCalls /\ here \in case.callFrom
    /\ call' = [phase |-> "sent", ver |-> 0]
    /\ UNCHANGED <<case, here, open, server, due, cache, fetch, payload, copy, kept, load, nav, failed>>

Apply ==
    /\ call.phase = "sent"
    /\ server' = server + 1
    /\ call' = [phase |-> "applied", ver |-> server + 1]
    /\ UNCHANGED <<case, here, open, due, cache, fetch, payload, copy, kept, load, nav, failed>>

\* Mutant: the refused call is never idle again.
RefusedForGood ==
    /\ call.phase # "idle"
    /\ call' = [phase |-> "error", ver |-> 0]
    /\ UNCHANGED <<case, here, open, server, due, cache, fetch, payload, copy, kept, load, nav, failed>>

\* The API refuses, or its answer is lost: onSuccess does not run.
Refused ==
    /\ call.phase # "idle"
    /\ call' = [phase |-> "idle", ver |-> 0]
    /\ UNCHANGED <<case, here, open, server, due, cache, fetch, payload, copy, kept, load, nav, failed>>

\* The cases in which the handler cannot reach what is on its way: a page that is
\* being loaded, a request of a query nobody observes, a payload that will seed a
\* query whose entry has been forgotten, a form that has already copied its props.
Raced ==
    \/ nav.phase # "none"
    \/ case.query /\ ~On /\ fetch.phase # "none"
    \/ case.seeded /\ ~cache.has /\ kept.has
    \/ case.copied /\ Mounted

\* Mutant: the handler is one of mutate's, which do not run once the page is left.
UpdateQueriesIfMounted ==
    LET runs == case.healed /\ here \in case.callFrom
    IN  /\ cache' = IF runs THEN [cache EXCEPT !.stale = cache.has] ELSE cache
        /\ fetch' = IF runs /\ On THEN Asked ELSE fetch

\* invalidateQueries: the entry is stale, and asked for at once where the view is on
\* screen.  TrafficClient alone calls setQueryData with the answer instead.
UpdateQueries ==
    IF case.healed /\ case.puts
    THEN cache' = Entry(call.ver) /\ fetch' = fetch
    ELSE /\ cache' = IF case.healed THEN [cache EXCEPT !.stale = cache.has] ELSE cache
         /\ fetch' = IF case.healed /\ On THEN Asked ELSE fetch

\* The hook's onSuccess, which runs wherever the browser is by then.
Succeeded ==
    /\ call.phase = "applied"
    /\ call' = [phase |-> "idle", ver |-> 0]
    /\ due' = IF Raced THEN due ELSE call.ver
    /\ UpdateQueries
    /\ load' = IF case.refreshes THEN Asked ELSE load
    /\ IF case.leaves
       THEN \E to \in Places \ {here} : nav' = [NoNav(to) EXCEPT !.phase = "asked"]
       ELSE nav' = nav
    /\ UNCHANGED <<case, here, open, server, payload, copy, kept, failed>>

(********************************** queries ********************************)

\* Mutant: the interval respects staleTime.
PollIfStale ==
    /\ case.polled /\ On /\ fetch.phase = "none" /\ cache.stale
    /\ fetch' = Asked
    /\ UNCHANGED <<case, here, open, server, call, due, cache, payload, copy, kept, load, nav, failed>>

\* refetchInterval; a request under way is joined, not restarted.
Poll ==
    /\ case.polled /\ On /\ fetch.phase = "none"
    /\ fetch' = Asked
    /\ UNCHANGED <<case, here, open, server, call, due, cache, payload, copy, kept, load, nav, failed>>

\* refetchOnWindowFocus: a query that has grown stale is asked for again.
Refocus ==
    /\ case.focused /\ case.query /\ On /\ cache.stale /\ fetch.phase = "none"
    /\ fetch' = Asked
    /\ UNCHANGED <<case, here, open, server, call, due, cache, payload, copy, kept, load, nav, failed>>

FetchReads ==
    /\ fetch.phase = "asked"
    /\ fetch' = Answered(server)
    /\ UNCHANGED <<case, here, open, server, call, due, cache, payload, copy, kept, load, nav, failed>>

FetchLands ==
    /\ fetch.phase = "read"
    /\ cache' = Entry(fetch.ver)
    /\ fetch' = NoRequest
    /\ failed' = FALSE
    /\ UNCHANGED <<case, here, open, server, call, due, payload, copy, kept, load, nav>>

\* After its one retry: the entry keeps the old data.
FetchFails ==
    /\ fetch.phase # "none"
    /\ fetch' = NoRequest
    /\ failed' = TRUE
    /\ UNCHANGED <<case, here, open, server, call, due, cache, payload, copy, kept, load, nav>>

\* staleTime has passed; nothing happens before the query is mounted again, or the
\* window gets the focus where that counts.
Age ==
    /\ cache.has /\ ~cache.stale
    /\ cache' = [cache EXCEPT !.stale = TRUE]
    /\ UNCHANGED <<case, here, open, server, call, due, fetch, payload, copy, kept, load, nav, failed>>

\* gcTime has passed without an observer.  What the router has kept will then seed
\* the query as if it were new, so that nothing is owed any more.
Forget ==
    /\ cache.has /\ ~On /\ fetch.phase = "none"
    /\ cache' = NoEntry
    /\ due' = IF case.seeded /\ kept.has THEN 0 ELSE due
    /\ UNCHANGED <<case, here, open, server, call, fetch, payload, copy, kept, load, nav, failed>>

(***************************** pages and dialogs ***************************)

\* useQuery of the view mounts, on a page with these props: a missing entry is seeded
\* with initialData, as fresh, or requested; a stale one is requested again.
MountQuery(props) ==
    /\ cache'  = IF case.seeded /\ ~cache.has THEN Entry(props.ver) ELSE cache
    /\ fetch'  = IF (~case.seeded /\ ~cache.has) \/ cache.stale
                 THEN (IF fetch.phase = "none" THEN Asked ELSE fetch)
                 ELSE fetch
    /\ failed' = IF case.seeded /\ ~cache.has THEN props.fell ELSE failed

\* The browser comes to a place; a layout that is around both places stays as it is.
ComeTo(to, props) ==
    /\ here' = to
    /\ kept' = IF Mounted /\ ~MountedAt(to) THEN [has |-> TRUE, was |-> payload] ELSE kept
    /\ IF MountedAt(to) /\ ~Mounted
       THEN /\ payload' = props /\ copy' = props /\ open' = FALSE
            /\ IF case.query /\ ~case.modal
               THEN MountQuery(props)
               ELSE UNCHANGED <<cache, fetch, failed>>
       ELSE UNCHANGED <<payload, copy, open, cache, fetch, failed>>

\* A navigation drops the refresh under way, and with it what it would have shown.
DropRefresh ==
    /\ load' = NoRequest
    /\ due' = IF load.phase # "none" /\ ~case.query THEN 0 ELSE due

Go ==
    /\ \E to \in Places \ {here} : nav' = [NoNav(to) EXCEPT !.phase = "asked"]
    /\ DropRefresh
    /\ UNCHANGED <<case, here, open, server, call, cache, fetch, payload, copy, kept, failed>>

\* The server component loads its data; tryGet puts an empty list for what fails.  (A
\* page that fails to get its data is not shown: the browser has not arrived yet.)
PageReads ==
    /\ nav.phase = "asked"
    /\ \E fell \in {FALSE, case.tried} :
          nav' = [nav EXCEPT !.phase = "read", !.got = Loaded(IF fell THEN 0 ELSE server, fell)]
    /\ UNCHANGED <<case, here, open, server, call, due, cache, fetch, payload, copy, kept, load, failed>>

Arrive ==
    /\ nav.phase = "read"
    /\ ComeTo(nav.to, nav.got)
    /\ nav' = NoNav(nav.to)
    /\ UNCHANGED <<case, server, call, due, load>>

\* The Back button restores the payload that the router has kept.
Back ==
    /\ kept.has /\ ~Mounted
    /\ ComeTo("viewer", kept.was)
    /\ nav' = NoNav("viewer")
    /\ DropRefresh
    /\ UNCHANGED <<case, server, call>>

OpenDialog ==
    /\ case.modal /\ Mounted /\ ~open
    /\ open' = TRUE
    /\ IF case.query THEN MountQuery(payload) ELSE UNCHANGED <<cache, fetch, failed>>
    /\ UNCHANGED <<case, here, server, call, due, payload, copy, kept, load, nav>>

CloseDialog ==
    /\ open
    /\ open' = FALSE
    /\ UNCHANGED <<case, here, server, call, due, cache, fetch, payload, copy, kept, load, nav, failed>>

(****************************** router.refresh *****************************)

RefreshReads ==
    /\ load.phase = "asked"
    /\ load' = Answered(server)
    /\ UNCHANGED <<case, here, open, server, call, due, cache, fetch, payload, copy, kept, nav, failed>>

\* The mounted pages get new props, tryGet's empty list among them, and everything kept
\* is thrown away; useState and initialData do not look at the new props.
RefreshLands ==
    /\ load.phase = "read"
    /\ \E fell \in {FALSE, case.tried} :
          payload' = IF Mounted THEN Loaded(IF fell THEN 0 ELSE load.ver, fell) ELSE payload
    /\ kept' = NotKept
    /\ load' = NoRequest
    /\ UNCHANGED <<case, here, open, server, call, due, cache, fetch, copy, nav, failed>>

Next ==
    \/ Send \/ Apply \/ Refused \/ Succeeded
    \/ Poll \/ Refocus \/ FetchReads \/ FetchLands \/ FetchFails \/ Age \/ Forget
    \/ Go \/ PageReads \/ Arrive \/ Back \/ OpenDialog \/ CloseDialog
    \/ RefreshReads \/ RefreshLands

\* A request is answered, an answer is rendered, and an interval fires.
Fairness ==
    /\ WF_vars(FetchReads) /\ WF_vars(FetchLands) /\ WF_vars(Poll)
    /\ WF_vars(RefreshReads) /\ WF_vars(RefreshLands)

Spec == Init /\ [][Next]_vars
FairSpec == Spec /\ Fairness

(******************************** properties *******************************)

\* Nothing that will change the view is under way.
Quiet == fetch.phase = "none" /\ load.phase = "none"

\* A view that is on screen, with no request under way or failed, shows what the last
\* call of the user has changed: the call's onSuccess has reached every copy of it that
\* the browser holds, wherever the user was when the answer came.
QuietIsCurrent ==
    ~case.polled /\ On /\ Quiet /\ ~Trouble => Shown >= due

\* A view that owes the user the outcome of a call shows it in the end, unless it is
\* left or its request fails; a polled view does so even if the call says nothing to it.
CatchesUp ==
    (On /\ due > 0) ~> (~On \/ Trouble \/ Shown >= due)
=============================================================================
