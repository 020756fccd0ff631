------------------------- MODULE ConsoleDataProofs -------------------------
(***************************************************************************)
(* ConsoleData for any set of cases and any number of calls: the types, and *)
(* that Covered, what a call's handler has to do for a view, is enough for  *)
(* the view to be current whenever it is at rest.                           *)
(*                                                                          *)
(* QuietIsCurrent speaks of a view on screen at rest.  Its invariant has to *)
(* speak of every copy that may come on screen without a request: an entry  *)
(* of the cache that is not stale, an answer on its way, the page being     *)
(* loaded, and what the router has kept.                                    *)
(***************************************************************************)
EXTENDS ConsoleData, TLAPS

\* What is known of every case, whatever the handler of its call does: the case is
\* chosen once, a call is sent below the bound, and nothing is owed to the user
\* that the API does not hold.
Ordered ==
    /\ case \in Cases
    /\ call.phase = "sent" => server < MaxCalls
    /\ call.phase = "applied" => call.ver <= server
    /\ due <= server

\* What a page can have loaded.
Payloads == [ver : Versions, fell : BOOLEAN]

\* The values that the actions give to a request, an entry, a payload and a navigation.
LEMMA Values ==
    ASSUME NEW v \in Versions, NEW b \in BOOLEAN
    PROVE  /\ 0 \in Versions
           /\ NoRequest \in [phase : {"none", "asked", "read"}, ver : Versions]
           /\ Asked \in [phase : {"none", "asked", "read"}, ver : Versions]
           /\ Answered(v) \in [phase : {"none", "asked", "read"}, ver : Versions]
           /\ NoEntry \in [has : BOOLEAN, ver : Versions, stale : BOOLEAN]
           /\ Entry(v) \in [has : BOOLEAN, ver : Versions, stale : BOOLEAN]
           /\ Loaded(v, b) \in Payloads
           /\ NotKept \in [has : BOOLEAN, was : Payloads]
<1>1. 0 \in Versions
  BY BoundAssumption DEF Versions
<1> HIDE DEF Versions
<1> QED
  BY <1>1 DEF NoRequest, Asked, Answered, NoEntry, Entry, Loaded, NotKept, Payloads

\* The values that Init gives them, and those that stand for nothing.
LEMMA StartingValues ==
    /\ 0 \in Versions
    /\ NoRequest \in [phase : {"none", "asked", "read"}, ver : Versions]
    /\ Asked \in [phase : {"none", "asked", "read"}, ver : Versions]
    /\ NoEntry \in [has : BOOLEAN, ver : Versions, stale : BOOLEAN]
    /\ Loaded(0, FALSE) \in Payloads
    /\ NotKept \in [has : BOOLEAN, was : Payloads]
<1>1. 0 \in Versions
  BY BoundAssumption DEF Versions
<1> QED
  BY <1>1, Values

\* The places of a case are the same in every state.
LEMMA PlacesStay == case' = case => Places' = Places
  BY DEF Places

\* The view's page and the outside are places of every case.
LEMMA ViewerIsPlace == "viewer" \in Places /\ "outside" \in Places
  BY DEF Places, PlaceNames

\* A navigation that starts, and one that has ended, goes to a place of the case.
LEMMA Navigations ==
    ASSUME NEW to \in Places
    PROVE  /\ NoNav(to) \in [phase : {"none", "asked", "read"}, to : Places, got : Payloads]
           /\ [NoNav(to) EXCEPT !.phase = "asked"]
                 \in [phase : {"none", "asked", "read"}, to : Places, got : Payloads]
           /\ NoNav(to).phase = "none"
           /\ [NoNav(to) EXCEPT !.phase = "asked"].phase = "asked"
<1>1. Loaded(0, FALSE) \in Payloads
  BY BoundAssumption DEF Loaded, Payloads, Versions
<1>2. NoNav(to) \in [phase : {"none", "asked", "read"}, to : Places, got : Payloads]
  BY <1>1 DEF NoNav
<1>3. [NoNav(to) EXCEPT !.phase = "asked"]
          \in [phase : {"none", "asked", "read"}, to : Places, got : Payloads]
  BY <1>2
<1>4. [NoNav(to) EXCEPT !.phase = "asked"].phase = "asked"
  BY <1>2
<1> QED
  BY <1>2, <1>3, <1>4 DEF NoNav

\* Mounting the view's query on a page with these props keeps the types.
LEMMA MountQueryTypes ==
    ASSUME TypeOK, NEW props \in Payloads, MountQuery(props)
    PROVE  /\ cache' \in [has : BOOLEAN, ver : Versions, stale : BOOLEAN]
           /\ fetch' \in [phase : {"none", "asked", "read"}, ver : Versions]
           /\ failed' \in BOOLEAN
<1>1. props.ver \in Versions /\ props.fell \in BOOLEAN
  BY DEF Payloads
<1>2. Entry(props.ver) \in [has : BOOLEAN, ver : Versions, stale : BOOLEAN]
  BY <1>1, Values
<1>3. Asked \in [phase : {"none", "asked", "read"}, ver : Versions]
  BY <1>1, Values
<1>4. cache' = Entry(props.ver) \/ cache' = cache
  BY DEF MountQuery
<1>5. fetch' = Asked \/ fetch' = fetch
  BY DEF MountQuery
<1>6. failed' \in BOOLEAN
  BY <1>1, Zenon DEF MountQuery, TypeOK
<1> QED
  BY <1>2, <1>3, <1>4, <1>5, <1>6 DEF TypeOK

\* So does coming to a place with the props loaded for it.
LEMMA ComeToTypes ==
    ASSUME TypeOK, case' = case, NEW to \in Places, NEW props \in Payloads, ComeTo(to, props)
    PROVE  /\ here' \in Places' /\ open' \in BOOLEAN
           /\ payload' \in Payloads /\ copy' \in Payloads
           /\ kept' \in [has : BOOLEAN, was : Payloads]
           /\ cache' \in [has : BOOLEAN, ver : Versions, stale : BOOLEAN]
           /\ fetch' \in [phase : {"none", "asked", "read"}, ver : Versions]
           /\ failed' \in BOOLEAN
<1>1. here' \in Places'
  BY PlacesStay DEF ComeTo
<1>2. payload \in Payloads /\ kept \in [has : BOOLEAN, was : Payloads]
  BY DEF TypeOK, Payloads
<1>3. kept' \in [has : BOOLEAN, was : Payloads]
  <2>1. kept' = [has |-> TRUE, was |-> payload] \/ kept' = kept
    BY DEF ComeTo
  <2>2. CASE kept' = kept
    BY <1>2, <2>2
  <2>3. CASE kept' = [has |-> TRUE, was |-> payload]
    BY <1>2, <2>3
  <2> QED
    BY <2>1, <2>2, <2>3
<1>4. CASE MountedAt(to) /\ ~Mounted
  <2>1. payload' = props /\ copy' = props /\ open' = FALSE
    BY <1>4 DEF ComeTo
  <2>2. MountQuery(props) \/ UNCHANGED <<cache, fetch, failed>>
    BY <1>4 DEF ComeTo
  <2> QED
    BY <1>1, <1>3, <2>1, <2>2, MountQueryTypes DEF TypeOK
<1>5. CASE ~(MountedAt(to) /\ ~Mounted)
  <2>1. UNCHANGED <<payload, copy, open, cache, fetch, failed>>
    BY <1>5 DEF ComeTo
  <2> QED
    BY <1>1, <1>3, <2>1 DEF TypeOK, Payloads
<1> QED
  BY <1>4, <1>5

\* The browser starts with nothing loaded and nothing owed.
LEMMA InitOrdered == Init => TypeOK /\ Ordered
<1> SUFFICES ASSUME Init PROVE TypeOK /\ Ordered
  OBVIOUS
<1>1. case \in Profiles /\ here \in Places
  BY CasesAssumption, ViewerIsPlace DEF Init
<1>2. /\ 0 \in Versions
      /\ NoRequest \in [phase : {"none", "asked", "read"}, ver : Versions]
      /\ NoEntry \in [has : BOOLEAN, ver : Versions, stale : BOOLEAN]
      /\ Loaded(0, FALSE) \in Payloads
      /\ NotKept \in [has : BOOLEAN, was : Payloads]
  BY StartingValues
<1>3. nav \in [phase : {"none", "asked", "read"}, to : Places, got : Payloads]
  BY <1>1, Navigations DEF Init
<1>4. TypeOK
  BY <1>1, <1>2, <1>3 DEF Init, TypeOK, Payloads
<1>5. Ordered
  BY BoundAssumption DEF Init, Ordered, Versions
<1> QED
  BY <1>4, <1>5

\* No step of the user, of the browser or of the API leaves the types, owes the user
\* what the API does not hold, or goes beyond the bound.
LEMMA NextOrdered == TypeOK /\ Ordered /\ [Next]_vars => TypeOK' /\ Ordered'
<1> SUFFICES ASSUME TypeOK, Ordered, [Next]_vars PROVE TypeOK' /\ Ordered'
  OBVIOUS
<1>a. case' = case
  BY DEF Next, vars, Send, Apply, Refused, Succeeded, Poll, Refocus, FetchReads, FetchLands, FetchFails, Age,
         Forget, Go, PageReads, Arrive, Back, OpenDialog, CloseDialog, RefreshReads, RefreshLands
<1>b. Places' = Places
  BY <1>a, PlacesStay
<1>c. /\ 0 \in Versions
      /\ NoRequest \in [phase : {"none", "asked", "read"}, ver : Versions]
      /\ Asked \in [phase : {"none", "asked", "read"}, ver : Versions]
      /\ NoEntry \in [has : BOOLEAN, ver : Versions, stale : BOOLEAN]
      /\ Loaded(0, FALSE) \in Payloads
      /\ NotKept \in [has : BOOLEAN, was : Payloads]
  BY StartingValues
<1>d. server \in Nat /\ due \in Nat /\ MaxCalls \in Nat
  BY BoundAssumption DEF TypeOK, Versions
<1>1. CASE Send
  BY <1>1, <1>b, <1>c DEF Send, TypeOK, Ordered
<1>2. CASE Apply
  <2>1. server + 1 \in Versions
    BY <1>2, <1>d DEF Apply, Ordered, Versions
  <2>2. server' = server + 1 /\ call' = [phase |-> "applied", ver |-> server + 1]
    BY <1>2 DEF Apply
  <2>3. TypeOK'
    BY <1>2, <1>b, <2>1, <2>2 DEF Apply, TypeOK
  <2> QED
    BY <1>2, <1>d, <2>2, <2>3 DEF Apply, Ordered
<1>3. CASE Refused
  BY <1>3, <1>b, <1>c DEF Refused, TypeOK, Ordered
<1>4. CASE Succeeded
  <2>1. call.ver \in Versions
    BY DEF TypeOK
  <2>2. cache' \in [has : BOOLEAN, ver : Versions, stale : BOOLEAN]
    <3>1. Entry(call.ver) \in [has : BOOLEAN, ver : Versions, stale : BOOLEAN]
      BY <2>1, Values
    <3>2. [cache EXCEPT !.stale = cache.has] \in [has : BOOLEAN, ver : Versions, stale : BOOLEAN]
      BY DEF TypeOK
    <3>3. cache' = Entry(call.ver) \/ cache' = [cache EXCEPT !.stale = cache.has] \/ cache' = cache
      BY <1>4 DEF Succeeded, UpdateQueries
    <3> QED
      BY <3>1, <3>2, <3>3 DEF TypeOK
  <2>3. fetch' \in [phase : {"none", "asked", "read"}, ver : Versions]
    <3>1. fetch' = fetch \/ fetch' = Asked
      BY <1>4 DEF Succeeded, UpdateQueries
    <3> QED
      BY <1>c, <3>1 DEF TypeOK
  <2>4. load' \in [phase : {"none", "asked", "read"}, ver : Versions]
    <3>1. load' = load \/ load' = Asked
      BY <1>4 DEF Succeeded
    <3> QED
      BY <1>c, <3>1 DEF TypeOK
  <2>5. nav' \in [phase : {"none", "asked", "read"}, to : Places, got : Payloads]
    <3>1. nav \in [phase : {"none", "asked", "read"}, to : Places, got : Payloads]
      BY DEF TypeOK, Payloads
    <3>2. nav' = nav \/ \E to \in Places : nav' = [NoNav(to) EXCEPT !.phase = "asked"]
      BY <1>4 DEF Succeeded
    <3> QED
      BY <3>1, <3>2, Navigations
  <2>6. due' = due \/ due' = call.ver
    BY <1>4 DEF Succeeded
  <2>7. call' = [phase |-> "idle", ver |-> 0]
    BY <1>4 DEF Succeeded
  <2>8. UNCHANGED <<case, here, open, server, payload, copy, kept, failed>>
    BY <1>4 DEF Succeeded
  <2>9. TypeOK'
    BY <1>b, <1>c, <2>1, <2>2, <2>3, <2>4, <2>5, <2>6, <2>7, <2>8 DEF TypeOK, Payloads
  <2> QED
    BY <1>4, <2>6, <2>7, <2>8, <2>9 DEF Ordered, Succeeded
<1>5. CASE Poll
  BY <1>5, <1>b, <1>c DEF Poll, TypeOK, Ordered
<1>6. CASE Refocus
  BY <1>6, <1>b, <1>c DEF Refocus, TypeOK, Ordered
<1>7. CASE FetchReads
  <2>1. Answered(server) \in [phase : {"none", "asked", "read"}, ver : Versions]
    BY Values DEF TypeOK
  <2> QED
    BY <1>7, <1>b, <2>1 DEF FetchReads, TypeOK, Ordered
<1>8. CASE FetchLands
  <2>1. fetch.ver \in Versions
    BY DEF TypeOK
  <2>2. Entry(fetch.ver) \in [has : BOOLEAN, ver : Versions, stale : BOOLEAN]
    BY <2>1, Values
  <2>3. cache' = Entry(fetch.ver) /\ fetch' = NoRequest
    BY <1>8 DEF FetchLands
  <2>4. failed' \in BOOLEAN
    BY <1>8, Zenon DEF FetchLands
  <2>5. UNCHANGED <<case, here, open, server, call, due, payload, copy, kept, load, nav>>
    BY <1>8 DEF FetchLands
  <2> QED
    BY <1>b, <1>c, <2>2, <2>3, <2>4, <2>5 DEF TypeOK, Ordered
<1>9. CASE FetchFails
  BY <1>9, <1>b, <1>c DEF FetchFails, TypeOK, Ordered
<1>10. CASE Age
  <2>1. cache' = [cache EXCEPT !.stale = TRUE]
    BY <1>10 DEF Age
  <2>2. cache' \in [has : BOOLEAN, ver : Versions, stale : BOOLEAN]
    BY <2>1 DEF TypeOK
  <2>3. UNCHANGED <<case, here, open, server, call, due, fetch, payload, copy, kept, load, nav, failed>>
    BY <1>10 DEF Age
  <2> QED
    BY <1>b, <2>2, <2>3 DEF TypeOK, Ordered
<1>11. CASE Forget
  BY <1>11, <1>b, <1>c, <1>d DEF Forget, TypeOK, Ordered
<1>e. DropRefresh => /\ load' \in [phase : {"none", "asked", "read"}, ver : Versions]
                     /\ due' \in Versions /\ due' <= server
  BY <1>c, <1>d DEF DropRefresh, TypeOK, Ordered
<1>12. CASE Go
  <2>1. nav' \in [phase : {"none", "asked", "read"}, to : Places, got : Payloads]
    <3>1. \E to \in Places : nav' = [NoNav(to) EXCEPT !.phase = "asked"]
      BY <1>12 DEF Go
    <3> QED
      BY <3>1, Navigations
  <2> QED
    BY <1>12, <1>b, <1>e, <2>1 DEF Go, TypeOK, Ordered, Payloads
<1>13. CASE PageReads
  <2>1. PICK fell \in {FALSE, case.tried} :
           nav' = [nav EXCEPT !.phase = "read", !.got = Loaded(IF fell THEN 0 ELSE server, fell)]
    BY <1>13 DEF PageReads
  <2>2. fell \in BOOLEAN
    BY DEF TypeOK, Profiles
  <2> DEFINE v == IF fell THEN 0 ELSE server
  <2>3. v \in Versions
    BY <1>c DEF TypeOK
  <2>4. Loaded(v, fell) \in Payloads
    BY <2>2, <2>3, Values
  <2>5. nav \in [phase : {"none", "asked", "read"}, to : Places, got : Payloads]
    BY DEF TypeOK, Payloads
  <2>6. nav' \in [phase : {"none", "asked", "read"}, to : Places, got : Payloads]
    <3> DEFINE l == Loaded(v, fell)
               n == [nav EXCEPT !.phase = "read"]
    <3>1. nav' = [n EXCEPT !.got = l]
      BY <2>1
    <3>2. n \in [phase : {"none", "asked", "read"}, to : Places, got : Payloads]
      BY <2>5
    <3>3. l \in Payloads
      BY <2>4
    <3> HIDE DEF l, n
    <3> QED
      BY <3>1, <3>2, <3>3
  <2> QED
    BY <1>13, <1>b, <2>6 DEF PageReads, TypeOK, Ordered, Payloads
<1>14. CASE Arrive
  <2>1. nav.to \in Places /\ nav.got \in Payloads
    BY DEF TypeOK, Payloads
  <2>2. ComeTo(nav.to, nav.got)
    BY <1>14 DEF Arrive
  <2>3. nav' \in [phase : {"none", "asked", "read"}, to : Places, got : Payloads]
    BY <1>14, <2>1, Navigations DEF Arrive
  <2> QED
    BY <1>14, <1>a, <1>b, <2>1, <2>2, <2>3, ComeToTypes DEF Arrive, TypeOK, Ordered, Payloads
<1>15. CASE Back
  <2>1. "viewer" \in Places /\ kept.was \in Payloads
    BY ViewerIsPlace DEF TypeOK, Payloads
  <2>2. ComeTo("viewer", kept.was)
    BY <1>15 DEF Back
  <2>3. nav' \in [phase : {"none", "asked", "read"}, to : Places, got : Payloads]
    BY <1>15, <2>1, Navigations DEF Back
  <2> QED
    BY <1>15, <1>a, <1>b, <1>e, <2>1, <2>2, <2>3, ComeToTypes DEF Back, TypeOK, Ordered, Payloads
<1>16. CASE OpenDialog
  <2>1. payload \in Payloads
    BY DEF TypeOK, Payloads
  <2>2. MountQuery(payload) \/ UNCHANGED <<cache, fetch, failed>>
    BY <1>16 DEF OpenDialog
  <2> QED
    BY <1>16, <1>b, <2>1, <2>2, MountQueryTypes DEF OpenDialog, TypeOK, Ordered
<1>17. CASE CloseDialog
  <2>1. open' \in BOOLEAN
    BY <1>17, Zenon DEF CloseDialog
  <2>2. UNCHANGED <<case, here, server, call, due, cache, fetch, payload, copy, kept, load, nav, failed>>
    BY <1>17 DEF CloseDialog
  <2> QED
    BY <1>b, <2>1, <2>2 DEF TypeOK, Ordered
<1>18. CASE RefreshReads
  <2>1. Answered(server) \in [phase : {"none", "asked", "read"}, ver : Versions]
    BY Values DEF TypeOK
  <2> QED
    BY <1>18, <1>b, <2>1 DEF RefreshReads, TypeOK, Ordered
<1>19. CASE RefreshLands
  <2>1. PICK fell \in {FALSE, case.tried} :
           payload' = IF Mounted THEN Loaded(IF fell THEN 0 ELSE load.ver, fell) ELSE payload
    BY <1>19 DEF RefreshLands
  <2> DEFINE v == IF fell THEN 0 ELSE load.ver
  <2>2. Loaded(v, fell) \in Payloads
    <3>1. fell \in BOOLEAN /\ v \in Versions
      BY <1>c DEF TypeOK, Profiles
    <3> QED
      BY <3>1, Values
  <2>3. payload' \in Payloads
    <3>1. payload' = Loaded(v, fell) \/ payload' = payload
      BY <2>1
    <3> QED
      BY <2>2, <3>1 DEF TypeOK, Payloads
  <2>4. kept' = NotKept /\ load' = NoRequest
    BY <1>19 DEF RefreshLands
  <2>5. UNCHANGED <<case, here, open, server, call, due, cache, fetch, copy, nav, failed>>
    BY <1>19 DEF RefreshLands
  <2> QED
    BY <1>b, <1>c, <2>3, <2>4, <2>5 DEF TypeOK, Ordered, Payloads
<1>20. CASE UNCHANGED vars
  BY <1>20, <1>b DEF vars, TypeOK, Ordered
<1> QED
  BY <1>1, <1>2, <1>3, <1>4, <1>5, <1>6, <1>7, <1>8, <1>9, <1>10, <1>11, <1>12, <1>13, <1>14, <1>15,
     <1>16, <1>17, <1>18, <1>19, <1>20 DEF Next

\* The browser's copies, requests and navigations keep their types in every case,
\* covered or not: a call that is never answered, an answer that comes after its page
\* was left and a query that is forgotten leave none of them half written.
THEOREM TypeOKHolds == Spec => []TypeOK
<1>1. QED
  BY InitOrdered, NextOrdered, PTL DEF Spec

(******************************** the invariant ****************************)

\* Props that are not a fallback hold what is owed.
Good(props) == props.fell \/ props.ver >= due

\* A page that is being loaded: an onSuccess that runs meanwhile raises no debt.
PageInv == nav.phase = "read" => Good(nav.got)

\* A query: an answer on its way and an entry that is not stale hold what is owed, and a
\* view on screen that waits for nothing shows it.  What the router has kept can still
\* seed the query only if nothing is owed.
QueryInv ==
    /\ fetch.phase = "read" => fetch.ver >= due
    /\ cache.has /\ ~cache.stale => cache.ver >= due \/ failed
    /\ On /\ fetch.phase = "none" /\ ~failed => cache.has /\ cache.ver >= due
    /\ case.seeded /\ Mounted => cache.has
    /\ case.seeded /\ ~cache.has /\ kept.has => due = 0

\* Props: an answer of router.refresh holds what is owed, and so does, once no refresh
\* is under way, whatever the page shows or the Back button brings back.
PropsInv ==
    /\ load.phase = "read" => load.ver >= due
    /\ load.phase = "none" /\ Mounted => Good(payload)
    /\ load.phase = "none" /\ kept.has => Good(kept.was)
    /\ case.copied /\ Mounted => Good(copy)

\* The two ways in which Covered lets a call reach a view that is not polled.
QueryCase == case.query /\ case.healed /\ ~case.puts /\ ~(case.seeded /\ case.modal) /\ ~case.polled
PropsCase == ~case.query /\ case.refreshes /\ ~case.polled

\* The view's query is mounted on a page whose props are good, if they will seed it.
LEMMA QueryMounts ==
    ASSUME TypeOK, QueryInv, NEW props \in Payloads, MountQuery(props),
           case.seeded /\ ~cache.has => Good(props)
    PROVE  /\ fetch'.phase = "read" => fetch'.ver >= due
           /\ cache'.has /\ ~cache'.stale => cache'.ver >= due \/ failed'
           /\ fetch'.phase = "none" /\ ~failed' => cache'.has /\ cache'.ver >= due
           /\ case.seeded => cache'.has
           /\ cache.has => cache'.has
<1>1. CASE case.seeded /\ ~cache.has
  <2>1. cache' = Entry(props.ver) /\ failed' = props.fell
    BY <1>1 DEF MountQuery
  <2>2. fetch' = fetch \/ fetch' = Asked
    BY DEF MountQuery
  <2> QED
    BY <1>1, <2>1, <2>2 DEF Entry, Asked, Good, QueryInv, TypeOK, Payloads
<1>2. CASE ~(case.seeded /\ ~cache.has)
  <2>1. cache' = cache /\ failed' = failed
    BY <1>2 DEF MountQuery
  <2>2. CASE (~case.seeded /\ ~cache.has) \/ cache.stale
    <3>1. fetch' = IF fetch.phase = "none" THEN Asked ELSE fetch
      BY <2>2 DEF MountQuery
    <3> QED
      BY <1>2, <2>1, <3>1 DEF Asked, QueryInv
  <2>3. CASE ~((~case.seeded /\ ~cache.has) \/ cache.stale)
    <3>1. fetch' = fetch
      BY <2>3 DEF MountQuery
    <3> QED
      BY <1>2, <2>1, <2>3, <3>1 DEF QueryInv
  <2> QED
    BY <2>2, <2>3
<1> QED
  BY <1>1, <1>2

\* Coming to a place, by a link or by the Back button, keeps the query's invariant.
LEMMA QueryArrives ==
    ASSUME TypeOK, QueryInv, QueryCase, case' = case, due' = due,
           NEW to, NEW props \in Payloads, ComeTo(to, props),
           case.seeded /\ ~cache.has => Good(props)
    PROVE  QueryInv'
<1>1. here' = to /\ Mounted' = MountedAt(to)
  BY DEF ComeTo, Mounted, MountedAt
<1>2. CASE MountedAt(to) /\ ~Mounted
  <2>1. kept' = kept /\ open' = FALSE
    BY <1>2 DEF ComeTo
  <2>2. CASE case.modal
    <3>1. UNCHANGED <<cache, fetch, failed>>
      BY <1>2, <2>2 DEF ComeTo
    <3>2. ~On'
      BY <2>1, <2>2 DEF On
    <3>3. ~case.seeded
      BY <2>2 DEF QueryCase
    <3> QED
      BY <3>1, <3>2, <3>3 DEF QueryInv
  <2>3. CASE ~case.modal
    <3>1. MountQuery(props)
      BY <1>2, <2>3 DEF ComeTo, QueryCase
    <3> QED
      BY <2>1, <3>1, QueryMounts DEF QueryInv
  <2> QED
    BY <2>2, <2>3
<1>3. CASE ~(MountedAt(to) /\ ~Mounted)
  <2>1. UNCHANGED <<open, cache, fetch, failed>>
    BY <1>3 DEF ComeTo
  <2>2. Mounted' => Mounted
    BY <1>1, <1>3
  <2>3. On' => On
    BY <2>1, <2>2 DEF On
  <2>4. case.seeded /\ ~cache.has => kept' = kept
    BY DEF QueryInv, ComeTo
  <2> QED
    BY <2>1, <2>2, <2>3, <2>4 DEF QueryInv
<1> QED
  BY <1>2, <1>3

\* What a page has read is what the API holds, or a fallback.
LEMMA PageReadsGood ==
    ASSUME TypeOK, Ordered, PageReads
    PROVE  PageInv'
<1>1. PICK fell \in {FALSE, case.tried} :
         nav' = [nav EXCEPT !.phase = "read", !.got = Loaded(IF fell THEN 0 ELSE server, fell)]
  BY DEF PageReads
<1> DEFINE l == Loaded(IF fell THEN 0 ELSE server, fell)
<1>2. nav'.got = l
  BY <1>1 DEF TypeOK
<1>3. l.fell = fell /\ (~fell => l.ver = server)
  BY DEF Loaded
<1>4. due' = due /\ due <= server
  BY DEF PageReads, Ordered
<1>5. due \in Nat /\ server \in Nat
  BY BoundAssumption DEF TypeOK, Versions
<1> HIDE DEF l
<1> QED
  BY <1>2, <1>3, <1>4, <1>5 DEF PageInv, Good

\* A view whose query the handler invalidates: no step breaks its invariant.
LEMMA QueryKeeps ==
    ASSUME TypeOK, Ordered, PageInv, QueryInv, QueryCase, [Next]_vars
    PROVE  PageInv' /\ QueryInv'
<1>a. case' = case
  BY DEF Next, vars, Send, Apply, Refused, Succeeded, Poll, Refocus, FetchReads, FetchLands, FetchFails, Age,
         Forget, Go, PageReads, Arrive, Back, OpenDialog, CloseDialog, RefreshReads, RefreshLands
<1>b. /\ due \in Nat /\ server \in Nat /\ due <= server /\ call.ver \in Nat
      /\ cache.ver \in Nat /\ fetch.ver \in Nat
  BY BoundAssumption DEF TypeOK, Ordered, Versions
<1>1. CASE UNCHANGED <<case, here, open, due, cache, fetch, kept, nav, failed>>
  BY <1>1 DEF PageInv, QueryInv, Good, On, Mounted, MountedAt
<1>2. CASE Succeeded
  <2>1. cache' = [cache EXCEPT !.stale = cache.has] /\ fetch' = IF On THEN Asked ELSE fetch
    BY <1>2 DEF Succeeded, UpdateQueries, QueryCase
  <2>2. /\ UNCHANGED <<case, here, open, kept, failed>>
        /\ due' = IF Raced THEN due ELSE call.ver
    BY <1>2 DEF Succeeded
  <2>3. Mounted' = Mounted /\ On' = On
    BY <2>2 DEF On, Mounted, MountedAt
  <2>4. cache'.has = cache.has /\ cache'.ver = cache.ver /\ cache'.stale = cache.has
    BY <2>1 DEF TypeOK
  <2>5. PageInv'
    <3>1. CASE nav.phase # "none"
      <4>1. due' = due
        BY <2>2, <3>1 DEF Raced
      <4>2. nav' = nav \/ nav'.phase = "asked"
        <5>1. nav' = nav \/ \E to \in Places : nav' = [NoNav(to) EXCEPT !.phase = "asked"]
          BY <1>2 DEF Succeeded
        <5> QED
          BY <5>1, Navigations
      <4> QED
        BY <4>1, <4>2 DEF PageInv, Good
    <3>2. CASE nav.phase = "none"
      <4>1. nav' = nav \/ nav'.phase = "asked"
        <5>1. nav' = nav \/ \E to \in Places : nav' = [NoNav(to) EXCEPT !.phase = "asked"]
          BY <1>2 DEF Succeeded
        <5> QED
          BY <5>1, Navigations
      <4> QED
        BY <3>2, <4>1 DEF PageInv
    <3> QED
      BY <3>1, <3>2
  <2>6. fetch'.phase = "read" => fetch'.ver >= due'
    <3>1. CASE On
      BY <2>1, <3>1 DEF Asked
    <3>2. CASE ~On
      <4>1. fetch.phase # "none" => due' = due
        BY <2>2, <3>2 DEF Raced, QueryCase
      <4> QED
        BY <2>1, <3>2, <4>1 DEF QueryInv
    <3> QED
      BY <3>1, <3>2
  <2>7. On' => fetch'.phase = "asked"
    BY <2>1, <2>3 DEF Asked
  <2>8. case.seeded /\ ~cache.has /\ kept.has => due' = due
    BY <2>2 DEF Raced
  <2> QED
    BY <1>a, <2>2, <2>3, <2>4, <2>5, <2>6, <2>7, <2>8 DEF QueryInv
<1>3. CASE Refocus
  <2>1. fetch' = Asked /\ UNCHANGED <<case, here, open, due, cache, kept, nav, failed>>
    BY <1>3 DEF Refocus
  <2> QED
    BY <2>1 DEF PageInv, QueryInv, Good, On, Mounted, MountedAt, Asked
<1>4. CASE FetchReads
  <2>1. fetch' = Answered(server) /\ UNCHANGED <<case, here, open, due, cache, kept, nav, failed>>
    BY <1>4 DEF FetchReads
  <2> QED
    BY <1>b, <2>1 DEF PageInv, QueryInv, Good, On, Mounted, MountedAt, Answered
<1>5. CASE FetchLands
  <2>1. /\ cache' = Entry(fetch.ver) /\ fetch' = NoRequest /\ fetch.ver >= due
        /\ UNCHANGED <<case, here, open, due, kept, nav>>
    BY <1>5 DEF FetchLands, QueryInv
  <2> QED
    BY <1>b, <2>1 DEF PageInv, QueryInv, Good, Entry, NoRequest
<1>6. CASE FetchFails
  <2>1. /\ fetch' = NoRequest /\ failed' = TRUE
        /\ UNCHANGED <<case, here, open, due, cache, kept, nav>>
    BY <1>6 DEF FetchFails
  <2> QED
    BY <2>1 DEF PageInv, QueryInv, Good, Mounted, MountedAt, NoRequest
<1>7. CASE Age
  <2>1. /\ cache' = [cache EXCEPT !.stale = TRUE]
        /\ UNCHANGED <<case, here, open, due, fetch, kept, nav, failed>>
    BY <1>7 DEF Age
  <2>2. cache'.has = cache.has /\ cache'.ver = cache.ver /\ cache'.stale
    BY <2>1 DEF TypeOK
  <2> QED
    BY <2>1, <2>2 DEF PageInv, QueryInv, Good, On, Mounted, MountedAt
<1>8. CASE Forget
  <2>1. /\ ~On /\ cache' = NoEntry /\ due' = IF case.seeded /\ kept.has THEN 0 ELSE due
        /\ UNCHANGED <<case, here, open, fetch, kept, nav, failed>>
    BY <1>8 DEF Forget
  <2>2. On' = On /\ Mounted' = Mounted
    BY <2>1 DEF On, Mounted, MountedAt
  <2>3. due' <= due /\ due' \in Nat
    BY <1>b, <2>1
  <2>4. case.seeded => ~Mounted
    BY <2>1 DEF On, QueryCase
  <2>5. PageInv'
    <3>1. nav.got.ver \in Nat
      BY BoundAssumption DEF TypeOK, Versions
    <3> QED
      BY <1>b, <2>1, <2>3, <3>1 DEF PageInv, Good
  <2>6. ~cache'.has
    BY <2>1 DEF NoEntry
  <2> QED
    BY <1>b, <2>1, <2>2, <2>3, <2>4, <2>5, <2>6 DEF QueryInv
<1>9. CASE Go
  <2>1. UNCHANGED <<case, here, open, due, cache, fetch, kept, failed>>
    BY <1>9 DEF Go, DropRefresh, QueryCase
  <2>2. nav'.phase = "asked"
    <3>1. \E to \in Places : nav' = [NoNav(to) EXCEPT !.phase = "asked"]
      BY <1>9 DEF Go
    <3> QED
      BY <3>1, Navigations
  <2> QED
    BY <2>1, <2>2 DEF PageInv, QueryInv, On, Mounted, MountedAt
<1>10. CASE PageReads
  <2>1. PageInv'
    BY <1>10, PageReadsGood
  <2> QED
    BY <1>10, <2>1 DEF PageReads, QueryInv, On, Mounted, MountedAt
<1>11. CASE Arrive
  <2>1. nav.got \in Payloads /\ nav.to \in Places /\ Good(nav.got)
    BY <1>11 DEF TypeOK, Payloads, Arrive, PageInv
  <2>2. ComeTo(nav.to, nav.got) /\ due' = due
    BY <1>11 DEF Arrive
  <2>3. QueryInv'
    BY <1>a, <2>1, <2>2, QueryArrives
  <2>4. nav'.phase = "none"
    BY <1>11, <2>1, Navigations DEF Arrive
  <2> QED
    BY <2>3, <2>4 DEF PageInv
<1>12. CASE Back
  <2>1. kept.was \in Payloads /\ kept.was.ver \in Nat
    BY BoundAssumption DEF TypeOK, Payloads, Versions
  <2>2. ComeTo("viewer", kept.was) /\ due' = due
    BY <1>12 DEF Back, DropRefresh, QueryCase
  <2>3. case.seeded /\ ~cache.has => Good(kept.was)
    BY <1>12, <2>1 DEF Back, QueryInv, Good
  <2>4. QueryInv'
    BY <1>a, <2>1, <2>2, <2>3, QueryArrives
  <2>5. nav'.phase = "none"
    BY <1>12, ViewerIsPlace, Navigations DEF Back
  <2> QED
    BY <2>4, <2>5 DEF PageInv
<1>13. CASE OpenDialog
  <2>1. MountQuery(payload) /\ ~case.seeded /\ UNCHANGED <<case, here, due, kept, nav>>
    BY <1>13 DEF OpenDialog, QueryCase
  <2>2. payload \in Payloads
    BY DEF TypeOK, Payloads
  <2>3. PageInv'
    BY <2>1 DEF PageInv, Good
  <2> QED
    BY <2>1, <2>2, <2>3, QueryMounts DEF QueryInv
<1>14. CASE CloseDialog
  <2>1. ~open' /\ UNCHANGED <<case, here, due, cache, fetch, kept, nav, failed>>
    BY <1>14 DEF CloseDialog
  <2>2. On' => On
    BY <1>14, <2>1 DEF On, Mounted, MountedAt, CloseDialog
  <2> QED
    BY <2>1, <2>2 DEF PageInv, QueryInv, Good, Mounted, MountedAt
<1>15. CASE RefreshLands
  <2>1. ~kept'.has /\ UNCHANGED <<case, here, open, due, cache, fetch, nav, failed>>
    BY <1>15 DEF RefreshLands, NotKept
  <2> QED
    BY <2>1 DEF PageInv, QueryInv, Good, On, Mounted, MountedAt
<1>16. CASE Send \/ Apply \/ Refused \/ RefreshReads \/ UNCHANGED vars
  BY <1>1, <1>16 DEF Send, Apply, Refused, RefreshReads, vars
<1>17. ~Poll
  BY DEF Poll, QueryCase
<1> QED
  BY <1>2, <1>3, <1>4, <1>5, <1>6, <1>7, <1>8, <1>9, <1>10, <1>11, <1>12, <1>13, <1>14, <1>15, <1>16, <1>17
     DEF Next

\* Coming to a place with good props keeps the invariant of props; what the page that is
\* left showed is what the router keeps.
LEMMA PropsArrive ==
    ASSUME PropsInv, case' = case, due' = due, load' = load,
           NEW to, NEW props, ComeTo(to, props), Good(props)
    PROVE  PropsInv'
<1>1. Mounted' = MountedAt(to)
  BY DEF ComeTo, Mounted, MountedAt
<1>2. load.phase = "none" /\ kept'.has => Good(kept'.was)
  <2>1. CASE Mounted /\ ~MountedAt(to)
    <3>1. kept' = [has |-> TRUE, was |-> payload]
      BY <2>1 DEF ComeTo
    <3>2. kept'.was = payload
      BY <3>1
    <3> QED
      BY <2>1, <3>2 DEF PropsInv
  <2>2. CASE ~(Mounted /\ ~MountedAt(to))
    BY <2>2 DEF ComeTo, PropsInv
  <2> QED
    BY <2>1, <2>2
<1>3. CASE MountedAt(to) /\ ~Mounted
  <2>1. payload' = props /\ copy' = props
    BY <1>3 DEF ComeTo
  <2> QED
    BY <1>2, <2>1 DEF PropsInv, Good
<1>4. CASE ~(MountedAt(to) /\ ~Mounted)
  <2>1. payload' = payload /\ copy' = copy /\ (Mounted' => Mounted)
    BY <1>1, <1>4 DEF ComeTo
  <2> QED
    BY <1>2, <2>1 DEF PropsInv, Good
<1> QED
  BY <1>3, <1>4

\* If a navigation drops a refresh, nothing is owed any more, and everything is good.
LEMMA NothingOwed ==
    ASSUME TypeOK', due' = 0, load'.phase # "read"
    PROVE  PropsInv'
<1>1. payload'.ver \in Nat /\ copy'.ver \in Nat /\ kept'.was.ver \in Nat
  BY BoundAssumption DEF TypeOK, Versions
<1> QED
  BY <1>1 DEF PropsInv, Good

\* A view of props that the handler has loaded again: no step breaks its invariant.
LEMMA PropsKeeps ==
    ASSUME TypeOK, TypeOK', Ordered, PageInv, PropsInv, PropsCase, [Next]_vars
    PROVE  PageInv' /\ PropsInv'
<1>a. case' = case
  BY DEF Next, vars, Send, Apply, Refused, Succeeded, Poll, Refocus, FetchReads, FetchLands, FetchFails, Age,
         Forget, Go, PageReads, Arrive, Back, OpenDialog, CloseDialog, RefreshReads, RefreshLands
<1>b. due \in Nat /\ server \in Nat /\ due <= server /\ load.ver \in Nat
  BY BoundAssumption DEF TypeOK, Ordered, Versions
<1>1. CASE UNCHANGED <<case, here, due, payload, copy, kept, load, nav>>
  BY <1>1 DEF PageInv, PropsInv, Good, Mounted, MountedAt
<1>2. CASE Succeeded
  <2>1. load' = Asked /\ UNCHANGED <<case, here, payload, copy, kept>>
    BY <1>2 DEF Succeeded, PropsCase
  <2>2. due' = IF Raced THEN due ELSE call.ver
    BY <1>2 DEF Succeeded
  <2>3. nav' = nav \/ nav'.phase = "asked"
    <3>1. nav' = nav \/ \E to \in Places : nav' = [NoNav(to) EXCEPT !.phase = "asked"]
      BY <1>2 DEF Succeeded
    <3> QED
      BY <3>1, Navigations
  <2>4. PageInv'
    <3>1. nav.phase = "read" => due' = due
      BY <2>2 DEF Raced
    <3> QED
      BY <2>3, <3>1 DEF PageInv, Good
  <2>5. case.copied /\ Mounted => due' = due
    BY <2>2 DEF Raced
  <2>6. Mounted' = Mounted /\ load'.phase = "asked"
    BY <2>1 DEF Mounted, MountedAt, Asked
  <2> QED
    BY <2>1, <2>4, <2>5, <2>6 DEF PropsInv, Good
<1>3. CASE Go
  <2>1. UNCHANGED <<case, here, payload, copy, kept>> /\ load' = NoRequest
    BY <1>3 DEF Go, DropRefresh
  <2>2. nav'.phase = "asked"
    <3>1. \E to \in Places : nav' = [NoNav(to) EXCEPT !.phase = "asked"]
      BY <1>3 DEF Go
    <3> QED
      BY <3>1, Navigations
  <2>3. PageInv'
    BY <2>2 DEF PageInv
  <2>4. CASE load.phase # "none"
    <3>1. due' = 0 /\ load'.phase = "none"
      BY <1>3, <2>1, <2>4 DEF Go, DropRefresh, PropsCase, NoRequest
    <3> QED
      BY <2>3, <3>1, NothingOwed
  <2>5. CASE load.phase = "none"
    <3>1. due' = due /\ load'.phase = "none"
      BY <1>3, <2>1, <2>5 DEF Go, DropRefresh, NoRequest
    <3> QED
      BY <2>1, <2>3, <2>5, <3>1 DEF PropsInv, Good, Mounted, MountedAt
  <2> QED
    BY <2>4, <2>5
<1>4. CASE PageReads
  <2>1. PageInv'
    BY <1>4, PageReadsGood
  <2> QED
    BY <1>4, <2>1 DEF PageReads, PropsInv, Good, Mounted, MountedAt
<1>5. CASE Arrive
  <2>1. nav.to \in Places /\ Good(nav.got)
    BY <1>5 DEF TypeOK, Arrive, PageInv
  <2>2. ComeTo(nav.to, nav.got) /\ due' = due /\ load' = load
    BY <1>5 DEF Arrive
  <2>3. PropsInv'
    BY <1>a, <2>1, <2>2, PropsArrive
  <2>4. nav'.phase = "none"
    BY <1>5, <2>1, Navigations DEF Arrive
  <2> QED
    BY <2>3, <2>4 DEF PageInv
<1>6. CASE Back
  <2>1. nav'.phase = "none"
    BY <1>6, ViewerIsPlace, Navigations DEF Back
  <2>2. PageInv'
    BY <2>1 DEF PageInv
  <2>3. ComeTo("viewer", kept.was) /\ load' = NoRequest /\ kept.has
    BY <1>6 DEF Back, DropRefresh
  <2>4. CASE load.phase # "none"
    <3>1. due' = 0 /\ load'.phase = "none"
      BY <1>6, <2>3, <2>4 DEF Back, DropRefresh, PropsCase, NoRequest
    <3> QED
      BY <2>2, <3>1, NothingOwed
  <2>5. CASE load.phase = "none"
    <3>1. due' = due /\ Good(kept.was)
      BY <1>6, <2>3, <2>5 DEF Back, DropRefresh, PropsInv
    <3>2. load'.phase = "none"
      BY <2>3 DEF NoRequest
    <3>3. Mounted' = MountedAt("viewer") /\ ~Mounted /\ kept' = kept
      BY <1>6, <1>a, <2>3 DEF ComeTo, Back, Mounted, MountedAt
    <3>4. Mounted' => payload' = kept.was /\ copy' = kept.was
      BY <2>3, <3>3 DEF ComeTo
    <3> QED
      BY <2>2, <3>1, <3>2, <3>3, <3>4 DEF PropsInv, Good
  <2> QED
    BY <2>4, <2>5
<1>7. CASE RefreshReads
  <2>1. load' = Answered(server) /\ UNCHANGED <<case, here, due, payload, copy, kept, nav>>
    BY <1>7 DEF RefreshReads
  <2>2. load'.phase = "read" /\ load'.ver = server
    BY <2>1 DEF Answered
  <2> QED
    BY <1>b, <2>1, <2>2 DEF PageInv, PropsInv, Good, Mounted, MountedAt
<1>8. CASE RefreshLands
  <2>1. UNCHANGED <<case, here, due, copy, nav>> /\ load.ver >= due
    BY <1>8 DEF RefreshLands, PropsInv
  <2>2. ~kept'.has /\ load'.phase = "none"
    BY <1>8 DEF RefreshLands, NotKept, NoRequest
  <2>3. Mounted' = Mounted
    BY <2>1 DEF Mounted, MountedAt
  <2>4. Mounted => payload'.fell \/ payload'.ver = load.ver
    <3>1. PICK fell \in {FALSE, case.tried} :
             payload' = IF Mounted THEN Loaded(IF fell THEN 0 ELSE load.ver, fell) ELSE payload
      BY <1>8 DEF RefreshLands
    <3>2. Mounted => payload'.fell = fell /\ payload'.ver = IF fell THEN 0 ELSE load.ver
      BY <3>1 DEF Loaded
    <3> QED
      BY <3>2
  <2> QED
    BY <1>b, <2>1, <2>2, <2>3, <2>4 DEF PageInv, PropsInv, Good
<1>9. CASE Forget
  <2>1. due' = due \/ due' = 0
    BY <1>9 DEF Forget
  <2>2. UNCHANGED <<case, here, payload, copy, kept, load, nav>>
    BY <1>9 DEF Forget
  <2>3. /\ nav.got.ver \in Nat /\ payload.ver \in Nat /\ copy.ver \in Nat
        /\ kept.was.ver \in Nat
    BY BoundAssumption DEF TypeOK, Versions
  <2> QED
    BY <1>1, <1>b, <2>1, <2>2, <2>3 DEF PageInv, PropsInv, Good, Mounted, MountedAt
<1>10. CASE \/ Send \/ Apply \/ Refused \/ Poll \/ Refocus \/ FetchReads \/ FetchLands \/ FetchFails \/ Age
            \/ OpenDialog \/ CloseDialog \/ UNCHANGED vars
  BY <1>1, <1>10 DEF Send, Apply, Refused, Poll, Refocus, FetchReads, FetchLands, FetchFails, Age,
                     OpenDialog, CloseDialog, vars
<1> QED
  BY <1>2, <1>3, <1>4, <1>5, <1>6, <1>7, <1>8, <1>9, <1>10 DEF Next

(******************************** the theorem ******************************)

\* The inductive invariant, by the way the view gets its data.
IInv ==
    /\ TypeOK /\ Ordered
    /\ ~case.polled => PageInv
    /\ QueryCase => QueryInv
    /\ PropsCase => PropsInv

\* Outside the dashboard nothing is loaded, kept or on its way.
LEMMA InitIInv == Init => IInv
<1> SUFFICES ASSUME Init PROVE IInv
  OBVIOUS
<1>1. ~Mounted
  BY CasesAssumption DEF Init, Mounted, MountedAt
<1>2. nav.phase = "none" /\ fetch.phase = "none" /\ load.phase = "none" /\ ~cache.has /\ ~kept.has
  BY DEF Init, NoNav, NoRequest, NoEntry, NotKept
<1> QED
  BY <1>1, <1>2, InitOrdered DEF IInv, PageInv, QueryInv, PropsInv, On

\* A covered case is polled, a query that is invalidated, or props that are refreshed,
\* and remains what it is.
LEMMA NextIInv ==
    ASSUME \A c \in Cases : Covered(c), IInv, [Next]_vars
    PROVE  IInv'
<1>1. TypeOK' /\ Ordered'
  BY NextOrdered DEF IInv
<1>2. case' = case
  BY DEF Next, vars, Send, Apply, Refused, Succeeded, Poll, Refocus, FetchReads, FetchLands, FetchFails, Age,
         Forget, Go, PageReads, Arrive, Back, OpenDialog, CloseDialog, RefreshReads, RefreshLands
<1>3. case.polled \/ QueryCase \/ PropsCase
  BY DEF IInv, Ordered, Covered, QueryCase, PropsCase
<1>4. QueryCase' = QueryCase /\ PropsCase' = PropsCase
  BY <1>2 DEF QueryCase, PropsCase
<1>5. CASE QueryCase
  <2>1. ~case.polled /\ ~PropsCase
    BY <1>5 DEF QueryCase, PropsCase
  <2>2. PageInv' /\ QueryInv'
    BY <1>5, <2>1, QueryKeeps DEF IInv
  <2> QED
    BY <1>1, <1>4, <2>1, <2>2 DEF IInv
<1>6. CASE PropsCase
  <2>1. ~case.polled /\ ~QueryCase
    BY <1>6 DEF QueryCase, PropsCase
  <2>2. PageInv' /\ PropsInv'
    BY <1>1, <1>6, <2>1, PropsKeeps DEF IInv
  <2> QED
    BY <1>1, <1>4, <2>1, <2>2 DEF IInv
<1>7. CASE case.polled
  BY <1>1, <1>2, <1>4, <1>7 DEF IInv, QueryCase, PropsCase
<1> QED
  BY <1>3, <1>5, <1>6, <1>7

\* If the handler of every call reaches what its view shows (Covered), a view on screen
\* for which nothing is under way and nothing has failed shows what the user's last call
\* has changed: for every call and view of a console, for any number of calls, whatever
\* the user does between a call and its answer (leaves the page, comes back by a link
\* or by the Back button, opens and closes dialogs) and in whichever order the requests
\* are answered.
THEOREM QuietIsCurrentHolds ==
    ASSUME \A c \in Cases : Covered(c)
    PROVE  Spec => []QuietIsCurrent
<1>1. Init => IInv
  BY InitIInv
<1>2. IInv /\ [Next]_vars => IInv'
  BY NextIInv
<1>3. IInv => QuietIsCurrent
  <2> SUFFICES ASSUME IInv, ~case.polled, On, Quiet, ~Trouble PROVE Shown >= due
    BY DEF QuietIsCurrent
  <2>1. QueryCase \/ PropsCase
    BY DEF IInv, Ordered, Covered, QueryCase, PropsCase
  <2>2. CASE QueryCase
    BY <2>2 DEF IInv, QueryInv, QueryCase, Quiet, Trouble, Shown
  <2>3. CASE PropsCase
    BY <2>3 DEF IInv, PropsInv, PropsCase, Quiet, Trouble, Shown, On, Good
  <2> QED
    BY <2>1, <2>2, <2>3
<1> QED
  BY <1>1, <1>2, <1>3, PTL DEF Spec
=============================================================================
