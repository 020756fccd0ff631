------------------------------ MODULE Screens ------------------------------
(***************************************************************************)
(* The vocabulary in which the web consoles' components are described: what *)
(* a component shows, where its data comes from, and what its calls do when *)
(* they return.  The descriptions are data; ConsoleData and ConsoleForms    *)
(* give them their meaning.                                                 *)
(*                                                                          *)
(* A place is a route segment: <<"dashboard", "team", "members">> is a page *)
(* inside the layouts <<"dashboard", "team">> and <<"dashboard">>.  A query *)
(* key is the sequence of its parts, the ids that occur in it as words.     *)
(***************************************************************************)
EXTENDS Sequences, Naturals

\* a is the place b itself or a layout around it.
Around(a, b) == Len(a) <= Len(b) /\ \A i \in 1..Len(a) : a[i] = b[i]

\* queryClient.invalidateQueries({queryKey: p}) reaches every key that begins with p.
Reaches(p, key) == Around(p, key)

(***************************************************************************)
(* Views.  "seeded": initialData taken from the page's props; "polled": a   *)
(* refetchInterval; "props": what the server component passed is shown as   *)
(* it is; "copied": useState(props) at mount, edited in a form.             *)
(***************************************************************************)
Query(key, reads, traits) == [key |-> key, reads |-> reads, kind |-> traits \cup {"query"}]
Props(reads)              == [key |-> <<>>, reads |-> reads, kind |-> {"props"}]
Copied(reads)             == [key |-> <<>>, reads |-> reads, kind |-> {"copied"}]

(***************************************************************************)
(* Calls.  writes: what the API call may have changed by the time it is     *)
(* answered, in other lists and in the audit log, too, as far as a view     *)
(* reads it (not what a job that it started changes later, nor the pages    *)
(* of a thing that it has deleted); heals: the keys it invalidates,         *)
(* refetches or ("puts") sets when it has succeeded; does:                  *)
(*   "refresh"  router.refresh()        "leaves"  router.push or replace    *)
(*   "closes"   setOpen(false)          "clears"  the form is reset         *)
(*   "empties"  the form is reset, its error is not                         *)
(*   "locks"    the control is disabled while the call is pending           *)
(*   "confirm"  a ConfirmDialog whose promise the callbacks of mutate settle*)
(*   "awaits"   a ConfirmDialog that awaits mutateAsync, or nothing         *)
(*   "says"     a failure is shown      "hushes"  a retry erases it first   *)
(*   "quiets"   a success erases it     "rows"    one hook for all the rows *)
(*   "plain"    the answer carries a plaintext that goes into the state     *)
(*   "done"     its pane is left by setOpen(false), past onOpenChange       *)
(*   "opens"    opening the dialog makes the call                           *)
(*   "once"     mounting makes the call, and nothing makes it again         *)
(***************************************************************************)
Call(name, writes, heals, does) ==
    [name |-> name, writes |-> writes, heals |-> heals, does |-> does]

\* Mutant: a failure stays on screen while the form is sent again.
FormUnhushed == {"locks", "says"}

\* What the forms of the console have in common: the submit button is disabled
\* while the call is pending, a failure is shown, and submitting again erases it.
Form == {"locks", "says", "hushes"}

(***************************************************************************)
(* Pages.  A page or a layout is a server component at a place that loads   *)
(* data before it is shown: what it gets it cannot do without, what it      *)
(* tries is an empty list if the request fails.                             *)
(***************************************************************************)
Page(at, gets, tries) == [at |-> at, gets |-> gets, tries |-> tries]
Within(layout, word, gets, tries) == Page(Append(layout.at, word), gets, tries)

Dashboard == Page(<<"dashboard">>, {"user"}, {"teams"})

(***************************************************************************)
(* Components.  closing says what leaving the dialog does to its state:     *)
(* "page" (there is no dialog), "resets" (onOpenChange(false) resets it),   *)
(* "effect" (an effect resets it whenever open is false), "detaches" (the   *)
(* hook's reset drops the call, too), "wipes" (what was typed stays),       *)
(* "error" (only the error is erased), "keeps".                             *)
(***************************************************************************)
Screen(pages, views, calls) == [on |-> pages, views |-> views, calls |-> calls, closing |-> "page"]
Modal(pages, closing, views, calls) ==
    [on |-> pages, views |-> views, calls |-> calls, closing |-> closing]

\* A query's or a form's data comes with the page: the page, or a layout of it, loads it.
LoadedBy(page, views) == \A v \in views : v.reads \in page.gets \cup page.tries
=============================================================================
