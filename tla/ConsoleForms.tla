---------------------------- MODULE ConsoleForms ----------------------------
(***************************************************************************)
(* A form, a dialog or a table of the consoles while its calls are under    *)
(* way: what it holds, which error it shows, and whether the ConfirmDialog  *)
(* that asked for a call ever hears of it.                                  *)
(*                                                                          *)
(* A case is one call of one component.  The call may be made more than     *)
(* once before it is answered; the useMutation hook reports on the latest   *)
(* attempt only, and the callbacks passed to mutate run for that one only.  *)
(* Attempts are answered in any order, while the dialog is open, closed or  *)
(* opened again, and not at all once the component is gone.                 *)
(***************************************************************************)
EXTENDS Screens, FiniteSets

CONSTANTS
    Cases,      \* the calls under study, as profiles
    Rows,       \* the rows of the component's table
    MaxTries    \* bound: attempts while the component stays mounted

\* A profile: what the call does, how the component's dialog is closed, and which of
\* the properties below the call is known not to have.
Profiles ==
    [does : SUBSET {"closes", "clears", "empties", "locks", "confirm", "awaits", "says", "hushes",
                    "quiets", "rows", "plain", "done", "opens", "once", "leaves"},
     closing : {"page", "resets", "effect", "detaches", "wipes", "error", "keeps"},
     flaws : SUBSET {"waits", "shows", "holds", "leaks"}]

ASSUME CasesAssumption == Cases \subseteq Profiles
ASSUME BoundAssumption == MaxTries \in Nat /\ Rows \subseteq Nat \ {0} /\ Rows # {}

\* The profile of call c of a component with this closing.
Profile(c, closing, flaws) ==
    [does |-> c.does \ {"refresh", "puts"}, closing |-> closing, flaws |-> flaws]

VARIABLES
    case,       \* the case, chosen once
    open,       \* the dialog is open; a page always is
    typed,      \* something is typed into the form
    plain,      \* a plaintext the server will not show again is in the state
    tries,      \* how many attempts have been made: the hook observes the last one
    flight,     \* the attempts without an answer
    error,      \* the attempt whose failure is shown
    won,        \* for each row, the latest attempt that has succeeded, or 0
    asked,      \* the row whose ConfirmDialog is open, 0 for none
    waiting     \* for each row, the attempt its ConfirmDialog awaits, or 0

vars == <<case, open, typed, plain, tries, flight, error, won, asked, waiting>>

Does(word) == word \in case.does
IsDialog   == case.closing # "page"
Asks       == Does("confirm") \/ Does("awaits")
TableRows  == IF Does("rows") THEN Rows ELSE {CHOOSE r \in Rows : TRUE}
Attempts   == [n : 1..MaxTries, row : Rows]
NoError    == [n |-> 0, row |-> 0]

\* isPending of the hook.
Pending == \E f \in flight : f.n = tries

TypeOK ==
    /\ case \in Profiles
    /\ open \in BOOLEAN /\ typed \in BOOLEAN /\ plain \in BOOLEAN
    /\ tries \in 0..MaxTries
    /\ error \in Attempts \cup {NoError}
    /\ flight \subseteq Attempts
    /\ asked \in Rows \cup {0}
    /\ waiting \in [Rows -> 0..MaxTries] /\ won \in [Rows -> 0..MaxTries]

\* What mounting the component sets up.
Mounting(c) ==
    /\ open = (c.closing = "page")
    /\ typed = FALSE /\ plain = FALSE /\ tries = 0 /\ flight = {}
    /\ error = NoError /\ asked = 0
    /\ waiting = [r \in Rows |-> 0] /\ won = [r \in Rows |-> 0]

Init == case \in Cases /\ Mounting(case)

\* The page is left: its state is gone, and answers to come find nothing to change.
Leave ==
    /\ open' = (case.closing = "page")
    /\ typed' = FALSE /\ plain' = FALSE /\ tries' = 0 /\ flight' = {}
    /\ error' = NoError /\ asked' = 0
    /\ waiting' = [r \in Rows |-> 0] /\ won' = [r \in Rows |-> 0]
    /\ UNCHANGED case

(********************************* dialogs *********************************)

\* mutate(): the hook now observes this attempt.
Mutate(r) ==
    /\ tries < MaxTries
    /\ tries' = tries + 1
    /\ flight' = flight \cup {[n |-> tries + 1, row |-> r]}
    /\ error' = IF Does("hushes") THEN NoError ELSE error

\* A dialog that reveals something asks for it as it opens.
OpenDialog ==
    /\ IsDialog /\ ~open
    /\ open' = TRUE
    /\ IF Does("opens")
       THEN \E r \in TableRows : Mutate(r)
       ELSE UNCHANGED <<tries, flight, error>>
    /\ UNCHANGED <<case, typed, plain, won, asked, waiting>>

Type ==
    /\ IsDialog /\ open /\ ~typed
    /\ typed' = TRUE
    /\ UNCHANGED <<case, open, plain, tries, flight, error, won, asked, waiting>>

\* Cancel, Escape or a click outside: onOpenChange(false), also while a call is pending.
Close ==
    /\ IsDialog /\ open
    /\ open' = FALSE
    /\ typed' = (typed /\ case.closing \notin {"resets", "effect", "detaches"})
    /\ plain' = (plain /\ case.closing \notin {"resets", "effect", "detaches", "wipes"})
    /\ flight' = IF case.closing = "detaches" THEN {} ELSE flight
    /\ error' = IF case.closing = "keeps" THEN error ELSE NoError
    /\ UNCHANGED <<case, tries, won, asked, waiting>>

\* The Done button below a plaintext calls setOpen(false), not onOpenChange.
Done ==
    /\ IsDialog /\ Does("done") /\ open /\ plain
    /\ open' = FALSE
    /\ UNCHANGED <<case, typed, plain, tries, flight, error, won, asked, waiting>>

(********************************* attempts ********************************)

Submit(r) ==
    /\ ~Asks /\ ~Does("opens") /\ open
    /\ Does("locks") => ~Pending
    /\ Does("once") => tries = 0
    /\ Mutate(r)
    /\ UNCHANGED <<case, open, typed, plain, won, asked, waiting>>

\* The trigger of the row's ConfirmDialog.
Ask(r) ==
    /\ Asks /\ open /\ asked = 0
    /\ Does("locks") => ~Pending
    /\ asked' = r
    /\ UNCHANGED <<case, open, typed, plain, tries, flight, error, won, waiting>>

\* Mutant: handleConfirm closes the dialog first, and onConfirm finds no row chosen.
ConfirmClosed(r) ==
    /\ asked = r /\ waiting[r] = 0
    /\ asked' = 0
    /\ Mutate(asked')
    /\ waiting' = [waiting EXCEPT ![r] = tries + 1]
    /\ UNCHANGED <<case, open, typed, plain, won>>

\* handleConfirm: nothing while the dialog's own promise is pending.
Confirm(r) ==
    /\ asked = r /\ waiting[r] = 0
    /\ Mutate(r)
    /\ waiting' = [waiting EXCEPT ![r] = tries + 1]
    /\ UNCHANGED <<case, open, typed, plain, won, asked>>

\* Escape closes the ConfirmDialog even while it waits.
Escape ==
    /\ asked # 0
    /\ asked' = 0
    /\ UNCHANGED <<case, open, typed, plain, tries, flight, error, won, waiting>>

\* The promise of the row's dialog settles: a success also closes it.
Settle(f, ok) ==
    IF waiting[f.row] = f.n /\ (Does("awaits") \/ f.n = tries)
    THEN /\ waiting' = [waiting EXCEPT ![f.row] = 0]
         /\ asked' = IF ok /\ asked = f.row THEN 0 ELSE asked
    ELSE UNCHANGED <<waiting, asked>>

\* setOpen(false) of a success; an effect on open then resets the state.
ClosedByEffect == Does("closes") /\ case.closing = "effect"

Succeeds(f) ==
    /\ f \in flight
    /\ flight' = flight \ {f}
    /\ open'  = (open /\ ~(IsDialog /\ Does("closes")))
    /\ typed' = (typed /\ ~(Does("clears") \/ Does("empties") \/ ClosedByEffect))
    /\ plain' = (Does("plain") \/ plain)
    /\ error' = IF Does("quiets") \/ Does("clears") \/ ClosedByEffect THEN NoError ELSE error
    /\ won' = [won EXCEPT ![f.row] = IF f.n > @ THEN f.n ELSE @]
    /\ Settle(f, TRUE)
    /\ UNCHANGED <<case, tries>>

Fails(f) ==
    /\ f \in flight
    /\ flight' = flight \ {f}
    /\ error' = IF Does("says") THEN f ELSE error
    /\ Settle(f, FALSE)
    /\ UNCHANGED <<case, open, typed, plain, tries, won>>

Next ==
    \/ Leave \/ OpenDialog \/ Type \/ Close \/ Done \/ Escape
    \/ \E r \in TableRows : Submit(r) \/ Ask(r) \/ Confirm(r)
    \/ \E f \in flight : Succeeds(f) \/ Fails(f)

Spec == Init /\ [][Next]_vars

(***************************************************************************)
(* What a component's source must say for its calls to have the properties  *)
(* below: each can be read off the profile.                                 *)
(***************************************************************************)

\* The call has one of these words.
Any(c, words) == \E w \in words : w \in c.does

\* A ConfirmDialog's callbacks are its own: it awaits mutateAsync, or its trigger is
\* disabled while the hook is pending, or there is only one of them.
Hears(c) ==
    Any(c, {"confirm", "awaits"}) =>
        /\ "opens" \notin c.does /\ c.closing # "detaches"
        /\ Any(c, {"awaits", "locks"}) \/ "rows" \notin c.does

\* A row has one attempt under way at a time: its ConfirmDialog waits for it, or closing
\* the dialog that made it drops it, or the control is disabled.
OneAtATime(c) ==
    \/ Any(c, {"confirm", "awaits"}) /\ "opens" \notin c.does
    \/ /\ ~Any(c, {"confirm", "awaits", "closes", "done"})
       /\ "opens" \in c.does /\ c.closing = "detaches"
    \/ /\ ~Any(c, {"confirm", "awaits", "opens"})
       /\ Any(c, {"locks", "once"})

\* Then the next attempt, or its success, has to erase the error.
Corrects(c) ==
    "says" \in c.does =>
        \/ "leaves" \in c.does
        \/ /\ OneAtATime(c)
           /\ \/ Any(c, {"hushes", "quiets", "clears"})
              \/ "once" \in c.does /\ ~Any(c, {"confirm", "awaits", "opens"})

\* Every way to close the dialog resets its form.
Blanks(c) ==
    \/ c.closing = "page"
    \/ /\ c.closing \in {"resets", "effect", "detaches"} /\ "done" \notin c.does
       /\ "closes" \in c.does => c.closing = "effect" \/ Any(c, {"clears", "empties"})

\* A dialog that gets a plaintext detaches the call when it is closed.
Wipes(c) ==
    "plain" \in c.does =>
        \/ c.closing = "page"
        \/ c.closing = "detaches" /\ ~Any(c, {"closes", "done", "confirm", "awaits"})

(******************************** properties *******************************)

\* A ConfirmDialog that waits, its confirm button dead, will hear of its call: it waits
\* for an attempt that is still in flight and whose callbacks run, whichever other rows
\* were confirmed, dialogs escaped from and answers overtaken in the meantime.
WaitingIsAnswered ==
    "waits" \notin case.flaws =>
        \A r \in Rows : waiting[r] # 0 =>
            /\ [n |-> waiting[r], row |-> r] \in flight
            /\ Does("awaits") \/ waiting[r] = tries

\* A failure that is shown has not been overtaken: no later attempt of the same call on
\* the same row has succeeded.  (A call that leaves the page on success takes its error
\* line along.)
ErrorIsCurrent ==
    "shows" \notin case.flaws =>
        Does("leaves") \/ error = NoError \/ error.n > won[error.row]

\* A dialog that is closed holds nothing that was typed into it, however it was closed,
\* so that it opens blank the next time.
ClosedIsBlank == "holds" \notin case.flaws => open \/ ~typed

\* A dialog that is closed holds no plaintext, whenever the answer with it comes.
PlaintextWiped == "leaks" \notin case.flaws => open \/ ~plain
=============================================================================
