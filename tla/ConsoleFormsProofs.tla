------------------------- MODULE ConsoleFormsProofs -------------------------
(***************************************************************************)
(* ConsoleForms for any number of rows, of attempts and of components: the  *)
(* types, and that what a component's profile says (Hears, Corrects, Blanks *)
(* and Wipes) is enough for what ConsoleForms promises.                     *)
(***************************************************************************)
EXTENDS ConsoleForms, TLAPS

\* Rows are numbers from 1, and the table of a component has only such rows.
LEMMA TableRowsLemma == TableRows \subseteq Rows /\ TableRows # {} /\ 0 \notin Rows
  BY BoundAssumption DEF TableRows

\* Mounting a component leaves every variable in its type.
LEMMA InitTypeOK == Init => TypeOK
<1> SUFFICES ASSUME Init PROVE TypeOK
  OBVIOUS
<1>1. open \in BOOLEAN /\ typed \in BOOLEAN /\ plain \in BOOLEAN
  BY Zenon DEF Init, Mounting
<1> QED
  BY <1>1, CasesAssumption, BoundAssumption DEF Init, Mounting, TypeOK

\* No step of a form, of a dialog or of an answer leaves the types.
LEMMA NextTypeOK == TypeOK /\ [Next]_vars => TypeOK'
<1> SUFFICES ASSUME TypeOK, [Next]_vars PROVE TypeOK'
  OBVIOUS
<1> USE BoundAssumption, TableRowsLemma
<1>m. ASSUME NEW r \in TableRows, Mutate(r)
      PROVE  tries' \in 0..MaxTries /\ flight' \subseteq Attempts /\ error' \in Attempts \cup {NoError}
  BY <1>m DEF Mutate, TypeOK, Attempts
<1>s. ASSUME NEW f \in flight, NEW ok \in BOOLEAN, Settle(f, ok)
      PROVE  waiting' \in [Rows -> 0..MaxTries] /\ asked' \in Rows \cup {0}
  BY <1>s DEF Settle, TypeOK, Attempts
<1>1. CASE Leave
  <2>1. open' \in BOOLEAN /\ typed' \in BOOLEAN /\ plain' \in BOOLEAN
    BY <1>1, Zenon DEF Leave
  <2> QED
    BY <1>1, <2>1 DEF Leave, TypeOK
<1>2. CASE OpenDialog
  <2>1. CASE Does("opens")
    <3> PICK r \in TableRows : Mutate(r)
      BY <1>2, <2>1 DEF OpenDialog
    <3> QED
      BY <1>2, <1>m DEF OpenDialog, TypeOK
  <2>2. CASE ~Does("opens")
    BY <1>2, <2>2 DEF OpenDialog, TypeOK
  <2> QED
    BY <2>1, <2>2
<1>3. CASE Type
  BY <1>3 DEF Type, TypeOK
<1>4. CASE Close
  <2>1. open' \in BOOLEAN /\ typed' \in BOOLEAN /\ plain' \in BOOLEAN
    BY <1>4, Zenon DEF Close
  <2> QED
    BY <1>4, <2>1 DEF Close, TypeOK
<1>5. CASE Done
  BY <1>5 DEF Done, TypeOK
<1>6. CASE Escape
  BY <1>6 DEF Escape, TypeOK
<1>7. ASSUME NEW r \in TableRows, Submit(r) PROVE TypeOK'
  BY <1>7, <1>m DEF Submit, TypeOK
<1>8. ASSUME NEW r \in TableRows, Ask(r) PROVE TypeOK'
  BY <1>8 DEF Ask, TypeOK
<1>9. ASSUME NEW r \in TableRows, Confirm(r) PROVE TypeOK'
  <2>1. tries + 1 \in 0..MaxTries
    BY <1>9 DEF Confirm, Mutate, TypeOK
  <2> QED
    BY <1>9, <1>m, <2>1 DEF Confirm, TypeOK
<1>10. ASSUME NEW f \in flight, Succeeds(f) PROVE TypeOK'
  <2> DEFINE latest == IF f.n > won[f.row] THEN f.n ELSE won[f.row]
  <2>1. f.row \in Rows /\ latest \in 0..MaxTries
    <3>1. f.n \in 1..MaxTries /\ f.row \in Rows
      BY DEF TypeOK, Attempts
    <3>2. won[f.row] \in 0..MaxTries
      BY <3>1, Zenon DEF TypeOK
    <3>3. f.n \in 0..MaxTries
      BY <3>1
    <3> QED
      BY <3>1, <3>2, <3>3, Zenon
  <2>2. won' \in [Rows -> 0..MaxTries]
    <3>1. won' = [won EXCEPT ![f.row] = latest]
      BY <1>10, Zenon DEF Succeeds
    <3> QED
      BY <2>1, <3>1, Zenon DEF TypeOK
  <2>3. open' \in BOOLEAN /\ typed' \in BOOLEAN /\ plain' \in BOOLEAN
    BY <1>10, Zenon DEF Succeeds
  <2> QED
    BY <1>10, <1>s, <2>2, <2>3 DEF Succeeds, TypeOK
<1>11. ASSUME NEW f \in flight, Fails(f) PROVE TypeOK'
  BY <1>11, <1>s DEF Fails, TypeOK
<1>12. CASE UNCHANGED vars
  BY <1>12 DEF vars, TypeOK, Attempts
<1> QED
  BY <1>1, <1>2, <1>3, <1>4, <1>5, <1>6, <1>7, <1>8, <1>9, <1>10, <1>11, <1>12 DEF Next

\* The form's state keeps its types whatever its calls do and in whichever order they
\* are answered: an error that is shown is always the error of an attempt that was made.
THEOREM FormTypes == Spec => []TypeOK
<1>1. QED
  BY InitTypeOK, NextTypeOK, PTL DEF Spec

(******************************* closed dialogs ****************************)

\* The case is chosen once: a step never changes it, and a page is never closed.
CaseInv ==
    /\ case \in Cases
    /\ ~IsDialog => open

LEMMA CaseInvariant == Spec => []CaseInv
<1>1. Init => CaseInv
  BY DEF Init, Mounting, CaseInv, IsDialog
<1>2. CaseInv /\ [Next]_vars => CaseInv'
  <2> SUFFICES ASSUME CaseInv, [Next]_vars PROVE CaseInv'
    OBVIOUS
  <2> USE DEF CaseInv, IsDialog
  <2>1. CASE Leave
    BY <2>1 DEF Leave
  <2>2. CASE OpenDialog
    BY <2>2 DEF OpenDialog
  <2>3. CASE Type \/ Close \/ Done \/ Escape
    BY <2>3 DEF Type, Close, Done, Escape
  <2>4. ASSUME NEW r \in TableRows, Submit(r) \/ Ask(r) \/ Confirm(r) PROVE CaseInv'
    BY <2>4 DEF Submit, Ask, Confirm
  <2>5. ASSUME NEW f \in flight, Succeeds(f) \/ Fails(f) PROVE CaseInv'
    BY <2>5 DEF Succeeds, Fails
  <2>6. CASE UNCHANGED vars
    BY <2>6 DEF vars
  <2> QED
    BY <2>1, <2>2, <2>3, <2>4, <2>5, <2>6 DEF Next
<1> QED
  BY <1>1, <1>2, PTL DEF Spec

\* A dialog all of whose ways out reset its form opens blank the next time, also when an
\* answer that comes late closes it: for every component and any number of attempts.
THEOREM ClosedDialogsAreBlank ==
    ASSUME \A c \in Cases : "holds" \notin c.flaws => Blanks(c)
    PROVE  Spec => []ClosedIsBlank
<1>1. Init => ClosedIsBlank
  BY DEF Init, Mounting, ClosedIsBlank
<1>2. CaseInv /\ CaseInv' /\ ClosedIsBlank /\ [Next]_vars => ClosedIsBlank'
  <2> SUFFICES ASSUME CaseInv, CaseInv', ClosedIsBlank, [Next]_vars, "holds" \notin case.flaws, case' = case
               PROVE  (open \/ ~typed)'
    BY DEF ClosedIsBlank, Next, vars, Leave, OpenDialog, Type, Close, Done, Escape, Submit, Ask, Confirm, Succeeds, Fails
  <2>b. Blanks(case) /\ (open \/ ~typed)
    BY DEF CaseInv, ClosedIsBlank
  <2>p. CASE case.closing = "page"
    BY <2>p DEF CaseInv, IsDialog
  <2>d. CASE case.closing # "page"
    <3>1. CASE Leave \/ OpenDialog \/ Type \/ Escape
      BY <2>b, <3>1 DEF Leave, OpenDialog, Type, Escape
    <3>2. CASE Close \/ Done
      BY <2>b, <2>d, <3>2 DEF Close, Done, Does, Blanks
    <3>3. ASSUME NEW r \in TableRows, Submit(r) \/ Ask(r) \/ Confirm(r) PROVE (open \/ ~typed)'
      BY <2>b, <3>3 DEF Submit, Ask, Confirm
    <3>4. ASSUME NEW f \in flight, Succeeds(f) \/ Fails(f) PROVE (open \/ ~typed)'
      BY <2>b, <2>d, <3>4 DEF Succeeds, Fails, Blanks, Any, Does, ClosedByEffect
    <3>5. CASE UNCHANGED vars
      BY <2>b, <3>5 DEF vars
    <3> QED
      BY <3>1, <3>2, <3>3, <3>4, <3>5 DEF Next
  <2> QED
    BY <2>p, <2>d
<1> QED
  BY <1>1, <1>2, CaseInvariant, PTL DEF Spec

\* While a dialog that detaches its call is closed, there is no attempt whose answer
\* could bring the plaintext, and no ConfirmDialog that could start one.
PlainInv ==
    "leaks" \notin case.flaws =>
        /\ ~Does("plain") => ~plain
        /\ Does("plain") /\ IsDialog => open \/ (flight = {} /\ ~plain)
        /\ ~Asks => asked = 0

\* A dialog that detaches its call as it closes holds no plaintext from then on, whenever
\* the answer comes: for every component and any number of attempts.
THEOREM PlaintextsAreWiped ==
    ASSUME \A c \in Cases : "leaks" \notin c.flaws => Wipes(c)
    PROVE  Spec => []PlaintextWiped
<1>1. Init => PlainInv
  BY DEF Init, Mounting, PlainInv
<1>2. CaseInv /\ PlainInv /\ [Next]_vars => PlainInv'
  <2> SUFFICES ASSUME CaseInv, PlainInv, [Next]_vars, case' = case, "leaks" \notin case.flaws
               PROVE  PlainInv'
    BY DEF PlainInv, Next, vars, Leave, OpenDialog, Type, Close, Done, Escape, Submit, Ask, Confirm, Succeeds, Fails
  <2>w. /\ Wipes(case)
        /\ ~Does("plain") => ~plain
        /\ Does("plain") /\ IsDialog => open \/ (flight = {} /\ ~plain)
        /\ ~Asks => asked = 0
    BY DEF CaseInv, PlainInv
  <2>g. SUFFICES /\ ~Does("plain") => ~plain'
                 /\ Does("plain") /\ IsDialog => open' \/ (flight' = {} /\ ~plain')
                 /\ ~Asks => asked' = 0
    BY DEF PlainInv, Does, IsDialog, Asks
  <2> USE DEF Wipes, Any, Does, IsDialog, Asks
  <2>1. CASE Leave
    BY <2>w, <2>1 DEF Leave
  <2>2. CASE OpenDialog
    BY <2>w, <2>2 DEF OpenDialog
  <2>3. CASE Type \/ Escape
    BY <2>w, <2>3 DEF Type, Escape
  <2>4. CASE Close \/ Done
    BY <2>w, <2>4 DEF Close, Done
  <2>5. ASSUME NEW r \in TableRows, Submit(r) \/ Ask(r)
        PROVE  /\ ~Does("plain") => ~plain'
               /\ Does("plain") /\ IsDialog => open' \/ (flight' = {} /\ ~plain')
               /\ ~Asks => asked' = 0
    BY <2>w, <2>5 DEF Submit, Ask
  <2>6. ASSUME NEW r \in TableRows, Confirm(r)
        PROVE  /\ ~Does("plain") => ~plain'
               /\ Does("plain") /\ IsDialog => open' \/ (flight' = {} /\ ~plain')
               /\ ~Asks => asked' = 0
    BY <2>w, <2>6, TableRowsLemma DEF Confirm
  <2>7. ASSUME NEW f \in flight, Succeeds(f) \/ Fails(f)
        PROVE  /\ ~Does("plain") => ~plain'
               /\ Does("plain") /\ IsDialog => open' \/ (flight' = {} /\ ~plain')
               /\ ~Asks => asked' = 0
    <3>1. ~Asks => asked' = 0
      BY <2>w, <2>7 DEF Succeeds, Fails, Settle
    <3>2. CASE Succeeds(f)
      BY <2>w, <3>1, <3>2 DEF Succeeds
    <3>3. CASE Fails(f)
      BY <2>w, <3>1, <3>3 DEF Fails
    <3> QED
      BY <2>7, <3>2, <3>3
  <2>8. CASE UNCHANGED vars
    BY <2>w, <2>8 DEF vars
  <2> QED
    BY <2>1, <2>2, <2>3, <2>4, <2>5, <2>6, <2>7, <2>8 DEF Next
<1>3. CaseInv /\ PlainInv => PlaintextWiped
  BY DEF CaseInv, PlainInv, PlaintextWiped
<1> QED
  BY <1>1, <1>2, <1>3, CaseInvariant, PTL DEF Spec

(********************************* attempts ********************************)

\* Attempts are numbered in the order they are made, no number is used twice, and only
\* a component that asks has a ConfirmDialog, one for each row of its table.
FlightInv ==
    /\ \A f \in flight : f.n <= tries
    /\ \A f, g \in flight : f.n = g.n => f = g
    /\ \A r \in Rows : won[r] <= tries
    /\ error.n <= tries
    /\ asked # 0 => Asks /\ asked \in TableRows
    /\ \A r \in Rows : waiting[r] # 0 => Asks /\ r \in TableRows

\* What TypeOK says about the attempts, in the form the provers need.
LEMMA Typing ==
    ASSUME TypeOK
    PROVE  /\ tries \in Nat /\ error.n \in Nat
           /\ \A f \in flight : f.n \in Nat /\ f.n > 0 /\ f.row \in Rows
           /\ \A r \in Rows : won[r] \in Nat /\ waiting[r] \in Nat
           /\ \A f \in flight : f = [n |-> f.n, row |-> f.row]
           /\ error # NoError => error.n > 0 /\ error.row \in Rows
  BY BoundAssumption DEF TypeOK, Attempts, NoError

\* A new attempt has the next number.
LEMMA MutateFlight ==
    ASSUME TypeOK, FlightInv, NEW r \in TableRows, Mutate(r)
    PROVE  /\ \A f \in flight' : f.n <= tries'
           /\ \A f, g \in flight' : f.n = g.n => f = g
           /\ \A q \in Rows : won[q] <= tries'
           /\ error'.n <= tries'
<1>1. tries' = tries + 1 /\ flight' = flight \cup {[n |-> tries + 1, row |-> r]}
  BY DEF Mutate
<1>2. error' = NoError \/ error' = error
  BY DEF Mutate
<1> QED
  BY <1>1, <1>2, Typing DEF FlightInv, NoError

LEMMA FlightInvariant == Spec => []FlightInv
<1>1. Init => FlightInv
  BY DEF Init, Mounting, FlightInv, NoError
<1>2. TypeOK /\ FlightInv /\ [Next]_vars => FlightInv'
  <2> SUFFICES ASSUME TypeOK, FlightInv, [Next]_vars, case' = case PROVE FlightInv'
    BY DEF Next, vars, Leave, OpenDialog, Type, Close, Done, Escape, Submit, Ask, Confirm, Succeeds, Fails
  <2>c. Asks' = Asks /\ TableRows' = TableRows
    BY DEF Asks, TableRows, Does
  <2> USE Typing, <2>c
  <2>1. CASE Leave
    BY <2>1 DEF Leave, FlightInv, NoError
  <2>2. CASE OpenDialog
    <3>1. CASE Does("opens")
      <4> PICK r \in TableRows : Mutate(r)
        BY <2>2, <3>1 DEF OpenDialog
      <4> QED
        BY <2>2, MutateFlight DEF OpenDialog, FlightInv
    <3>2. CASE ~Does("opens")
      BY <2>2, <3>2 DEF OpenDialog, FlightInv
    <3> QED
      BY <3>1, <3>2
  <2>3. CASE Type \/ Done \/ Escape
    BY <2>3 DEF Type, Done, Escape, FlightInv
  <2>4. CASE Close
    BY <2>4 DEF Close, FlightInv, NoError
  <2>5. ASSUME NEW r \in TableRows, Submit(r) PROVE FlightInv'
    BY <2>5, MutateFlight DEF Submit, FlightInv
  <2>6. ASSUME NEW r \in TableRows, Ask(r) PROVE FlightInv'
    BY <2>6 DEF Ask, FlightInv
  <2>7. ASSUME NEW r \in TableRows, Confirm(r) PROVE FlightInv'
    <3>1. /\ asked' # 0 => Asks /\ asked' \in TableRows
          /\ \A q \in Rows : waiting'[q] # 0 => Asks /\ q \in TableRows
      BY <2>7, TableRowsLemma DEF Confirm, FlightInv, TypeOK
    <3> QED
      BY <2>7, <3>1, MutateFlight DEF Confirm, FlightInv
  <2>8. ASSUME NEW f \in flight, Succeeds(f) \/ Fails(f) PROVE FlightInv'
    <3>1. /\ asked' # 0 => Asks /\ asked' \in TableRows
          /\ \A q \in Rows : waiting'[q] # 0 => Asks /\ q \in TableRows
      BY <2>8 DEF Succeeds, Fails, Settle, FlightInv, TypeOK
    <3>2. \A q \in Rows : won'[q] <= tries'
      <4>1. CASE Fails(f)
        BY <4>1 DEF Fails, FlightInv
      <4>2. CASE Succeeds(f)
        <5>1. \A q \in Rows : won'[q] = won[q] \/ won'[q] = f.n
          BY <4>2 DEF Succeeds, TypeOK
        <5> QED
          BY <4>2, <5>1 DEF Succeeds, FlightInv
      <4> QED
        BY <2>8, <4>1, <4>2
    <3>3. flight' \subseteq flight /\ tries' = tries
      BY <2>8 DEF Succeeds, Fails
    <3>4. error' = NoError \/ error' = error \/ error' = f
      BY <2>8 DEF Succeeds, Fails
    <3>5. error'.n <= tries'
      BY <3>3, <3>4 DEF FlightInv, NoError
    <3> QED
      BY <3>1, <3>2, <3>3, <3>5 DEF FlightInv
  <2>9. CASE UNCHANGED vars
    BY <2>9 DEF vars, FlightInv
  <2> QED
    BY <2>1, <2>2, <2>3, <2>4, <2>5, <2>6, <2>7, <2>8, <2>9 DEF Next
<1> QED
  BY <1>1, <1>2, FormTypes, PTL DEF Spec

\* What a ConfirmDialog that waits can count on, where the profile lets it hear: the
\* attempt it waits for is in flight and, unless the dialog awaits it, is the one the hook
\* observes; and where a pending hook disables the triggers, a dialog that is open while
\* the hook is pending is the one that waits for that very attempt.
HeardInv ==
    /\ \A r \in Rows : waiting[r] # 0 =>
          /\ [n |-> waiting[r], row |-> r] \in flight
          /\ Does("awaits") \/ waiting[r] = tries
    /\ Does("locks") /\ ~Does("awaits") /\ asked # 0 =>
          \A f \in flight : f.n = tries => waiting[asked] = tries

WaitInv == "waits" \notin case.flaws => HeardInv

\* An answer settles the one dialog that waits for it and leaves the others waiting for
\* attempts that are still in flight.
LEMMA SettleHeard ==
    ASSUME TypeOK, FlightInv, HeardInv, NEW f \in flight, NEW ok \in BOOLEAN, Settle(f, ok),
           flight' = flight \ {f}, tries' = tries, case' = case
    PROVE  HeardInv'
<1>1. f = [n |-> f.n, row |-> f.row] /\ f.row \in Rows /\ f.n > 0 /\ f.n \in Nat
  BY Typing
<1>2. Does("awaits")' = Does("awaits") /\ Does("locks")' = Does("locks")
  BY DEF Does
<1>3. CASE waiting[f.row] = f.n /\ (Does("awaits") \/ f.n = tries)
  <2>1. /\ waiting' = [waiting EXCEPT ![f.row] = 0]
        /\ asked' = 0 \/ asked' = asked
    BY <1>3 DEF Settle
  <2>2. /\ waiting'[f.row] = 0
        /\ \A r \in Rows \ {f.row} : waiting'[r] = waiting[r]
    BY <1>1, <2>1 DEF TypeOK
  <2>3. ASSUME NEW r \in Rows, waiting'[r] # 0
        PROVE  /\ [n |-> waiting'[r], row |-> r] \in flight'
               /\ Does("awaits") \/ waiting'[r] = tries
    <3>1. r # f.row /\ waiting'[r] = waiting[r]
      BY <2>2, <2>3
    <3>2. [n |-> waiting[r], row |-> r] # f
      BY <1>1, <3>1
    <3> QED
      BY <2>3, <3>1, <3>2 DEF HeardInv
  <2>4. ASSUME Does("locks"), ~Does("awaits"), asked' # 0, NEW g \in flight', g.n = tries
        PROVE  waiting'[asked'] = tries
    <3>1. asked' = asked /\ waiting[asked] = tries /\ g \in flight /\ g # f /\ f.n = tries
      BY <1>3, <2>1, <2>4 DEF HeardInv
    <3> QED
      BY <2>4, <3>1 DEF FlightInv
  <2> QED
    BY <1>2, <2>3, <2>4 DEF HeardInv
<1>4. CASE ~(waiting[f.row] = f.n /\ (Does("awaits") \/ f.n = tries))
  <2>1. waiting' = waiting /\ asked' = asked
    BY <1>4 DEF Settle
  <2>2. ASSUME NEW r \in Rows, waiting[r] # 0
        PROVE  [n |-> waiting[r], row |-> r] \in flight \ {f} /\ (Does("awaits") \/ waiting[r] = tries)
    BY <1>4, <2>2 DEF HeardInv
  <2> QED
    BY <1>2, <2>1, <2>2 DEF HeardInv
<1> QED
  BY <1>3, <1>4

\* A confirmed dialog takes the hook's callbacks over from no dialog that waits for them.
LEMMA ConfirmHeard ==
    ASSUME TypeOK, FlightInv, HeardInv, Hears(case), NEW r \in TableRows, Confirm(r)
    PROVE  HeardInv'
<1>1. /\ asked = r /\ asked' = r /\ waiting[r] = 0 /\ case' = case
      /\ tries' = tries + 1
      /\ flight' = flight \cup {[n |-> tries + 1, row |-> r]}
      /\ waiting' = [waiting EXCEPT ![r] = tries + 1]
  BY DEF Confirm, Mutate
<1>2. /\ r \in Rows /\ r # 0 /\ Asks
      /\ waiting'[r] = tries'
      /\ \A q \in Rows \ {r} : waiting'[q] = waiting[q]
  BY <1>1, TableRowsLemma DEF TypeOK, FlightInv
<1>3. ASSUME NEW q \in Rows, q # r, waiting[q] # 0 PROVE Does("awaits")
  <2> SUFFICES ASSUME ~Does("awaits") PROVE FALSE
    OBVIOUS
  <2>1. [n |-> tries, row |-> q] \in flight
    BY <1>3 DEF HeardInv
  <2>2. CASE Does("locks")
    <3>1. waiting[r] = tries
      BY <1>1, <1>2, <2>1, <2>2 DEF HeardInv
    <3> QED
      BY <1>1, <2>1, <3>1, Typing
  <2>3. CASE ~Does("locks")
    <3>1. ~Does("rows")
      BY <1>2, <2>3 DEF Hears, Any, Asks, Does
    <3>2. q \in TableRows
      BY <1>3 DEF FlightInv
    <3> QED
      BY <1>3, <3>1, <3>2 DEF TableRows
  <2> QED
    BY <2>2, <2>3
<1>4. Does("awaits")' = Does("awaits") /\ Does("locks")' = Does("locks")
  BY <1>1 DEF Does
<1>5. ASSUME NEW q \in Rows, waiting'[q] # 0
      PROVE  [n |-> waiting'[q], row |-> q] \in flight' /\ (Does("awaits") \/ waiting'[q] = tries')
  BY <1>1, <1>2, <1>3, <1>5 DEF HeardInv
<1> QED
  BY <1>1, <1>2, <1>4, <1>5 DEF HeardInv

\* A ConfirmDialog whose component lets it hear is never left waiting: the attempt it
\* waits for is in flight and its callbacks will run, for every component, any number of
\* rows and of attempts, and whatever order the attempts are answered in.
THEOREM WaitingDialogsAreAnswered ==
    ASSUME \A c \in Cases : "waits" \notin c.flaws => Hears(c)
    PROVE  Spec => []WaitingIsAnswered
<1>1. Init => WaitInv
  BY DEF Init, Mounting, WaitInv, HeardInv
<1>2. TypeOK /\ CaseInv /\ FlightInv /\ WaitInv /\ [Next]_vars => WaitInv'
  <2> SUFFICES ASSUME TypeOK, CaseInv, FlightInv, HeardInv, Hears(case), [Next]_vars, case' = case
               PROVE  HeardInv'
    BY DEF WaitInv, CaseInv, Next, vars, Leave, OpenDialog, Type, Close, Done, Escape, Submit, Ask, Confirm, Succeeds, Fails
  <2>c. Does("awaits")' = Does("awaits") /\ Does("locks")' = Does("locks")
    BY DEF Does
  <2>n. ~Asks => asked = 0 /\ \A r \in Rows : waiting[r] = 0
    BY DEF FlightInv
  <2>1. CASE Leave
    BY <2>1 DEF Leave, HeardInv
  <2>2. CASE OpenDialog
    <3>1. CASE Does("opens")
      <4>1. ~Asks
        BY <3>1 DEF Hears, Any, Asks, Does
      <4> QED
        BY <2>2, <2>n, <4>1 DEF OpenDialog, HeardInv
    <3>2. CASE ~Does("opens")
      BY <2>2, <2>c, <3>2 DEF OpenDialog, HeardInv
    <3> QED
      BY <3>1, <3>2
  <2>3. CASE Type \/ Done
    BY <2>3, <2>c DEF Type, Done, HeardInv
  <2>4. CASE Escape
    BY <2>4, <2>c DEF Escape, HeardInv
  <2>5. CASE Close
    <3>1. CASE ~Asks
      BY <2>5, <2>n, <3>1 DEF Close, HeardInv
    <3>2. CASE Asks
      <4>1. flight' = flight
        BY <2>5, <3>2 DEF Close, Hears, Any, Asks, Does
      <4> QED
        BY <2>5, <2>c, <4>1 DEF Close, HeardInv
    <3> QED
      BY <3>1, <3>2
  <2>6. ASSUME NEW r \in TableRows, Submit(r) PROVE HeardInv'
    BY <2>6, <2>n DEF Submit, HeardInv
  <2>7. ASSUME NEW r \in TableRows, Ask(r) PROVE HeardInv'
    BY <2>7, <2>c DEF Ask, HeardInv, Pending
  <2>8. ASSUME NEW r \in TableRows, Confirm(r) PROVE HeardInv'
    BY <2>8, ConfirmHeard
  <2>9. ASSUME NEW f \in flight, Succeeds(f) PROVE HeardInv'
    BY <2>9, SettleHeard DEF Succeeds
  <2>10. ASSUME NEW f \in flight, Fails(f) PROVE HeardInv'
    BY <2>10, SettleHeard DEF Fails
  <2>11. CASE UNCHANGED vars
    BY <2>11, <2>c DEF vars, HeardInv
  <2> QED
    BY <2>1, <2>2, <2>3, <2>4, <2>5, <2>6, <2>7, <2>8, <2>9, <2>10, <2>11 DEF Next
<1>3. WaitInv => WaitingIsAnswered
  BY DEF WaitInv, HeardInv, WaitingIsAnswered
<1> QED
  BY <1>1, <1>2, <1>3, FormTypes, CaseInvariant, FlightInvariant, PTL DEF Spec

(********************************** errors *********************************)

\* Why a row has one attempt under way at a time, for each way a component has to see to
\* it: its ConfirmDialog waits for the attempt; the dialog that asks as it opens has none
\* while it is closed; the control is disabled while the hook is pending.
SingleInv ==
    /\ Asks => \A f \in flight : waiting[f.row] = f.n
    /\ ~Asks /\ Does("opens") =>
          /\ ~open => flight = {}
          /\ \A f, g \in flight : f = g
    /\ ~Asks /\ ~Does("opens") => \A f \in flight : f.n = tries

\* An attempt in flight is later than any success of its row, and so is the error that is
\* shown; where only the next attempt erases it, none is under way while it is shown.
FreshInv ==
    /\ \A f \in flight : won[f.row] < f.n
    /\ error # NoError => error.n > won[error.row]
    /\ ~(Does("quiets") \/ Does("clears")) =>
          \A f \in flight : error # NoError => f.row # error.row

Curable(c) == "says" \in c.does /\ "leaves" \notin c.does /\ Corrects(c)

ErrorInv ==
    "shows" \notin case.flaws =>
        /\ ~Does("says") => error = NoError
        /\ Curable(case) => SingleInv /\ FreshInv

\* Under SingleInv a row has at most one attempt in flight.
LEMMA OnePerRow ==
    ASSUME TypeOK, FlightInv, SingleInv
    PROVE  \A f, g \in flight : f.row = g.row => f = g
<1> TAKE f \in flight, g \in flight
<1> HAVE f.row = g.row
<1>1. CASE Asks
  BY <1>1 DEF SingleInv, FlightInv
<1>2. CASE ~Asks /\ Does("opens")
  BY <1>2 DEF SingleInv
<1>3. CASE ~Asks /\ ~Does("opens")
  BY <1>3 DEF SingleInv, FlightInv
<1> QED
  BY <1>1, <1>2, <1>3

\* A new attempt of a row without one erases the error or has nothing to erase.
LEMMA MutateFresh ==
    ASSUME TypeOK, FlightInv, FreshInv, Curable(case), NEW r \in TableRows, Mutate(r),
           won' = won, case' = case,
           Asks \/ Does("opens") \/ (Does("once") => tries = 0)
    PROVE  FreshInv'
<1>1. /\ tries' = tries + 1
      /\ flight' = flight \cup {[n |-> tries + 1, row |-> r]}
      /\ error' = IF Does("hushes") THEN NoError ELSE error
      /\ r \in Rows
  BY TableRowsLemma DEF Mutate
<1>2. Does("quiets")' = Does("quiets") /\ Does("clears")' = Does("clears")
  BY DEF Does
<1>3. \A f \in flight' : won'[f.row] < f.n
  BY <1>1, Typing DEF FreshInv, FlightInv
<1>4. error' # NoError => error'.n > won'[error'.row]
  BY <1>1 DEF FreshInv
<1>5. ASSUME ~(Does("quiets") \/ Does("clears")) PROVE error' = NoError
  <2>1. Does("hushes") \/ (Does("once") /\ ~Asks /\ ~Does("opens"))
    BY <1>5 DEF Curable, Corrects, Any, Does, Asks
  <2>2. ASSUME tries = 0 PROVE error = NoError
    BY <2>2, Typing DEF FlightInv
  <2> QED
    BY <1>1, <2>1, <2>2
<1> QED
  BY <1>2, <1>3, <1>4, <1>5 DEF FreshInv

\* A success is later than the successes of its row before it, and its error is erased.
LEMMA SucceedsFresh ==
    ASSUME TypeOK, FlightInv, SingleInv, FreshInv, Curable(case), NEW f \in flight, Succeeds(f)
    PROVE  FreshInv'
<1>1. /\ flight' = flight \ {f} /\ case' = case
      /\ error' = NoError \/ error' = error
      /\ Does("quiets") \/ Does("clears") => error' = NoError
  BY DEF Succeeds
<1>2. \A r \in Rows \ {f.row} : won'[r] = won[r]
  BY Typing DEF Succeeds, TypeOK
<1>3. \A g \in flight' : g \in flight /\ g.row # f.row
  BY <1>1, OnePerRow
<1>4. Does("quiets")' = Does("quiets") /\ Does("clears")' = Does("clears")
  BY <1>1 DEF Does
<1>5. \A g \in flight' : won'[g.row] < g.n
  BY <1>2, <1>3, Typing DEF FreshInv
<1>6. error' # NoError => error' = error /\ error.row # f.row /\ error.row \in Rows
  BY <1>1, Typing DEF FreshInv
<1>7. error' # NoError => error'.n > won'[error'.row]
  BY <1>2, <1>6 DEF FreshInv
<1>8. ~(Does("quiets") \/ Does("clears")) => \A g \in flight' : error' # NoError => g.row # error'.row
  BY <1>1, <1>3 DEF FreshInv
<1> QED
  BY <1>4, <1>5, <1>7, <1>8 DEF FreshInv

\* A failure that is shown is the row's only attempt.
LEMMA FailsFresh ==
    ASSUME TypeOK, FlightInv, SingleInv, FreshInv, Curable(case), NEW f \in flight, Fails(f)
    PROVE  FreshInv'
<1>1. /\ flight' = flight \ {f} /\ case' = case /\ won' = won
      /\ error' = f
  BY DEF Fails, Curable, Does
<1>2. \A g \in flight' : g \in flight /\ g.row # f.row
  BY <1>1, OnePerRow
<1>3. Does("quiets")' = Does("quiets") /\ Does("clears")' = Does("clears")
  BY <1>1 DEF Does
<1> QED
  BY <1>1, <1>2, <1>3 DEF FreshInv

\* Every step keeps to one attempt at a time.
LEMMA SingleStep ==
    ASSUME TypeOK, CaseInv, FlightInv, SingleInv, Curable(case), [Next]_vars, case' = case
    PROVE  SingleInv'
<1>o. OneAtATime(case)
  BY DEF Curable, Corrects
<1>c. Asks' = Asks /\ Does("opens")' = Does("opens")
  BY DEF Asks, Does
<1>n. ~Asks => asked = 0
  BY DEF FlightInv
<1> USE <1>c
<1>1. CASE Leave
  BY <1>1 DEF Leave, SingleInv
<1>2. CASE OpenDialog
  <2>1. CASE Does("opens")
    <3>1. ~Asks
      BY <1>o, <2>1 DEF OneAtATime, Any, Asks, Does
    <3>2. flight = {} /\ open'
      BY <1>2, <2>1, <3>1 DEF OpenDialog, SingleInv
    <3>3. PICK r \in TableRows : Mutate(r)
      BY <1>2, <2>1 DEF OpenDialog
    <3> QED
      BY <2>1, <3>1, <3>2, <3>3 DEF Mutate, SingleInv
  <2>2. CASE ~Does("opens")
    BY <1>2, <2>2 DEF OpenDialog, SingleInv
  <2> QED
    BY <2>1, <2>2
<1>3. CASE Type \/ Escape
  BY <1>3 DEF Type, Escape, SingleInv
<1>4. CASE Done
  <2>1. ~(~Asks /\ Does("opens"))
    BY <1>4, <1>o DEF Done, OneAtATime, Any, Asks, Does
  <2> QED
    BY <1>4, <2>1 DEF Done, SingleInv
<1>5. CASE Close
  <2>1. flight' \subseteq flight /\ tries' = tries /\ waiting' = waiting
    BY <1>5 DEF Close
  <2>2. ~Asks /\ Does("opens") => flight' = {}
    BY <1>5, <1>o DEF Close, OneAtATime, Any, Asks, Does
  <2> QED
    BY <2>1, <2>2 DEF SingleInv
<1>6. ASSUME NEW r \in TableRows, Submit(r) PROVE SingleInv'
  <2>1. ~Asks /\ ~Does("opens") /\ Mutate(r)
    BY <1>6 DEF Submit
  <2>2. flight = {}
    <3>1. Does("locks") \/ Does("once")
      BY <1>o, <2>1 DEF OneAtATime, Any, Asks, Does
    <3>2. ~Pending \/ tries = 0
      BY <1>6, <3>1 DEF Submit
    <3> QED
      BY <2>1, <3>2, Typing DEF Pending, SingleInv, FlightInv
  <2> QED
    BY <2>1, <2>2 DEF Mutate, SingleInv
<1>7. ASSUME NEW r \in TableRows, Ask(r) PROVE SingleInv'
  BY <1>7 DEF Ask, SingleInv
<1>8. ASSUME NEW r \in TableRows, Confirm(r) PROVE SingleInv'
  <2>1. Asks /\ r \in Rows /\ waiting[r] = 0
    BY <1>8, <1>n, TableRowsLemma DEF Confirm
  <2>2. /\ flight' = flight \cup {[n |-> tries + 1, row |-> r]}
        /\ waiting' = [waiting EXCEPT ![r] = tries + 1]
    BY <1>8 DEF Confirm, Mutate
  <2>3. \A f \in flight : f.row # r
    BY <2>1, Typing DEF SingleInv
  <2>4. \A f \in flight' : waiting'[f.row] = f.n
    BY <2>1, <2>2, <2>3, Typing DEF SingleInv, TypeOK
  <2> QED
    BY <2>1, <2>4 DEF SingleInv
<1>9. ASSUME NEW f \in flight, Succeeds(f) \/ Fails(f) PROVE SingleInv'
  <2>1. flight' = flight \ {f} /\ tries' = tries
    BY <1>9 DEF Succeeds, Fails
  <2>2. Asks => \A g \in flight' : waiting'[g.row] = g.n
    <3> SUFFICES ASSUME Asks, NEW g \in flight' PROVE waiting'[g.row] = g.n
      OBVIOUS
    <3>1. g \in flight /\ g.row # f.row /\ g.row \in Rows /\ f.row \in Rows
      BY <2>1, OnePerRow, Typing
    <3>2. waiting' = waiting \/ waiting' = [waiting EXCEPT ![f.row] = 0]
      BY <1>9 DEF Succeeds, Fails, Settle
    <3> QED
      BY <3>1, <3>2 DEF SingleInv, TypeOK
  <2>3. ~Asks /\ Does("opens") => open' = open
    <3>1. ~Asks /\ Does("opens") => ~Does("closes")
      BY <1>o DEF OneAtATime, Any, Asks, Does
    <3> QED
      BY <1>9, <3>1 DEF Succeeds, Fails, TypeOK
  <2> QED
    BY <2>1, <2>2, <2>3 DEF SingleInv
<1>10. CASE UNCHANGED vars
  BY <1>10 DEF vars, SingleInv
<1> QED
  BY <1>1, <1>2, <1>3, <1>4, <1>5, <1>6, <1>7, <1>8, <1>9, <1>10 DEF Next

\* Every step keeps the attempts and the error newer than the successes of their rows.
LEMMA FreshStep ==
    ASSUME TypeOK, CaseInv, FlightInv, SingleInv, FreshInv, Curable(case), [Next]_vars, case' = case
    PROVE  FreshInv'
<1>c. Does("quiets")' = Does("quiets") /\ Does("clears")' = Does("clears")
  BY DEF Does
<1> USE <1>c
<1>1. CASE Leave
  BY <1>1 DEF Leave, FreshInv
<1>2. CASE OpenDialog
  <2>1. CASE Does("opens")
    BY <1>2, <2>1, MutateFresh DEF OpenDialog
  <2>2. CASE ~Does("opens")
    BY <1>2, <2>2 DEF OpenDialog, FreshInv
  <2> QED
    BY <2>1, <2>2
<1>3. CASE Type \/ Escape \/ Done
  BY <1>3 DEF Type, Escape, Done, FreshInv
<1>4. CASE Close
  <2>1. flight' \subseteq flight /\ won' = won /\ (error' = error \/ error' = NoError)
    BY <1>4 DEF Close
  <2> QED
    BY <2>1 DEF FreshInv
<1>5. ASSUME NEW r \in TableRows, Submit(r) PROVE FreshInv'
  BY <1>5, MutateFresh DEF Submit
<1>6. ASSUME NEW r \in TableRows, Ask(r) PROVE FreshInv'
  BY <1>6 DEF Ask, FreshInv
<1>7. ASSUME NEW r \in TableRows, Confirm(r) PROVE FreshInv'
  <2>1. Asks
    BY <1>7, TableRowsLemma DEF Confirm, FlightInv
  <2> QED
    BY <1>7, <2>1, MutateFresh DEF Confirm
<1>8. ASSUME NEW f \in flight, Succeeds(f) \/ Fails(f) PROVE FreshInv'
  BY <1>8, SucceedsFresh, FailsFresh
<1>9. CASE UNCHANGED vars
  BY <1>9 DEF vars, FreshInv
<1> QED
  BY <1>1, <1>2, <1>3, <1>4, <1>5, <1>6, <1>7, <1>8, <1>9 DEF Next

\* An error line of a component that has one attempt at a time and erases the line is
\* never about an attempt that a later one has made good: for every such component, any
\* number of rows and of attempts, and any order of the answers.
THEOREM ShownErrorsAreCurrent ==
    ASSUME \A c \in Cases : "shows" \notin c.flaws => Corrects(c)
    PROVE  Spec => []ErrorIsCurrent
<1>1. Init => ErrorInv
  <2> SUFFICES ASSUME Init PROVE ErrorInv
    OBVIOUS
  <2>1. flight = {} /\ error = NoError
    BY DEF Init, Mounting
  <2> QED
    BY <2>1 DEF ErrorInv, SingleInv, FreshInv
<1>2. TypeOK /\ CaseInv /\ FlightInv /\ ErrorInv /\ [Next]_vars => ErrorInv'
  <2> SUFFICES ASSUME TypeOK, CaseInv, FlightInv, ErrorInv, [Next]_vars, case' = case,
                      "shows" \notin case.flaws
               PROVE  ErrorInv'
    BY DEF ErrorInv, Next, vars, Leave, OpenDialog, Type, Close, Done, Escape, Submit, Ask, Confirm, Succeeds, Fails
  <2>1. ~Does("says") => error' = NoError
    BY DEF ErrorInv, Next, vars, Leave, OpenDialog, Type, Close, Done, Escape, Submit, Ask, Confirm, Succeeds, Fails, Mutate
  <2>2. Curable(case) => SingleInv' /\ FreshInv'
    BY SingleStep, FreshStep DEF ErrorInv
  <2> QED
    BY <2>1, <2>2 DEF ErrorInv, Does
<1>3. CaseInv /\ ErrorInv => ErrorIsCurrent
  BY DEF CaseInv, ErrorInv, FreshInv, Curable, ErrorIsCurrent, Does
<1> QED
  BY <1>1, <1>2, <1>3, FormTypes, CaseInvariant, FlightInvariant, PTL DEF Spec
=============================================================================
