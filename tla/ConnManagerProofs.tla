-------------------------- MODULE ConnManagerProofs --------------------------
(***************************************************************************)
(* The registry's invariants for any number of agents and streams.         *)
(***************************************************************************)
EXTENDS ConnManager, TLAPS

(* What a goroutine has done by the time it reaches a point of Connect: it is
   bound before it registers or sets its stream, it has an owner, and a stream
   is unused exactly while no Connect serves it. *)
ConnectState ==
    \A s \in Streams :
        /\ pc[s] \in {"register", "setstream"} => bound[s]
        /\ Serving(s) => owner[s] \in Agents
        /\ net[s] = "unused" <=> pc[s] = "none"

(* The stream an entry holds was put there by a Connect bound to the agent. *)
EntryBound ==
    \A a \in Agents : entry[a] \in Streams => bound[entry[a]]

IInv == TypeOK /\ ConnectState /\ EntryBound /\ NoGhostEntry /\ NoDanglingStream

LEMMA InitIInv == Init => IInv
  BY ConstantsDistinct
  DEF Init, IInv, TypeOK, ConnectState, EntryBound, NoGhostEntry,
      NoDanglingStream, Serving, PcValues

LEMMA NextIInv == IInv /\ [Next]_vars => IInv'
<1> SUFFICES ASSUME IInv, [Next]_vars PROVE IInv'
  OBVIOUS
<1> USE ConstantsDistinct
    DEF IInv, TypeOK, ConnectState, EntryBound, NoGhostEntry,
        NoDanglingStream, Serving, PcValues
<1>1. CASE UNCHANGED vars
  BY <1>1 DEF vars
<1>2. ASSUME NEW a \in Agents, NEW s \in Streams, ConnectWithRetry(a, s)
      PROVE IInv'
  <2> USE <1>2 DEF ConnectWithRetry
  <2>1. TypeOK' /\ ConnectState'
    OBVIOUS
  <2>2. EntryBound'
    OBVIOUS
  <2>3. NoGhostEntry'
    <3> SUFFICES ASSUME NEW b \in Agents, entry[b] # Absent, b \notin issued
                 PROVE  \E t \in Streams : owner'[t] = b /\ bound'[t] /\ Serving(t)'
      OBVIOUS
    <3>1. PICK t \in Streams : owner[t] = b /\ bound[t] /\ Serving(t)
      OBVIOUS
    <3>2. t # s
      BY <3>1
    <3> QED BY <3>1, <3>2
  <2>4. NoDanglingStream'
    OBVIOUS
  <2> QED BY <2>1, <2>2, <2>3, <2>4
<1>3. ASSUME NEW a \in Agents, RegisterRPC(a) PROVE IInv'
  BY <1>3 DEF RegisterRPC, Register
<1>4. ASSUME NEW s \in Streams, StreamBreaks(s) PROVE IInv'
  BY <1>4 DEF StreamBreaks
<1>5. ASSUME NEW s \in Streams, FirstMessage(s) PROVE IInv'
  BY <1>5 DEF FirstMessage
<1>6. ASSUME NEW s \in Streams, ConnectRegister(s) PROVE IInv'
  BY <1>6 DEF ConnectRegister, Register
<1>7. ASSUME NEW s \in Streams, ConnectSetStream(s) PROVE IInv'
  BY <1>7 DEF ConnectSetStream, SetStream
<1>8. ASSUME NEW s \in Streams, ConnectReturns(s) PROVE IInv'
  BY <1>8 DEF ConnectReturns, Disconnect
<1> QED
  BY <1>1, <1>2, <1>3, <1>4, <1>5, <1>6, <1>7, <1>8 DEF Next

(* In every behaviour of Connect goroutines, for any number of agents and of
   reconnections, no entry outlives the Connect calls of its agent. *)
THEOREM NoGhostEntryHolds == Spec => []NoGhostEntry
<1>1. IInv => NoGhostEntry
  BY DEF IInv
<1> QED BY InitIInv, NextIInv, <1>1, PTL DEF Spec

(* ... and the registry never holds a stream whose Connect has returned or
   that belongs to another agent. *)
THEOREM NoDanglingStreamHolds == Spec => []NoDanglingStream
<1>1. IInv => NoDanglingStream
  BY DEF IInv
<1> QED BY InitIInv, NextIInv, <1>1, PTL DEF Spec

(* The registry and the goroutines stay well typed. *)
THEOREM TypeOKHolds == Spec => []TypeOK
<1>1. IInv => TypeOK
  BY DEF IInv
<1> QED BY InitIInv, NextIInv, <1>1, PTL DEF Spec
=============================================================================
