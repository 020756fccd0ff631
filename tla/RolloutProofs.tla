---------------------------- MODULE RolloutProofs ----------------------------
(***************************************************************************)
(* For any finite set of targets, a rollout completes and starts promotion  *)
(* only when every replica has passed its health check.                     *)
(*                                                                          *)
(* The code compares a counter with the number of replicas; nothing in it   *)
(* says which replicas were counted.  The inductive invariant supplies the  *)
(* missing link: the counter never exceeds the number of replicas recorded  *)
(* healthy whose handler is past its increment (ReadyCounted), because a    *)
(* replica's final output is the last message of its stream (FinalIsLast)   *)
(* and a dispatcher that can still fail a target precedes all its outputs   *)
(* (DispatchFirst).                                                         *)
(***************************************************************************)
EXTENDS Rollout, FiniteSetTheorems, TLAPS

Counted == {s \in Servers : tgt[s] = "healthy" /\ hnd[s] # "increment"}

ReadyCounted == ready <= Cardinality(Counted)

(* Until dispatchDeploy is done the agent has no command, and until the agent
   has started there is no output. *)
DispatchFirst ==
    \A s \in Servers :
        /\ tgt[s] = "none" => disp[s] = "none"
        /\ disp[s] # "done" => agent[s] = "none" /\ tgt[s] # "healthy"
        /\ agent[s] \in {"none", "sent"} => outq[s] = <<>>

FinalIsLast ==
    \A s \in Servers : \A i \in 1..Len(outq[s]) :
        outq[s][i] = "healthy" => i = Len(outq[s]) /\ agent[s] = "done"

PassedIsFinal ==
    \A s \in Servers :
        /\ tgt[s] = "healthy" => outq[s] = <<>> /\ agent[s] = "done"
        /\ hnd[s] = "increment" => tgt[s] = "healthy"

Wiring == DispatchFirst /\ FinalIsLast /\ PassedIsFinal

IInv ==
    /\ TypeOK
    /\ Wiring
    /\ ReadyCounted
    /\ HealthyMeansAllReplicas

-----------------------------------------------------------------------------
(* Subsets of the targets have a cardinality, and a larger one at least that
   of a smaller one. *)
LEMMA CardinalityMonotone ==
    ASSUME NEW A \in SUBSET Servers, NEW B \in SUBSET Servers, A \subseteq B
    PROVE  /\ Cardinality(A) \in Nat /\ Cardinality(B) \in Nat
           /\ Cardinality(A) <= Cardinality(B)
<1>1. IsFiniteSet(B) /\ IsFiniteSet(A)
  BY FS_Subset, ServersAssumption
<1>2. Cardinality(A) <= Cardinality(B)
  <2>1. A \in SUBSET B
    OBVIOUS
  <2> QED BY <1>1, <2>1, FS_Subset
<1> QED BY <1>1, <1>2, FS_CardinalityType

(* A subset as large as the whole set of targets is the whole set. *)
LEMMA FullSubset ==
    ASSUME NEW A \in SUBSET Servers, Cardinality(A) >= Cardinality(Servers)
    PROVE  A = Servers
<1>1. IsFiniteSet(Servers) /\ IsFiniteSet(A)
  BY FS_Subset, ServersAssumption
<1>2. Cardinality(A) \in Nat /\ Cardinality(Servers) \in Nat
  BY <1>1, FS_CardinalityType
<1>3. Cardinality(A) <= Cardinality(Servers)
  BY CardinalityMonotone
<1>4. Cardinality(A) = Cardinality(Servers)
  BY <1>2, <1>3
<1> QED BY <1>1, <1>4, FS_Subset

(* A step that counts no replica fewer and leaves the counter alone keeps the
   counter bounded. *)
LEMMA CountKept ==
    ASSUME TypeOK, ReadyCounted, ready' = ready, Counted \subseteq Counted',
           Counted' \subseteq Servers
    PROVE  ReadyCounted'
<1>1. Cardinality(Counted) <= Cardinality(Counted')
      /\ Cardinality(Counted) \in Nat /\ Cardinality(Counted') \in Nat
  <2>1. Counted \in SUBSET Servers /\ Counted' \in SUBSET Servers
    BY DEF Counted
  <2> QED BY <2>1, CardinalityMonotone
<1> QED BY <1>1 DEF ReadyCounted, TypeOK

(* The initial states satisfy the invariant. *)
LEMMA InitIInv == Init => IInv
<1> SUFFICES ASSUME Init PROVE IInv
  OBVIOUS
<1>1. TypeOK
  <2>1. link \in [Servers -> {"up", "stale", "down"}]
    BY DEF Init
  <2>2. outq \in [Servers -> Seq(Phases)] /\ stopcmd \in [Servers -> BOOLEAN]
    BY DEF Init
  <2> QED BY <2>1, <2>2 DEF Init, TypeOK
<1>2. DispatchFirst /\ FinalIsLast /\ PassedIsFinal
  BY DEF Init, DispatchFirst, FinalIsLast, PassedIsFinal
<1>3. ReadyCounted
  <2>1. Cardinality(Counted) \in Nat
    BY CardinalityMonotone DEF Counted
  <2> QED BY <2>1 DEF Init, ReadyCounted
<1>4. HealthyMeansAllReplicas
  BY DEF Init, HealthyMeansAllReplicas
<1> QED BY <1>1, <1>2, <1>3, <1>4 DEF IInv, Wiring

USE DEF Phases, rowVars, planeVars, hostVars

(* Every step preserves type correctness. *)
LEMMA NextTypeOK == TypeOK /\ [Next]_vars => TypeOK'
<1> SUFFICES ASSUME TypeOK, [Next]_vars PROVE TypeOK'
  OBVIOUS
<1> USE DEF TypeOK
<1>1. CASE TriggerDeploy
  BY <1>1 DEF TriggerDeploy
<1>2. CASE MarkDeploying
  BY <1>2 DEF MarkDeploying
<1>3. CASE TriggerAborted
  BY <1>3 DEF TriggerAborted
<1>4. CASE ControlPlaneRestarts
  BY <1>4 DEF ControlPlaneRestarts
<1>5. ASSUME NEW s \in Servers, CreateTarget(s) PROVE TypeOK'
  BY <1>5 DEF CreateTarget
<1>6. ASSUME NEW s \in Servers, DispatchOffline(s) PROVE TypeOK'
  BY <1>6 DEF DispatchOffline, failTarget
<1>7. ASSUME NEW s \in Servers, DispatchSetEnv(s) PROVE TypeOK'
  BY <1>7 DEF DispatchSetEnv
<1>8. ASSUME NEW s \in Servers, DispatchFails(s) PROVE TypeOK'
  BY <1>8 DEF DispatchFails, failTarget
<1>9. ASSUME NEW s \in Servers, DispatchSend(s) PROVE TypeOK'
  BY <1>9 DEF DispatchSend
<1>10. ASSUME NEW s \in Servers, AgentStart(s) PROVE TypeOK'
  BY <1>10 DEF AgentStart, sendOutput
<1>11. ASSUME NEW s \in Servers, AgentRun(s) PROVE TypeOK'
  BY <1>11 DEF AgentRun, sendOutput
<1>12. ASSUME NEW s \in Servers, AgentHealthy(s) PROVE TypeOK'
  BY <1>12 DEF AgentHealthy, sendOutput
<1>13. ASSUME NEW s \in Servers, AgentFailed(s) PROVE TypeOK'
  BY <1>13 DEF AgentFailed, sendOutput
<1>14. ASSUME NEW s \in Servers, HandleOutput(s) PROVE TypeOK'
  BY <1>14 DEF HandleOutput, TargetStatusAfter
<1>15. ASSUME NEW s \in Servers, IncrementReplicasReady(s) PROVE TypeOK'
  BY <1>15 DEF IncrementReplicasReady
<1>16. ASSUME NEW s \in Servers, CompleteIfReady(s) PROVE TypeOK'
  BY <1>16 DEF CompleteIfReady
<1>17. ASSUME NEW s \in Servers, CompleteFailed(s) PROVE TypeOK'
  BY <1>17 DEF CompleteFailed
<1>18. ASSUME NEW s \in Servers, CleanupTarget(s) PROVE TypeOK'
  BY <1>18 DEF CleanupTarget
<1>19. ASSUME NEW s \in Servers, StopContainer(s) PROVE TypeOK'
  BY <1>19 DEF StopContainer
<1>20. ASSUME NEW s \in Servers, StreamBreaks(s) PROVE TypeOK'
  BY <1>20 DEF StreamBreaks
<1>21. ASSUME NEW s \in Servers, StreamCancelled(s) PROVE TypeOK'
  BY <1>21 DEF StreamCancelled
<1>22. ASSUME NEW s \in Servers, Reconnect(s) PROVE TypeOK'
  BY <1>22 DEF Reconnect
<1>23. ASSUME NEW s \in Servers, AgentRestarts(s) PROVE TypeOK'
  BY <1>23 DEF AgentRestarts
<1>24. CASE UNCHANGED vars
  BY <1>24 DEF vars
<1> QED
  BY <1>1, <1>2, <1>3, <1>4, <1>5, <1>6, <1>7, <1>8, <1>9, <1>10, <1>11,
     <1>12, <1>13, <1>14, <1>15, <1>16, <1>17, <1>18, <1>19, <1>20, <1>21,
     <1>22, <1>23, <1>24 DEF Next

(* Every step preserves the order of commands, outputs and records. *)
LEMMA NextWiring == TypeOK /\ TypeOK' /\ Wiring /\ [Next]_vars => Wiring'
<1> SUFFICES ASSUME TypeOK, TypeOK', Wiring, [Next]_vars PROVE Wiring'
  OBVIOUS
<1> USE DEF TypeOK, Wiring, DispatchFirst, FinalIsLast, PassedIsFinal
<1>1. CASE TriggerDeploy
  BY <1>1 DEF TriggerDeploy
<1>2. CASE MarkDeploying
  BY <1>2 DEF MarkDeploying
<1>3. CASE TriggerAborted
  BY <1>3 DEF TriggerAborted
<1>4. CASE ControlPlaneRestarts
  BY <1>4 DEF ControlPlaneRestarts
<1>5. ASSUME NEW s \in Servers, CreateTarget(s) PROVE Wiring'
  BY <1>5 DEF CreateTarget
<1>6. ASSUME NEW s \in Servers, DispatchOffline(s) PROVE Wiring'
  BY <1>6 DEF DispatchOffline, failTarget
<1>7. ASSUME NEW s \in Servers, DispatchSetEnv(s) PROVE Wiring'
  BY <1>7 DEF DispatchSetEnv
<1>8. ASSUME NEW s \in Servers, DispatchFails(s) PROVE Wiring'
  BY <1>8 DEF DispatchFails, failTarget
<1>9. ASSUME NEW s \in Servers, DispatchSend(s) PROVE Wiring'
  BY <1>9 DEF DispatchSend
<1>10. ASSUME NEW s \in Servers, AgentStart(s) PROVE Wiring'
  BY <1>10 DEF AgentStart, sendOutput
<1>11. ASSUME NEW s \in Servers, AgentRun(s) PROVE Wiring'
  BY <1>11 DEF AgentRun, sendOutput
<1>12. ASSUME NEW s \in Servers, AgentHealthy(s) PROVE Wiring'
  BY <1>12 DEF AgentHealthy, sendOutput
<1>13. ASSUME NEW s \in Servers, AgentFailed(s) PROVE Wiring'
  BY <1>13 DEF AgentFailed, sendOutput
<1>14. ASSUME NEW s \in Servers, HandleOutput(s) PROVE Wiring'
  <2> USE <1>14 DEF HandleOutput, TargetStatusAfter
  <2>1. /\ outq[s] \in Seq(Phases) /\ outq[s] # <<>>
        /\ outq'[s] = Tail(outq[s])
        /\ \A t \in Servers \ {s} : outq'[t] = outq[t]
    OBVIOUS
  <2>2. /\ Len(outq[s]) \in Nat /\ Len(outq[s]) > 0
        /\ Len(outq'[s]) = Len(outq[s]) - 1
        /\ \A i \in 1..Len(outq'[s]) : outq'[s][i] = outq[s][i + 1]
    BY <2>1
  <2>3. agent[s] \notin {"none", "sent"} /\ disp[s] = "done" /\ tgt[s] # "healthy"
    BY <2>1
  <2>4. Head(outq[s]) = "healthy" => outq'[s] = <<>> /\ agent[s] = "done"
    <3> SUFFICES ASSUME Head(outq[s]) = "healthy"
                 PROVE  outq'[s] = <<>> /\ agent[s] = "done"
      OBVIOUS
    <3>1. 1 \in 1..Len(outq[s]) /\ outq[s][1] = "healthy"
      BY <2>1, <2>2
    <3>2. Len(outq[s]) = 1 /\ agent[s] = "done"
      <4> HIDE <1>14 DEF HandleOutput, TypeOK
      <4>1. \A i \in 1..Len(outq[s]) :
               outq[s][i] = "healthy" => i = Len(outq[s]) /\ agent[s] = "done"
        OBVIOUS
      <4> QED BY <4>1, <3>1
    <3>3. outq'[s] \in Seq(Phases) /\ Len(outq'[s]) = 0
      BY <3>2, <2>1, <2>2
    <3> QED BY <3>2, <3>3
  <2>5. DispatchFirst'
    BY <2>1, <2>3
  <2>6. FinalIsLast'
    BY <2>1, <2>2
  <2>7. PassedIsFinal'
    BY <2>1, <2>3, <2>4
  <2> QED BY <2>5, <2>6, <2>7
<1>15. ASSUME NEW s \in Servers, IncrementReplicasReady(s) PROVE Wiring'
  BY <1>15 DEF IncrementReplicasReady
<1>16. ASSUME NEW s \in Servers, CompleteIfReady(s) PROVE Wiring'
  BY <1>16 DEF CompleteIfReady
<1>17. ASSUME NEW s \in Servers, CompleteFailed(s) PROVE Wiring'
  BY <1>17 DEF CompleteFailed
<1>18. ASSUME NEW s \in Servers, CleanupTarget(s) PROVE Wiring'
  BY <1>18 DEF CleanupTarget
<1>19. ASSUME NEW s \in Servers, StopContainer(s) PROVE Wiring'
  BY <1>19 DEF StopContainer
<1>20. ASSUME NEW s \in Servers, StreamBreaks(s) PROVE Wiring'
  BY <1>20 DEF StreamBreaks
<1>21. ASSUME NEW s \in Servers, StreamCancelled(s) PROVE Wiring'
  BY <1>21 DEF StreamCancelled
<1>22. ASSUME NEW s \in Servers, Reconnect(s) PROVE Wiring'
  BY <1>22 DEF Reconnect
<1>23. ASSUME NEW s \in Servers, AgentRestarts(s) PROVE Wiring'
  BY <1>23 DEF AgentRestarts
<1>24. CASE UNCHANGED vars
  BY <1>24 DEF vars
<1> QED
  BY <1>1, <1>2, <1>3, <1>4, <1>5, <1>6, <1>7, <1>8, <1>9, <1>10, <1>11,
     <1>12, <1>13, <1>14, <1>15, <1>16, <1>17, <1>18, <1>19, <1>20, <1>21,
     <1>22, <1>23, <1>24 DEF Next

(* A replica recorded healthy stays so, and one that was counted stays counted. *)
LEMMA PassedStays == TypeOK /\ TypeOK' /\ Wiring /\ [Next]_vars => (Counted \subseteq Counted' /\ Counted' \subseteq Servers)
<1> SUFFICES ASSUME TypeOK, TypeOK', Wiring, [Next]_vars PROVE (Counted \subseteq Counted' /\ Counted' \subseteq Servers)
  OBVIOUS
<1> USE DEF TypeOK, Wiring, DispatchFirst, PassedIsFinal, Counted
<1>1. CASE TriggerDeploy
  BY <1>1 DEF TriggerDeploy
<1>2. CASE MarkDeploying
  BY <1>2 DEF MarkDeploying
<1>3. CASE TriggerAborted
  BY <1>3 DEF TriggerAborted
<1>4. CASE ControlPlaneRestarts
  BY <1>4 DEF ControlPlaneRestarts
<1>5. ASSUME NEW s \in Servers, CreateTarget(s) PROVE (Counted \subseteq Counted' /\ Counted' \subseteq Servers)
  BY <1>5 DEF CreateTarget
<1>6. ASSUME NEW s \in Servers, DispatchOffline(s) PROVE (Counted \subseteq Counted' /\ Counted' \subseteq Servers)
  BY <1>6 DEF DispatchOffline, failTarget
<1>7. ASSUME NEW s \in Servers, DispatchSetEnv(s) PROVE (Counted \subseteq Counted' /\ Counted' \subseteq Servers)
  BY <1>7 DEF DispatchSetEnv
<1>8. ASSUME NEW s \in Servers, DispatchFails(s) PROVE (Counted \subseteq Counted' /\ Counted' \subseteq Servers)
  BY <1>8 DEF DispatchFails, failTarget
<1>9. ASSUME NEW s \in Servers, DispatchSend(s) PROVE (Counted \subseteq Counted' /\ Counted' \subseteq Servers)
  BY <1>9 DEF DispatchSend
<1>10. ASSUME NEW s \in Servers, AgentStart(s) PROVE (Counted \subseteq Counted' /\ Counted' \subseteq Servers)
  BY <1>10 DEF AgentStart, sendOutput
<1>11. ASSUME NEW s \in Servers, AgentRun(s) PROVE (Counted \subseteq Counted' /\ Counted' \subseteq Servers)
  BY <1>11 DEF AgentRun, sendOutput
<1>12. ASSUME NEW s \in Servers, AgentHealthy(s) PROVE (Counted \subseteq Counted' /\ Counted' \subseteq Servers)
  BY <1>12 DEF AgentHealthy, sendOutput
<1>13. ASSUME NEW s \in Servers, AgentFailed(s) PROVE (Counted \subseteq Counted' /\ Counted' \subseteq Servers)
  BY <1>13 DEF AgentFailed, sendOutput
<1>14. ASSUME NEW s \in Servers, HandleOutput(s) PROVE (Counted \subseteq Counted' /\ Counted' \subseteq Servers)
  BY <1>14 DEF HandleOutput, TargetStatusAfter
<1>15. ASSUME NEW s \in Servers, IncrementReplicasReady(s) PROVE (Counted \subseteq Counted' /\ Counted' \subseteq Servers)
  BY <1>15 DEF IncrementReplicasReady
<1>16. ASSUME NEW s \in Servers, CompleteIfReady(s) PROVE (Counted \subseteq Counted' /\ Counted' \subseteq Servers)
  BY <1>16 DEF CompleteIfReady
<1>17. ASSUME NEW s \in Servers, CompleteFailed(s) PROVE (Counted \subseteq Counted' /\ Counted' \subseteq Servers)
  BY <1>17 DEF CompleteFailed
<1>18. ASSUME NEW s \in Servers, CleanupTarget(s) PROVE (Counted \subseteq Counted' /\ Counted' \subseteq Servers)
  BY <1>18 DEF CleanupTarget
<1>19. ASSUME NEW s \in Servers, StopContainer(s) PROVE (Counted \subseteq Counted' /\ Counted' \subseteq Servers)
  BY <1>19 DEF StopContainer
<1>20. ASSUME NEW s \in Servers, StreamBreaks(s) PROVE (Counted \subseteq Counted' /\ Counted' \subseteq Servers)
  BY <1>20 DEF StreamBreaks
<1>21. ASSUME NEW s \in Servers, StreamCancelled(s) PROVE (Counted \subseteq Counted' /\ Counted' \subseteq Servers)
  BY <1>21 DEF StreamCancelled
<1>22. ASSUME NEW s \in Servers, Reconnect(s) PROVE (Counted \subseteq Counted' /\ Counted' \subseteq Servers)
  BY <1>22 DEF Reconnect
<1>23. ASSUME NEW s \in Servers, AgentRestarts(s) PROVE (Counted \subseteq Counted' /\ Counted' \subseteq Servers)
  BY <1>23 DEF AgentRestarts
<1>24. CASE UNCHANGED vars
  BY <1>24 DEF vars
<1> QED
  BY <1>1, <1>2, <1>3, <1>4, <1>5, <1>6, <1>7, <1>8, <1>9, <1>10, <1>11,
     <1>12, <1>13, <1>14, <1>15, <1>16, <1>17, <1>18, <1>19, <1>20, <1>21,
     <1>22, <1>23, <1>24 DEF Next

(* Only the last increment lets handleDeployOutput complete the deployment. *)
LEMMA NextReadyCounted ==
    IInv /\ [Next]_vars /\ TypeOK' => ReadyCounted'
<1> SUFFICES ASSUME IInv, [Next]_vars, TypeOK' PROVE ReadyCounted'
  OBVIOUS
<1>1. Counted \subseteq Counted' /\ Counted' \subseteq Servers
  BY PassedStays DEF IInv
<1>2. ASSUME NEW s \in Servers, IncrementReplicasReady(s) PROVE ReadyCounted'
  <2>1. s \notin Counted /\ Counted' = Counted \cup {s} /\ ready' = ready + 1
    BY <1>2 DEF IInv, TypeOK, Wiring, PassedIsFinal, IncrementReplicasReady, Counted
  <2>2. IsFiniteSet(Counted)
    BY ServersAssumption, FS_Subset DEF Counted
  <2>3. Cardinality(Counted') = Cardinality(Counted) + 1
    BY <2>1, <2>2, FS_AddElement
  <2>4. Cardinality(Counted) \in Nat
    BY <2>2, FS_CardinalityType
  <2> QED BY <2>1, <2>3, <2>4 DEF IInv, TypeOK, ReadyCounted
<1>3. CASE ~ \E s \in Servers : IncrementReplicasReady(s)
  <2>1. ready' = ready
    BY <1>3 DEF IInv, TypeOK, Next, vars, TriggerDeploy, MarkDeploying,
       TriggerAborted, ControlPlaneRestarts, CreateTarget, DispatchOffline,
       DispatchSetEnv, DispatchFails, DispatchSend, AgentStart, AgentRun,
       AgentHealthy, AgentFailed, HandleOutput, CompleteIfReady,
       CompleteFailed, CleanupTarget, StopContainer, StreamBreaks,
       StreamCancelled, Reconnect, AgentRestarts
  <2> QED BY <2>1, <1>1, CountKept DEF IInv
<1> QED BY <1>2, <1>3

(* A replica recorded healthy stays recorded healthy. *)
LEMMA HealthyStays ==
    ASSUME TypeOK, TypeOK', Wiring, [Next]_vars, NEW s \in Servers, tgt[s] = "healthy"
    PROVE  tgt'[s] = "healthy"
  BY DEF TypeOK, Wiring, DispatchFirst, PassedIsFinal, Next, vars,
     TriggerDeploy, MarkDeploying,
     TriggerAborted, ControlPlaneRestarts, CreateTarget, DispatchOffline,
     DispatchSetEnv, DispatchFails, DispatchSend, failTarget, AgentStart, AgentRun,
     AgentHealthy, AgentFailed, HandleOutput, IncrementReplicasReady, CompleteIfReady,
     CompleteFailed, CleanupTarget, StopContainer, StreamBreaks,
     StreamCancelled, Reconnect, AgentRestarts

(* Completion writes 'healthy' and starts promotion only with every replica
   counted. *)
LEMMA CompletionNeedsAll ==
    ASSUME IInv, NEW s \in Servers, CompleteIfReady(s), ready >= Desired
    PROVE  \A t \in Servers : tgt[t] = "healthy"
<1>1. Counted \in SUBSET Servers
  BY DEF Counted
<1>2. Cardinality(Counted) \in Nat /\ Cardinality(Servers) \in Nat
  BY <1>1, ServersAssumption, FS_Subset, FS_CardinalityType
<1>3. Cardinality(Counted) >= Cardinality(Servers)
  BY <1>2 DEF IInv, TypeOK, ReadyCounted, Desired
<1>4. Counted = Servers
  BY <1>1, <1>3, FullSubset
<1> QED BY <1>4 DEF Counted

(* Every step that sets the status to healthy or starts promotion is a
   completion with all replicas ready. *)
LEMMA OnlyCompletionPromotes ==
    ASSUME TypeOK, [Next]_vars
    PROVE  \/ (dep' = "healthy" => dep = "healthy") /\ promoted' = promoted
           \/ /\ \E s \in Servers : CompleteIfReady(s)
              /\ ready >= Desired /\ promoted' = TRUE /\ tgt' = tgt
  BY DEF TypeOK, Next, vars, TriggerDeploy, MarkDeploying,
     TriggerAborted, ControlPlaneRestarts, CreateTarget, DispatchOffline,
     DispatchSetEnv, DispatchFails, DispatchSend, AgentStart, AgentRun,
     AgentHealthy, AgentFailed, HandleOutput, IncrementReplicasReady, CompleteIfReady,
     CompleteFailed, CleanupTarget, StopContainer, StreamBreaks,
     StreamCancelled, Reconnect, AgentRestarts

(* Every step preserves the invariant. *)
LEMMA NextIInv == IInv /\ [Next]_vars => IInv'
<1> SUFFICES ASSUME IInv, [Next]_vars PROVE IInv'
  OBVIOUS
<1>1. TypeOK'
  BY NextTypeOK DEF IInv
<1>2. Wiring'
  BY <1>1, NextWiring DEF IInv
<1>3. ReadyCounted'
  BY <1>1, NextReadyCounted
<1>4. HealthyMeansAllReplicas'
  <2>1. \A s \in Servers : tgt[s] = "healthy" => tgt'[s] = "healthy"
    BY <1>1, HealthyStays DEF IInv
  <2>2. CASE (dep' = "healthy" => dep = "healthy") /\ promoted' = promoted
    BY <2>1, <2>2 DEF IInv, HealthyMeansAllReplicas
  <2>3. CASE /\ \E s \in Servers : CompleteIfReady(s)
             /\ ready >= Desired /\ promoted' = TRUE /\ tgt' = tgt
    BY <2>1, <2>3, CompletionNeedsAll DEF HealthyMeansAllReplicas
  <2> QED BY <2>2, <2>3, OnlyCompletionPromotes DEF IInv
<1> QED BY <1>1, <1>2, <1>3, <1>4 DEF IInv

-----------------------------------------------------------------------------
(* IInv is an invariant of the rollout. *)
THEOREM Invariance == Spec => []IInv
<1>1. Init => IInv
  BY InitIInv
<1>2. IInv /\ [Next]_vars => IInv'
  BY NextIInv
<1> QED BY <1>1, <1>2, PTL DEF Spec

(* Rows, goroutines, queues and containers keep their types, for any targets. *)
THEOREM TypeOKHolds == Spec => []TypeOK
<1>1. IInv => TypeOK
  BY DEF IInv
<1> QED BY <1>1, Invariance, PTL

(* For every finite set of targets, 'healthy' and promotion mean that every
   replica has passed. *)
THEOREM HealthyMeansAllReplicasHolds == Spec => []HealthyMeansAllReplicas
<1>1. IInv => HealthyMeansAllReplicas
  BY DEF IInv
<1> QED BY <1>1, Invariance, PTL

(* replicas_ready never overcounts. *)
THEOREM ReadyNeverOvercountsHolds == Spec => []ReadyNeverOvercounts
<1>1. IInv => ReadyNeverOvercounts
  <2> SUFFICES ASSUME IInv PROVE ReadyNeverOvercounts
    OBVIOUS
  <2> DEFINE H == {s \in Servers : tgt[s] = "healthy"}
  <2>1. Counted \in SUBSET Servers /\ H \in SUBSET Servers /\ Counted \subseteq H
    BY DEF Counted
  <2>2. Cardinality(Counted) <= Cardinality(H)
        /\ Cardinality(Counted) \in Nat /\ Cardinality(H) \in Nat
    BY <2>1, CardinalityMonotone
  <2>3. ready <= Cardinality(H)
    BY <2>2 DEF IInv, TypeOK, ReadyCounted
  <2> QED BY <2>3 DEF ReadyNeverOvercounts
<1> QED BY <1>1, Invariance, PTL

(* The rollout implements RolloutPromise: every step passes one replica,
   starts promotion with all replicas passed, or changes neither. *)
THEOREM KeepsPromiseHolds == Spec => KeepsPromise
<1> DEFINE H == {s \in Servers : tgt[s] = "healthy"}
<1>1. Init => Promise!Init
  BY DEF Init, Promise!Init
<1>2. IInv /\ [Next]_vars => [Promise!Next]_<<H, promoted>>
  <2> SUFFICES ASSUME IInv, [Next]_vars PROVE [Promise!Next]_<<H, promoted>>
    OBVIOUS
  <2>1. TypeOK'
    BY NextTypeOK DEF IInv
  <2>2. CASE \E s \in Servers : CompleteIfReady(s) /\ ready >= Desired
    <3>1. H = Servers /\ tgt' = tgt /\ promoted' = TRUE
      BY <2>2, CompletionNeedsAll DEF CompleteIfReady
    <3> QED BY <3>1 DEF Promise!Next, Promise!Promote
  <2>3. CASE \E s \in Servers : HandleOutput(s)
    <3>1. PICK s \in Servers : HandleOutput(s)
      BY <2>3
    <3>2. promoted' = promoted /\ \A t \in Servers \ {s} : tgt'[t] = tgt[t]
      BY <3>1 DEF HandleOutput, IInv, TypeOK
    <3>3. \A t \in Servers : tgt[t] = "healthy" => tgt'[t] = "healthy"
      BY <2>1, HealthyStays DEF IInv
    <3>4. H' = H \/ H' = H \cup {s}
      BY <3>2, <3>3
    <3> QED BY <3>1, <3>2, <3>4 DEF Promise!Next, Promise!Pass
  <2>4. CASE ~ (\E s \in Servers : CompleteIfReady(s) /\ ready >= Desired)
             /\ ~ (\E s \in Servers : HandleOutput(s))
    <3>1. promoted' = promoted
      BY <2>4, OnlyCompletionPromotes DEF IInv
    <3>2. \A t \in Servers : tgt[t] = "healthy" => tgt'[t] = "healthy"
      BY <2>1, HealthyStays DEF IInv
    <3>3. \A t \in Servers : tgt'[t] = "healthy" => tgt[t] = "healthy"
      BY <2>1, <2>4 DEF IInv, TypeOK, Next, vars, TriggerDeploy, MarkDeploying,
         TriggerAborted, ControlPlaneRestarts, CreateTarget, DispatchOffline,
         DispatchSetEnv, DispatchFails, DispatchSend, failTarget, AgentStart,
         AgentRun, AgentHealthy, AgentFailed, IncrementReplicasReady,
         CompleteIfReady, CompleteFailed, CleanupTarget, StopContainer,
         StreamBreaks, StreamCancelled, Reconnect, AgentRestarts
    <3>4. H' = H
      BY <3>2, <3>3
    <3> QED BY <3>1, <3>4
  <2> QED BY <2>2, <2>3, <2>4
<1> QED BY <1>1, <1>2, Invariance, PTL DEF Spec, KeepsPromise, Promise!Spec

=============================================================================
