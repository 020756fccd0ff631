------------------------------- MODULE Rollout -------------------------------
(***************************************************************************)
(* One deployment, from TriggerDeploy to the start of traffic promotion:   *)
(*   - TriggerDeploy and its dispatchDeploy goroutines, one per target     *)
(*     (internal/deploy/service.go);                                       *)
(*   - HandleDeployCommand on every target server (apps/agent/deploy.go);  *)
(*   - handleDeployOutput in the Connect goroutine of every target server  *)
(*     (internal/agent/server.go);                                         *)
(*   - CleanupDeployments, which an operator may call at any time          *)
(*     (internal/api/handler/deploy.go).                                   *)
(*                                                                         *)
(* Two deployments share no state here: rows, containers and goroutines    *)
(* are all per deployment.  Servers are the servers the scheduler picked,  *)
(* one replica each.                                                       *)
(*                                                                         *)
(* link[s] is the gRPC stream of server s, seen from both ends: "up";      *)
(* "stale", dead but the control plane still holds its registry entry      *)
(* (sends are accepted and lost); "down", no entry.  HandleDeployCommand   *)
(* keeps the stream its command arrived on, so once a command has been     *)
(* sent link[s] stands for that stream and does not come back up.          *)
(*                                                                         *)
(* Abstracted: container ids, logs, domains, labels, registry logins and   *)
(* timestamps.  A database statement that the code issues on a live        *)
(* context succeeds; one on a cancelled context has no effect.             *)
(***************************************************************************)
EXTENDS Naturals, Sequences, FiniteSets

CONSTANTS
    Servers,    \* the targets chosen by the scheduler
    NoServer,   \* a key not yet in the envVars map
    Cleanups    \* whether an operator calls CleanupDeployments

ASSUME ServersAssumption ==
    /\ IsFiniteSet(Servers) /\ Servers # {}
    /\ NoServer \notin Servers
    /\ Cleanups \in BOOLEAN

VARIABLES
    dep,        \* deployments.status, "none" before the row exists
    ready,      \* deployments.replicas_ready
    promoted,   \* EnsureTrafficForDeployment has been started
    trig,       \* TriggerDeploy: "idle", "loop" (creating targets), "returned"
    tgt,        \* deployment_targets.status, "none" before the row exists
    disp,       \* dispatchDeploy: "none", "check", "send", "done"
    env,        \* envVars["PLATFORM_PRIVATE_IP"], as the server it belongs to
    link,       \* the server's stream: "up", "stale", "down"
    agent,      \* HandleDeployCommand: "none", "sent", "starting", "checking", "done"
    cmdIP,      \* PLATFORM_PRIVATE_IP of the DeployCommand the agent got
    outq,       \* DeployOutputs on their way to the control plane
    hnd,        \* handleDeployOutput: "idle", "increment", "complete", "fail"
    container,  \* the replica's container: "none", "running", "removed"
    stopcmd     \* a StopContainerCommand of CleanupDeployments is under way

rowVars == <<dep, ready, promoted, tgt>>
planeVars == <<trig, disp, env, hnd>>
hostVars == <<agent, cmdIP, container, stopcmd>>
vars == <<rowVars, planeVars, hostVars, link, outq>>

Phases == {"starting", "health_checking", "healthy", "failed"}

Desired == Cardinality(Servers)

(* Type correctness of the rows, the goroutines and the messages. *)
TypeOK ==
    /\ dep \in {"none", "pending", "deploying", "healthy", "failed"}
    /\ ready \in Nat
    /\ promoted \in BOOLEAN
    /\ trig \in {"idle", "loop", "returned"}
    /\ tgt \in [Servers -> {"none", "pending", "starting", "healthy", "failed"}]
    /\ disp \in [Servers -> {"none", "check", "send", "done"}]
    /\ env \in Servers \cup {NoServer}
    /\ link \in [Servers -> {"up", "stale", "down"}]
    /\ agent \in [Servers -> {"none", "sent", "starting", "checking", "done"}]
    /\ cmdIP \in [Servers -> Servers \cup {NoServer}]
    /\ outq \in [Servers -> Seq(Phases)]
    /\ hnd \in [Servers -> {"idle", "increment", "complete", "fail"}]
    /\ container \in [Servers -> {"none", "running", "removed"}]
    /\ stopcmd \in [Servers -> BOOLEAN]

Init ==
    /\ dep = "none" /\ ready = 0 /\ promoted = FALSE
    /\ trig = "idle"
    /\ tgt = [s \in Servers |-> "none"]
    /\ disp = [s \in Servers |-> "none"]
    /\ env = NoServer
    /\ link \in [Servers -> {"up", "down"}]
    /\ agent = [s \in Servers |-> "none"]
    /\ cmdIP = [s \in Servers |-> NoServer]
    /\ outq = [s \in Servers |-> <<>>]
    /\ hnd = [s \in Servers |-> "idle"]
    /\ container = [s \in Servers |-> "none"]
    /\ stopcmd = [s \in Servers |-> FALSE]

-----------------------------------------------------------------------------
(* The control plane: TriggerDeploy. *)

TriggerDeploy ==
    /\ trig = "idle"
    /\ dep' = "pending"
    /\ trig' = "loop"
    /\ UNCHANGED <<ready, promoted, tgt, disp, env, hnd, hostVars, link, outq>>

(* One turn of the loop over targets: the row, then `go dispatchDeploy`. *)
CreateTarget(s) ==
    /\ trig = "loop" /\ tgt[s] = "none"
    /\ tgt' = [tgt EXCEPT ![s] = "pending"]
    /\ disp' = [disp EXCEPT ![s] = "check"]
    /\ UNCHANGED <<dep, ready, promoted, trig, env, hnd, hostVars, link, outq>>

(* The unconditional UPDATE ... SET status = 'deploying' after the loop. *)
MarkDeploying ==
    /\ trig = "loop" /\ \A s \in Servers : tgt[s] # "none"
    /\ dep' = "deploying"
    /\ trig' = "returned"
    /\ UNCHANGED <<ready, promoted, tgt, disp, env, hnd, hostVars, link, outq>>

(* The request's context is cancelled (the HTTP client went away): the next
   INSERT fails and TriggerDeploy returns its error, or the final UPDATE fails
   and its error is dropped.  The goroutines already started go on. *)
TriggerAborted ==
    /\ trig = "loop"
    /\ trig' = "returned"
    /\ UNCHANGED <<rowVars, disp, env, hnd, hostVars, link, outq>>

-----------------------------------------------------------------------------
(* dispatchDeploy.  failTarget writes the target row only. *)

failTarget(s) == tgt' = [tgt EXCEPT ![s] = "failed"]

DispatchOffline(s) ==
    /\ disp[s] = "check" /\ link[s] = "down"
    /\ failTarget(s)
    /\ disp' = [disp EXCEPT ![s] = "done"]
    /\ UNCHANGED <<dep, ready, promoted, trig, env, hnd, hostVars, link, outq>>

(* The platform variables are written into envVars, the map that every
   dispatch goroutine of the deployment was given. *)
DispatchSetEnv(s) ==
    /\ disp[s] = "check" /\ link[s] # "down"
    /\ env' = s
    /\ disp' = [disp EXCEPT ![s] = "send"]
    /\ UNCHANGED <<rowVars, trig, hnd, hostVars, link, outq>>

\* Bug: the error is only logged.
DispatchFailsSilently(s) ==
    /\ disp[s] = "send"
    /\ disp' = [disp EXCEPT ![s] = "done"]
    /\ UNCHANGED <<rowVars, trig, env, hnd, hostVars, link, outq>>

(* AllocateServerPort fails (no port left, or a concurrent allocation took
   the same one), or SendToAgent finds no entry. *)
DispatchFails(s) ==
    /\ disp[s] = "send"
    /\ failTarget(s)
    /\ disp' = [disp EXCEPT ![s] = "done"]
    /\ UNCHANGED <<dep, ready, promoted, trig, env, hnd, hostVars, link, outq>>

(* SendToAgent marshals the command, with the map as it is now. *)
DispatchSend(s) ==
    /\ disp[s] = "send" /\ link[s] # "down"
    /\ disp' = [disp EXCEPT ![s] = "done"]
    /\ IF link[s] = "up"
       THEN /\ agent' = [agent EXCEPT ![s] = "sent"]
            /\ cmdIP' = [cmdIP EXCEPT ![s] = env]
       ELSE UNCHANGED <<agent, cmdIP>>
    /\ UNCHANGED <<rowVars, trig, env, hnd, container, stopcmd, link, outq>>

-----------------------------------------------------------------------------
(* The agent: HandleDeployCommand.  sendOutput ignores the error of a Send on
   a dead stream. *)

sendOutput(s, phase) ==
    outq' = [outq EXCEPT ![s] = IF link[s] = "up" THEN Append(@, phase) ELSE @]

AgentStart(s) ==
    /\ agent[s] = "sent"
    /\ sendOutput(s, "starting")
    /\ agent' = [agent EXCEPT ![s] = "starting"]
    /\ UNCHANGED <<rowVars, planeVars, cmdIP, container, stopcmd, link>>

AgentRun(s) ==
    /\ agent[s] = "starting"
    /\ sendOutput(s, "health_checking")
    /\ container' = [container EXCEPT ![s] = "running"]
    /\ agent' = [agent EXCEPT ![s] = "checking"]
    /\ UNCHANGED <<rowVars, planeVars, cmdIP, stopcmd, link>>

(* The port accepted a connection before the deadline. *)
AgentHealthy(s) ==
    /\ agent[s] = "checking" /\ container[s] = "running"
    /\ sendOutput(s, "healthy")
    /\ agent' = [agent EXCEPT ![s] = "done"]
    /\ UNCHANGED <<rowVars, planeVars, cmdIP, container, stopcmd, link>>

(* The pull or the run failed, the container is gone, or the deadline passed
   (the container is then left as it is). *)
AgentFailed(s) ==
    /\ agent[s] \in {"starting", "checking"}
    /\ sendOutput(s, "failed")
    /\ agent' = [agent EXCEPT ![s] = "done"]
    /\ UNCHANGED <<rowVars, planeVars, cmdIP, container, stopcmd, link>>

-----------------------------------------------------------------------------
(* The control plane: handleDeployOutput, run by the Connect goroutine of the
   server, one database statement at a time. *)

\* Bug: the phase is stored as it comes.
TargetStatusAnyPhase(old, phase) == phase

(* The CHECK constraint of deployment_targets.status has no
   'health_checking': that UPDATE fails and its error is dropped. *)
TargetStatusAfter(old, phase) ==
    IF phase = "health_checking" THEN old ELSE phase

HandleOutput(s) ==
    /\ hnd[s] = "idle" /\ outq[s] # <<>>
    /\ LET phase == Head(outq[s]) IN
       /\ tgt' = [tgt EXCEPT ![s] = TargetStatusAfter(@, phase)]
       /\ hnd' = [hnd EXCEPT ![s] = CASE phase = "healthy" -> "increment"
                                      [] phase = "failed" -> "fail"
                                      [] OTHER -> "idle"]
    /\ outq' = [outq EXCEPT ![s] = Tail(@)]
    /\ UNCHANGED <<dep, ready, promoted, trig, disp, env, hostVars, link>>

IncrementReplicasReady(s) ==
    /\ hnd[s] = "increment"
    /\ ready' = ready + 1
    /\ hnd' = [hnd EXCEPT ![s] = "complete"]
    /\ UNCHANGED <<dep, promoted, tgt, trig, disp, env, hostVars, link, outq>>

\* Bug: the first healthy replica completes the deployment.
CompleteIfReadyAny(s) ==
    /\ hnd[s] = "complete"
    /\ dep' = "healthy"
    /\ promoted' = TRUE
    /\ hnd' = [hnd EXCEPT ![s] = "idle"]
    /\ UNCHANGED <<ready, tgt, trig, disp, env, hostVars, link, outq>>

\* Bug: the count is taken before this replica's own increment.
CompleteIfReadyOffByOne(s) ==
    /\ hnd[s] = "complete"
    /\ IF ready + 1 >= Desired
       THEN dep' = "healthy" /\ promoted' = TRUE
       ELSE UNCHANGED <<dep, promoted>>
    /\ hnd' = [hnd EXCEPT ![s] = "idle"]
    /\ UNCHANGED <<ready, tgt, trig, disp, env, hostVars, link, outq>>

\* Bug: > instead of >=.
CompleteIfReadyStrict(s) ==
    /\ hnd[s] = "complete"
    /\ IF ready > Desired
       THEN dep' = "healthy" /\ promoted' = TRUE
       ELSE UNCHANGED <<dep, promoted>>
    /\ hnd' = [hnd EXCEPT ![s] = "idle"]
    /\ UNCHANGED <<ready, tgt, trig, disp, env, hostVars, link, outq>>

(* GetDeployment, and CompleteDeployment when the last replica is ready.
   replicas_ready only grows, so the test and the write need no separation. *)
CompleteIfReady(s) ==
    /\ hnd[s] = "complete"
    /\ IF ready >= Desired
       THEN dep' = "healthy" /\ promoted' = TRUE
       ELSE UNCHANGED <<dep, promoted>>
    /\ hnd' = [hnd EXCEPT ![s] = "idle"]
    /\ UNCHANGED <<ready, tgt, trig, disp, env, hostVars, link, outq>>

\* Bug: finished replicas are counted, not healthy ones.
CompleteFailedCounts(s) ==
    /\ hnd[s] = "fail"
    /\ dep' = "failed"
    /\ ready' = ready + 1
    /\ hnd' = [hnd EXCEPT ![s] = "idle"]
    /\ UNCHANGED <<promoted, tgt, trig, disp, env, hostVars, link, outq>>

CompleteFailed(s) ==
    /\ hnd[s] = "fail"
    /\ dep' = "failed"
    /\ hnd' = [hnd EXCEPT ![s] = "idle"]
    /\ UNCHANGED <<ready, promoted, tgt, trig, disp, env, hostVars, link, outq>>

-----------------------------------------------------------------------------
(* CleanupDeployments: a stop command for every target that is neither
   healthy nor stopped, of a deployment that is not healthy; the error of the
   send is ignored.  Once the deploy command is out the agent may have come
   back on another stream. *)
CleanupTarget(s) ==
    /\ Cleanups
    /\ dep \notin {"none", "healthy"}
    /\ tgt[s] \notin {"none", "healthy"}
    /\ link[s] = "up" \/ disp[s] = "done"
    /\ stopcmd' = [stopcmd EXCEPT ![s] = TRUE]
    /\ UNCHANGED <<rowVars, planeVars, agent, cmdIP, container, link, outq>>

(* HandleStopContainerCommand: docker stop and docker rm -f, by name. *)
StopContainer(s) ==
    /\ stopcmd[s]
    /\ stopcmd' = [stopcmd EXCEPT ![s] = FALSE]
    /\ container' = [container EXCEPT ![s] = IF @ = "running" THEN "removed" ELSE @]
    /\ UNCHANGED <<rowVars, planeVars, agent, cmdIP, link, outq>>

-----------------------------------------------------------------------------
(* Failures. *)

(* The transport dies.  Outputs the control plane has already received are
   still handled until it notices; the rest, and a command not yet read by
   the agent, are lost. *)
StreamBreaks(s) ==
    /\ link[s] = "up"
    /\ link' = [link EXCEPT ![s] = "stale"]
    /\ \E n \in 0..Len(outq[s]) : outq' = [outq EXCEPT ![s] = SubSeq(@, 1, n)]
    /\ agent' = [agent EXCEPT ![s] = IF @ = "sent" THEN "done" ELSE @]
    /\ UNCHANGED <<rowVars, planeVars, cmdIP, container, stopcmd>>

(* The control plane notices: the stream's context, which handleDeployOutput
   passes to every statement, is cancelled in the middle of whatever it was
   doing, and Connect returns. *)
StreamCancelled(s) ==
    /\ link[s] = "stale"
    /\ link' = [link EXCEPT ![s] = "down"]
    /\ outq' = [outq EXCEPT ![s] = <<>>]
    /\ hnd' = [hnd EXCEPT ![s] = "idle"]
    /\ UNCHANGED <<rowVars, trig, disp, env, hostVars>>

Reconnect(s) ==
    /\ link[s] # "up" /\ disp[s] # "done"
    /\ link' = [link EXCEPT ![s] = "up"]
    /\ UNCHANGED <<rowVars, planeVars, hostVars, outq>>

(* The agent process, its stream lost, restarts: its handlers are gone,
   containers stay. *)
AgentRestarts(s) ==
    /\ link[s] # "up" /\ agent[s] \in {"starting", "checking"}
    /\ agent' = [agent EXCEPT ![s] = "done"]
    /\ UNCHANGED <<rowVars, planeVars, cmdIP, container, stopcmd, link, outq>>

(* The control plane restarts: every goroutine and stream is gone, and
   nothing resumes a deployment that was under way. *)
ControlPlaneRestarts ==
    /\ trig # "idle"
    /\ trig' = "returned"
    /\ disp' = [s \in Servers |-> IF disp[s] = "none" THEN "none" ELSE "done"]
    /\ hnd' = [s \in Servers |-> "idle"]
    /\ outq' = [s \in Servers |-> <<>>]
    /\ link' = [s \in Servers |-> "down"]
    /\ agent' = [s \in Servers |-> IF agent[s] = "sent" THEN "done" ELSE agent[s]]
    /\ UNCHANGED <<rowVars, env, cmdIP, container, stopcmd>>

-----------------------------------------------------------------------------
Next ==
    \/ TriggerDeploy \/ MarkDeploying \/ TriggerAborted \/ ControlPlaneRestarts
    \/ \E s \in Servers :
        \/ CreateTarget(s)
        \/ DispatchOffline(s) \/ DispatchSetEnv(s)
        \/ DispatchFails(s) \/ DispatchSend(s)
        \/ AgentStart(s) \/ AgentRun(s) \/ AgentHealthy(s) \/ AgentFailed(s)
        \/ HandleOutput(s) \/ IncrementReplicasReady(s)
        \/ CompleteIfReady(s) \/ CompleteFailed(s)
        \/ CleanupTarget(s) \/ StopContainer(s)
        \/ StreamBreaks(s) \/ StreamCancelled(s) \/ Reconnect(s)
        \/ AgentRestarts(s)

(* Goroutines that can run are scheduled, a health check ends by its deadline
   and gRPC delivers what a live stream was given.  Nothing is owed by the
   network, by an operator, or by a process that may restart. *)
Fairness ==
    /\ WF_vars(MarkDeploying)
    /\ \A s \in Servers :
        /\ WF_vars(CreateTarget(s))
        /\ WF_vars(DispatchOffline(s) \/ DispatchSetEnv(s))
        /\ WF_vars(DispatchFails(s) \/ DispatchSend(s))
        /\ WF_vars(AgentStart(s))
        /\ WF_vars(AgentRun(s) \/ AgentHealthy(s) \/ AgentFailed(s))
        /\ WF_vars(HandleOutput(s))
        /\ WF_vars(IncrementReplicasReady(s))
        /\ WF_vars(CompleteIfReady(s) \/ CompleteFailed(s))
        /\ WF_vars(StreamCancelled(s))

Spec == Init /\ [][Next]_vars

FairSpec == Spec /\ Fairness

-----------------------------------------------------------------------------
(* "unhealthy replicas never enter the backend pool" (apps/agent/deploy.go):
   a deployment is completed, and its promotion started, only when the
   health check of every replica has passed and been recorded, whichever
   outputs were lost, cut off in the middle, or handled at the same time. *)
HealthyMeansAllReplicas ==
    dep = "healthy" \/ promoted => \A s \in Servers : tgt[s] = "healthy"

(* replicas_ready, which handleDeployOutput increments without looking at
   the targets, never counts a replica twice or one that has not passed. *)
ReadyNeverOvercounts ==
    ready <= Cardinality({s \in Servers : tgt[s] = "healthy"})

(* What EnsureTrafficForDeployment relies on: the deployment implements
   RolloutPromise, where replicas pass one by one, for good, and promotion
   starts only after the last of them. *)
Promise == INSTANCE RolloutPromise
              WITH passed <- {s \in Servers : tgt[s] = "healthy"}

KeepsPromise == Promise!Spec

(* A target is left neither healthy nor failed only if its stream was lost:
   no interleaving of dispatch, agent and output handling drops it. *)
TargetSettles ==
    \A s \in Servers :
        tgt[s] = "pending" ~> (tgt[s] \in {"healthy", "failed"} \/ link[s] # "up")

(* When every replica has passed, promotion starts unless a stream was lost:
   the replicas' handlers cannot all miss that they are the last. *)
PromotionFollows ==
    (\A s \in Servers : tgt[s] = "healthy")
        ~> (promoted \/ \E s \in Servers : link[s] # "up")
=============================================================================
