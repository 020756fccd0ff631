------------------------------- MODULE Traffic -------------------------------
(***************************************************************************)
(* Traffic promotion for one app in a cluster with an edge node            *)
(* (internal/deploy/service.go): EnsureTrafficForDeployment, which every   *)
(* deployment that becomes healthy starts in a goroutine of its own; the   *)
(* drain timer and the archiver that it spawns; Rollback; the operator's   *)
(* UpdateTrafficWeights and PromoteTrafficBackend; and                     *)
(* HandleTrafficRouteCommand on the edge (apps/agent/traffic_route.go).    *)
(*                                                                         *)
(* Deployments are numbered in created_at order and have one replica on    *)
(* one host, which may be the edge itself (a server of role "both"); a     *)
(* build, and so an image tag, is named after the deployment that first    *)
(* used it.  How a deployment becomes healthy is Rollout's business; one   *)
(* that fails never reaches this code.  An environment has one route.  The *)
(* edge keeps one Traefik file per app slug, whichever the environment.    *)
(*                                                                         *)
(* One step is one database statement, or a run of statements on one row   *)
(* and the sends that follow.  Database statements succeed; sends need     *)
(* not.  Labels, traffic events, URLs and ports are left out, and so is    *)
(* the size of a weight in the edge's file: a backend is in it or not.     *)
(***************************************************************************)
EXTENDS Naturals, FiniteSets, FiniteSetsExt

CONSTANTS
    MaxDeployments, \* bound: deployments of the app
    Envs,           \* environments of its project
    Production,     \* the environment the traffic API works on
    MaxUserOps,     \* bound: UpdateTrafficWeights and PromoteTrafficBackend calls
    Lossy,          \* whether a send to an agent may fail
    Restarts,       \* whether the control plane may restart
    EdgeRole,       \* role of the edge's server: "edge" or "both"
    NoRow           \* no traffic_backends row

Deployments == 1..MaxDeployments

ASSUME TrafficAssumption ==
    /\ MaxDeployments \in Nat /\ MaxUserOps \in Nat
    /\ Production \in Envs
    /\ Lossy \in BOOLEAN /\ Restarts \in BOOLEAN
    /\ EdgeRole \in {"edge", "both"}
    /\ NoRow \notin [weight : 0..100, status : {"active", "draining"}]

VARIABLES
    st,         \* deployments.status ("none": not created)
    envOf,      \* deployments.environment_id
    tag,        \* image tag of the deployment's build (0: not created)
    tgt,        \* status of its target row: "none", "healthy", "stopped"
    onEdge,     \* deployments whose replica is on the edge's server
    running,    \* deployments whose container runs
    images,     \* image tags present on the host
    be,         \* traffic_backends row
    ens,        \* EnsureTrafficForDeployment: "none", "list", "upsert", "demote", "done"
    todo,       \* its snapshot of the route's other backends, not yet demoted
    demoted,    \* deployments whose running promotion has demoted a backend
    drain,      \* deployments whose drain timer is running
    arch,       \* archiveOldDeployments: "none", "list", "tags", "prune"
    rows,       \* its snapshot of the archivable deployments
    kept,       \* its snapshot of the kept image tags
    flight,     \* commands on their way to the edge's file: the deployments of a
                \* TrafficRouteCommand, or {} for a stop with remove_traefik
    edge,       \* the edge's file: the deployments in it
    user,       \* "sync" between an operator's weight update and its sync
    ops,        \* traffic API calls made
    orderly,    \* history: promotions were one at a time, in created_at order
    calm        \* history: and each began when all work of the last had ended

deployVars == <<st, envOf, tag, tgt, onEdge, running, images>>
history == <<orderly, calm>>
ensVars == <<ens, todo, demoted>>
archVars == <<arch, rows, kept>>
edgeVars == <<flight, edge>>
userVars == <<user, ops>>
vars == <<deployVars, be, ensVars, drain, archVars, edgeVars, userVars, history>>

Weights == {0, 50, 100}
Backend == [weight : Weights, status : {"active", "draining"}]

(* Type correctness of rows, goroutines and commands. *)
TypeOK ==
    /\ st \in [Deployments -> {"none", "deploying", "healthy", "superseded", "archived"}]
    /\ envOf \in [Deployments -> Envs]
    /\ tag \in [Deployments -> Deployments \cup {0}]
    /\ tgt \in [Deployments -> {"none", "healthy", "stopped"}]
    /\ onEdge \subseteq Deployments
    /\ running \subseteq Deployments
    /\ images \subseteq Deployments
    /\ be \in [Deployments -> Backend \cup {NoRow}]
    /\ ens \in [Deployments -> {"none", "list", "upsert", "demote", "done"}]
    /\ todo \in [Deployments -> SUBSET Deployments]
    /\ demoted \subseteq Deployments
    /\ drain \subseteq Deployments
    /\ arch \in [Deployments -> {"none", "list", "tags", "prune"}]
    /\ rows \in [Deployments -> SUBSET Deployments]
    /\ kept \in [Deployments -> SUBSET Deployments]
    /\ flight \subseteq SUBSET Deployments
    /\ edge \subseteq Deployments
    /\ user \in {"idle", "sync"}
    /\ ops \in 0..MaxUserOps
    /\ orderly \in BOOLEAN
    /\ calm \in BOOLEAN

Init ==
    /\ st = [d \in Deployments |-> "none"]
    /\ envOf = [d \in Deployments |-> Production]
    /\ tag = [d \in Deployments |-> 0]
    /\ tgt = [d \in Deployments |-> "none"]
    /\ onEdge = {} /\ running = {} /\ images = {}
    /\ be = [d \in Deployments |-> NoRow]
    /\ ens = [d \in Deployments |-> "none"]
    /\ todo = [d \in Deployments |-> {}]
    /\ demoted = {} /\ drain = {}
    /\ arch = [d \in Deployments |-> "none"]
    /\ rows = [d \in Deployments |-> {}]
    /\ kept = [d \in Deployments |-> {}]
    /\ flight = {} /\ edge = {}
    /\ user = "idle" /\ ops = 0
    /\ orderly = TRUE /\ calm = TRUE

-----------------------------------------------------------------------------
(* Queries. *)

Live(d) == st[d] \in {"healthy", "superseded"}

RouteBackends(e) == {d \in Deployments : envOf[d] = e /\ be[d] # NoRow}

ListTrafficBackendsForSync(e) ==
    {d \in RouteBackends(e) :
        be[d].status = "active" /\ be[d].weight > 0 /\ st[d] = "healthy"}

\* Bug: ORDER BY created_at without DESC keeps the oldest two.
ListArchivableDeploymentsAscending(e) ==
    {d \in Deployments :
        /\ Live(d) /\ envOf[d] = e
        /\ Cardinality({k \in Deployments : Live(k) /\ envOf[k] = e /\ k < d}) >= 2}

(* All but the newest two healthy or superseded deployments of e. *)
ListArchivableDeployments(e) ==
    {d \in Deployments :
        /\ Live(d) /\ envOf[d] = e
        /\ Cardinality({k \in Deployments : Live(k) /\ envOf[k] = e /\ k > d}) >= 2}

ListKeptImageTags(e) == {tag[d] : d \in {k \in Deployments : Live(k) /\ envOf[k] = e}}

(* Containers of the app on record as healthy, in any environment. *)
ListHealthyContainers == {d \in Deployments : st[d] = "healthy" /\ tgt[d] = "healthy"}

-----------------------------------------------------------------------------
(* Deployments. *)

(* TriggerDeploy of a new build, or by Rollback of the build of the newest
   superseded deployment, which builds nothing. *)
CreateDeployment(e, t) ==
    \E d \in Deployments :
        /\ st[d] = "none" /\ \A k \in 1..(d - 1) : st[k] # "none"
        /\ st' = [st EXCEPT ![d] = "deploying"]
        /\ envOf' = [envOf EXCEPT ![d] = e]
        /\ tag' = [tag EXCEPT ![d] = IF t = 0 THEN d ELSE t]
        /\ images' = IF t = 0 THEN images \cup {d} ELSE images
        /\ \/ onEdge' = onEdge
           \/ EdgeRole = "both" /\ onEdge' = onEdge \cup {d}
        /\ UNCHANGED <<tgt, running, be, ensVars, drain, archVars, edgeVars, userVars, history>>

TriggerDeploy(e) == CreateDeployment(e, 0)

Rollback(e) ==
    LET superseded == {d \in Deployments : st[d] = "superseded" /\ envOf[d] = e}
    IN  /\ superseded # {}
        /\ CreateDeployment(e, tag[Max(superseded)])

(* Nothing that a promotion, an operator or a drain has started is under way. *)
Quiet ==
    /\ \A d \in Deployments : ens[d] \in {"none", "done"} /\ arch[d] = "none"
    /\ drain = {} /\ flight = {} /\ user = "idle"

(* The last replica passed: handleDeployOutput completes the deployment and
   starts its EnsureTrafficForDeployment.  A local build is run from the image
   on the host ("--pull never"), which must still be there. *)
BecomeHealthy(d) ==
    /\ st[d] = "deploying" /\ tag[d] \in images
    /\ st' = [st EXCEPT ![d] = "healthy"]
    /\ tgt' = [tgt EXCEPT ![d] = "healthy"]
    /\ running' = running \cup {d}
    /\ ens' = [ens EXCEPT ![d] = "list"]
    /\ calm' = (/\ calm /\ Quiet
                /\ \A k \in Deployments : ens[k] = "done" => k < d /\ envOf[k] = envOf[d])
    /\ UNCHANGED <<envOf, tag, onEdge, images, be, todo, demoted, drain, archVars, edgeVars, userVars, orderly>>

-----------------------------------------------------------------------------
(* SyncTrafficRoute: nothing is sent when no backend qualifies.  A send that fails
   is logged, and is not calm. *)
SyncTrafficRoute(e) ==
    LET groups == {d \in ListTrafficBackendsForSync(e) : tgt[d] = "healthy"}
    IN  \/ flight' = (IF groups = {} THEN flight ELSE flight \cup {groups}) /\ calm' = calm
        \/ Lossy /\ flight' = flight /\ calm' = FALSE

(* HandleTrafficRouteCommand, a goroutine per command: whole file written.  Of a
   HandleStopContainerCommand with remove_traefik: the same file removed. *)
ApplyRoute(c) ==
    /\ c \in flight
    /\ flight' = flight \ {c}
    /\ edge' = c
    /\ UNCHANGED <<deployVars, be, ensVars, drain, archVars, userVars, history>>

-----------------------------------------------------------------------------
(* EnsureTrafficForDeployment. *)

Promoting(e) == {k \in Deployments : envOf[k] = e /\ ens[k] \in {"upsert", "demote"}}

Promoted(e) == {k \in Deployments : envOf[k] = e /\ ens[k] = "done"}

EnsureList(d) ==
    /\ ens[d] = "list"
    /\ todo' = [todo EXCEPT ![d] = RouteBackends(envOf[d]) \ {d}]
    /\ ens' = [ens EXCEPT ![d] = "upsert"]
    /\ orderly' = (/\ orderly
                   /\ Promoting(envOf[d]) = {}
                   /\ \A k \in Promoted(envOf[d]) : k < d)
    /\ UNCHANGED <<deployVars, be, demoted, drain, archVars, edgeVars, userVars, calm>>

EnsureUpsert(d) ==
    /\ ens[d] = "upsert"
    /\ be' = [be EXCEPT ![d] = [weight |-> 100, status |-> "active"]]
    /\ ens' = [ens EXCEPT ![d] = "demote"]
    /\ UNCHANGED <<deployVars, todo, demoted, drain, archVars, edgeVars, userVars, history>>

\* Bug: a status ListTrafficBackendsForSync knows nothing of.
EnsureDemoteDisabled(d, e) ==
    /\ ens[d] = "demote" /\ e \in todo[d]
    /\ todo' = [todo EXCEPT ![d] = @ \ {e}]
    /\ be' = [be EXCEPT ![e] = [weight |-> 0, status |-> "disabled"]]
    /\ demoted' = demoted \cup {d}
    /\ UNCHANGED <<deployVars, ens, drain, archVars, edgeVars, userVars, history>>

(* One turn of the loop; a row archived since the snapshot is skipped. *)
EnsureDemote(d, e) ==
    /\ ens[d] = "demote" /\ e \in todo[d]
    /\ todo' = [todo EXCEPT ![d] = @ \ {e}]
    /\ IF be[e] = NoRow
       THEN UNCHANGED <<be, st, demoted>>
       ELSE /\ be' = [be EXCEPT ![e] = [weight |-> 0, status |-> "draining"]]
            /\ st' = [st EXCEPT ![e] = "superseded"]
            /\ demoted' = demoted \cup {d}
    /\ UNCHANGED <<envOf, tag, tgt, onEdge, running, images, ens, drain, archVars, edgeVars, userVars, history>>

\* Bug: the return after a failed sync is taken always.
EnsureSyncNever(d) ==
    /\ ens[d] = "demote" /\ todo[d] = {}
    /\ ens' = [ens EXCEPT ![d] = "done"]
    /\ UNCHANGED <<deployVars, be, todo, demoted, drain, archVars, edgeVars, userVars, history>>

EnsureSync(d) ==
    /\ ens[d] = "demote" /\ todo[d] = {}
    /\ SyncTrafficRoute(envOf[d])
    /\ ens' = [ens EXCEPT ![d] = "done"]
    /\ IF d \in demoted
       THEN /\ drain' = drain \cup {d}
            /\ arch' = [arch EXCEPT ![d] = "list"]
       ELSE UNCHANGED <<drain, arch>>
    /\ demoted' = demoted \ {d}
    /\ UNCHANGED <<deployVars, be, todo, rows, kept, edge, userVars, orderly>>

-----------------------------------------------------------------------------
(* stopSupersededAfterDrain and StopSupersededContainers: a container whose
   stop could not be sent is left as it is.  On a server that d does not use
   the agent removes the app's Traefik file as well. *)
StopContainers(d, containers) ==
    /\ d \in drain
    /\ drain' = drain \ {d}
    /\ \E stopped \in IF Lossy THEN SUBSET containers ELSE {containers} :
        /\ running' = running \ stopped
        /\ tgt' = [k \in Deployments |-> IF k \in stopped THEN "stopped" ELSE tgt[k]]
        /\ flight' = IF d \notin onEdge /\ stopped \cap onEdge # {}
                     THEN flight \cup {{}} ELSE flight
    /\ UNCHANGED <<st, envOf, tag, onEdge, images, be, ensVars, archVars, edge, userVars, history>>

\* Bug: the promoted deployment's own containers are not skipped.
StopSupersededContainersAll(d) == StopContainers(d, ListHealthyContainers)

StopSupersededContainers(d) == StopContainers(d, ListHealthyContainers \ {d})

-----------------------------------------------------------------------------
(* archiveOldDeployments. *)

ArchiveList(d) ==
    /\ arch[d] = "list"
    /\ rows' = [rows EXCEPT ![d] = ListArchivableDeployments(envOf[d])]
    /\ arch' = [arch EXCEPT ![d] = IF rows'[d] = {} THEN "none" ELSE "tags"]
    /\ UNCHANGED <<deployVars, be, ensVars, drain, kept, edgeVars, userVars, history>>

ArchiveTags(d) ==
    /\ arch[d] = "tags"
    /\ kept' = [kept EXCEPT ![d] = ListKeptImageTags(envOf[d])]
    /\ arch' = [arch EXCEPT ![d] = "prune"]
    /\ UNCHANGED <<deployVars, be, ensVars, drain, rows, edgeVars, userVars, history>>

(* One row, oldest first. *)
ArchiveRow(d) ==
    /\ arch[d] = "prune"
    /\ LET r == Min(rows[d]) IN
       /\ be' = [be EXCEPT ![r] = NoRow]
       /\ st' = [st EXCEPT ![r] = "archived"]
       /\ \/ images' = IF tag[r] \in kept[d] THEN images ELSE images \ {tag[r]}
          \/ Lossy /\ images' = images
       /\ rows' = [rows EXCEPT ![d] = @ \ {r}]
    /\ arch' = [arch EXCEPT ![d] = IF rows'[d] = {} THEN "none" ELSE "prune"]
    /\ kept' = [kept EXCEPT ![d] = IF rows'[d] = {} THEN {} ELSE @]
    /\ UNCHANGED <<envOf, tag, tgt, onEdge, running, ensVars, drain, edgeVars, userVars, history>>

-----------------------------------------------------------------------------
(* The traffic API. *)

(* The weights of some backends of the production route, adding up to 100. *)
UpdateTrafficWeights(w) ==
    /\ user = "idle" /\ ops < MaxUserOps
    /\ DOMAIN w \subseteq RouteBackends(Production)
    /\ MapThenSumSet(LAMBDA d : w[d], DOMAIN w) = 100
    /\ be' = [d \in Deployments |->
                IF d \in DOMAIN w THEN [be[d] EXCEPT !.weight = w[d]] ELSE be[d]]
    /\ user' = "sync" /\ ops' = ops + 1
    /\ orderly' = FALSE /\ calm' = FALSE
    /\ UNCHANGED <<deployVars, ensVars, drain, archVars, edgeVars>>

(* UpdateTrafficWeights with 100 for b and 0 for every other backend. *)
PromoteTrafficBackend(b) ==
    /\ b \in RouteBackends(Production)
    /\ UpdateTrafficWeights([d \in RouteBackends(Production) |-> IF d = b THEN 100 ELSE 0])

UserSync ==
    /\ user = "sync"
    /\ SyncTrafficRoute(Production)
    /\ user' = "idle"
    /\ UNCHANGED <<deployVars, be, ensVars, drain, archVars, edge, ops, orderly>>

-----------------------------------------------------------------------------
(* The control plane restarts: promotions, timers and archivers are gone and
   nothing starts them again. *)
ControlPlaneRestarts ==
    /\ Restarts
    /\ orderly' = (orderly /\ \A e \in Envs : Promoting(e) = {})
    /\ calm' = (calm /\ Quiet)
    /\ ens' = [d \in Deployments |-> IF ens[d] = "done" THEN "done" ELSE "none"]
    /\ todo' = [d \in Deployments |-> {}]
    /\ demoted' = {} /\ drain' = {}
    /\ arch' = [d \in Deployments |-> "none"]
    /\ rows' = [d \in Deployments |-> {}]
    /\ kept' = [d \in Deployments |-> {}]
    /\ user' = "idle"
    /\ UNCHANGED <<deployVars, be, edgeVars, ops>>

Next ==
    \/ \E e \in Envs : TriggerDeploy(e) \/ Rollback(e)
    \/ \E d \in Deployments :
        \/ BecomeHealthy(d)
        \/ EnsureList(d) \/ EnsureUpsert(d) \/ EnsureSync(d)
        \/ \E k \in Deployments : EnsureDemote(d, k)
        \/ StopSupersededContainers(d)
        \/ ArchiveList(d) \/ ArchiveTags(d) \/ ArchiveRow(d)
        \/ PromoteTrafficBackend(d)
    \/ \E c \in flight : ApplyRoute(c)
    \/ \E w \in UNION {[D -> Weights] : D \in SUBSET RouteBackends(Production)} :
        UpdateTrafficWeights(w)
    \/ UserSync
    \/ ControlPlaneRestarts

(* Goroutines that can run are scheduled, timers fire, and the edge works off
   the commands it was sent. *)
Fairness ==
    /\ \A d \in Deployments :
        /\ WF_vars(EnsureList(d)) /\ WF_vars(EnsureUpsert(d))
        /\ WF_vars(\E k \in Deployments : EnsureDemote(d, k))
        /\ WF_vars(EnsureSync(d))
        /\ WF_vars(StopSupersededContainers(d))
        /\ WF_vars(ArchiveList(d)) /\ WF_vars(ArchiveTags(d)) /\ WF_vars(ArchiveRow(d))
    /\ \A c \in SUBSET Deployments : WF_vars(ApplyRoute(c))
    /\ WF_vars(UserSync)

Spec == Init /\ [][Next]_vars

FairSpec == Spec /\ Fairness

-----------------------------------------------------------------------------
ActiveBackends(e) ==
    {d \in RouteBackends(e) : be[d].status = "active" /\ be[d].weight > 0}

(* Auto-promotion: as long as the deployments of an environment are promoted
   one at a time and in the order they were created, each promotion leaves
   exactly one backend that gets traffic, the newest one, and the deployment
   of that backend counts as healthy, whatever drain timers, archivers and
   rollbacks of earlier promotions do in the meantime. *)
OrderlyPromotion ==
    \A e \in Envs :
        orderly /\ Promoting(e) = {} /\ Promoted(e) # {} =>
            LET newest == Max(Promoted(e))
            IN  \/ ActiveBackends(e) = {newest} /\ st[newest] = "healthy"
                \/ Cardinality({d \in Deployments : d > newest /\ envOf[d] = e /\ Live(d)}) >= 2

(* What a rollout is for.  As long as each deployment becomes healthy when the
   promotion, drain, archival and route command of the last one are over, in
   one environment, in created_at order, with no weights changed by hand and
   no route command lost: whenever all is quiet the edge routes to the newest
   promoted deployment and to nothing else, and that one is on record as
   healthy and runs, although the drain and the archiver work from their own
   lists of the app's rows. *)
EdgeServesNewest ==
    calm /\ Quiet =>
        \A d \in Deployments :
            ens[d] = "done" /\ (\A k \in Deployments : ens[k] = "done" => k <= d) =>
                edge = {d} /\ st[d] = "healthy" /\ tgt[d] = "healthy" /\ d \in running

(* When a deployment has become healthy the edge routes to it at some later
   time, unless it is superseded, archived or stopped, or an operator takes
   its weight away, first. *)
PromotedGetsRoute ==
    \A d \in Deployments :
        ens[d] = "list" ~> \/ d \in edge
                           \/ st[d] # "healthy" \/ tgt[d] = "stopped"
                           \/ be[d] # NoRow /\ be[d].weight = 0

-----------------------------------------------------------------------------
(* Statements of the repository that the code does not keep. *)

(* "StopSupersededContainers then tears down the old containers after a short
   drain" (EnsureTrafficForDeployment). *)
OldContainersTornDown ==
    \A d \in Deployments : st[d] = "superseded" ~> d \notin running
=============================================================================
