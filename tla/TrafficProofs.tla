---------------------------- MODULE TrafficProofs ----------------------------
(***************************************************************************)
(* For any number of deployments, environments and traffic API calls:       *)
(* rows, goroutines and commands keep their types; promotions that are one  *)
(* at a time and in order leave the newest deployment, and only that one,   *)
(* with traffic; and when each begins after all work of the last is over,   *)
(* the edge ends up routing to it, and it runs.                             *)
(*                                                                          *)
(* Three snapshots are taken by one goroutine and used later, while others  *)
(* change the rows: a promotion's list of backends, an archiver's list of   *)
(* rows, and the command on its way to the edge.  The invariant says what   *)
(* stays true of each.  That an archiver's list is still harmless when it   *)
(* is worked off rests on Outlived: a deployment with two newer live ones   *)
(* keeps two, since whatever archives one of them needs two newer ones yet. *)
(* That a drain stops nothing that serves rests on InHand: no deployment    *)
(* but the newest is on record as healthy when the drain makes its list.    *)
(***************************************************************************)
EXTENDS Traffic, FiniteSetTheorems, WellFoundedInduction, TLAPS

(* Two newer deployments of d's environment are healthy or superseded. *)
Newer(d) == {k \in Deployments : k > d /\ envOf[k] = envOf[d] /\ Live(k)}
Outlived(d) == \E a, b \in Newer(d) : a # b

(* Rows appear in order: a deployment gets its tag with its row, its promotion
   when it is healthy, and its backend in the promotion's second step.  Until
   then nothing but an archiver touches it. *)
RowOrder ==
    \A d \in Deployments :
        /\ st[d] # "none" => tag[d] \in Deployments
        /\ st[d] \in {"none", "deploying"} => ens[d] = "none" /\ be[d] = NoRow
        /\ ens[d] \in {"list", "upsert"} =>
              be[d] = NoRow /\ (st[d] = "healthy" \/ Outlived(d))

(* What a promotion and an archiver have listed, and still will when they get
   to it. *)
Listed ==
    \A d \in Deployments :
        /\ \A k \in todo[d] : /\ k # d /\ envOf[k] = envOf[d]
                              /\ st[d] # "none" /\ st[k] # "none"
        /\ \A r \in rows[d] : st[r] # "none" /\ Outlived(r)
        /\ arch[d] \in {"tags", "prune"} => rows[d] # {}

(* A promotion under way is the only one and the newest of its environment, and
   it has listed every backend that it has to demote; one that is done is the
   only active backend until the next one begins. *)
InCharge(d) == Outlived(d) \/ (st[d] = "healthy" /\ d \in ActiveBackends(envOf[d]))

Duty(d) ==
    /\ ens[d] = "upsert" => RouteBackends(envOf[d]) \subseteq todo[d]
    /\ ens[d] = "demote" =>
          ActiveBackends(envOf[d]) \subseteq todo[d] \cup {d} /\ InCharge(d)
    /\ ens[d] \in {"upsert", "demote"} =>
          /\ Promoting(envOf[d]) \subseteq {d}
          /\ \A k \in Promoted(envOf[d]) : k < d
    /\ (ens[d] = "done" /\ Promoting(envOf[d]) = {}
          /\ \A k \in Promoted(envOf[d]) : k <= d) =>
          Outlived(d) \/ (ActiveBackends(envOf[d]) = {d} /\ st[d] = "healthy")

OneAtATime == orderly => \A d \in Deployments : Duty(d)

(* Promotions that begin when the last is over.  Of the older ones nothing is
   left to do; the newest one is healthy, has every other healthy deployment
   on its list until it has demoted them all, and then only its own command
   is on the way to the edge. *)
Newest(n) == ens[n] # "none" /\ \A k \in Deployments : ens[k] # "none" => k <= n

Over(k) == ens[k] = "done" /\ k \notin drain /\ arch[k] = "none"

InHand(n) ==
    /\ st[n] = "healthy" /\ tgt[n] = "healthy" /\ n \in running
    /\ ens[n] \in {"demote", "done"} => be[n] = [weight |-> 100, status |-> "active"]
    /\ ens[n] # "done" => flight = {} /\ n \notin drain /\ arch[n] = "none"
    /\ ens[n] \in {"upsert", "demote"} =>
          \A k \in Deployments : k # n /\ st[k] = "healthy" => k \in todo[n]
    /\ ens[n] = "done" =>
          /\ \A k \in Deployments : st[k] = "healthy" => k = n
          /\ flight \subseteq {{n}} /\ (flight = {} => edge = {n})

Turn ==
    /\ user = "idle"
    /\ \A k \in Deployments :
          /\ Live(k) \/ be[k] # NoRow => ens[k] # "none"
          /\ st[k] = "healthy" /\ ens[k] \in {"demote", "done"} => be[k] # NoRow
          /\ ens[k] = "none" => k \notin drain /\ arch[k] = "none"
    /\ \A k, n \in Deployments :
          ens[k] # "none" /\ ens[n] # "none" /\ k < n => Over(k) /\ envOf[k] = envOf[n]
    /\ \A n \in Deployments : Newest(n) => InHand(n)

InTurn == calm => Turn

IInv == TypeOK /\ RowOrder /\ Listed /\ OneAtATime /\ InTurn

-----------------------------------------------------------------------------
(* Every non-empty set of naturals has a least element. *)
LEMMA LeastNatural ==
    ASSUME NEW S \in SUBSET Nat, S # {}
    PROVE  \E x \in S : \A y \in S : x <= y
<1>1. PICK x \in S : \A y \in S : ~ (<<y, x>> \in OpToRel(<, Nat))
  BY NatLessThanWellFounded, WFMin
<1>2. \A y \in S : ~ (y < x)
  BY <1>1 DEF OpToRel
<1> QED BY <1>2

(* A non-empty set of deployments has an oldest and a newest member. *)
LEMMA MinDeployment ==
    ASSUME NEW S \in SUBSET Deployments, S # {}
    PROVE  Min(S) \in S /\ \A y \in S : Min(S) <= y
<1>1. \E x \in S : \A y \in S : x =< y
  BY LeastNatural, TrafficAssumption DEF Deployments
<1> QED BY <1>1 DEF Min

LEMMA MaxDeployment ==
    ASSUME NEW S \in SUBSET Deployments, S # {}
    PROVE  Max(S) \in S /\ \A y \in S : Max(S) >= y
<1> DEFINE U == {u \in Nat : \A y \in S : y <= u}
<1>1. MaxDeployments \in U
  BY TrafficAssumption DEF Deployments
<1>2. PICK u \in U : \A v \in U : u <= v
  <2> HIDE DEF U
  <2>1. U \in SUBSET Nat /\ U # {}
    BY <1>1 DEF U
  <2> QED BY <2>1, LeastNatural
<1>3. u \in S
  <2> SUFFICES ASSUME u \notin S PROVE FALSE
    OBVIOUS
  <2>1. PICK y \in S : TRUE
    OBVIOUS
  <2>2. y \in Nat /\ y >= 1 /\ y <= u /\ u \in Nat
    BY <1>2 DEF Deployments
  <2>3. \A z \in S : z \in Nat /\ z <= u /\ z # u
    BY <1>2 DEF Deployments
  <2>4. u - 1 \in U
    BY <2>2, <2>3
  <2> QED BY <2>2, <2>4, <1>2
<1>4. \A y \in S : u >= y
  BY <1>2
<1> QED BY <1>3, <1>4 DEF Max

(* Two members are what a cardinality of two or more amounts to. *)
LEMMA AtLeastTwo ==
    ASSUME NEW S \in SUBSET Deployments
    PROVE  Cardinality(S) >= 2 <=> \E a, b \in S : a # b
<1>1. IsFiniteSet(S)
  <2>1. IsFiniteSet(1..MaxDeployments)
    BY FS_Interval, TrafficAssumption
  <2> QED BY <2>1, FS_Subset DEF Deployments
<1>2. Cardinality(S) \in Nat /\ (Cardinality(S) = 0 <=> S = {})
  BY <1>1, FS_CardinalityType, FS_EmptySet
<1>3. \A a \in S : /\ Cardinality(S \ {a}) \in Nat
                   /\ Cardinality(S \ {a}) = Cardinality(S) - 1
                   /\ Cardinality(S \ {a}) = 0 <=> S \ {a} = {}
  <2> SUFFICES ASSUME NEW a \in S
               PROVE  /\ Cardinality(S \ {a}) \in Nat
                      /\ Cardinality(S \ {a}) = Cardinality(S) - 1
                      /\ Cardinality(S \ {a}) = 0 <=> S \ {a} = {}
    OBVIOUS
  <2>1. IsFiniteSet(S \ {a}) /\ Cardinality(S \ {a}) = Cardinality(S) - 1
    BY <1>1, FS_RemoveElement
  <2> QED BY <2>1, FS_CardinalityType, FS_EmptySet
<1>4. ASSUME Cardinality(S) >= 2 PROVE \E a, b \in S : a # b
  <2>0. S # {}
    BY <1>2, <1>4
  <2>1. PICK a \in S : TRUE
    BY <2>0
  <2>2. Cardinality(S \ {a}) # 0
    BY <1>2, <1>3, <1>4
  <2>3. PICK b \in S \ {a} : TRUE
    BY <1>3, <2>2
  <2> QED BY <2>1, <2>3
<1>5. ASSUME NEW a \in S, NEW b \in S, a # b PROVE Cardinality(S) >= 2
  <2>1. b \in S \ {a}
    BY <1>5
  <2>2. Cardinality(S \ {a}) # 0
    BY <1>3, <2>1
  <2> QED BY <1>2, <1>3, <2>2
<1> QED BY <1>4, <1>5

-----------------------------------------------------------------------------
USE DEF deployVars, ensVars, archVars, edgeVars, userVars, history

(* The initial states satisfy the invariant. *)
LEMMA InitIInv == Init => IInv
<1> SUFFICES ASSUME Init PROVE IInv
  OBVIOUS
<1>1. TypeOK
  BY TrafficAssumption DEF Init, TypeOK
<1>2. RowOrder /\ Listed
  BY DEF Init, RowOrder, Listed
<1>3. OneAtATime
  BY DEF Init, OneAtATime, Duty
<1>4. InTurn
  BY DEF Init, InTurn, Turn, Newest, Live
<1> QED BY <1>1, <1>2, <1>3, <1>4 DEF IInv

(* What Rollback deploys again is a tag on record. *)
LEMMA RollbackTag ==
    ASSUME TypeOK, RowOrder, NEW e \in Envs, Rollback(e)
    PROVE  \E t \in Deployments : CreateDeployment(e, t)
<1> DEFINE S == {d \in Deployments : st[d] = "superseded" /\ envOf[d] = e}
<1>1. S # {} /\ CreateDeployment(e, tag[Max(S)])
  BY DEF Rollback
<1>2. Max(S) \in S
  BY <1>1, MaxDeployment
<1>3. tag[Max(S)] \in Deployments
  BY <1>2 DEF RowOrder
<1> QED BY <1>1, <1>3

(* CreateDeployment fills in the row of one deployment that had none. *)
LEMMA CreateEffect ==
    ASSUME TypeOK, NEW e \in Envs, NEW t \in Deployments \cup {0}, CreateDeployment(e, t)
    PROVE  \E d \in Deployments :
             /\ st[d] = "none" /\ st' = [st EXCEPT ![d] = "deploying"]
             /\ envOf' = [envOf EXCEPT ![d] = e]
             /\ \E n \in Deployments : tag' = [tag EXCEPT ![d] = n]
             /\ images' \in SUBSET Deployments /\ onEdge' \in SUBSET Deployments
             /\ UNCHANGED <<tgt, running, be, ensVars, drain, archVars, edgeVars, userVars, history>>
<1>1. PICK d \in Deployments :
        /\ st[d] = "none" /\ st' = [st EXCEPT ![d] = "deploying"]
        /\ envOf' = [envOf EXCEPT ![d] = e]
        /\ tag' = [tag EXCEPT ![d] = IF t = 0 THEN d ELSE t]
        /\ images' = IF t = 0 THEN images \cup {d} ELSE images
        /\ onEdge' = onEdge \/ onEdge' = onEdge \cup {d}
        /\ UNCHANGED <<tgt, running, be, ensVars, drain, archVars, edgeVars, userVars, history>>
  BY DEF CreateDeployment
<1>2. (IF t = 0 THEN d ELSE t) \in Deployments
  OBVIOUS
<1>3. images' \in SUBSET Deployments /\ onEdge' \in SUBSET Deployments
  BY <1>1 DEF TypeOK
<1> QED BY <1>1, <1>2, <1>3

(* Every step that creates a deployment is one of these. *)
LEMMA CreateStep ==
    ASSUME TypeOK, RowOrder, NEW e \in Envs, TriggerDeploy(e) \/ Rollback(e)
    PROVE  \E t \in Deployments \cup {0} : CreateDeployment(e, t)
BY RollbackTag DEF TriggerDeploy

(* The row that an archiver works on is one that it has listed. *)
LEMMA ArchivedRow ==
    ASSUME TypeOK, Listed, NEW d \in Deployments, arch[d] = "prune"
    PROVE  Min(rows[d]) \in rows[d]
<1>1. rows[d] # {} /\ rows[d] \in SUBSET Deployments
  BY DEF TypeOK, Listed
<1> QED BY <1>1, MinDeployment

(* A sync sends the backends that qualify, unless there are none, or the send
   fails. *)
LEMMA SyncEffect ==
    ASSUME TypeOK, NEW e, SyncTrafficRoute(e)
    PROVE  LET G == {d \in ListTrafficBackendsForSync(e) : tgt[d] = "healthy"}
           IN  /\ G \in SUBSET Deployments
               /\ flight' \subseteq SUBSET Deployments /\ calm' \in BOOLEAN /\ (calm' => calm)
               /\ calm' => flight' = IF G = {} THEN flight ELSE flight \cup {G}
<1> DEFINE G == {d \in ListTrafficBackendsForSync(e) : tgt[d] = "healthy"}
<1>1. G \in SUBSET Deployments
  BY DEF ListTrafficBackendsForSync, RouteBackends
<1>2. \/ flight' = (IF G = {} THEN flight ELSE flight \cup {G}) /\ calm' = calm
      \/ flight' = flight /\ calm' = FALSE
  BY DEF SyncTrafficRoute
<1> HIDE DEF G
<1>3. flight' \subseteq SUBSET Deployments
  BY <1>1, <1>2 DEF TypeOK
<1>4. calm' \in BOOLEAN /\ (calm' => calm)
  <2>1. calm \in BOOLEAN
    BY DEF TypeOK
  <2>2. CASE calm' = calm
    BY <2>1, <2>2
  <2>3. CASE calm' = FALSE
    BY <2>3
  <2> QED BY <1>2, <2>2, <2>3
<1> QED BY <1>1, <1>2, <1>3, <1>4 DEF G

(* A new weight leaves a backend row a backend row. *)
LEMMA WeightsEffect ==
    ASSUME TypeOK, NEW w, DOMAIN w \subseteq Deployments,
           \A d \in DOMAIN w : w[d] \in Weights, UpdateTrafficWeights(w)
    PROVE  /\ be' \in [Deployments -> Backend \cup {NoRow}]
           /\ \A d \in Deployments : be'[d] = NoRow <=> be[d] = NoRow
           /\ user' = "sync" /\ ops' \in 0..MaxUserOps /\ orderly' = FALSE
           /\ calm' = FALSE /\ UNCHANGED <<deployVars, ensVars, drain, archVars, edgeVars>>
<1>1. \A d \in DOMAIN w : be[d] # NoRow
  BY DEF UpdateTrafficWeights, RouteBackends
<1>2. \A d \in DOMAIN w : be[d] \in Backend /\ [be[d] EXCEPT !.weight = w[d]] \in Backend
  BY <1>1 DEF TypeOK, Backend
<1>3. NoRow \notin Backend
  BY TrafficAssumption DEF Backend, Weights
<1>4. be' = [d \in Deployments |->
               IF d \in DOMAIN w THEN [be[d] EXCEPT !.weight = w[d]] ELSE be[d]]
  BY DEF UpdateTrafficWeights
<1>5. be' \in [Deployments -> Backend \cup {NoRow}]
  BY <1>2, <1>4 DEF TypeOK
<1>6. \A d \in Deployments : be'[d] = NoRow <=> be[d] = NoRow
  BY <1>1, <1>2, <1>3, <1>4
<1>7. ops' \in 0..MaxUserOps
  BY TrafficAssumption DEF UpdateTrafficWeights, TypeOK
<1> QED BY <1>5, <1>6, <1>7 DEF UpdateTrafficWeights

(* The calls of the traffic API change weights only. *)
LEMMA UserStep ==
    ASSUME TypeOK,
           \/ \E b \in Deployments : PromoteTrafficBackend(b)
           \/ \E w \in UNION {[D -> Weights] : D \in SUBSET RouteBackends(Production)} :
                UpdateTrafficWeights(w)
    PROVE  /\ be' \in [Deployments -> Backend \cup {NoRow}]
           /\ \A d \in Deployments : be'[d] = NoRow <=> be[d] = NoRow
           /\ user' = "sync" /\ ops' \in 0..MaxUserOps /\ orderly' = FALSE
           /\ calm' = FALSE /\ UNCHANGED <<deployVars, ensVars, drain, archVars, edgeVars>>
<1>1. RouteBackends(Production) \subseteq Deployments
  BY DEF RouteBackends
<1>2. CASE \E b \in Deployments : PromoteTrafficBackend(b)
  <2>1. PICK b \in Deployments : PromoteTrafficBackend(b)
    BY <1>2
  <2> DEFINE w == [d \in RouteBackends(Production) |-> IF d = b THEN 100 ELSE 0]
  <2>2. UpdateTrafficWeights(w)
    BY <2>1 DEF PromoteTrafficBackend
  <2>3. DOMAIN w \subseteq Deployments /\ \A d \in DOMAIN w : w[d] \in Weights
    BY <1>1 DEF Weights
  <2> HIDE DEF w
  <2> QED BY <2>2, <2>3, WeightsEffect
<1>3. CASE \E w \in UNION {[D -> Weights] : D \in SUBSET RouteBackends(Production)} :
             UpdateTrafficWeights(w)
  <2>1. PICK D \in SUBSET RouteBackends(Production) :
          \E w \in [D -> Weights] : UpdateTrafficWeights(w)
    BY <1>3
  <2>3. PICK w \in [D -> Weights] : UpdateTrafficWeights(w)
    BY <2>1
  <2>2. DOMAIN w \subseteq Deployments /\ \A d \in DOMAIN w : w[d] \in Weights
    BY <1>1, <2>3
  <2> QED BY <2>3, <2>2, WeightsEffect
<1> QED BY <1>2, <1>3

-----------------------------------------------------------------------------
(* Every step preserves type correctness. *)
LEMMA NextTypeOK ==
    ASSUME TypeOK, RowOrder, Listed, [Next]_vars
    PROVE  TypeOK'
<1>1. CASE \E e \in Envs : TriggerDeploy(e) \/ Rollback(e)
  <2>1. PICK e \in Envs, t \in Deployments \cup {0} : CreateDeployment(e, t)
    BY <1>1, CreateStep
  <2> QED BY <2>1, CreateEffect DEF TypeOK
<1>2. ASSUME NEW d \in Deployments, BecomeHealthy(d) PROVE TypeOK'
  <2>1. calm' \in BOOLEAN
    BY <1>2 DEF BecomeHealthy
  <2> QED BY <1>2, <2>1 DEF BecomeHealthy, TypeOK
<1>3. ASSUME NEW d \in Deployments, EnsureList(d) PROVE TypeOK'
  <2>1. RouteBackends(envOf[d]) \ {d} \in SUBSET Deployments
    BY DEF RouteBackends
  <2>2. todo' \in [Deployments -> SUBSET Deployments]
    BY <1>3, <2>1 DEF EnsureList, TypeOK
  <2>3. orderly' \in BOOLEAN
    BY <1>3 DEF EnsureList
  <2> QED BY <1>3, <2>2, <2>3 DEF EnsureList, TypeOK
<1>4. ASSUME NEW d \in Deployments, EnsureUpsert(d) PROVE TypeOK'
  <2>1. [weight |-> 100, status |-> "active"] \in Backend
    BY DEF Backend, Weights
  <2> QED BY <1>4, <2>1 DEF EnsureUpsert, TypeOK
<1>5. ASSUME NEW d \in Deployments, EnsureSync(d) PROVE TypeOK'
  <2>1. flight' \subseteq SUBSET Deployments /\ calm' \in BOOLEAN
    BY <1>5, SyncEffect DEF EnsureSync, TypeOK
  <2> QED BY <1>5, <2>1 DEF EnsureSync, TypeOK
<1>6. ASSUME NEW d \in Deployments, NEW k \in Deployments, EnsureDemote(d, k) PROVE TypeOK'
  <2>1. [weight |-> 0, status |-> "draining"] \in Backend
    BY DEF Backend, Weights
  <2> QED BY <1>6, <2>1 DEF EnsureDemote, TypeOK
<1>7. ASSUME NEW d \in Deployments, StopSupersededContainers(d) PROVE TypeOK'
  <2>1. tgt' \in [Deployments -> {"none", "healthy", "stopped"}] /\ running' \subseteq Deployments
    BY <1>7 DEF StopSupersededContainers, StopContainers, TypeOK
  <2>2. flight' \subseteq SUBSET Deployments
    BY <1>7 DEF StopSupersededContainers, StopContainers, TypeOK
  <2> QED BY <1>7, <2>1, <2>2 DEF StopSupersededContainers, StopContainers, TypeOK
<1>8. ASSUME NEW d \in Deployments, ArchiveList(d) PROVE TypeOK'
  <2>1. ListArchivableDeployments(envOf[d]) \in SUBSET Deployments
    BY DEF ListArchivableDeployments
  <2> QED BY <1>8, <2>1 DEF ArchiveList, TypeOK
<1>9. ASSUME NEW d \in Deployments, ArchiveTags(d) PROVE TypeOK'
  <2>1. ListKeptImageTags(envOf[d]) \in SUBSET Deployments
    BY DEF ListKeptImageTags, Live, RowOrder
  <2> QED BY <1>9, <2>1 DEF ArchiveTags, TypeOK
<1>10. ASSUME NEW d \in Deployments, ArchiveRow(d) PROVE TypeOK'
  <2> DEFINE r == Min(rows[d])
  <2>1. r \in Deployments
    BY <1>10, ArchivedRow DEF ArchiveRow, TypeOK
  <2> HIDE DEF r
  <2>2. /\ be' = [be EXCEPT ![r] = NoRow] /\ st' = [st EXCEPT ![r] = "archived"]
        /\ images' \subseteq images /\ rows' = [rows EXCEPT ![d] = @ \ {r}]
        /\ arch' = [arch EXCEPT ![d] = IF rows'[d] = {} THEN "none" ELSE "prune"]
        /\ kept' = [kept EXCEPT ![d] = IF rows'[d] = {} THEN {} ELSE @]
        /\ UNCHANGED <<envOf, tag, tgt, onEdge, running, ensVars, drain, edgeVars, userVars, history>>
    BY <1>10 DEF ArchiveRow, r
  <2> QED BY <2>1, <2>2 DEF TypeOK
<1>11. CASE \/ \E b \in Deployments : PromoteTrafficBackend(b)
            \/ \E w \in UNION {[D -> Weights] : D \in SUBSET RouteBackends(Production)} :
                 UpdateTrafficWeights(w)
  BY <1>11, UserStep DEF TypeOK
<1>12. ASSUME NEW c \in flight, ApplyRoute(c) PROVE TypeOK'
  BY <1>12 DEF ApplyRoute, TypeOK
<1>13. CASE UserSync
  <2>1. flight' \subseteq SUBSET Deployments /\ calm' \in BOOLEAN
    BY <1>13, SyncEffect DEF UserSync, TypeOK
  <2> QED BY <1>13, <2>1 DEF UserSync, TypeOK
<1>14. CASE ControlPlaneRestarts
  <2>1. orderly' \in BOOLEAN /\ calm' \in BOOLEAN
    BY <1>14 DEF ControlPlaneRestarts
  <2> QED BY <1>14, <2>1 DEF ControlPlaneRestarts, TypeOK
<1>15. CASE UNCHANGED vars
  BY <1>15 DEF vars, TypeOK
<1> QED BY <1>1, <1>2, <1>3, <1>4, <1>5, <1>6, <1>7, <1>8, <1>9, <1>10, <1>11, <1>12,
           <1>13, <1>14, <1>15 DEF Next

-----------------------------------------------------------------------------
(* The steps that matter to the rows and to what has been listed of them: a
   creation, a call of the traffic API, the steps of a promotion, those of an
   archiver, a restart, and all others. *)
Created(d, e) ==
    /\ st[d] = "none" /\ st' = [st EXCEPT ![d] = "deploying"]
    /\ envOf' = [envOf EXCEPT ![d] = e]
    /\ \E n \in Deployments : tag' = [tag EXCEPT ![d] = n]
    /\ UNCHANGED <<tgt, running, be, ensVars, drain, archVars, edgeVars, userVars, history>>

Archived(d, r) ==
    /\ r \in rows[d] /\ arch[d] = "prune"
    /\ be' = [be EXCEPT ![r] = NoRow] /\ st' = [st EXCEPT ![r] = "archived"]
    /\ rows' = [rows EXCEPT ![d] = @ \ {r}]
    /\ arch' = [arch EXCEPT ![d] = IF rows'[d] = {} THEN "none" ELSE "prune"]
    /\ UNCHANGED <<envOf, tag, tgt, running, ens, todo, drain, edgeVars, userVars, history>>

Reweighted ==
    /\ \A d \in Deployments : be'[d] = NoRow <=> be[d] = NoRow
    /\ orderly' = FALSE /\ calm' = FALSE
    /\ UNCHANGED <<st, envOf, tag, ens, todo, rows, arch>>

Aside ==
    /\ UNCHANGED <<st, envOf, tag, be, ens, todo, rows, orderly>>
    /\ \A d \in Deployments : arch'[d] # arch[d] => arch[d] = "tags"

(* TriggerDeploy and Rollback create a deployment. *)
LEMMA CreatedStep ==
    ASSUME TypeOK, RowOrder, NEW e \in Envs, TriggerDeploy(e) \/ Rollback(e)
    PROVE  \E d \in Deployments : Created(d, e)
<1>1. PICK t \in Deployments \cup {0} : CreateDeployment(e, t)
  BY CreateStep
<1> QED BY <1>1, CreateEffect DEF Created

(* An archiver works on a row that it has listed. *)
LEMMA ArchiveRowStep ==
    ASSUME TypeOK, Listed, NEW d \in Deployments, ArchiveRow(d)
    PROVE  \E r \in Deployments : Archived(d, r)
<1> DEFINE r == Min(rows[d])
<1>1. r \in rows[d] /\ r \in Deployments
  BY ArchivedRow DEF ArchiveRow, TypeOK
<1> HIDE DEF r
<1>2. Archived(d, r)
  BY <1>1 DEF ArchiveRow, Archived, r
<1> QED BY <1>1, <1>2

(* Every step is one of these. *)
LEMMA StepCases ==
    ASSUME TypeOK, RowOrder, Listed, [Next]_vars
    PROVE  \/ \E d \in Deployments, e \in Envs : Created(d, e)
           \/ \E d \in Deployments :
                BecomeHealthy(d) \/ EnsureList(d) \/ EnsureUpsert(d) \/ EnsureSync(d)
           \/ \E d, k \in Deployments : EnsureDemote(d, k)
           \/ \E d \in Deployments : ArchiveList(d)
           \/ \E d, r \in Deployments : Archived(d, r)
           \/ Reweighted
           \/ ControlPlaneRestarts
           \/ Aside
<1>1. CASE \E e \in Envs : TriggerDeploy(e) \/ Rollback(e)
  BY <1>1, CreatedStep
<1>2. ASSUME NEW d \in Deployments, ArchiveRow(d)
      PROVE  \E r \in Deployments : Archived(d, r)
  BY <1>2, ArchiveRowStep
<1>3. CASE \/ \E b \in Deployments : PromoteTrafficBackend(b)
           \/ \E w \in UNION {[D -> Weights] : D \in SUBSET RouteBackends(Production)} :
                UpdateTrafficWeights(w)
  BY <1>3, UserStep DEF Reweighted
<1>4. ASSUME NEW d \in Deployments, StopSupersededContainers(d) \/ ArchiveTags(d) PROVE Aside
  BY <1>4 DEF StopSupersededContainers, StopContainers, ArchiveTags, Aside, TypeOK
<1>5. ASSUME NEW c \in flight, ApplyRoute(c) PROVE Aside
  BY <1>5 DEF ApplyRoute, Aside
<1>6. CASE UserSync
  BY <1>6 DEF UserSync, Aside
<1>7. CASE UNCHANGED vars
  BY <1>7 DEF vars, Aside
<1> QED BY <1>1, <1>2, <1>3, <1>4, <1>5, <1>6, <1>7 DEF Next

(* A deployment keeps its environment. *)
LEMMA RowsStay ==
    ASSUME TypeOK, RowOrder, Listed, [Next]_vars, NEW x \in Deployments, st[x] # "none"
    PROVE  st'[x] # "none" /\ envOf'[x] = envOf[x]
<1>1. CASE \E d \in Deployments, e \in Envs : Created(d, e)
  BY <1>1 DEF Created, TypeOK
<1>2. CASE \E d \in Deployments : BecomeHealthy(d)
  BY <1>2 DEF BecomeHealthy, TypeOK
<1>3. CASE \E d, k \in Deployments : EnsureDemote(d, k)
  BY <1>3 DEF EnsureDemote, TypeOK
<1>4. CASE \E d, r \in Deployments : Archived(d, r)
  BY <1>4 DEF Archived, TypeOK
<1>5. CASE UNCHANGED <<st, envOf>>
  BY <1>5
<1> QED BY <1>1, <1>2, <1>3, <1>4, <1>5, StepCases
       DEF EnsureList, EnsureUpsert, EnsureSync, ArchiveList, Reweighted,
           ControlPlaneRestarts, Aside

(* Only an archiver makes a deployment less than live, one at a time, and
   only if there are two newer ones. *)
LEMMA LiveStays ==
    ASSUME TypeOK, RowOrder, Listed, [Next]_vars, NEW x \in Deployments, Live(x)
    PROVE  \/ Live(x)'
           \/ Outlived(x) /\ \A y \in Deployments : y # x => st'[y] = st[y]
<1>1. CASE \E d, r \in Deployments : Archived(d, r)
  BY <1>1 DEF Archived, Listed, Live, TypeOK
<1>2. CASE \E d \in Deployments, e \in Envs : Created(d, e)
  BY <1>2 DEF Created, TypeOK, Live
<1>3. CASE \E d \in Deployments : BecomeHealthy(d)
  BY <1>3 DEF BecomeHealthy, TypeOK, Live
<1>4. CASE \E d, k \in Deployments : EnsureDemote(d, k)
  BY <1>4 DEF EnsureDemote, TypeOK, Live
<1>5. CASE UNCHANGED st
  BY <1>5 DEF Live
<1> QED BY <1>1, <1>2, <1>3, <1>4, <1>5, StepCases
       DEF EnsureList, EnsureUpsert, EnsureSync, ArchiveList, Reweighted,
           ControlPlaneRestarts, Aside

(* A deployment with two newer live ones keeps two. *)
LEMMA OutlivedStays ==
    ASSUME TypeOK, RowOrder, Listed, [Next]_vars, NEW x \in Deployments,
           st[x] # "none", Outlived(x)
    PROVE  Outlived(x)'
<1>1. PICK a \in Newer(x), b \in Newer(x) : a # b
  BY DEF Outlived
<1>2. \A y \in Newer(x) : /\ y \in Deployments /\ y > x /\ Live(y)
                           /\ envOf'[y] = envOf'[x] /\ envOf[y] = envOf[x]
  BY RowsStay DEF Newer, Live
<1>3. ASSUME NEW y \in Newer(x), ~ Live(y)' PROVE Outlived(x)'
  <2>1. Outlived(y) /\ \A z \in Deployments : z # y => st'[z] = st[z]
    BY <1>2, <1>3, LiveStays
  <2>2. PICK u \in Newer(y), v \in Newer(y) : u # v
    BY <2>1 DEF Outlived
  <2>3. \A z \in Newer(y) : z \in Deployments /\ z > y /\ Live(z)' /\ envOf'[z] = envOf'[y]
    <3> SUFFICES ASSUME NEW z \in Newer(y)
                 PROVE  z \in Deployments /\ z > y /\ Live(z)' /\ envOf'[z] = envOf'[y]
      OBVIOUS
    <3>1. z \in Deployments /\ z > y /\ z # y /\ Live(z) /\ envOf[z] = envOf[y]
      BY <1>2 DEF Newer, Deployments
    <3>2. envOf'[z] = envOf[z] /\ envOf'[y] = envOf[y]
      BY <3>1, <1>2, RowsStay DEF Live
    <3> QED BY <2>1, <3>1, <3>2 DEF Live
  <2>4. \A z \in Newer(y) : z \in Newer(x)'
    BY <1>2, <1>3, <2>3 DEF Newer, Deployments
  <2> QED BY <2>2, <2>4 DEF Outlived
<1>4. ASSUME Live(a)', Live(b)' PROVE Outlived(x)'
  <2>1. a \in Newer(x)' /\ b \in Newer(x)'
    BY <1>2, <1>4 DEF Newer
  <2> QED BY <1>1, <2>1 DEF Outlived
<1> QED BY <1>3, <1>4

-----------------------------------------------------------------------------
(* What an archiver lists has two newer live deployments. *)
LEMMA ArchivableIsOutlived ==
    ASSUME NEW e, NEW r \in ListArchivableDeployments(e)
    PROVE  r \in Deployments /\ Live(r) /\ Outlived(r)
<1>1. /\ r \in Deployments /\ Live(r) /\ envOf[r] = e
      /\ Cardinality({k \in Deployments : Live(k) /\ envOf[k] = e /\ k > r}) >= 2
  BY DEF ListArchivableDeployments
<1>2. {k \in Deployments : Live(k) /\ envOf[k] = e /\ k > r} = Newer(r)
  BY <1>1 DEF Newer
<1>3. Newer(r) \in SUBSET Deployments
  BY DEF Newer
<1> QED BY <1>1, <1>2, <1>3, AtLeastTwo DEF Outlived

(* Every step preserves the order of the rows. *)
LEMMA NextRowOrder ==
    ASSUME TypeOK, RowOrder, Listed, [Next]_vars
    PROVE  RowOrder'
<1> SUFFICES ASSUME NEW x \in Deployments
             PROVE  /\ st'[x] # "none" => tag'[x] \in Deployments
                    /\ st'[x] \in {"none", "deploying"} => ens'[x] = "none" /\ be'[x] = NoRow
                    /\ ens'[x] \in {"list", "upsert"} =>
                          be'[x] = NoRow /\ (st'[x] = "healthy" \/ Outlived(x)')
  BY DEF RowOrder
<1>1. st[x] # "none" /\ Outlived(x) => Outlived(x)'
  BY OutlivedStays
<1>2. /\ st[x] # "none" => tag[x] \in Deployments
      /\ st[x] \in {"none", "deploying"} => ens[x] = "none" /\ be[x] = NoRow
      /\ ens[x] \in {"list", "upsert"} =>
            be[x] = NoRow /\ st[x] # "none" /\ (st[x] = "healthy" \/ Outlived(x))
  BY DEF RowOrder
<1>3. CASE \E d \in Deployments, e \in Envs : Created(d, e)
  BY <1>1, <1>2, <1>3 DEF Created, TypeOK
<1>4. CASE \E d \in Deployments : BecomeHealthy(d)
  BY <1>1, <1>2, <1>4 DEF BecomeHealthy, TypeOK
<1>5. CASE \E d \in Deployments : EnsureList(d)
  BY <1>1, <1>2, <1>5 DEF EnsureList, TypeOK
<1>6. CASE \E d \in Deployments : EnsureUpsert(d)
  BY <1>1, <1>2, <1>6 DEF EnsureUpsert, TypeOK
<1>7. CASE \E d \in Deployments : EnsureSync(d)
  BY <1>1, <1>2, <1>7 DEF EnsureSync, TypeOK
<1>8. CASE \E d, k \in Deployments : EnsureDemote(d, k)
  BY <1>1, <1>2, <1>8 DEF EnsureDemote, TypeOK
<1>9. CASE \E d, r \in Deployments : Archived(d, r)
  <2>1. PICK d \in Deployments, r \in Deployments : Archived(d, r)
    BY <1>9
  <2>2. Outlived(r) /\ st[r] # "none"
    BY <2>1 DEF Archived, Listed
  <2> QED BY <1>1, <1>2, <2>1, <2>2 DEF Archived, TypeOK
<1>10. CASE Reweighted
  BY <1>1, <1>2, <1>10 DEF Reweighted
<1>11. CASE ControlPlaneRestarts
  BY <1>1, <1>2, <1>11 DEF ControlPlaneRestarts
<1>12. CASE UNCHANGED <<st, tag, be, ens>>
  BY <1>1, <1>2, <1>12
<1> QED BY <1>3, <1>4, <1>5, <1>6, <1>7, <1>8, <1>9, <1>10, <1>11, <1>12, StepCases
       DEF ArchiveList, Aside

(* What has been listed stays true until it is worked off. *)
LEMMA NextListed ==
    ASSUME TypeOK, RowOrder, Listed, [Next]_vars
    PROVE  Listed'
<1> SUFFICES ASSUME NEW x \in Deployments
             PROVE  /\ \A k \in todo'[x] : /\ k # x /\ envOf'[k] = envOf'[x]
                                            /\ st'[x] # "none" /\ st'[k] # "none"
                    /\ \A r \in rows'[x] : st'[r] # "none" /\ Outlived(r)'
                    /\ arch'[x] \in {"tags", "prune"} => rows'[x] # {}
  BY DEF Listed
<1>1. todo[x] \subseteq Deployments /\ rows[x] \subseteq Deployments
  BY DEF TypeOK
<1>2. \A k \in todo[x] : /\ k # x /\ envOf'[k] = envOf'[x]
                         /\ st'[x] # "none" /\ st'[k] # "none"
  BY <1>1, RowsStay DEF Listed
<1>3. \A r \in rows[x] : st'[r] # "none" /\ Outlived(r)'
  BY <1>1, RowsStay, OutlivedStays DEF Listed
<1>4. arch[x] \in {"tags", "prune"} => rows[x] # {}
  BY DEF Listed
<1>5. CASE \E d \in Deployments : EnsureList(d)
  <2>1. PICK d \in Deployments : EnsureList(d)
    BY <1>5
  <2>2. UNCHANGED <<st, envOf, rows, arch>>
        /\ todo' = [todo EXCEPT ![d] = RouteBackends(envOf[d]) \ {d}] /\ ens[d] = "list"
    BY <2>1 DEF EnsureList
  <2>3. \A k \in RouteBackends(envOf[d]) \ {d} :
           k # d /\ envOf[k] = envOf[d] /\ st[d] # "none" /\ st[k] # "none"
    BY <2>2 DEF RouteBackends, RowOrder
  <2>4. CASE x = d
    BY <1>3, <1>4, <2>2, <2>3, <2>4 DEF TypeOK
  <2>5. CASE x # d
    BY <1>2, <1>3, <1>4, <2>2, <2>5 DEF TypeOK
  <2> QED BY <2>4, <2>5
<1>6. CASE \E d \in Deployments : ArchiveList(d)
  <2>1. PICK d \in Deployments : ArchiveList(d)
    BY <1>6
  <2> DEFINE L == ListArchivableDeployments(envOf[d])
  <2>2. /\ UNCHANGED <<st, envOf, todo>> /\ rows' = [rows EXCEPT ![d] = L]
        /\ arch' = [arch EXCEPT ![d] = IF rows'[d] = {} THEN "none" ELSE "tags"]
    BY <2>1 DEF ArchiveList
  <2>3. \A r \in L : st'[r] # "none" /\ Outlived(r)'
    <3> SUFFICES ASSUME NEW r \in L PROVE st'[r] # "none" /\ Outlived(r)'
      OBVIOUS
    <3>1. r \in Deployments /\ st[r] # "none" /\ Outlived(r)
      BY ArchivableIsOutlived DEF Live
    <3> QED BY <3>1, RowsStay, OutlivedStays
  <2> HIDE DEF L
  <2> QED BY <1>2, <1>3, <1>4, <2>2, <2>3 DEF TypeOK
<1>7. CASE \E d, r \in Deployments : Archived(d, r)
  BY <1>2, <1>3, <1>4, <1>7 DEF Archived, TypeOK
<1>8. CASE \E d, k \in Deployments : EnsureDemote(d, k)
  BY <1>2, <1>3, <1>4, <1>8 DEF EnsureDemote, TypeOK
<1>9. CASE ControlPlaneRestarts
  BY <1>9 DEF ControlPlaneRestarts
<1>10. CASE \E d \in Deployments : EnsureSync(d)
  BY <1>2, <1>3, <1>4, <1>10 DEF EnsureSync, TypeOK
<1>11. CASE Aside
  BY <1>2, <1>3, <1>4, <1>11 DEF Aside
<1>12. CASE UNCHANGED <<todo, rows, arch>>
  BY <1>2, <1>3, <1>4, <1>12
<1> QED BY <1>5, <1>6, <1>7, <1>8, <1>9, <1>10, <1>11, <1>12, StepCases
       DEF Created, BecomeHealthy, EnsureUpsert, Reweighted

-----------------------------------------------------------------------------
(* A step that leaves the rows, promotions and backends of x's environment
   alone leaves x its duty. *)
LEMMA DutyKept ==
    ASSUME NEW x \in Deployments, NEW f, Duty(x), envOf[x] = f, envOf'[x] = f,
           ens'[x] = ens[x], todo'[x] = todo[x], st'[x] = st[x],
           ens[x] # "none" /\ Outlived(x) => Outlived(x)',
           RouteBackends(f)' = RouteBackends(f), ActiveBackends(f)' = ActiveBackends(f),
           Promoting(f)' = Promoting(f), Promoted(f)' = Promoted(f)
    PROVE  Duty(x)'
BY DEF Duty, InCharge

(* In a step that moves a promotion of d on, the deployments of other
   environments keep their duty. *)
LEMMA OthersKeepDuty ==
    ASSUME TypeOK, NEW d \in Deployments, NEW x \in Deployments, Duty(x),
           envOf' = envOf, envOf[x] # envOf[d],
           ens[x] # "none" /\ Outlived(x) => Outlived(x)',
           \A y \in Deployments : envOf[y] # envOf[d] =>
               be'[y] = be[y] /\ ens'[y] = ens[y] /\ st'[y] = st[y],
           todo'[x] = todo[x]
    PROVE  Duty(x)'
<1> DEFINE f == envOf[x]
<1>1. RouteBackends(f)' = RouteBackends(f) /\ ActiveBackends(f)' = ActiveBackends(f)
  BY DEF RouteBackends, ActiveBackends
<1>2. Promoting(f)' = Promoting(f) /\ Promoted(f)' = Promoted(f)
  BY DEF Promoting, Promoted
<1> QED BY <1>1, <1>2, DutyKept

(* Every step that keeps the history orderly keeps every duty. *)
LEMMA NextOneAtATime ==
    ASSUME TypeOK, RowOrder, Listed, OneAtATime, [Next]_vars
    PROVE  OneAtATime'
<1> SUFFICES ASSUME orderly', NEW x \in Deployments PROVE Duty(x)'
  BY DEF OneAtATime
<1>1. orderly
  BY StepCases DEF Created, BecomeHealthy, EnsureList, EnsureUpsert, EnsureSync,
     EnsureDemote, ArchiveList, Archived, Reweighted, ControlPlaneRestarts, Aside
<1>2. \A y \in Deployments : Duty(y)
  BY <1>1 DEF OneAtATime
<1>3. \A y \in Deployments : /\ ens[y] # "none" => st[y] # "none"
                             /\ ens[y] # "none" /\ Outlived(y) => Outlived(y)'
  BY OutlivedStays DEF RowOrder
<1> DEFINE f == envOf[x]
<1>4. CASE \E d \in Deployments, e \in Envs : Created(d, e)
  <2>1. PICK d \in Deployments, e \in Envs : Created(d, e)
    BY <1>4
  <2>2. ens[d] = "none" /\ be[d] = NoRow /\ ens'[d] = "none"
    BY <2>1 DEF Created, RowOrder
  <2>3. CASE x = d
    BY <2>2, <2>3 DEF Duty
  <2>4. CASE x # d
    <3>1. \A y \in Deployments : y # d => envOf'[y] = envOf[y] /\ st'[y] = st[y]
      BY <2>1 DEF Created, TypeOK
    <3>2. UNCHANGED <<be, ens, todo>>
      BY <2>1 DEF Created
    <3>3. RouteBackends(f)' = RouteBackends(f) /\ ActiveBackends(f)' = ActiveBackends(f)
      BY <2>2, <2>4, <3>1, <3>2 DEF RouteBackends, ActiveBackends
    <3>4. Promoting(f)' = Promoting(f) /\ Promoted(f)' = Promoted(f)
      BY <2>2, <2>4, <3>1, <3>2 DEF Promoting, Promoted
    <3> QED BY <1>2, <1>3, <2>4, <3>1, <3>2, <3>3, <3>4, DutyKept
  <2> QED BY <2>3, <2>4
<1>5. CASE \E d \in Deployments : BecomeHealthy(d)
  <2>1. PICK d \in Deployments : BecomeHealthy(d)
    BY <1>5
  <2>2. /\ UNCHANGED <<be, todo, envOf>> /\ ens[d] = "none" /\ ens'[d] = "list"
        /\ \A y \in Deployments : y # d => ens'[y] = ens[y] /\ st'[y] = st[y]
    BY <2>1 DEF BecomeHealthy, RowOrder, TypeOK
  <2>3. CASE x = d
    BY <2>2, <2>3 DEF Duty
  <2>4. CASE x # d
    <3>1. RouteBackends(f)' = RouteBackends(f) /\ ActiveBackends(f)' = ActiveBackends(f)
      BY <2>2 DEF RouteBackends, ActiveBackends
    <3>2. Promoting(f)' = Promoting(f) /\ Promoted(f)' = Promoted(f)
      BY <2>2 DEF Promoting, Promoted
    <3> QED BY <1>2, <1>3, <2>2, <2>4, <3>1, <3>2, DutyKept
  <2> QED BY <2>3, <2>4
<1>6. ASSUME NEW d \in Deployments, EnsureList(d) PROVE Duty(x)'
  <2>1. /\ UNCHANGED <<be, st, envOf>> /\ ens[d] = "list" /\ ens'[d] = "upsert"
        /\ todo'[d] = RouteBackends(envOf[d]) \ {d}
        /\ \A y \in Deployments : y # d => ens'[y] = ens[y] /\ todo'[y] = todo[y]
        /\ Promoting(envOf[d]) = {} /\ \A k \in Promoted(envOf[d]) : k < d
    BY <1>6 DEF EnsureList, TypeOK
  <2>2. CASE envOf[x] # envOf[d]
    BY <1>2, <1>3, <2>1, <2>2, OthersKeepDuty
  <2>3. CASE x = d
    <3>1. RouteBackends(f)' = RouteBackends(f) /\ d \notin RouteBackends(f)
      BY <2>1 DEF RouteBackends, RowOrder
    <3>2. Promoting(f)' \subseteq {d} /\ Promoted(f)' = Promoted(f)
      BY <2>1, <2>3 DEF Promoting, Promoted
    <3> QED BY <2>1, <2>3, <3>1, <3>2 DEF Duty
  <2>4. CASE x # d /\ envOf[x] = envOf[d]
    <3>1. ens[x] \notin {"upsert", "demote"} /\ Promoting(f)' # {}
      BY <2>1, <2>4 DEF Promoting
    <3> QED BY <2>1, <2>4, <3>1 DEF Duty
  <2> QED BY <2>2, <2>3, <2>4
<1>7. ASSUME NEW d \in Deployments, EnsureUpsert(d) PROVE Duty(x)'
  <2>1. /\ UNCHANGED <<st, envOf, todo>> /\ ens[d] = "upsert" /\ ens'[d] = "demote"
        /\ be'[d] = [weight |-> 100, status |-> "active"]
        /\ \A y \in Deployments : y # d => ens'[y] = ens[y] /\ be'[y] = be[y]
    BY <1>7 DEF EnsureUpsert, TypeOK
  <2>2. CASE envOf[x] # envOf[d]
    BY <1>2, <1>3, <2>1, <2>2, OthersKeepDuty
  <2>3. Promoting(envOf[d]) \subseteq {d} /\ (\A k \in Promoted(envOf[d]) : k < d)
        /\ RouteBackends(envOf[d]) \subseteq todo[d]
    BY <1>2, <2>1 DEF Duty
  <2>4. CASE x = d
    <3>1. be'[d] # NoRow
      BY <2>1, TrafficAssumption
    <3>2. d \in ActiveBackends(f)' /\ ActiveBackends(f)' \subseteq todo[d] \cup {d}
      BY <2>1, <2>3, <2>4, <3>1 DEF ActiveBackends, RouteBackends
    <3>3. st[d] = "healthy" \/ Outlived(d)'
      BY <1>3, <2>1 DEF RowOrder
    <3>4. Promoting(f)' \subseteq {d} /\ Promoted(f)' = Promoted(f)
      BY <2>1, <2>3, <2>4 DEF Promoting, Promoted
    <3> QED BY <2>1, <2>3, <2>4, <3>2, <3>3, <3>4 DEF Duty, InCharge
  <2>5. CASE x # d /\ envOf[x] = envOf[d]
    <3>1. ens[x] \notin {"upsert", "demote"} /\ Promoting(f)' # {}
      BY <2>1, <2>3, <2>5 DEF Promoting
    <3> QED BY <2>1, <2>5, <3>1 DEF Duty
  <2> QED BY <2>2, <2>4, <2>5
<1>8. ASSUME NEW d \in Deployments, NEW k \in Deployments, EnsureDemote(d, k) PROVE Duty(x)'
  <2>1. /\ UNCHANGED <<envOf, ens>> /\ ens[d] = "demote" /\ k \in todo[d]
        /\ todo'[d] = todo[d] \ {k}
        /\ be'[k] = NoRow \/ be'[k].status # "active"
        /\ \A y \in Deployments : /\ y # d => todo'[y] = todo[y]
                                  /\ y # k => be'[y] = be[y] /\ st'[y] = st[y]
    BY <1>8 DEF EnsureDemote, TypeOK
  <2>2. k # d /\ envOf[k] = envOf[d]
    BY <2>1 DEF Listed
  <2>3. CASE envOf[x] # envOf[d]
    BY <1>2, <1>3, <2>1, <2>2, <2>3, OthersKeepDuty
  <2>4. Promoting(envOf[d]) \subseteq {d} /\ (\A y \in Promoted(envOf[d]) : y < d)
        /\ ActiveBackends(envOf[d]) \subseteq todo[d] \cup {d} /\ InCharge(d)
    BY <1>2, <2>1 DEF Duty
  <2>5. CASE x = d
    <3>1. ActiveBackends(f)' = ActiveBackends(f) \ {k}
      BY <2>1 DEF ActiveBackends, RouteBackends
    <3>2. Promoting(f)' = Promoting(f) /\ Promoted(f)' = Promoted(f)
      BY <2>1 DEF Promoting, Promoted
    <3>3. InCharge(d)'
      BY <1>3, <2>1, <2>2, <2>4, <2>5, <3>1 DEF InCharge
    <3> QED BY <2>1, <2>4, <2>5, <3>1, <3>2, <3>3 DEF Duty
  <2>6. CASE x # d /\ envOf[x] = envOf[d]
    <3>1. ens[x] \notin {"upsert", "demote"} /\ Promoting(f)' # {}
      BY <2>1, <2>4, <2>6 DEF Promoting
    <3> QED BY <2>1, <2>6, <3>1 DEF Duty
  <2> QED BY <2>3, <2>5, <2>6
<1>9. ASSUME NEW d \in Deployments, EnsureSync(d) PROVE Duty(x)'
  <2>1. /\ UNCHANGED <<envOf, st, be, todo>> /\ ens[d] = "demote" /\ ens'[d] = "done"
        /\ todo[d] = {}
        /\ \A y \in Deployments : y # d => ens'[y] = ens[y]
    BY <1>9 DEF EnsureSync, TypeOK
  <2>2. CASE envOf[x] # envOf[d]
    BY <1>2, <1>3, <2>1, <2>2, OthersKeepDuty
  <2>3. Promoting(envOf[d]) \subseteq {d} /\ (\A y \in Promoted(envOf[d]) : y < d)
        /\ ActiveBackends(envOf[d]) \subseteq {d} /\ InCharge(d)
    BY <1>2, <2>1 DEF Duty
  <2>4. CASE x = d
    <3>1. ActiveBackends(f)' = ActiveBackends(f)
      BY <2>1 DEF ActiveBackends, RouteBackends
    <3>2. Outlived(d)' \/ (ActiveBackends(f)' = {d} /\ st'[d] = "healthy")
      BY <1>3, <2>1, <2>3, <2>4, <3>1 DEF InCharge
    <3> QED BY <2>1, <2>4, <3>2 DEF Duty
  <2>5. CASE x # d /\ envOf[x] = envOf[d]
    <3>1. ens'[x] \notin {"upsert", "demote"}
      BY <2>1, <2>3, <2>5 DEF Promoting
    <3>2. d \in Promoted(f)' /\ (ens'[x] = "done" => x < d)
      BY <2>1, <2>3, <2>5 DEF Promoted
    <3>3. ens'[x] = "done" => \E k \in Promoted(f)' : ~ (k <= x)
      BY <3>2 DEF Deployments
    <3> QED BY <2>1, <2>5, <3>1, <3>3 DEF Duty
  <2> QED BY <2>2, <2>4, <2>5
<1>10. ASSUME NEW d \in Deployments, NEW r \in Deployments, Archived(d, r) PROVE Duty(x)'
  <2>1. /\ UNCHANGED <<envOf, ens, todo>> /\ be'[r] = NoRow
        /\ \A y \in Deployments : y # r => be'[y] = be[y] /\ st'[y] = st[y]
    BY <1>10 DEF Archived, TypeOK
  <2>2. Outlived(r)'
    BY <1>10, OutlivedStays DEF Archived, Listed
  <2>3. Promoting(f)' = Promoting(f) /\ Promoted(f)' = Promoted(f)
    BY <2>1 DEF Promoting, Promoted
  <2>4. RouteBackends(f)' \subseteq RouteBackends(f)
        /\ ActiveBackends(f)' = ActiveBackends(f) \ {r}
    BY <2>1 DEF RouteBackends, ActiveBackends
  <2>5. InCharge(x) /\ ens[x] # "none" => InCharge(x)'
    BY <1>3, <2>1, <2>2, <2>4 DEF InCharge
  <2>6. CASE x = r
    BY <1>2, <2>1, <2>2, <2>3, <2>4, <2>5, <2>6 DEF Duty
  <2>7. CASE x # r
    BY <1>2, <1>3, <2>1, <2>3, <2>4, <2>5, <2>7 DEF Duty
  <2> QED BY <2>6, <2>7
<1>11. CASE Reweighted
  BY <1>11 DEF Reweighted
<1>12. CASE ControlPlaneRestarts
  <2>1. /\ UNCHANGED <<envOf, st, be>> /\ Promoting(f) = {}
        /\ ens'[x] = IF ens[x] = "done" THEN "done" ELSE "none"
    BY <1>12 DEF ControlPlaneRestarts, TypeOK
  <2>2. Promoted(f)' = Promoted(f) /\ ActiveBackends(f)' = ActiveBackends(f)
    BY <1>12, <2>1 DEF ControlPlaneRestarts, Promoted, ActiveBackends, RouteBackends
  <2> QED BY <1>2, <1>3, <2>1, <2>2 DEF Duty
<1>13. CASE UNCHANGED <<st, envOf, be, ens, todo>>
  <2>1. RouteBackends(f)' = RouteBackends(f) /\ ActiveBackends(f)' = ActiveBackends(f)
    BY <1>13 DEF RouteBackends, ActiveBackends
  <2>2. Promoting(f)' = Promoting(f) /\ Promoted(f)' = Promoted(f)
    BY <1>13 DEF Promoting, Promoted
  <2> QED BY <1>2, <1>3, <1>13, <2>1, <2>2, DutyKept
<1> QED BY <1>4, <1>5, <1>6, <1>7, <1>8, <1>9, <1>10, <1>11, <1>12, <1>13, StepCases
       DEF ArchiveList, Aside

-----------------------------------------------------------------------------
(* Newest is unique, and a promotion that is not over is that of the newest. *)
LEMMA NewestIsOne ==
    ASSUME NEW n \in Deployments, NEW m \in Deployments, Newest(n), Newest(m)
    PROVE  n = m
BY DEF Newest, Deployments

LEMMA UnderWayIsNewest ==
    ASSUME Turn, NEW d \in Deployments, ens[d] # "none", ~ Over(d)
    PROVE  Newest(d) /\ InHand(d)
BY DEF Turn, Newest, Deployments

(* A step that begins no promotion leaves the newest one the newest. *)
LEMMA NewestStays ==
    ASSUME \A k \in Deployments : ens'[k] = "none" <=> ens[k] = "none", NEW n \in Deployments
    PROVE  Newest(n)' <=> Newest(n)
BY DEF Newest

(* A step of the newest promotion: what it has to keep. *)
LEMMA TurnOfNewest ==
    ASSUME Turn, NEW d \in Deployments, Newest(d), ens'[d] # "none", InHand(d)',
           st'[d] = "healthy" /\ ens'[d] \in {"demote", "done"} => be'[d] # NoRow,
           UNCHANGED <<user, envOf>>,
           \A k \in Deployments : k # d =>
              /\ ens'[k] = ens[k] /\ arch'[k] = arch[k] /\ (k \in drain' => k \in drain)
              /\ st'[k] = st[k] \/ st'[k] \notin {"none", "deploying", "healthy"}
              /\ be'[k] = be[k] \/ st'[k] # "healthy"
              /\ Live(k)' \/ be'[k] # NoRow => Live(k) \/ be[k] # NoRow
    PROVE  Turn'
<1>1. ens[d] # "none"
  BY DEF Newest
<1>2. \A k \in Deployments : ens'[k] = "none" <=> ens[k] = "none"
  BY <1>1
<1>3. \A n \in Deployments : Newest(n)' => n = d
  BY <1>2, NewestStays, NewestIsOne
<1>4. \A k \in Deployments :
        /\ Live(k)' \/ be'[k] # NoRow => ens'[k] # "none"
        /\ st'[k] = "healthy" /\ ens'[k] \in {"demote", "done"} => be'[k] # NoRow
        /\ ens'[k] = "none" => k \notin drain' /\ arch'[k] = "none"
  BY <1>1 DEF Turn
<1>5. \A k, n \in Deployments :
        ens'[k] # "none" /\ ens'[n] # "none" /\ k < n => Over(k)' /\ envOf'[k] = envOf'[n]
  <2> SUFFICES ASSUME NEW k \in Deployments, NEW n \in Deployments,
                      ens'[k] # "none", ens'[n] # "none", k < n
               PROVE  Over(k)' /\ envOf'[k] = envOf'[n]
    OBVIOUS
  <2>1. ens[k] # "none" /\ ens[n] # "none"
    BY <1>2
  <2>2. k # d
    BY <2>1 DEF Newest, Deployments
  <2>3. Over(k) /\ envOf[k] = envOf[n]
    BY <2>1 DEF Turn
  <2> QED BY <2>2, <2>3 DEF Over
<1> QED BY <1>3, <1>4, <1>5 DEF Turn

(* A step that leaves promotions, drains and commands alone, and makes no row
   healthy, leaves the newest one in hand. *)
LEMMA TurnKept ==
    ASSUME Turn, UNCHANGED <<ens, todo, tgt, running, drain, arch, edgeVars, user>>,
           \A k \in Deployments :
              /\ ens[k] # "none" => envOf'[k] = envOf[k]
              /\ Live(k)' \/ be'[k] # NoRow => Live(k) \/ be[k] # NoRow
              /\ st'[k] = "healthy" => st[k] = "healthy" /\ be'[k] = be[k]
              /\ Newest(k) => st'[k] = "healthy"
    PROVE  Turn'
<1>1. \A n \in Deployments : Newest(n)' <=> Newest(n)
  BY NewestStays
<1>2. \A n \in Deployments : Newest(n) => InHand(n)'
  BY DEF Turn, InHand
<1>3. \A k \in Deployments : Over(k)' <=> Over(k)
  BY DEF Over
<1>4. \A k \in Deployments :
        /\ Live(k)' \/ be'[k] # NoRow => ens'[k] # "none"
        /\ st'[k] = "healthy" /\ ens'[k] \in {"demote", "done"} => be'[k] # NoRow
        /\ ens'[k] = "none" => k \notin drain' /\ arch'[k] = "none"
  BY DEF Turn
<1>5. \A k, n \in Deployments :
        ens'[k] # "none" /\ ens'[n] # "none" /\ k < n => Over(k)' /\ envOf'[k] = envOf'[n]
  BY <1>3 DEF Turn
<1> QED BY <1>1, <1>2, <1>4, <1>5 DEF Turn

(* A deployment that has become healthy while all was quiet is the newest. *)
LEMMA BecomeHealthyTurn ==
    ASSUME TypeOK, RowOrder, Turn, NEW d \in Deployments, BecomeHealthy(d), calm'
    PROVE  Turn'
<1>1. /\ Quiet /\ \A k \in Deployments : ens[k] = "done" => k < d /\ envOf[k] = envOf[d]
      /\ ens[d] = "none" /\ ens'[d] = "list" /\ st'[d] = "healthy" /\ tgt'[d] = "healthy"
      /\ d \in running' /\ UNCHANGED <<envOf, be, todo, drain, arch, edgeVars, user>>
      /\ \A k \in Deployments : k # d => ens'[k] = ens[k] /\ st'[k] = st[k]
  BY DEF BecomeHealthy, TypeOK, RowOrder
<1>2. \A k \in Deployments : /\ k # d /\ ens'[k] # "none" => ens[k] = "done" /\ k < d
                             /\ arch[k] = "none" /\ drain = {} /\ flight = {} /\ user = "idle"
  BY <1>1 DEF Quiet, Deployments
<1>3. InHand(d)'
  BY <1>1, <1>2 DEF InHand
<1>4. \A n \in Deployments : Newest(n)' => n = d
  BY <1>1, <1>2 DEF Newest, Deployments
<1>5. \A k \in Deployments :
        /\ Live(k)' \/ be'[k] # NoRow => ens'[k] # "none"
        /\ st'[k] = "healthy" /\ ens'[k] \in {"demote", "done"} => be'[k] # NoRow
        /\ ens'[k] = "none" => k \notin drain' /\ arch'[k] = "none"
  BY <1>1, <1>2 DEF Turn, Live
<1>6. \A k, n \in Deployments :
        ens'[k] # "none" /\ ens'[n] # "none" /\ k < n => Over(k)' /\ envOf'[k] = envOf'[n]
  <2> SUFFICES ASSUME NEW k \in Deployments, NEW n \in Deployments,
                      ens'[k] # "none", ens'[n] # "none", k < n
               PROVE  Over(k)' /\ envOf'[k] = envOf'[n]
    OBVIOUS
  <2>1. k # d
    BY <1>2 DEF Deployments
  <2>2. ens[k] = "done" /\ envOf[k] = envOf[d] /\ (n # d => envOf[n] = envOf[d])
    BY <1>1, <1>2, <2>1
  <2> QED BY <1>1, <1>2, <2>1, <2>2 DEF Over
<1>7. user' = "idle"
  BY <1>1, <1>2
<1> QED BY <1>3, <1>4, <1>5, <1>6, <1>7 DEF Turn

(* Its promotion lists, inserts, demotes and syncs. *)
LEMMA PromotionTurn ==
    ASSUME TypeOK, RowOrder, Listed, Turn, NEW d \in Deployments, calm',
           \/ EnsureList(d) \/ EnsureUpsert(d) \/ EnsureSync(d)
           \/ \E k \in Deployments : EnsureDemote(d, k)
    PROVE  Turn'
<1>1. ens[d] \in {"list", "upsert", "demote"}
  BY DEF EnsureList, EnsureUpsert, EnsureSync, EnsureDemote
<1>2. Newest(d) /\ InHand(d)
  BY <1>1, UnderWayIsNewest DEF Over
<1>3. \A k \in Deployments : k # d /\ st[k] = "healthy" =>
        ens[k] = "done" /\ be[k] # NoRow /\ envOf[k] = envOf[d]
  BY <1>1, <1>2 DEF Turn, Newest, Live, Over, Deployments
<1>4. CASE EnsureList(d)
  <2>1. /\ UNCHANGED <<deployVars, be, drain, archVars, edgeVars, userVars>>
        /\ ens'[d] = "upsert" /\ todo'[d] = RouteBackends(envOf[d]) \ {d}
        /\ \A k \in Deployments : k # d => ens'[k] = ens[k]
    BY <1>4 DEF EnsureList, TypeOK
  <2>2. \A k \in Deployments : k # d /\ st[k] = "healthy" => k \in todo'[d]
    BY <1>3, <2>1 DEF RouteBackends
  <2>3. InHand(d)'
    BY <1>1, <1>2, <2>1, <2>2 DEF InHand
  <2> QED BY <1>2, <2>1, <2>3, TurnOfNewest DEF Live
<1>5. CASE EnsureUpsert(d)
  <2>1. /\ UNCHANGED <<deployVars, todo, drain, archVars, edgeVars, userVars>>
        /\ ens[d] = "upsert" /\ ens'[d] = "demote"
        /\ be'[d] = [weight |-> 100, status |-> "active"]
        /\ \A k \in Deployments : k # d => ens'[k] = ens[k] /\ be'[k] = be[k]
    BY <1>5 DEF EnsureUpsert, TypeOK
  <2>2. be'[d] # NoRow
    BY <2>1, TrafficAssumption
  <2>3. InHand(d)'
    BY <1>2, <2>1 DEF InHand
  <2> QED BY <1>2, <2>1, <2>2, <2>3, TurnOfNewest DEF Live
<1>6. ASSUME NEW k \in Deployments, EnsureDemote(d, k) PROVE Turn'
  <2>1. /\ UNCHANGED <<envOf, tgt, running, ens, drain, archVars, edgeVars, userVars>>
        /\ ens[d] = "demote" /\ k \in todo[d] /\ todo'[d] = todo[d] \ {k}
        /\ be[k] = NoRow => UNCHANGED <<be, st>>
        /\ be[k] # NoRow => st'[k] = "superseded"
        /\ \A y \in Deployments : y # k => be'[y] = be[y] /\ st'[y] = st[y]
    BY <1>6 DEF EnsureDemote, TypeOK
  <2>2. k # d
    BY <2>1 DEF Listed
  <2>3. st'[k] # "healthy"
    BY <1>3, <2>1, <2>2
  <2>4. Live(k)' \/ be'[k] # NoRow => Live(k) \/ be[k] # NoRow
    BY <2>1 DEF Live
  <2>5. InHand(d)'
    <3>1. \A y \in Deployments : y # d /\ st'[y] = "healthy" => y \in todo'[d]
      BY <1>2, <2>1, <2>3 DEF InHand
    <3> QED BY <1>2, <2>1, <2>2, <3>1 DEF InHand
  <2>6. be'[d] = be[d] /\ st'[d] = st[d] /\ be[d] # NoRow
    BY <1>2, <2>1, <2>2, TrafficAssumption DEF InHand
  <2>7. st'[k] = st[k] \/ st'[k] = "superseded"
    BY <2>1
  <2> QED BY <1>2, <2>1, <2>2, <2>3, <2>4, <2>5, <2>6, <2>7, TurnOfNewest DEF Live
<1>7. CASE EnsureSync(d)
  <2>1. /\ UNCHANGED <<deployVars, be, todo, edge, userVars>>
        /\ ens[d] = "demote" /\ ens'[d] = "done" /\ todo[d] = {}
        /\ drain' \subseteq drain \cup {d} /\ SyncTrafficRoute(envOf[d])
        /\ \A k \in Deployments : k # d => ens'[k] = ens[k] /\ arch'[k] = arch[k]
    BY <1>7 DEF EnsureSync, TypeOK
  <2> DEFINE G == {k \in ListTrafficBackendsForSync(envOf[d]) : tgt[k] = "healthy"}
  <2>2. flight' = IF G = {} THEN flight ELSE flight \cup {G}
    BY <2>1, SyncEffect
  <2>3. \A k \in Deployments : st[k] = "healthy" => k = d
    BY <1>2, <2>1 DEF InHand
  <2>4. st[d] = "healthy" /\ tgt[d] = "healthy" /\ flight = {} /\ d \in running
        /\ be[d] = [weight |-> 100, status |-> "active"] /\ be[d] # NoRow
    BY <1>2, <2>1, TrafficAssumption DEF InHand
  <2>5. G = {d}
    BY <2>3, <2>4 DEF ListTrafficBackendsForSync, RouteBackends
  <2> HIDE DEF G
  <2>6. flight' = {{d}}
    BY <2>2, <2>4, <2>5
  <2>7. InHand(d)'
    BY <2>1, <2>3, <2>4, <2>6 DEF InHand
  <2> QED BY <1>2, <2>1, <2>4, <2>7, TurnOfNewest DEF Live
<1> QED BY <1>4, <1>5, <1>6, <1>7

(* Its drain finds nothing to stop, the archiver spares it, and the edge gets its
   command. *)
LEMMA AftermathTurn ==
    ASSUME TypeOK, RowOrder, Listed, Turn,
           \/ \E d \in Deployments :
                 StopSupersededContainers(d) \/ ArchiveList(d) \/ ArchiveTags(d)
           \/ \E d, r \in Deployments : Archived(d, r)
           \/ \E c \in flight : ApplyRoute(c)
    PROVE  Turn'
<1>1. ASSUME NEW d \in Deployments, StopSupersededContainers(d) PROVE Turn'
  <2>1. d \in drain /\ Newest(d) /\ InHand(d) /\ ens[d] = "done"
    <3>1. d \in drain
      BY <1>1 DEF StopSupersededContainers, StopContainers
    <3>2. ens[d] # "none" /\ ~ Over(d)
      BY <3>1 DEF Turn, Over
    <3> QED BY <3>1, <3>2, UnderWayIsNewest DEF InHand
  <2>2. ListHealthyContainers \ {d} = {}
    BY <2>1 DEF ListHealthyContainers, InHand
  <2>3. \E stopped \in SUBSET (ListHealthyContainers \ {d}) :
          /\ running' = running \ stopped
          /\ tgt' = [k \in Deployments |-> IF k \in stopped THEN "stopped" ELSE tgt[k]]
          /\ flight' = IF d \notin onEdge /\ stopped \cap onEdge # {}
                       THEN flight \cup {{}} ELSE flight
    BY <1>1 DEF StopSupersededContainers, StopContainers
  <2>4. running' = running /\ flight' = flight /\ tgt'[d] = tgt[d]
    BY <2>2, <2>3
  <2>5. UNCHANGED <<st, envOf, be, ens, todo, arch, edge, user>> /\ drain' = drain \ {d}
    BY <1>1 DEF StopSupersededContainers, StopContainers
  <2>6. InHand(d)'
    BY <2>1, <2>4, <2>5 DEF InHand
  <2>7. be[d] # NoRow
    BY <2>1, TrafficAssumption DEF InHand
  <2> QED BY <2>1, <2>5, <2>6, <2>7, TurnOfNewest DEF Live
<1>2. ASSUME NEW d \in Deployments, ArchiveList(d) \/ ArchiveTags(d) PROVE Turn'
  <2>1. /\ arch[d] # "none"
        /\ UNCHANGED <<st, envOf, be, tgt, running, ens, todo, drain, edgeVars, user>>
        /\ \A k \in Deployments : k # d => arch'[k] = arch[k]
    BY <1>2 DEF ArchiveList, ArchiveTags, TypeOK
  <2>2. ens[d] # "none" /\ ~ Over(d)
    BY <2>1 DEF Turn, Over
  <2>3. Newest(d) /\ InHand(d) /\ ens[d] = "done"
    BY <2>1, <2>2, UnderWayIsNewest DEF InHand
  <2>4. InHand(d)'
    BY <2>1, <2>3 DEF InHand
  <2>5. be[d] # NoRow
    BY <2>3, TrafficAssumption DEF InHand
  <2> QED BY <2>1, <2>3, <2>4, <2>5, TurnOfNewest DEF Live
<1>3. ASSUME NEW d \in Deployments, NEW r \in Deployments, Archived(d, r) PROVE Turn'
  <2>1. /\ arch[d] # "none" /\ r \in rows[d]
        /\ UNCHANGED <<envOf, tgt, running, ens, todo, drain, edgeVars, user>>
        /\ st'[r] = "archived" /\ be'[r] = NoRow
        /\ \A k \in Deployments : k # r => be'[k] = be[k] /\ st'[k] = st[k]
        /\ \A k \in Deployments : k # d => arch'[k] = arch[k]
    BY <1>3 DEF Archived, TypeOK
  <2>2. ens[d] # "none" /\ ~ Over(d)
    BY <2>1 DEF Turn, Over
  <2>3. Newest(d) /\ InHand(d) /\ ens[d] = "done"
    BY <2>1, <2>2, UnderWayIsNewest DEF InHand
  <2>4. r # d
    <3>1. PICK a \in Newer(r) : TRUE
      BY <2>1 DEF Listed, Outlived
    <3>2. a \in Deployments /\ a > r /\ ens[a] # "none"
      BY DEF Newer, Turn
    <3> QED BY <2>3, <3>2 DEF Newest, Deployments
  <2>5. InHand(d)'
    BY <2>1, <2>3, <2>4 DEF InHand
  <2>6. be[d] # NoRow
    BY <2>3, TrafficAssumption DEF InHand
  <2> QED BY <2>1, <2>3, <2>4, <2>5, <2>6, TurnOfNewest DEF Live
<1>4. ASSUME NEW c \in flight, ApplyRoute(c) PROVE Turn'
  <2>1. /\ flight' = flight \ {c} /\ edge' = c
        /\ UNCHANGED <<deployVars, be, ens, todo, drain, arch, user>>
    BY <1>4 DEF ApplyRoute
  <2>2. \A n \in Deployments : Newest(n) => InHand(n)'
    <3> SUFFICES ASSUME NEW n \in Deployments, Newest(n) PROVE InHand(n)'
      OBVIOUS
    <3>1. InHand(n)
      BY DEF Turn
    <3>2. ens[n] = "done" /\ c = {n} /\ flight' = {}
      BY <2>1, <3>1 DEF InHand
    <3> QED BY <2>1, <3>1, <3>2 DEF InHand
  <2>3. \A n \in Deployments : Newest(n)' <=> Newest(n)
    BY <2>1, NewestStays
  <2> QED BY <2>1, <2>2, <2>3 DEF Turn, Over, Live
<1> QED BY <1>1, <1>2, <1>3, <1>4

(* Every step that keeps the history calm leaves the newest promotion in hand. *)
LEMMA NextInTurn ==
    ASSUME TypeOK, RowOrder, Listed, InTurn, [Next]_vars
    PROVE  InTurn'
<1> SUFFICES ASSUME calm' PROVE Turn'
  BY DEF InTurn
<1>1. CASE \E e \in Envs : TriggerDeploy(e) \/ Rollback(e)
  <2>0. PICK e \in Envs : TriggerDeploy(e) \/ Rollback(e)
    BY <1>1
  <2>1. PICK d \in Deployments : Created(d, e)
    BY <2>0, CreatedStep
  <2>2. /\ Turn /\ UNCHANGED <<be, ens, todo, tgt, running, drain, arch, edgeVars, user>>
        /\ ens[d] = "none" /\ st'[d] = "deploying"
        /\ \A k \in Deployments : k # d => st'[k] = st[k] /\ envOf'[k] = envOf[k]
    BY <2>1 DEF Created, InTurn, TypeOK, RowOrder
  <2>3. \A k \in Deployments : Newest(k) => st[k] = "healthy" /\ k # d
    BY <2>2 DEF Turn, InHand, Newest
  <2> QED BY <2>2, <2>3, TurnKept DEF Live
<1>2. ASSUME NEW d \in Deployments, BecomeHealthy(d) PROVE Turn'
  <2>1. Turn
    BY <1>2 DEF BecomeHealthy, InTurn
  <2> QED BY <1>2, <2>1, BecomeHealthyTurn
<1>3. ASSUME NEW d \in Deployments,
             \/ EnsureList(d) \/ EnsureUpsert(d) \/ EnsureSync(d)
             \/ \E k \in Deployments : EnsureDemote(d, k)
      PROVE  Turn'
  <2>1. CASE EnsureSync(d)
    <3>1. calm
      BY <2>1, SyncEffect DEF EnsureSync
    <3> QED BY <1>3, <3>1, PromotionTurn DEF InTurn
  <2>2. CASE ~ EnsureSync(d)
    <3>1. calm
      BY <1>3, <2>2 DEF EnsureList, EnsureUpsert, EnsureDemote
    <3> QED BY <1>3, <3>1, PromotionTurn DEF InTurn
  <2> QED BY <2>1, <2>2
<1>4. ASSUME NEW d \in Deployments, ArchiveRow(d) PROVE Turn'
  <2>1. Turn
    BY <1>4 DEF ArchiveRow, InTurn
  <2> QED BY <1>4, <2>1, ArchiveRowStep, AftermathTurn
<1>5. ASSUME NEW d \in Deployments,
             StopSupersededContainers(d) \/ ArchiveList(d) \/ ArchiveTags(d)
      PROVE  Turn'
  <2>1. Turn
    BY <1>5 DEF StopSupersededContainers, StopContainers, ArchiveList, ArchiveTags, InTurn
  <2> QED BY <1>5, <2>1, AftermathTurn
<1>6. ASSUME NEW c \in flight, ApplyRoute(c) PROVE Turn'
  <2>1. Turn
    BY <1>6 DEF ApplyRoute, InTurn
  <2> QED BY <1>6, <2>1, AftermathTurn
<1>7. CASE \/ \E b \in Deployments : PromoteTrafficBackend(b)
           \/ \E w \in UNION {[D -> Weights] : D \in SUBSET RouteBackends(Production)} :
                UpdateTrafficWeights(w)
  BY <1>7, UserStep
<1>8. CASE UserSync
  <2>1. calm /\ user = "sync"
    BY <1>8, SyncEffect DEF UserSync
  <2> QED BY <2>1 DEF InTurn, Turn
<1>9. CASE ControlPlaneRestarts
  <2>1. calm /\ Quiet /\ Turn
    BY <1>9 DEF ControlPlaneRestarts, InTurn
  <2>2. /\ UNCHANGED <<deployVars, be, edgeVars>> /\ drain' = drain /\ user' = user
        /\ \A k \in Deployments : ens'[k] = ens[k] /\ arch'[k] = arch[k]
    BY <1>9, <2>1 DEF ControlPlaneRestarts, Quiet
  <2>3. \A n \in Deployments : Newest(n)' <=> Newest(n)
    BY <2>2, NewestStays
  <2>4. \A n \in Deployments : Newest(n) => InHand(n)'
    BY <2>1, <2>2 DEF Turn, InHand, Newest, Quiet
  <2> QED BY <2>1, <2>2, <2>3, <2>4 DEF Turn, Over, Live
<1>10. CASE UNCHANGED vars
  <2>1. Turn
    BY <1>10 DEF vars, InTurn
  <2> QED BY <1>10, <2>1 DEF vars, Turn, Over, Live, Newest, InHand
<1> QED BY <1>1, <1>2, <1>3, <1>4, <1>5, <1>6, <1>7, <1>8, <1>9, <1>10 DEF Next

-----------------------------------------------------------------------------
(* IInv is an invariant of promotion, drain, archival and the traffic API. *)
THEOREM Invariance == Spec => []IInv
<1>1. Init => IInv
  BY InitIInv
<1>2. IInv /\ [Next]_vars => IInv'
  BY NextTypeOK, NextRowOrder, NextListed, NextOneAtATime, NextInTurn DEF IInv
<1> QED BY <1>1, <1>2, PTL DEF Spec

(* Rows, goroutines and route commands keep their types, for any number of
   deployments and any environments. *)
THEOREM TypeOKHolds == Spec => []TypeOK
<1>1. IInv => TypeOK
  BY DEF IInv
<1> QED BY <1>1, Invariance, PTL

(* EnsureTrafficForDeployment, run one at a time and in created_at order, leaves
   the newest promoted deployment as the only active backend, and healthy, unless
   two newer ones have become live: whatever drains, archivers, rollbacks, lost
   sends and restarts happen in between. *)
THEOREM OrderlyPromotionHolds == Spec => []OrderlyPromotion
<1>1. IInv => OrderlyPromotion
  <2> SUFFICES ASSUME IInv, NEW e \in Envs, orderly, Promoting(e) = {}, Promoted(e) # {}
               PROVE  LET newest == Max(Promoted(e))
                      IN  \/ ActiveBackends(e) = {newest} /\ st[newest] = "healthy"
                          \/ Cardinality({d \in Deployments :
                                 d > newest /\ envOf[d] = e /\ Live(d)}) >= 2
    BY DEF OrderlyPromotion
  <2> DEFINE n == Max(Promoted(e))
  <2>1. Promoted(e) \in SUBSET Deployments
    BY DEF Promoted
  <2>2. n \in Promoted(e) /\ \A k \in Promoted(e) : n >= k
    BY <2>1, MaxDeployment
  <2> HIDE DEF n
  <2>3. n \in Deployments /\ envOf[n] = e /\ ens[n] = "done"
    BY <2>2 DEF Promoted
  <2>4. \A k \in Promoted(e) : k <= n
    BY <2>1, <2>2, <2>3 DEF Deployments
  <2>5. Outlived(n) \/ (ActiveBackends(e) = {n} /\ st[n] = "healthy")
    BY <2>3, <2>4 DEF IInv, OneAtATime, Duty
  <2>6. {d \in Deployments : d > n /\ envOf[d] = e /\ Live(d)} = Newer(n)
    BY <2>3 DEF Newer
  <2>7. Outlived(n) => Cardinality(Newer(n)) >= 2
    <3>1. Newer(n) \in SUBSET Deployments
      BY DEF Newer
    <3> QED BY <3>1, AtLeastTwo DEF Outlived
  <2> QED BY <2>5, <2>6, <2>7 DEF n
<1> QED BY <1>1, Invariance, PTL

(* A rollout's promise to those who use the app.  Deployments that become healthy
   one after the other, each when the work of the last is over, in one environment
   and in created_at order, with no weights changed by hand and no route command
   lost: whenever all is quiet the edge's file names the newest promoted deployment
   and no other, and that one runs. *)
THEOREM EdgeServesNewestHolds == Spec => []EdgeServesNewest
<1>1. IInv => EdgeServesNewest
  <2> SUFFICES ASSUME IInv, calm, Quiet, NEW d \in Deployments, ens[d] = "done",
                      \A k \in Deployments : ens[k] = "done" => k <= d
               PROVE  edge = {d} /\ st[d] = "healthy" /\ tgt[d] = "healthy" /\ d \in running
    BY DEF EdgeServesNewest
  <2>1. Newest(d)
    BY DEF Newest, Quiet
  <2> QED BY <2>1 DEF IInv, InTurn, Turn, InHand, Quiet
<1> QED BY <1>1, Invariance, PTL
=============================================================================
