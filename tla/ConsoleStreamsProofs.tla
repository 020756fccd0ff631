------------------------- MODULE ConsoleStreamsProofs -------------------------
(***************************************************************************)
(* For any number of events: the types of the consoles' streams; a console  *)
(* that drops duplicates, or never connects again, shows no event twice;    *)
(* and an outcome that is shown is the outcome of the run.                  *)
(*                                                                          *)
(* Neither property is inductive.  That a console of apps/web, which adds   *)
(* whatever comes, has no line twice rests on what is still on the wire and *)
(* on what will be published: Fresh says that both are new.  A replayed log *)
(* is older than anything published later because a build is persisted      *)
(* after it is published, so the row is behind prod (RunOrder).  The lines  *)
(* of a replay differ because a log can be put in order (CanBeSorted), an   *)
(* induction that is done by way of a least counterexample.                 *)
(***************************************************************************)
EXTENDS ConsoleStreams, FiniteSetTheorems, SequenceTheorems, WellFoundedInduction, TLAPS

(* The run: its end is decided once, before its last event, and the row of a
   build is behind what has been published. *)
RunOrder ==
    /\ saved => Finished
    /\ run = "running" => prod.at <= Last
    /\ Last \in log => Finished
    /\ snap.run \in {"ok", "error"} => snap.run = run
    /\ IsBuild => \A k \in log \cup snap.log : k < prod.at

(* The connection: frames are on their way on an open one only, and one that
   ends a run ends it as it has ended. *)
WireOrder ==
    /\ ~mounted => conn = "off"
    /\ conn \notin {"open", "ending"} => wire = <<>>
    /\ \A i \in 1..Len(wire) : wire[i].end \in {"none", run}

(* The events that subscribers have got. *)
Published(k) == k < prod.at \/ (IsBuild /\ prod.half /\ k = prod.at)

(* A console that does not connect again: what is on its way to it is new to it
   and comes once, and what will be published is new as well. *)
Fresh ==
    /\ \A i \in 1..Len(wire) : shown[wire[i].ev] = 0
    /\ \A i, j \in 1..Len(wire) : i < j => wire[i].ev # wire[j].ev
    /\ conn \in {"asking", "read"} => \A k \in Events : shown[k] = 0
    /\ conn = "open" => /\ \A i \in 1..Len(wire) : Published(wire[i].ev)
                        /\ \A k \in Events : shown[k] > 0 => Published(k)

IInv ==
    /\ TypeOK /\ RunOrder /\ WireOrder
    /\ EndsLikeTheRun
    /\ NoEventTwice
    /\ GivesUp => Fresh

-----------------------------------------------------------------------------
(* A non-empty set of naturals has a least member. *)
LEMMA LeastNatural ==
    ASSUME NEW S \in SUBSET Nat, S # {}
    PROVE  \E x \in S : \A y \in S : x <= y
<1>1. PICK x \in S : \A y \in S : ~ (<<y, x>> \in OpToRel(<, Nat))
  BY NatLessThanWellFounded, WFMin
<1>2. \A y \in S : ~ (y < x)
  BY <1>1 DEF OpToRel
<1> QED BY <1>2

(* f puts the lines T of a log in order. *)
Sorts(f, T) ==
    /\ f \in [1..Cardinality(T) -> T]
    /\ \A i, j \in 1..Cardinality(T) : i < j => f[i] < f[j]

(* Any set of events has such an order. *)
LEMMA CanBeSorted ==
    ASSUME NEW T \in SUBSET Nat, NEW m \in Nat, T \subseteq 1..m
    PROVE  \E f : Sorts(f, T)
<1> DEFINE Bad == {n \in Nat : \E U \in SUBSET (1..n) : \A f : ~Sorts(f, U)}
<1> SUFFICES Bad = {}
  OBVIOUS
<1> SUFFICES ASSUME Bad # {} PROVE FALSE
  OBVIOUS
<1>1. PICK n \in Bad : \A y \in Bad : n <= y
  <2>1. Bad \in SUBSET Nat
    OBVIOUS
  <2> HIDE DEF Bad
  <2> QED BY <2>1, LeastNatural
<1>2. PICK U \in SUBSET (1..n) : \A f : ~Sorts(f, U)
  OBVIOUS
<1>3. n \in Nat /\ IsFiniteSet(U)
  <2>1. n \in Nat
    OBVIOUS
  <2>2. IsFiniteSet(1..n)
    BY <2>1, FS_Interval
  <2> QED BY <2>1, <2>2, FS_Subset
<1>4. n # 0
  <2> SUFFICES ASSUME n = 0 PROVE FALSE
    OBVIOUS
  <2>0. 1..0 = {}
    OBVIOUS
  <2>1. U = {} /\ Cardinality(U) = 0
    BY <1>2, <2>0, FS_EmptySet
  <2>2. Sorts([i \in 1..0 |-> i], U)
    BY <2>1 DEF Sorts
  <2> QED BY <1>2, <2>2
<1>5. n - 1 \in Nat /\ n - 1 \notin Bad
  <2>1. n - 1 \in Nat /\ ~(n <= n - 1)
    BY <1>3, <1>4
  <2> HIDE DEF Bad
  <2> QED BY <1>1, <2>1
<1>6. n \in U
  <2> SUFFICES ASSUME n \notin U PROVE FALSE
    OBVIOUS
  <2>1. U \in SUBSET (1..(n - 1))
    BY <1>2, <1>3
  <2> QED BY <1>2, <1>5, <2>1
<1> DEFINE V == U \ {n}
           k == Cardinality(U)
<1>7. V \in SUBSET (1..(n - 1))
  BY <1>2, <1>3
<1>8. PICK g : Sorts(g, V)
  BY <1>5, <1>7
<1>9. k \in Nat /\ Cardinality(V) \in Nat /\ Cardinality(V) = k - 1
  BY <1>3, <1>6, FS_RemoveElement, FS_CardinalityType
<1> DEFINE f == [i \in 1..k |-> IF i = k THEN n ELSE g[i]]
<1>10. Sorts(f, U)
  <2>1. g \in [1..(k - 1) -> V] /\ \A i, j \in 1..(k - 1) : i < j => g[i] < g[j]
    BY <1>8, <1>9 DEF Sorts
  <2>2. \A i \in 1..k : i # k => i \in 1..(k - 1)
    BY <1>9
  <2>3. \A i \in 1..k : i # k => g[i] \in V /\ g[i] < n
    <3>1. \A x \in V : x \in 1..(n - 1) /\ x < n
      BY <1>3, <1>7
    <3> HIDE DEF V
    <3> QED BY <2>1, <2>2, <3>1
  <2>4. f \in [1..k -> U]
    BY <1>6, <2>3
  <2>5. ASSUME NEW i \in 1..k, NEW j \in 1..k, i < j PROVE f[i] < f[j]
    <3>1. i # k
      BY <1>9, <2>5
    <3> QED BY <2>1, <2>2, <2>3, <2>5, <3>1
  <2> QED BY <2>4, <2>5 DEF Sorts
<1> QED BY <1>2, <1>10

(* What StreamLogs replays: the lines of the row, each once. *)
LEMMA Replay ==
    ASSUME NEW S \in SUBSET Events
    PROVE  LET w == InOrder(S)
           IN  /\ w \in Seq(Frames)
               /\ \A i \in 1..Len(w) : w[i].ev \in S /\ w[i].end = "none"
               /\ \A i, j \in 1..Len(w) : i < j => w[i].ev # w[j].ev
<1> DEFINE n == Cardinality(S)
           ks == CHOOSE f \in [1..n -> S] : \A i, j \in 1..n : i < j => f[i] < f[j]
           w == InOrder(S)
<1>1. Last \in Nat /\ S \subseteq 1..Last /\ S \in SUBSET Nat
  BY BoundAssumption DEF Last, Events
<1>2. PICK f : Sorts(f, S)
  BY <1>1, CanBeSorted
<1>3. ks \in [1..n -> S] /\ \A i, j \in 1..n : i < j => ks[i] < ks[j]
  BY <1>2 DEF Sorts
<1>4. n \in Nat
  <2>1. IsFiniteSet(1..Last)
    BY <1>1, FS_Interval
  <2> QED BY <1>1, <2>1, FS_Subset, FS_CardinalityType
<1>5. w = [i \in 1..n |-> Frame(ks[i], "none")]
  BY DEF InOrder
<1> HIDE DEF n, ks, w
<1>6. \A i \in 1..n : Frame(ks[i], "none") \in Frames
  BY <1>3 DEF Frame, Frames
<1>7. w \in Seq(Frames) /\ Len(w) = n
  BY <1>4, <1>5, <1>6
<1>8. \A i \in 1..n : w[i].ev = ks[i] /\ w[i].end = "none"
  BY <1>5 DEF Frame
<1>9. \A i \in 1..n : ks[i] \in S /\ ks[i] \in Nat
  BY <1>1, <1>3
<1>10. \A i, j \in 1..n : i < j => ks[i] # ks[j]
  BY <1>3, <1>9
<1> QED BY <1>7, <1>8, <1>9, <1>10 DEF w
-----------------------------------------------------------------------------
(* The numbering of the events. *)
LEMMA Numbers == Last \in Nat /\ Last >= 1 /\ Last \in Events /\ Events = 1..Last
BY BoundAssumption DEF Last, Events

(* A frame on the wire is a frame. *)
LEMMA WireFrames ==
    ASSUME NEW w \in Seq(Frames)
    PROVE  /\ Len(w) \in Nat
           /\ \A i \in 1..Len(w) : w[i].ev \in Events /\ w[i].end \in {"none", "ok", "error"}
<1>1. Len(w) \in Nat /\ w \in [1..Len(w) -> Frames]
  BY LenProperties
<1>2. \A i \in 1..Len(w) : w[i] \in Frames
  BY <1>1
<1> QED BY <1>1, <1>2 DEF Frames

(* The frame that an event is published in. *)
LEMMA PublishedFrame ==
    ASSUME TypeOK, CanEmit
    PROVE  /\ prod.at \in Events
           /\ LET f == Frame(prod.at, IF prod.at = Last THEN run ELSE "none")
              IN  f \in Frames /\ f.ev = prod.at /\ f.end \in {"none", run}
<1>1. prod.at \in Events /\ (prod.at = Last => run \in {"ok", "error"})
  BY Numbers DEF TypeOK, CanEmit, Finished
<1> QED BY <1>1 DEF Frame, Frames

(* What the handler says first. *)
LEMMA Greeting ==
    ASSUME TypeOK
    PROVE  LET w == IF IsBuild THEN BuildGreeting ELSE ProvisionGreeting
           IN  /\ w \in Seq(Frames)
               /\ \A i \in 1..Len(w) :
                     /\ w[i].end \in {"none", snap.run}
                     /\ w[i].end # "none" => snap.run \in {"ok", "error"}
                     /\ IsBuild => w[i].ev \in snap.log
               /\ \A i, j \in 1..Len(w) : i < j => w[i].ev # w[j].ev
               /\ ~IsBuild /\ snap.run \notin {"ok", "error"} => w = <<>>
<1>1. CASE IsBuild
  <2>1. snap.log \in SUBSET Events
    BY DEF TypeOK
  <2> QED BY <1>1, <2>1, Replay DEF BuildGreeting
<1>2. CASE ~IsBuild /\ snap.run \in {"ok", "error"}
  <2> DEFINE f == Frame(Last, snap.run)
             w == <<f>>
  <2>1. f \in Frames /\ f.end = snap.run
    BY <1>2, Numbers DEF Frame, Frames
  <2>2. ProvisionGreeting = w
    BY <1>2 DEF ProvisionGreeting
  <2> HIDE DEF f
  <2>3. w \in Seq(Frames) /\ Len(w) = 1 /\ w[1] = f
    BY <2>1
  <2> HIDE DEF w
  <2>4. \A i, j \in 1..Len(w) : w[i] = f /\ ~(i < j)
    BY <2>3
  <2> QED BY <1>2, <2>1, <2>2, <2>3, <2>4
<1>3. CASE ~IsBuild /\ snap.run \notin {"ok", "error"}
  <2>1. ProvisionGreeting = <<>>
    BY <1>3 DEF ProvisionGreeting
  <2>2. <<>> \in Seq(Frames) /\ Len(<<>>) = 0
    BY EmptySeq
  <2> QED BY <1>3, <2>1, <2>2
<1> QED BY <1>1, <1>2, <1>3

(* No run, no page: the invariant holds at the start. *)
LEMMA InitIInv == Init => IInv
<1> SUFFICES ASSUME Init PROVE IInv
  OBVIOUS
<1>1. TypeOK
  <2>1. prod \in [at : Events \cup {Last + 1}, half : BOOLEAN]
    BY Numbers DEF Init
  <2>2. snap \in [run : {"running", "ok", "error"}, log : SUBSET Events]
    BY DEF Init
  <2>3. wire \in Seq(Frames) /\ shown \in [Events -> 0..2]
    BY EmptySeq DEF Init
  <2> QED BY <2>1, <2>2, <2>3 DEF Init, TypeOK, Statuses
<1>2. RunOrder
  BY Numbers DEF Init, RunOrder, Finished
<1>3. WireOrder /\ Fresh
  BY DEF Init, WireOrder, Fresh
<1>4. EndsLikeTheRun /\ NoEventTwice
  BY DEF Init, EndsLikeTheRun, NoEventTwice
<1> QED BY <1>1, <1>2, <1>3, <1>4 DEF IInv

-----------------------------------------------------------------------------
(* The run ends, or is lost: nothing has said how it ended before. *)
LEMMA FinishKeeps ==
    ASSUME IInv, Finish \/ RunLost
    PROVE  IInv'
<1>1. /\ run = "running" /\ run' \in {"ok", "error", "lost"} /\ saved' \in BOOLEAN
      /\ (saved' => run' \in {"ok", "error"})
      /\ feed' = feed /\ log' = log /\ conn' = conn /\ snap' = snap /\ wire' = wire
      /\ mounted' = mounted /\ status' = status /\ shown' = shown
  BY DEF Finish, RunLost, IInv, TypeOK, RunOrder, Finished, pageVars
<1>2. /\ prod' \in [at : Events \cup {Last + 1}, half : BOOLEAN]
      /\ prod'.at >= prod.at /\ prod'.at \in Nat /\ prod.at \in Nat
      /\ prod' = prod \/ (~prod.half /\ ~prod'.half)
  <2>1. prod.at \in Nat /\ prod.at <= Last /\ prod \in [at : Events \cup {Last + 1}, half : BOOLEAN]
    BY <1>1, Numbers DEF IInv, TypeOK, RunOrder
  <2>2. CASE prod' = prod
    BY <2>1, <2>2
  <2>3. CASE prod' = [at |-> Last, half |-> FALSE] /\ ~prod.half
    BY <2>1, <2>3, Numbers
  <2> QED BY <2>2, <2>3 DEF Finish, RunLost
<1>3. TypeOK'
  BY <1>1, <1>2 DEF IInv, TypeOK
<1>4. RunOrder'
  <2>1. \A k \in log \cup snap.log : k \in Nat
    BY Numbers DEF IInv, TypeOK
  <2> QED BY <1>1, <1>2, <2>1 DEF IInv, RunOrder, Finished, IsBuild
<1>5. WireOrder'
  <2>1. \A i \in 1..Len(wire) : wire[i].end = "none"
    BY <1>1, WireFrames DEF IInv, WireOrder, TypeOK
  <2> QED BY <1>1, <2>1 DEF IInv, WireOrder
<1>6. EndsLikeTheRun' /\ NoEventTwice'
  BY <1>1 DEF IInv, EndsLikeTheRun, NoEventTwice
<1>7. ASSUME GivesUp' PROVE Fresh'
  <2>1. \A k \in Events :
           Published(k) => k < prod'.at \/ (IsBuild /\ prod'.half /\ k = prod'.at)
    BY <1>1, <1>2, Numbers DEF Published
  <2>2. \A i \in 1..Len(wire) : wire[i].ev \in Events
    BY WireFrames DEF IInv, TypeOK
  <2>3. Fresh
    BY <1>1, <1>7 DEF IInv, GivesUp
  <2> QED BY <1>1, <2>1, <2>2, <2>3 DEF Fresh, Published, IsBuild
<1> QED BY <1>3, <1>4, <1>5, <1>6, <1>7 DEF IInv

(* Half of an event, or all of it, is done. *)
LEMMA EmittedEffect ==
    ASSUME IInv, CanEmit, NEW first \in BOOLEAN, Emitted(first)
    PROVE  /\ prod' \in [at : Events \cup {Last + 1}, half : BOOLEAN]
           /\ prod.at \in Events /\ prod.at \in Nat
           /\ prod'.at = (IF first THEN prod.at ELSE prod.at + 1) /\ prod'.half = first
           /\ run = "running" => prod.at < Last
<1>1. prod \in [at : Events \cup {Last + 1}, half : BOOLEAN]
  BY DEF IInv, TypeOK
<1>2. prod.at \in Events /\ prod.at \in Nat /\ prod.at + 1 \in Events \cup {Last + 1}
  BY <1>1, Numbers DEF CanEmit
<1>3. CASE first
  BY <1>1, <1>2, <1>3, Numbers DEF Emitted, CanEmit, Finished
<1>4. CASE ~first
  BY <1>1, <1>2, <1>4, Numbers DEF Emitted, CanEmit, Finished
<1> QED BY <1>3, <1>4

(* The row gets an event: after it was published, in the case of a build. *)
LEMMA PersistKeeps ==
    ASSUME IInv, Persist
    PROVE  IInv'
<1>1. /\ feed' = feed /\ run' = run /\ saved' = saved /\ conn' = conn /\ snap' = snap
      /\ wire' = wire /\ mounted' = mounted /\ status' = status /\ shown' = shown
      /\ CanEmit /\ prod.half # ~IsBuild /\ Emitted(~IsBuild)
  BY DEF Persist, pageVars, Halfway
<1>2. /\ prod' \in [at : Events \cup {Last + 1}, half : BOOLEAN]
      /\ prod.at \in Events /\ prod.at \in Nat
      /\ prod'.at = (IF ~IsBuild THEN prod.at ELSE prod.at + 1) /\ prod'.half = ~IsBuild
      /\ run = "running" => prod.at < Last
  BY <1>1, EmittedEffect
<1>3. log' \subseteq log \cup {prod.at}
  BY DEF Persist
<1>4. TypeOK'
  BY <1>1, <1>2, <1>3 DEF IInv, TypeOK
<1>5. RunOrder'
  <2>1. \A k \in log \cup snap.log : k \in Nat
    BY Numbers DEF IInv, TypeOK
  <2>2. Last \in log' => Finished
    BY <1>1, <1>3 DEF IInv, RunOrder, CanEmit
  <2>3. IsBuild => \A k \in log' \cup snap.log : k < prod'.at
    BY <1>2, <1>3, <2>1 DEF IInv, RunOrder
  <2>4. run = "running" => prod'.at <= Last
    BY <1>2, Numbers
  <2> QED BY <1>1, <2>2, <2>3, <2>4 DEF IInv, RunOrder, Finished, IsBuild
<1>6. WireOrder' /\ EndsLikeTheRun' /\ NoEventTwice'
  BY <1>1 DEF IInv, WireOrder, EndsLikeTheRun, NoEventTwice
<1>7. ASSUME GivesUp' PROVE Fresh'
  <2>1. \A k \in Events :
           Published(k) => k < prod'.at \/ (IsBuild /\ prod'.half /\ k = prod'.at)
    BY <1>1, <1>2, Numbers DEF Published
  <2>2. \A i \in 1..Len(wire) : wire[i].ev \in Events
    BY WireFrames DEF IInv, TypeOK
  <2>3. Fresh
    BY <1>1, <1>7 DEF IInv, GivesUp
  <2> QED BY <1>1, <2>1, <2>2, <2>3 DEF Fresh, Published, IsBuild
<1> QED BY <1>4, <1>5, <1>6, <1>7 DEF IInv

(* Subscribers get an event: for the first time, and after what they have. *)
LEMMA PublishKeeps ==
    ASSUME IInv, Publish
    PROVE  IInv'
<1> DEFINE f == Frame(prod.at, IF prod.at = Last THEN run ELSE "none")
<1>1. /\ feed' = feed /\ run' = run /\ saved' = saved /\ log' = log /\ snap' = snap
      /\ mounted' = mounted /\ status' = status /\ shown' = shown
      /\ CanEmit /\ prod.half # IsBuild /\ Emitted(IsBuild)
  BY DEF Publish, pageVars, Halfway
<1>2. /\ prod' \in [at : Events \cup {Last + 1}, half : BOOLEAN]
      /\ prod.at \in Events /\ prod.at \in Nat
      /\ prod'.at = (IF IsBuild THEN prod.at ELSE prod.at + 1) /\ prod'.half = IsBuild
      /\ run = "running" => prod.at < Last
  <2>1. IsBuild \in BOOLEAN
    BY DEF IsBuild
  <2> QED BY <1>1, <2>1, EmittedEffect
<1>3. \/ wire' = wire /\ conn' \in {conn, "ending"} /\ (conn' # conn => conn = "open")
      \/ conn = "open" /\ wire' = Append(wire, f) /\ conn' = conn
  BY DEF Publish
<1>4. f \in Frames /\ f.ev = prod.at /\ f.end \in {"none", run}
  BY <1>1, PublishedFrame DEF IInv
<1> HIDE DEF f
<1>5. wire \in Seq(Frames) /\ Len(wire) \in Nat
  BY LenProperties DEF IInv, TypeOK
<1>6. /\ wire' \in Seq(Frames)
      /\ \A i \in 1..Len(wire') :
            \/ i \in 1..Len(wire) /\ wire'[i] = wire[i]
            \/ conn = "open" /\ i = Len(wire) + 1 /\ wire'[i] = f
  <2>1. CASE wire' = wire
    BY <1>5, <2>1
  <2>2. CASE conn = "open" /\ wire' = Append(wire, f)
    <3>1. /\ wire' \in Seq(Frames) /\ Len(wire') = Len(wire) + 1
          /\ \A i \in 1..Len(wire) : wire'[i] = wire[i]
          /\ wire'[Len(wire) + 1] = f
      BY <1>4, <1>5, <2>2, AppendProperties
    <3>2. \A i \in 1..(Len(wire) + 1) : i \in 1..Len(wire) \/ i = Len(wire) + 1
      BY <1>5
    <3> QED BY <2>2, <3>1, <3>2
  <2> QED BY <1>3, <2>1, <2>2
<1>7. TypeOK'
  BY <1>1, <1>2, <1>3, <1>6 DEF IInv, TypeOK
<1>8. RunOrder'
  <2>1. \A k \in log \cup snap.log : k \in Nat
    BY Numbers DEF IInv, TypeOK
  <2>2. run = "running" => prod'.at <= Last
    BY <1>2, Numbers
  <2> QED BY <1>1, <1>2, <2>1, <2>2 DEF IInv, RunOrder, Finished, IsBuild
<1>9. WireOrder'
  <2>1. \A i \in 1..Len(wire') : wire'[i].end \in {"none", run}
    BY <1>4, <1>6 DEF IInv, WireOrder
  <2> QED BY <1>1, <1>3, <2>1 DEF IInv, WireOrder
<1>10. EndsLikeTheRun' /\ NoEventTwice'
  BY <1>1 DEF IInv, EndsLikeTheRun, NoEventTwice
<1>11. ASSUME GivesUp' PROVE Fresh'
  <2>1. Fresh
    BY <1>1, <1>11 DEF IInv, GivesUp
  <2> DEFINE Q(k) == k < prod'.at \/ (IsBuild /\ prod'.half /\ k = prod'.at)
  <2>2. /\ ~Published(prod.at) /\ Q(prod.at)
        /\ \A k \in Events : Published(k) => Q(k)
    <3>1. (IsBuild => ~prod.half) /\ (IsBuild => prod'.half)
      BY <1>1, <1>2 DEF IsBuild, IInv, TypeOK
    <3>2. CASE IsBuild
      BY <1>2, <3>1, <3>2, Numbers DEF Published
    <3>3. CASE ~IsBuild
      BY <1>2, <3>1, <3>3, Numbers DEF Published
    <3> QED BY <3>2, <3>3
  <2>3. \A i \in 1..Len(wire) : wire[i].ev \in Events
    BY WireFrames DEF IInv, TypeOK
  <2>4. conn = "open" => shown[prod.at] = 0 /\ \A i \in 1..Len(wire) : wire[i].ev # prod.at
    <3>1. shown[prod.at] \in 0..2
      BY <1>2 DEF IInv, TypeOK
    <3> QED BY <1>2, <2>1, <2>2, <3>1 DEF Fresh
  <2>5. \A i \in 1..Len(wire') : shown[wire'[i].ev] = 0
    BY <1>4, <1>6, <2>1, <2>4 DEF Fresh
  <2>6. \A i, j \in 1..Len(wire') : i < j => wire'[i].ev # wire'[j].ev
    <3> SUFFICES ASSUME NEW i \in 1..Len(wire'), NEW j \in 1..Len(wire'), i < j
                 PROVE  wire'[i].ev # wire'[j].ev
      OBVIOUS
    <3>1. i \in 1..Len(wire) /\ wire'[i] = wire[i]
      BY <1>5, <1>6
    <3> QED BY <1>4, <1>6, <2>1, <2>4, <3>1 DEF Fresh
  <2>7. conn = "open" => \A i \in 1..Len(wire') : Q(wire'[i].ev)
    BY <1>4, <1>6, <2>1, <2>2, <2>3 DEF Fresh
  <2>8. conn = "open" => \A k \in Events : shown[k] > 0 => Q(k)
    BY <2>1, <2>2 DEF Fresh
  <2>9. conn' = "open" => conn = "open"
    BY <1>3
  <2>10. conn' \in {"asking", "read"} => conn = conn'
    BY <1>3
  <2> QED BY <1>1, <2>1, <2>5, <2>6, <2>7, <2>8, <2>9, <2>10 DEF Fresh, Published, IsBuild
<1> QED BY <1>7, <1>8, <1>9, <1>10, <1>11 DEF IInv
-----------------------------------------------------------------------------
(* The handler reads the row: an outcome that it says is the run's. *)
LEMMA HandlerReadsKeeps ==
    ASSUME IInv, HandlerReads
    PROVE  IInv'
<1>1. /\ conn = "asking" /\ conn' = "read" /\ snap' = [run |-> Row, log |-> log]
      /\ feed' = feed /\ run' = run /\ saved' = saved /\ prod' = prod /\ log' = log
      /\ wire' = wire /\ mounted' = mounted /\ status' = status /\ shown' = shown
  BY DEF HandlerReads, runVars, pageVars
<1>2. Row \in {"running", "ok", "error"} /\ (Row \in {"ok", "error"} => Row = run)
  BY DEF IInv, TypeOK, RunOrder, Row, Finished
<1>3. snap' \in [run : {"running", "ok", "error"}, log : SUBSET Events] /\ snap'.run = Row
      /\ snap'.log = log
  BY <1>1, <1>2 DEF IInv, TypeOK
<1>4. TypeOK'
  BY <1>1, <1>3 DEF IInv, TypeOK
<1>5. RunOrder'
  BY <1>1, <1>2, <1>3 DEF IInv, RunOrder, Finished, IsBuild
<1>6. WireOrder' /\ EndsLikeTheRun' /\ NoEventTwice'
  BY <1>1 DEF IInv, WireOrder, EndsLikeTheRun, NoEventTwice
<1>7. GivesUp' => Fresh'
  BY <1>1 DEF IInv, GivesUp, Fresh, Published, IsBuild
<1> QED BY <1>4, <1>5, <1>6, <1>7 DEF IInv

(* The handler greets and subscribes: nothing was shown since the component was
   mounted, if it does not connect again. *)
LEMMA HandlerSubscribesKeeps ==
    ASSUME IInv, HandlerSubscribes
    PROVE  IInv'
<1>1. /\ conn = "read" /\ conn' = IF snap.run \in {"ok", "error"} THEN "ending" ELSE "open"
      /\ wire' = IF IsBuild THEN BuildGreeting ELSE ProvisionGreeting
      /\ feed' = feed /\ run' = run /\ saved' = saved /\ prod' = prod /\ log' = log
      /\ snap' = snap /\ mounted' = mounted /\ status' = status /\ shown' = shown
  BY DEF HandlerSubscribes, runVars, pageVars
<1>2. /\ wire' \in Seq(Frames)
      /\ \A i \in 1..Len(wire') :
            /\ wire'[i].end \in {"none", snap.run}
            /\ wire'[i].end # "none" => snap.run \in {"ok", "error"}
            /\ IsBuild => wire'[i].ev \in snap.log
      /\ \A i, j \in 1..Len(wire') : i < j => wire'[i].ev # wire'[j].ev
      /\ ~IsBuild /\ snap.run \notin {"ok", "error"} => wire' = <<>>
  BY <1>1, Greeting DEF IInv
<1>3. TypeOK'
  BY <1>1, <1>2 DEF IInv, TypeOK
<1>4. RunOrder'
  BY <1>1 DEF IInv, RunOrder, Finished, IsBuild
<1>5. WireOrder'
  <2>1. \A i \in 1..Len(wire') : wire'[i].end \in {"none", run}
    BY <1>2 DEF IInv, RunOrder
  <2> QED BY <1>1, <2>1 DEF IInv, WireOrder
<1>6. EndsLikeTheRun' /\ NoEventTwice'
  BY <1>1 DEF IInv, EndsLikeTheRun, NoEventTwice
<1>7. ASSUME GivesUp' PROVE Fresh'
  <2>1. Fresh
    BY <1>1, <1>7 DEF IInv, GivesUp
  <2>2. \A k \in Events : shown[k] = 0
    BY <1>1, <2>1 DEF Fresh
  <2>3. \A i \in 1..Len(wire') : wire'[i].ev \in Events
    BY <1>2, WireFrames
  <2>4. conn' = "open" => \A i \in 1..Len(wire') : wire'[i].ev < prod.at
    <3>1. CASE IsBuild
      BY <1>2, <3>1 DEF IInv, RunOrder
    <3>2. CASE ~IsBuild
      <4>1. conn' = "open" => Len(wire') = 0
        BY <1>1, <1>2, <3>2, EmptySeq
      <4> QED BY <4>1
    <3> QED BY <3>1, <3>2
  <2> QED BY <1>1, <1>2, <2>2, <2>3, <2>4 DEF Fresh, Published
<1> QED BY <1>3, <1>4, <1>5, <1>6, <1>7 DEF IInv

(* The connection has ended, is lost, refused or closed, with all that was on its way. *)
LEMMA ConnectionEnds ==
    ASSUME IInv, StreamEnds \/ Cut \/ Refused \/ NoLongerLive
    PROVE  IInv'
<1>1. /\ feed' = feed /\ run' = run /\ saved' = saved /\ prod' = prod /\ log' = log
      /\ snap' = snap /\ mounted' = mounted /\ shown' = shown
  BY DEF StreamEnds, Reconnect, Cut, Refused, NoLongerLive, runVars, pageVars
<1>2. wire' = <<>> /\ wire' \in Seq(Frames) /\ Len(wire') = 0
  BY EmptySeq DEF StreamEnds, Reconnect, Cut, Refused, NoLongerLive, IInv, WireOrder
<1>3. /\ conn' \in {"off", "asking", "dead"} /\ (~mounted => conn' = "off")
      /\ (GivesUp => conn' # "asking")
  BY DEF StreamEnds, Reconnect, Cut, Refused, NoLongerLive, IInv, WireOrder
<1>4. status' \in Statuses /\ status' \in {status, "connecting"}
  BY DEF StreamEnds, Reconnect, Cut, Refused, NoLongerLive, OnError, pageVars, IInv, TypeOK, Statuses
<1>5. TypeOK'
  BY <1>1, <1>2, <1>3, <1>4 DEF IInv, TypeOK
<1>6. RunOrder'
  BY <1>1 DEF IInv, RunOrder, Finished, IsBuild
<1>7. WireOrder'
  BY <1>1, <1>2, <1>3 DEF WireOrder
<1>8. EndsLikeTheRun' /\ NoEventTwice'
  BY <1>1, <1>4 DEF IInv, EndsLikeTheRun, NoEventTwice
<1>9. GivesUp' => Fresh'
  BY <1>1, <1>2, <1>3 DEF Fresh, GivesUp
<1> QED BY <1>5, <1>6, <1>7, <1>8, <1>9 DEF IInv

(* A page is opened or left: it starts from nothing, or from the row. *)
LEMMA PageKeeps ==
    ASSUME IInv, Mount \/ Unmount
    PROVE  IInv'
<1>1. /\ feed' = feed /\ run' = run /\ saved' = saved /\ prod' = prod /\ log' = log
      /\ snap' = snap /\ mounted' \in BOOLEAN
  BY DEF Mount, Unmount, runVars
<1>2. wire' = <<>> /\ wire' \in Seq(Frames) /\ Len(wire') = 0
  BY EmptySeq DEF Mount, Unmount, IInv, WireOrder
<1>3. conn' \in {"off", "asking"} /\ (~mounted' => conn' = "off")
  BY DEF Mount, Unmount
<1>4. status' \in Statuses
  BY DEF Mount, Unmount, Statuses
<1>5. /\ shown' \in [Events -> 0..2] /\ \A k \in Events : shown'[k] <= 1
      /\ GivesUp => \A k \in Events : shown'[k] = 0
  BY DEF Mount, Unmount, GivesUp
<1>6. (status' = "success" => run = "ok") /\ (status' = "failed" => run = "error")
  BY DEF Mount, Unmount, IInv, RunOrder, Finished
<1>7. TypeOK'
  BY <1>1, <1>2, <1>3, <1>4, <1>5 DEF IInv, TypeOK
<1>8. RunOrder'
  BY <1>1 DEF IInv, RunOrder, Finished, IsBuild
<1>9. WireOrder' /\ EndsLikeTheRun' /\ NoEventTwice'
  BY <1>1, <1>2, <1>3, <1>5, <1>6 DEF WireOrder, EndsLikeTheRun, NoEventTwice
<1>10. GivesUp' => Fresh'
  BY <1>1, <1>2, <1>3, <1>5 DEF Fresh, GivesUp
<1> QED BY <1>7, <1>8, <1>9, <1>10 DEF IInv

(* A frame arrives. *)
LEMMA DeliverKeeps ==
    ASSUME IInv, NEW k \in Events, Deliver(k)
    PROVE  IInv'
<1> DEFINE n == Len(wire)
<1>1. /\ feed' = feed /\ run' = run /\ saved' = saved /\ prod' = prod /\ log' = log
      /\ snap' = snap /\ mounted' = mounted
  BY DEF Deliver, runVars
<1>2. /\ wire \in Seq(Frames) /\ wire # <<>> /\ n \in Nat \ {0}
      /\ Head(wire) = wire[1] /\ wire[1].ev = k
      /\ wire[1].end \in {"none", "ok", "error"} /\ wire[1].end \in {"none", run}
  <2>1. wire \in Seq(Frames) /\ wire # <<>> /\ Head(wire).ev = k
    BY DEF IInv, TypeOK, Deliver
  <2>2. n \in Nat \ {0} /\ Head(wire) = wire[1]
    BY <2>1, EmptySeq
  <2>3. 1 \in 1..n
    BY <2>2
  <2> QED BY <2>1, <2>2, <2>3, WireFrames DEF IInv, WireOrder
<1>3. conn \in {"open", "ending"} /\ mounted
  BY <1>2 DEF IInv, WireOrder
<1>4. \/ /\ wire[1].end = "none" /\ status' = Opened(status)
         /\ wire' = Tail(wire) /\ conn' = conn
      \/ /\ wire[1].end # "none" /\ wire' = <<>> /\ conn' = "off"
         /\ status' = IF wire[1].end = "ok" THEN "success" ELSE "failed"
  BY <1>2 DEF Deliver
<1>5. /\ wire' \in Seq(Frames) /\ Len(wire') \in 0..(n - 1)
      /\ \A i \in 1..Len(wire') : i + 1 \in 1..n /\ wire'[i] = wire[i + 1]
  <2>1. CASE wire' = Tail(wire)
    <3>1. Tail(wire) \in Seq(Frames) /\ Len(Tail(wire)) = n - 1
          /\ \A i \in 1..Len(Tail(wire)) : Tail(wire)[i] = wire[i + 1]
      BY <1>2, HeadTailProperties
    <3>2. \A i \in 1..(n - 1) : i + 1 \in 1..n
      BY <1>2
    <3> QED BY <1>2, <2>1, <3>1, <3>2
  <2>2. CASE wire' = <<>>
    BY <1>2, <2>2, EmptySeq
  <2> QED BY <1>4, <2>1, <2>2
<1> HIDE DEF n
<1>6. /\ shown' \in [Events -> 0..2]
      /\ \A j \in Events : j # k => shown'[j] = shown[j]
      /\ IsBuild \/ GivesUp => shown'[k] = (IF shown[k] = 2 THEN 2 ELSE shown[k] + 1)
      /\ ~(IsBuild \/ GivesUp) => shown'[k] = 1
  <2>1. shown \in [Events -> 0..2] /\ AddEvent(k)
    BY DEF IInv, TypeOK, Deliver
  <2>2. CASE IsBuild \/ GivesUp
    BY <2>1, <2>2 DEF AddEvent, LogStream
  <2>3. CASE ~(IsBuild \/ GivesUp)
    BY <2>1, <2>3 DEF AddEvent
  <2> QED BY <2>2, <2>3
<1>7. TypeOK'
  BY <1>1, <1>4, <1>5, <1>6 DEF IInv, TypeOK, Opened, Statuses
<1>8. RunOrder'
  BY <1>1 DEF IInv, RunOrder, Finished, IsBuild
<1>9. WireOrder'
  <2>1. \A i \in 1..Len(wire') : wire'[i].end \in {"none", run}
    BY <1>5 DEF IInv, WireOrder, n
  <2> QED BY <1>1, <1>3, <1>4, <2>1 DEF WireOrder
<1>10. EndsLikeTheRun'
  BY <1>1, <1>2, <1>4 DEF IInv, EndsLikeTheRun, Opened
<1>11. GivesUp => Fresh /\ shown[k] = 0
  BY <1>2 DEF IInv, Fresh, n
<1>12. NoEventTwice'
  <2>1. feed # "build" => shown'[k] <= 1
    BY <1>6, <1>11 DEF GivesUp, IsBuild
  <2> QED BY <1>1, <1>6, <2>1 DEF IInv, NoEventTwice
<1>13. ASSUME GivesUp' PROVE Fresh'
  <2>1. Fresh /\ shown'[k] = 1
    BY <1>1, <1>6, <1>11, <1>13 DEF GivesUp
  <2>2. \A i \in 1..Len(wire') : wire'[i].ev # k /\ wire'[i].ev \in Events
    <3>1. \A i \in 1..Len(wire') : wire'[i].ev \in Events
      BY <1>5, WireFrames
    <3>2. \A i \in 1..n : 1 < i => wire[1].ev # wire[i].ev
      BY <1>2, <2>1 DEF Fresh, n
    <3>3. \A i \in 1..Len(wire') : 1 < i + 1
      BY <1>5
    <3> QED BY <1>2, <1>5, <3>1, <3>2, <3>3
  <2>3. \A i \in 1..Len(wire') : shown'[wire'[i].ev] = 0
    BY <1>5, <1>6, <2>1, <2>2 DEF Fresh, n
  <2>4. \A i, j \in 1..Len(wire') : i < j => wire'[i].ev # wire'[j].ev
    <3>1. \A i, j \in 1..Len(wire') : i < j => i + 1 < j + 1
      BY <1>5
    <3> QED BY <1>5, <2>1, <3>1 DEF Fresh, n
  <2>5. conn' \notin {"asking", "read"} /\ (conn' = "open" => conn = "open")
    BY <1>3, <1>4
  <2>6. conn = "open" =>
          /\ \A i \in 1..Len(wire') : Published(wire'[i].ev)
          /\ Published(k)
    <3>1. 1 \in 1..n
      BY <1>2
    <3> QED BY <1>2, <1>5, <2>1, <3>1 DEF Fresh, n
  <2>7. conn = "open" => \A j \in Events : shown'[j] > 0 => Published(j)
    BY <1>6, <2>1, <2>6 DEF Fresh
  <2> QED BY <1>1, <2>3, <2>4, <2>5, <2>6, <2>7 DEF Fresh, Published, IsBuild
<1> QED BY <1>7, <1>8, <1>9, <1>10, <1>12, <1>13 DEF IInv

(* Every step keeps the invariant. *)
LEMMA NextIInv == IInv /\ [Next]_vars => IInv'
<1> SUFFICES ASSUME IInv, [Next]_vars PROVE IInv'
  OBVIOUS
<1>1. CASE UNCHANGED vars
  BY <1>1 DEF vars, IInv, TypeOK, RunOrder, WireOrder, EndsLikeTheRun, NoEventTwice, Fresh,
     Published, IsBuild, Finished, GivesUp
<1> QED
  BY <1>1, FinishKeeps, PersistKeeps, PublishKeeps, HandlerReadsKeeps, HandlerSubscribesKeeps,
     ConnectionEnds, DeliverKeeps, PageKeeps DEF Next

(* The whole invariant, for any number of events. *)
THEOREM Invariance == Spec => []IInv
BY InitIInv, NextIInv, PTL DEF Spec

(* Runs, connections, frames and consoles keep their types: in particular no
   frame carries an event or an outcome that the run does not have, and onerror
   leaves a status that the consoles know. *)
THEOREM TypeOKHolds == Spec => []TypeOK
<1>1. IInv => TypeOK
  BY DEF IInv
<1> QED BY <1>1, Invariance, PTL

(* ProvisionConsole of both consoles and LogViewer show each event once,
   however the handler's read, its subscription and the run interleave. *)
THEOREM NoEventTwiceHolds == Spec => []NoEventTwice
<1>1. IInv => NoEventTwice
  BY DEF IInv
<1> QED BY <1>1, Invariance, PTL

(* The outcome that a console shows is the run's. *)
THEOREM EndsLikeTheRunHolds == Spec => []EndsLikeTheRun
<1>1. IInv => EndsLikeTheRun
  BY DEF IInv
<1> QED BY <1>1, Invariance, PTL
=============================================================================
