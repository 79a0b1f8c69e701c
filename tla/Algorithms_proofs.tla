------------------------- MODULE Algorithms_proofs --------------------------
(***************************************************************************)
(* Proofs about the parts of the program that run from start to end without*)
(* another actor in between.                                               *)
(*                                                                         *)
(* The scheduler, for every number of subtasks and every graph: the counts *)
(* of open dependencies are exact, so no subtask is handed out before its  *)
(* dependencies are complete, or twice, and the sort of a fresh one is     *)
(* legal and stable.                                                       *)
(*                                                                         *)
(* The decisions, for every question that the assumptions on their         *)
(* constants allow, however long its sequences are: what passes an         *)
(* iteration, what is stored and read, what is bound and chosen, which     *)
(* calls run, and which source a configuration follows.                    *)
(***************************************************************************)
EXTENDS Scheduler, Decisions, FiniteSetTheorems, WellFoundedInduction, TLAPS

-----------------------------------------------------------------------------
(* The scheduler.                                                          *)

TypeOK ==
  /\ deps \in [Subtasks -> SUBSET Subtasks]
  /\ dependencyCount \in [Subtasks -> Int]
  /\ ready \in SUBSET Subtasks
  /\ scheduled \in SUBSET Subtasks
  /\ completed \in SUBSET Subtasks

(* What is ready or handed out has nothing left to wait for.               *)
ReadyIsUnblocked ==
  \A i \in ready : deps[i] \subseteq completed

NeverQueuedAgain == ready \cap scheduled = {}

IInv == TypeOK /\ CountsAreExact /\ ReadyIsUnblocked /\ NeverQueuedAgain

LEMMA SubtasksFinite == \A S \in SUBSET Subtasks : IsFiniteSet(S) /\ Cardinality(S) \in Nat
<1>1. IsFiniteSet(Subtasks)
  BY NAssumption, FS_Interval DEF Subtasks
<1>2. QED
  BY <1>1, FS_Subset, FS_CardinalityType

(* The set of open dependencies shrinks by one when one of them completes. *)
LEMMA OpenDependencies ==
  ASSUME NEW D \in SUBSET Subtasks, NEW C \in SUBSET Subtasks, NEW i \in D, i \notin C
  PROVE  /\ Cardinality(D \ (C \cup {i})) = Cardinality(D \ C) - 1
         /\ Cardinality(D \ C) \in Nat \ {0}
         /\ Cardinality(D \ C) = 1 => D \subseteq C \cup {i}
<1>1. IsFiniteSet(D \ C) /\ Cardinality(D \ C) \in Nat
  BY SubtasksFinite
<1>2. i \in D \ C
  OBVIOUS
<1>3. D \ (C \cup {i}) = (D \ C) \ {i}
  OBVIOUS
<1>4. /\ Cardinality((D \ C) \ {i}) = Cardinality(D \ C) - 1
      /\ IsFiniteSet((D \ C) \ {i})
  BY <1>1, <1>2, FS_RemoveElement
<1>5. Cardinality((D \ C) \ {i}) \in Nat
  BY <1>4, FS_CardinalityType
<1>6. ASSUME Cardinality(D \ C) = 1  PROVE D \subseteq C \cup {i}
  <2>1. Cardinality((D \ C) \ {i}) = 0
    BY <1>4, <1>6
  <2>2. (D \ C) \ {i} = {}
    BY <1>4, <2>1, FS_EmptySet
  <2>3. QED
    BY <2>2
<1>7. QED
  BY <1>1, <1>3, <1>4, <1>5, <1>6

LEMMA InitIInv == Init => IInv
<1>1. SUFFICES ASSUME Init PROVE IInv
  OBVIOUS
<1>2. TypeOK
  BY <1>1, SubtasksFinite DEF Init, TypeOK
<1>3. CountsAreExact
  <2>1. \A i \in Subtasks : deps[i] \ {} = deps[i]
    OBVIOUS
  <2>2. QED
    BY <1>1, <2>1 DEF Init, CountsAreExact
<1>4. ReadyIsUnblocked
  <2>1. ASSUME NEW i \in ready PROVE deps[i] = {}
    <3>1. i \in Subtasks /\ Cardinality(deps[i]) = 0 /\ deps[i] \in SUBSET Subtasks
      BY <1>1, <2>1 DEF Init
    <3>2. QED
      BY <3>1, SubtasksFinite, FS_EmptySet
  <2>2. QED
    BY <2>1 DEF ReadyIsUnblocked
<1>5. NeverQueuedAgain
  BY <1>1 DEF Init, NeverQueuedAgain
<1>6. QED
  BY <1>2, <1>3, <1>4, <1>5 DEF IInv

LEMMA ScheduleKeeps == IInv /\ Schedule => IInv'
<1>1. SUFFICES ASSUME IInv, Schedule PROVE IInv'
  OBVIOUS
<1>2. TypeOK' /\ ReadyIsUnblocked' /\ NeverQueuedAgain'
  BY <1>1 DEF IInv, TypeOK, ReadyIsUnblocked, NeverQueuedAgain, Schedule
<1>3. CountsAreExact'
  BY <1>1 DEF IInv, CountsAreExact, Schedule
<1>4. QED
  BY <1>2, <1>3 DEF IInv

LEMMA MarkCompleteKeeps ==
  ASSUME IInv, NEW i \in Subtasks, MarkComplete(i)
  PROVE  IInv'
<1>1. TypeOK'
  <2>1. \A j \in Subtasks : dependencyCount[j] \in Int /\ dependencyCount[j] - 1 \in Int
    BY DEF IInv, TypeOK
  <2>2. dependencyCount' \in [Subtasks -> Int]
    BY <2>1 DEF MarkComplete
  <2>3. QED
    BY <2>2 DEF IInv, TypeOK, MarkComplete, Dependents
<1>2. ASSUME NEW j \in Subtasks, j \notin completed', i \in deps[j]
      PROVE  /\ dependencyCount'[j] = dependencyCount[j] - 1
             /\ dependencyCount'[j] = Cardinality(deps[j] \ completed')
             /\ dependencyCount'[j] = 0 => deps[j] \subseteq completed'
  <2>1. /\ j \notin completed /\ i \notin completed /\ completed' = completed \cup {i}
        /\ deps[j] \in SUBSET Subtasks /\ completed \in SUBSET Subtasks
    BY <1>2 DEF IInv, TypeOK, MarkComplete
  <2>2. dependencyCount[j] = Cardinality(deps[j] \ completed)
    BY <2>1 DEF IInv, CountsAreExact
  <2>3. /\ Cardinality(deps[j] \ (completed \cup {i})) = Cardinality(deps[j] \ completed) - 1
        /\ Cardinality(deps[j] \ completed) \in Nat \ {0}
        /\ Cardinality(deps[j] \ completed) = 1 => deps[j] \subseteq completed \cup {i}
    BY <1>2, <2>1, OpenDependencies
  <2>4. j \in Dependents(i) \ completed /\ dependencyCount[j] > 0
    BY <1>2, <2>1, <2>2, <2>3 DEF Dependents
  <2>5. dependencyCount'[j] = dependencyCount[j] - 1
    BY <2>4 DEF MarkComplete
  <2>6. QED
    BY <2>1, <2>2, <2>3, <2>5
<1>3. ASSUME NEW j \in Subtasks, j \notin completed', i \notin deps[j]
      PROVE  dependencyCount'[j] = Cardinality(deps[j] \ completed')
  <2>1. deps[j] \ completed' = deps[j] \ completed /\ j \notin completed
    BY <1>3 DEF MarkComplete
  <2>2. dependencyCount'[j] = dependencyCount[j]
    BY <1>3 DEF MarkComplete, Dependents
  <2>3. QED
    BY <2>1, <2>2 DEF IInv, CountsAreExact
<1>4. CountsAreExact'
  BY <1>2, <1>3 DEF CountsAreExact, MarkComplete
<1>5. ReadyIsUnblocked'
  <2>1. SUFFICES ASSUME NEW j \in ready' PROVE deps[j] \subseteq completed'
    BY DEF ReadyIsUnblocked, MarkComplete
  <2>2. CASE j \in ready
    BY <2>2 DEF IInv, ReadyIsUnblocked, MarkComplete
  <2>3. ASSUME j \notin ready PROVE deps[j] \subseteq completed'
    <3>1. /\ j \in Subtasks /\ i \in deps[j] /\ j \notin completed
          /\ dependencyCount'[j] = 0
      BY <2>1, <2>3 DEF MarkComplete, Dependents
    <3>2. CASE j # i
      BY <1>2, <3>1, <3>2 DEF MarkComplete
    <3>3. CASE j = i
      <4>1. /\ deps[j] \in SUBSET Subtasks /\ completed \in SUBSET Subtasks
            /\ completed' = completed \cup {i}
            /\ dependencyCount[j] = Cardinality(deps[j] \ completed)
        BY <3>1 DEF IInv, TypeOK, CountsAreExact, MarkComplete
      <4>2. /\ Cardinality(deps[j] \ completed) \in Nat \ {0}
            /\ Cardinality(deps[j] \ completed) = 1 => deps[j] \subseteq completed \cup {i}
        BY <3>1, <3>3, <4>1, OpenDependencies
      <4>3. dependencyCount'[j] = dependencyCount[j] - 1
        BY <3>1, <4>1, <4>2 DEF MarkComplete, Dependents
      <4>4. QED
        BY <3>1, <4>1, <4>2, <4>3
    <3>4. QED
      BY <3>2, <3>3
  <2>4. QED
    BY <2>2, <2>3
<1>6. NeverQueuedAgain'
  BY DEF IInv, NeverQueuedAgain, MarkComplete
<1>7. QED
  BY <1>1, <1>4, <1>5, <1>6 DEF IInv

LEMMA NextKeeps == IInv /\ [Next]_vars => IInv'
<1>1. ASSUME IInv, UNCHANGED vars PROVE IInv'
  BY <1>1 DEF IInv, TypeOK, CountsAreExact, ReadyIsUnblocked, NeverQueuedAgain, vars
<1>2. QED
  BY <1>1, ScheduleKeeps, MarkCompleteKeeps DEF Next

(* In every reachable state IInv holds (DAGScheduler).                     *)
THEOREM Invariance == Spec => []IInv
BY InitIInv, NextKeeps, PTL DEF Spec

(* The counts MarkComplete keeps are exact, whatever order the client      *)
(* reports subtasks in.                                                    *)
THEOREM CountsExact == Spec => []CountsAreExact
<1>1. IInv => CountsAreExact
  BY DEF IInv
<1>2. QED
  BY <1>1, Invariance, PTL

(* Schedule and MarkComplete implement the order SubtaskOrder promises.    *)
THEOREM ImplementsOrder == Spec => KeepsOrder
<1>1. Init => Order!Init
  BY DEF Init, Order!Init
<1>2. IInv /\ [Next]_vars => [Order!Next]_(Order!vars)
  <2>1. SUFFICES ASSUME IInv, [Next]_vars PROVE [Order!Next]_(Order!vars)
    OBVIOUS
  <2>2. CASE Schedule
    <3>1. Order!Start(ready)
      BY <2>1, <2>2 DEF IInv, ReadyIsUnblocked, NeverQueuedAgain, Schedule, Order!Start
    <3>2. ready \in SUBSET Subtasks
      BY <2>1 DEF IInv, TypeOK
    <3>3. QED
      BY <3>1, <3>2 DEF Order!Next
  <2>3. ASSUME NEW i \in Subtasks, MarkComplete(i) PROVE [Order!Next]_(Order!vars)
    <3>1. Order!Complete(i)
      BY <2>3 DEF MarkComplete, Order!Complete
    <3>2. QED
      BY <3>1 DEF Order!Next
  <2>4. CASE UNCHANGED vars
    BY <2>4 DEF vars, Order!vars
  <2>5. QED
    BY <2>1, <2>2, <2>3, <2>4 DEF Next
<1>3. QED
  BY <1>1, <1>2, Invariance, PTL DEF Spec, KeepsOrder, Order!Spec

-----------------------------------------------------------------------------
(* TopologicalSort.  Its turns are a recursive function: that there is one *)
(* and that every turn keeps SortInv follow by the least counterexample.   *)

LEMMA LeastElement ==
  ASSUME NEW T \in SUBSET Nat, T # {}
  PROVE  \E m \in T : \A n \in T : m <= n
<1> DEFINE R == OpToRel(<, Nat)
<1>1. IsWellFoundedOn(R, Nat)
  BY NatLessThanWellFounded, Zenon
<1>2. \A m, n \in Nat : n < m => <<n, m>> \in R
  BY Z3 DEF OpToRel
<1> HIDE DEF R
<1>3. PICK m \in T : \A n \in T : ~(<<n, m>> \in R)
  BY <1>1, WFMin
<1>4. \A n \in T : ~(n < m)
  BY <1>2, <1>3
<1>5. \A n \in T : m <= n
  BY <1>4
<1>6. QED
  BY <1>5

LEMMA TurnsDef == turns = [n \in 0 .. N |-> IF n = 0 THEN SortStart ELSE Turn(turns[n - 1])]
<1> DEFINE Steps(f, k) == f = [n \in 0 .. k |-> IF n = 0 THEN SortStart ELSE Turn(f[n - 1])]
           T == {k \in Nat : ~ \E f : Steps(f, k)}
<1>1. T = {}
  <2>1. SUFFICES ASSUME T # {} PROVE FALSE
    OBVIOUS
  <2>2. PICK m \in T : \A n \in T : m <= n
    <3>1. T \in SUBSET Nat
      OBVIOUS
    <3> HIDE DEF T
    <3>2. QED
      BY <2>1, <3>1, LeastElement
  <2>3. CASE m = 0
    <3>1. Steps([n \in 0 .. 0 |-> SortStart], 0)
      OBVIOUS
    <3>2. QED
      BY <3>1, <2>2, <2>3
  <2>4. CASE m # 0
    <3>1. m - 1 \in Nat /\ m \in Nat /\ m - 1 \notin T
      BY <2>2, <2>4
    <3>2. PICK f : Steps(f, m - 1)
      BY <3>1
    <3> DEFINE g == [n \in 0 .. m |-> IF n = m THEN Turn(f[m - 1]) ELSE f[n]]
    <3>3. \A n \in 0 .. m : g[n] = IF n = 0 THEN SortStart ELSE Turn(g[n - 1])
      <4>1. TAKE n \in 0 .. m
      <4>2. CASE n = m
        BY <4>2, <3>1, <2>4
      <4>3. CASE n # m
        <5>1. n \in 0 .. m - 1 /\ (n # 0 => n - 1 \in 0 .. m /\ n - 1 # m)
          BY <4>1, <4>3, <3>1
        <5>2. f[n] = IF n = 0 THEN SortStart ELSE Turn(f[n - 1])
          BY <5>1, <3>2
        <5>3. g[n] = f[n] /\ (n # 0 => g[n - 1] = f[n - 1])
          BY <5>1, <4>1, <4>3
        <5>4. QED
          BY <5>2, <5>3
      <4>4. QED
        BY <4>2, <4>3
    <3>4. Steps(g, m)
      <4>1. g = [n \in 0 .. m |-> g[n]]
        OBVIOUS
      <4> HIDE DEF g
      <4>2. QED
        BY <4>1, <3>3
    <3>5. QED
      BY <3>1, <3>4, <2>2
  <2>5. QED
    BY <2>3, <2>4
<1>2. \E f : Steps(f, N)
  BY <1>1, NAssumption
<1>3. turns = CHOOSE f : Steps(f, N)
  BY DEF turns
<1>4. Steps(CHOOSE f : Steps(f, N), N)
  BY <1>2
<1>5. QED
  BY <1>3, <1>4

(* What holds of the sort after any number of turns: the queue has what is *)
(* not taken and waits for nothing, and what is taken stands in a legal    *)
(* order, in which one listed earlier comes later only if it had to wait.  *)
SortTyped(s) ==
  /\ s.taken \in SUBSET Subtasks
  /\ s.order \in [Subtasks -> Nat]
  /\ s.remaining \in [Subtasks -> Int]

CountsRemain(s) ==
  \A i \in Subtasks : s.remaining[i] = Cardinality(deps[i] \ s.taken)

QueueIsUnblocked(s) ==
  s.queue = {i \in Subtasks : i \notin s.taken /\ deps[i] \subseteq s.taken}

PlacesAreFilled(s) ==
  {s.order[i] : i \in s.taken} = 1 .. Cardinality(s.taken)

OrderIsLegal(s) ==
  \A i \in s.taken : \A j \in deps[i] : j \in s.taken /\ s.order[j] < s.order[i]

OrderIsStable(s) ==
  \A i \in Subtasks : \A j \in s.taken :
    i < j /\ (i \notin s.taken \/ s.order[j] < s.order[i]) =>
      \E k \in deps[i] : k \notin s.taken \/ s.order[k] >= s.order[j]

SortInv(s) ==
  /\ SortTyped(s) /\ CountsRemain(s) /\ QueueIsUnblocked(s)
  /\ PlacesAreFilled(s) /\ OrderIsLegal(s) /\ OrderIsStable(s)

LEMMA SortStartKeeps ==
  ASSUME TypeOK, CountsAreExact, completed = {}
  PROVE  SortInv(SortStart) /\ SortStart.taken = {}
<1>0. \A i \in Subtasks : /\ deps[i] \in SUBSET Subtasks
                         /\ dependencyCount[i] = Cardinality(deps[i])
                         /\ deps[i] \ {} = deps[i]
  <2>1. \A i \in Subtasks : deps[i] \ {} = deps[i]
    OBVIOUS
  <2>2. \A i \in Subtasks \ {} : dependencyCount[i] = Cardinality(deps[i] \ {})
    BY DEF CountsAreExact
  <2>3. QED
    BY <2>1, <2>2 DEF TypeOK
<1>1. /\ SortStart.taken = {} /\ SortStart.order = [i \in Subtasks |-> 0]
      /\ SortStart.queue = {i \in Subtasks : dependencyCount[i] = 0}
      /\ SortStart.remaining = dependencyCount
  BY DEF SortStart
<1>2. SortTyped(SortStart)
  BY <1>1 DEF SortTyped, TypeOK
<1>3. CountsRemain(SortStart)
  BY <1>0, <1>1 DEF CountsRemain
<1>4. QueueIsUnblocked(SortStart)
  <2>1. \A i \in Subtasks : dependencyCount[i] = 0 <=> deps[i] = {}
    BY <1>0, SubtasksFinite, FS_EmptySet
  <2>2. QED
    BY <1>1, <2>1 DEF QueueIsUnblocked
<1>5. PlacesAreFilled(SortStart)
  <2>1. Cardinality({}) = 0
    BY FS_EmptySet
  <2>2. 1 .. 0 = {}
    OBVIOUS
  <2>3. QED
    BY <1>1, <2>1, <2>2 DEF PlacesAreFilled
<1>6. OrderIsLegal(SortStart) /\ OrderIsStable(SortStart)
  BY <1>1 DEF OrderIsLegal, OrderIsStable
<1>7. QED
  BY <1>1, <1>2, <1>3, <1>4, <1>5, <1>6 DEF SortInv

LEMMA FirstIsLeast ==
  ASSUME NEW S \in SUBSET Subtasks, S # {}
  PROVE  First(S) \in S /\ \A j \in S : First(S) <= j
<1>1. S \in SUBSET Nat
  BY DEF Subtasks
<1>2. \E i \in S : \A j \in S : i <= j
  BY <1>1, LeastElement
<1>3. QED
  BY <1>2 DEF First

LEMMA TakeKeeps ==
  ASSUME TypeOK, NEW s, SortInv(s), NEW x \in s.queue, \A j \in s.queue : x <= j
  PROVE  /\ SortInv(Take(x, s))
         /\ Cardinality(Take(x, s).taken) = Cardinality(s.taken) + 1
<1> DEFINE t == Take(x, s)
           n == Cardinality(s.taken)
<1>1. /\ x \in Subtasks /\ x \notin s.taken /\ deps[x] \subseteq s.taken
      /\ s.taken \in SUBSET Subtasks
  BY DEF SortInv, SortTyped, QueueIsUnblocked
<1>2. /\ t.taken = s.taken \cup {x}
      /\ t.order = [s.order EXCEPT ![x] = n + 1]
      /\ t.queue = (s.queue \ {x}) \cup {j \in Dependents(x) : s.remaining[j] = 1}
      /\ t.remaining = [j \in Subtasks |-> s.remaining[j] - IF x \in deps[j] THEN 1 ELSE 0]
  BY DEF Take
<1> HIDE DEF t
<1>3. n \in Nat /\ IsFiniteSet(s.taken)
  BY <1>1, SubtasksFinite
<1>4. Cardinality(t.taken) = n + 1
  <2>1. Cardinality(s.taken \cup {x}) = Cardinality(s.taken) + 1
    BY <1>1, <1>3, FS_AddElement
  <2>2. QED
    BY <1>2, <2>1
<1> HIDE DEF n
<1>5. /\ s.order \in [Subtasks -> Nat] /\ s.remaining \in [Subtasks -> Int]
      /\ t.order \in [Subtasks -> Nat] /\ t.order[x] = n + 1
      /\ \A i \in Subtasks : i # x => t.order[i] = s.order[i]
  <2>1. s.order \in [Subtasks -> Nat] /\ s.remaining \in [Subtasks -> Int]
    BY DEF SortInv, SortTyped
  <2>2. n + 1 \in Nat
    BY <1>3
  <2>3. QED
    BY <1>1, <1>2, <2>1, <2>2
<1>6. SortTyped(t)
  <2>1. \A j \in Subtasks : s.remaining[j] - (IF x \in deps[j] THEN 1 ELSE 0) \in Int
    BY <1>5
  <2>2. t.remaining \in [Subtasks -> Int]
    BY <1>2, <2>1
  <2>3. t.taken \in SUBSET Subtasks
    BY <1>1, <1>2
  <2>4. QED
    BY <1>5, <2>2, <2>3 DEF SortTyped
<1>7. \A j \in Subtasks : deps[j] \in SUBSET Subtasks
  BY DEF TypeOK
<1>8. \A j \in Subtasks : s.remaining[j] = Cardinality(deps[j] \ s.taken)
  BY DEF SortInv, CountsRemain
<1>9. CountsRemain(t)
  <2>1. SUFFICES ASSUME NEW j \in Subtasks
                 PROVE  t.remaining[j] = Cardinality(deps[j] \ (s.taken \cup {x}))
    BY <1>2 DEF CountsRemain
  <2>2. CASE x \in deps[j]
    <3>1. Cardinality(deps[j] \ (s.taken \cup {x})) = Cardinality(deps[j] \ s.taken) - 1
      BY <1>1, <1>7, <2>2, OpenDependencies
    <3>2. t.remaining[j] = s.remaining[j] - 1
      BY <1>2, <2>2
    <3>3. QED
      BY <1>8, <3>1, <3>2
  <2>3. CASE x \notin deps[j]
    <3>1. deps[j] \ (s.taken \cup {x}) = deps[j] \ s.taken
      BY <2>3
    <3>2. t.remaining[j] = s.remaining[j]
      BY <1>2, <1>5, <2>3
    <3>3. QED
      BY <1>8, <3>1, <3>2
  <2>4. QED
    BY <2>2, <2>3
<1>10. OrderIsLegal(s)
  BY DEF SortInv
<1>11. QueueIsUnblocked(t)
  <2>1. s.queue = {i \in Subtasks : i \notin s.taken /\ deps[i] \subseteq s.taken}
    BY DEF SortInv, QueueIsUnblocked
  <2>2. ASSUME NEW j \in t.queue
        PROVE  j \in Subtasks /\ j \notin t.taken /\ deps[j] \subseteq t.taken
    <3>1. CASE j \in s.queue \ {x}
      BY <1>2, <2>1, <3>1
    <3>2. CASE j \in Dependents(x) /\ s.remaining[j] = 1
      <4>1. j \in Subtasks /\ x \in deps[j]
        BY <3>2 DEF Dependents
      <4>2. deps[j] \subseteq s.taken \cup {x}
        <5>1. Cardinality(deps[j] \ s.taken) = 1
          BY <1>8, <3>2, <4>1
        <5>2. deps[j] \in SUBSET Subtasks
          BY <1>7, <4>1
        <5>3. QED
          BY <1>1, <4>1, <5>1, <5>2, OpenDependencies
      <4>3. j \notin s.taken
        BY <1>1, <1>10, <4>1 DEF OrderIsLegal
      <4>4. j # x
        BY <1>1, <4>1
      <4>5. QED
        BY <1>2, <4>1, <4>2, <4>3, <4>4
    <3>3. QED
      BY <1>2, <2>2, <3>1, <3>2
  <2>3. ASSUME NEW j \in Subtasks, j \notin t.taken, deps[j] \subseteq t.taken
        PROVE  j \in t.queue
    <3>1. j \notin s.taken /\ j # x /\ deps[j] \subseteq s.taken \cup {x}
      BY <1>2, <2>3
    <3>2. CASE x \notin deps[j]
      <4>1. deps[j] \subseteq s.taken
        BY <3>1, <3>2
      <4>2. QED
        BY <1>2, <2>1, <2>3, <3>1, <4>1
    <3>3. CASE x \in deps[j]
      <4>1. deps[j] \ s.taken = {x}
        BY <1>1, <3>1, <3>3
      <4>2. s.remaining[j] = 1
        BY <1>8, <2>3, <4>1, FS_Singleton
      <4>3. QED
        BY <1>2, <2>3, <3>3, <4>2 DEF Dependents
    <3>4. QED
      BY <3>2, <3>3
  <2>4. QED
    BY <2>2, <2>3 DEF QueueIsUnblocked
<1>12. /\ {s.order[i] : i \in s.taken} = 1 .. n
       /\ \A i \in s.taken : s.order[i] \in 1 .. n
  BY DEF SortInv, PlacesAreFilled, n
<1>13. PlacesAreFilled(t)
  <2>1. \A i \in s.taken : t.order[i] = s.order[i]
    BY <1>1, <1>5
  <2>2. {t.order[i] : i \in t.taken} = {s.order[i] : i \in s.taken} \cup {n + 1}
    BY <1>2, <1>5, <2>1
  <2>3. 1 .. n + 1 = (1 .. n) \cup {n + 1}
    BY <1>3
  <2>4. QED
    BY <1>4, <1>12, <2>2, <2>3 DEF PlacesAreFilled
<1>14. OrderIsLegal(t)
  <2>1. SUFFICES ASSUME NEW i \in t.taken, NEW j \in deps[i]
                 PROVE  j \in t.taken /\ t.order[j] < t.order[i]
    BY DEF OrderIsLegal
  <2>2. CASE i = x
    <3>1. j \in s.taken /\ j # x
      BY <1>1, <2>2
    <3>2. t.order[j] = s.order[j] /\ s.order[j] \in 1 .. n
      BY <1>1, <1>5, <1>12, <3>1
    <3>3. QED
      BY <1>2, <1>3, <1>5, <2>2, <3>1, <3>2
  <2>3. CASE i # x
    <3>1. i \in s.taken
      BY <1>2, <2>3
    <3>2. j \in s.taken /\ s.order[j] < s.order[i]
      BY <1>10, <3>1 DEF OrderIsLegal
    <3>3. t.order[j] = s.order[j] /\ t.order[i] = s.order[i]
      BY <1>1, <1>5, <3>1, <3>2
    <3>4. QED
      BY <1>2, <3>2, <3>3
  <2>4. QED
    BY <2>2, <2>3
<1>15. OrderIsStable(t)
  <2>1. SUFFICES ASSUME NEW i \in Subtasks, NEW j \in t.taken, i < j,
                        i \notin t.taken \/ t.order[j] < t.order[i]
                 PROVE  \E k \in deps[i] : k \notin t.taken \/ t.order[k] >= t.order[j]
    BY DEF OrderIsStable
  <2>2. CASE j = x
    <3>1. i \notin t.taken
      <4>1. ASSUME i \in t.taken PROVE FALSE
        <5>1. i \in Subtasks /\ x \in Subtasks /\ Subtasks \in SUBSET Nat
          BY <1>1 DEF Subtasks
        <5>2. i # x
          BY <2>1, <2>2, <5>1
        <5>3. i \in s.taken
          BY <1>2, <4>1, <5>2
        <5>4. t.order[i] = s.order[i] /\ s.order[i] \in 1 .. n
          BY <1>5, <1>12, <5>2, <5>3
        <5>5. t.order[j] < t.order[i]
          BY <2>1, <4>1
        <5>6. QED
          BY <1>3, <1>5, <2>2, <5>4, <5>5
      <4>2. QED
        BY <4>1
    <3>2. i \notin s.queue
      <4>1. i \in Subtasks /\ x \in Subtasks /\ Subtasks \in SUBSET Nat
        BY <1>1 DEF Subtasks
      <4>2. ~(x <= i)
        BY <2>1, <2>2, <4>1
      <4>3. QED
        BY <4>2
    <3>3. PICK k \in deps[i] : k \notin s.taken
      BY <1>2, <3>1, <3>2 DEF SortInv, QueueIsUnblocked
    <3>4. CASE k = x
      BY <1>3, <1>5, <2>2, <3>3, <3>4
    <3>5. CASE k # x
      BY <1>2, <3>3, <3>5
    <3>6. QED
      BY <3>4, <3>5
  <2>3. CASE j # x
    <3>1. j \in s.taken /\ t.order[j] = s.order[j] /\ s.order[j] \in 1 .. n
      BY <1>1, <1>2, <1>5, <1>12, <2>3
    <3>2. i \notin s.taken \/ s.order[j] < s.order[i]
      <4>1. CASE i = x
        BY <1>1, <4>1
      <4>2. CASE i # x
        BY <1>2, <1>5, <2>1, <3>1, <4>2
      <4>3. QED
        BY <4>1, <4>2
    <3>3. PICK k \in deps[i] : k \notin s.taken \/ s.order[k] >= s.order[j]
      BY <2>1, <3>1, <3>2 DEF SortInv, OrderIsStable
    <3>4. CASE k = x
      <4>1. t.order[k] >= t.order[j]
        BY <1>3, <1>5, <3>1, <3>4
      <4>2. QED
        BY <3>3, <4>1
    <3>5. CASE k # x
      <4>1. k \in Subtasks
        BY <1>7, <2>1, <3>3
      <4>2. k \notin t.taken \/ t.order[k] >= t.order[j]
        BY <1>2, <1>5, <3>1, <3>3, <3>5, <4>1
      <4>3. QED
        BY <3>3, <4>2
    <3>6. QED
      BY <3>4, <3>5
  <2>4. QED
    BY <2>2, <2>3
<1>16. SortInv(t)
  BY <1>6, <1>9, <1>11, <1>13, <1>14, <1>15 DEF SortInv
<1>17. QED
  BY <1>4, <1>16 DEF t, n

(* In a graph without cycles something is unblocked as long as anything is *)
(* left: of what is left, a subtask of the lowest place.                   *)
LEMMA QueueHasMore ==
  ASSUME TypeOK, Acyclic(deps), NEW s, SortInv(s), s.taken # Subtasks
  PROVE  s.queue \in SUBSET Subtasks /\ s.queue # {}
<1>1. PICK place \in [Subtasks -> Subtasks] :
        \A i \in Subtasks : \A j \in deps[i] : place[j] < place[i]
  BY DEF Acyclic
<1> DEFINE left == Subtasks \ s.taken
           places == {place[i] : i \in left}
<1>2. s.taken \in SUBSET Subtasks /\ left # {}
  BY DEF SortInv, SortTyped
<1>3. places \in SUBSET Nat /\ places # {}
  BY <1>1, <1>2 DEF Subtasks
<1>4. PICK m \in places : \A n \in places : m <= n
  <2> HIDE DEF places
  <2>1. QED
    BY <1>3, LeastElement
<1>5. PICK i \in left : place[i] = m
  BY <1>4
<1>6. ASSUME NEW j \in deps[i] PROVE j \in s.taken
  <2>1. j \in Subtasks /\ place[j] < place[i]
    BY <1>1, <1>5 DEF TypeOK
  <2>2. place[j] \in Nat /\ place[i] \in Nat
    BY <1>1, <1>5, <2>1 DEF Subtasks
  <2>3. ~(place[i] <= place[j])
    BY <2>1, <2>2
  <2>4. place[j] \notin places
    BY <1>4, <1>5, <2>3
  <2>5. QED
    BY <2>1, <2>4
<1>7. i \in s.queue
  BY <1>5, <1>6 DEF SortInv, QueueIsUnblocked
<1>8. QED
  BY <1>7 DEF SortInv, QueueIsUnblocked

LEMMA TurnKeeps ==
  ASSUME TypeOK, Acyclic(deps), NEW s, SortInv(s)
  PROVE  /\ SortInv(Turn(s))
         /\ s.taken # Subtasks => Cardinality(Turn(s).taken) = Cardinality(s.taken) + 1
<1>1. s.queue \in SUBSET Subtasks
  BY DEF SortInv, QueueIsUnblocked
<1>2. CASE s.queue = {}
  BY <1>2, QueueHasMore DEF Turn
<1>3. CASE s.queue # {}
  <2>1. First(s.queue) \in s.queue /\ \A j \in s.queue : First(s.queue) <= j
    BY <1>1, <1>3, FirstIsLeast
  <2>2. /\ SortInv(Take(First(s.queue), s))
        /\ Cardinality(Take(First(s.queue), s).taken) = Cardinality(s.taken) + 1
    BY <2>1, TakeKeeps
  <2>3. QED
    BY <1>3, <2>2 DEF Turn
<1>4. QED
  BY <1>2, <1>3

LEMMA TurnsKeep ==
  ASSUME TypeOK, CountsAreExact, completed = {}, Acyclic(deps)
  PROVE  \A n \in 0 .. N : SortInv(turns[n]) /\ Cardinality(turns[n].taken) = n
<1> DEFINE Kept(n) == SortInv(turns[n]) /\ Cardinality(turns[n].taken) = n
           T == {n \in 0 .. N : ~Kept(n)}
<1>1. ASSUME T # {} PROVE FALSE
  <2>1. PICK m \in T : \A n \in T : m <= n
    <3>1. T \in SUBSET Nat
      BY NAssumption
    <3> HIDE DEF T
    <3>2. QED
      BY <1>1, <3>1, LeastElement
  <2>2. CASE m = 0
    <3>1. 0 \in 0 .. N
      BY NAssumption
    <3>2. turns[0] = SortStart
      BY <3>1, TurnsDef
    <3>3. SortInv(SortStart) /\ Cardinality(SortStart.taken) = 0
      BY SortStartKeeps, FS_EmptySet
    <3>4. QED
      BY <2>1, <2>2, <3>2, <3>3
  <2>3. CASE m # 0
    <3>1. m \in 0 .. N /\ m - 1 \in 0 .. N /\ m - 1 \in Nat /\ m - 1 # N
      BY <2>1, <2>3, NAssumption
    <3>2. ~(m <= m - 1)
      BY <3>1
    <3>3. Kept(m - 1)
      BY <2>1, <3>1, <3>2
    <3>4. turns[m] = Turn(turns[m - 1])
      BY <2>3, <3>1, TurnsDef
    <3>5. turns[m - 1].taken # Subtasks
      <4>1. Cardinality(Subtasks) = N
        <5>1. Cardinality(1 .. N) = IF 1 > N THEN 0 ELSE N - 1 + 1
          BY NAssumption, FS_Interval
        <5>2. QED
          BY NAssumption, <5>1 DEF Subtasks
      <4>2. QED
        BY <3>1, <3>3, <4>1
    <3>6. SortInv(turns[m]) /\ Cardinality(turns[m].taken) = m - 1 + 1
      BY <3>3, <3>4, <3>5, TurnKeeps
    <3>7. QED
      BY <2>1, <3>1, <3>6
  <2>4. QED
    BY <2>2, <2>3
<1>2. QED
  BY <1>1

LEMMA SortIsRight ==
  ASSUME IInv, Acyclic(deps)
  PROVE  SortIsLegal
<1>1. SUFFICES ASSUME completed = {}
               PROVE  /\ {Sort.order[i] : i \in Subtasks} = Subtasks
                      /\ \A i \in Subtasks : \A j \in deps[i] : Sort.order[j] < Sort.order[i]
                      /\ \A i, j \in Subtasks :
                           (i < j /\ Sort.order[j] < Sort.order[i]) =>
                             \E k \in deps[i] : Sort.order[k] >= Sort.order[j]
  BY DEF SortIsLegal
<1> DEFINE s == Sort
<1>2. SortInv(s) /\ Cardinality(s.taken) = N
  <2>1. N \in 0 .. N
    BY NAssumption
  <2>2. QED
    BY <1>1, <2>1, TurnsKeep DEF IInv, Sort
<1> HIDE DEF s
<1>3. s.taken = Subtasks
  <2>1. s.taken \in SUBSET Subtasks
    BY <1>2 DEF SortInv, SortTyped
  <2>2. IsFiniteSet(Subtasks) /\ Cardinality(Subtasks) = N
    BY NAssumption, FS_Interval DEF Subtasks
  <2>3. QED
    BY <1>2, <2>1, <2>2, FS_Subset
<1>4. {s.order[i] : i \in Subtasks} = Subtasks
  BY <1>2, <1>3 DEF SortInv, PlacesAreFilled, Subtasks
<1>5. \A i \in Subtasks : \A j \in deps[i] : s.order[j] < s.order[i]
  BY <1>2, <1>3 DEF SortInv, OrderIsLegal
<1>6. ASSUME NEW i \in Subtasks, NEW j \in Subtasks, i < j, s.order[j] < s.order[i]
      PROVE  \E k \in deps[i] : s.order[k] >= s.order[j]
  <2>1. PICK k \in deps[i] : k \notin s.taken \/ s.order[k] >= s.order[j]
    BY <1>2, <1>3, <1>6 DEF SortInv, OrderIsStable
  <2>2. k \in Subtasks
    BY <1>6, <2>1 DEF IInv, TypeOK
  <2>3. QED
    BY <1>3, <2>1, <2>2
<1>7. QED
  BY <1>4, <1>5, <1>6 DEF s

(* TopologicalSort of a scheduler nothing was reported to yet places every *)
(* subtask once and after its dependencies, and one listed earlier comes   *)
(* later only if it had to wait, for every graph that Validate accepts.    *)
THEOREM SortLegal == Spec => []SortIsLegal
<1>1. Init => Acyclic(deps)
  BY DEF Init
<1>2. Acyclic(deps) /\ [Next]_vars => Acyclic(deps)'
  BY DEF Acyclic, Next, Schedule, MarkComplete, vars
<1>3. IInv /\ Acyclic(deps) => SortIsLegal
  BY SortIsRight
<1>4. QED
  BY <1>1, <1>2, <1>3, Invariance, PTL DEF Spec

-----------------------------------------------------------------------------
(* The decisions.                                                          *)

(* Every alias names one policy, and each policy names itself.             *)
LEMMA AliasesAreDistinct ==
  ASSUME NEW raw
  PROVE  /\ raw \in Aliases.command => NormalizePolicy(raw) = "command"
         /\ raw \in Aliases.evidence => NormalizePolicy(raw) = "evidence"
         /\ raw \in Aliases.state_output => NormalizePolicy(raw) = "state_output"
         /\ raw \notin Aliases.command /\ raw \notin Aliases.evidence
              /\ raw \notin Aliases.state_output => NormalizePolicy(raw) = ""
<1>1. /\ Aliases.command = {"command", "command_based", "coding", "code", "exec_command"}
      /\ Aliases.evidence = {"evidence", "evidence_based", "research"}
      /\ Aliases.state_output = {"state_output", "state", "output", "checklist",
                                 "file_workflow", "file-workflow"}
  BY DEF Aliases
<1>2. /\ raw \in Aliases.command => raw \notin Aliases.evidence /\ raw \notin Aliases.state_output
      /\ raw \in Aliases.evidence => raw \notin Aliases.state_output
  BY <1>1
<1>3. \A p \in Policies : \/ p = "command" /\ Aliases[p] = Aliases.command
                          \/ p = "evidence" /\ Aliases[p] = Aliases.evidence
                          \/ p = "state_output" /\ Aliases[p] = Aliases.state_output
  BY DEF Policies
<1>4. /\ "command" \in Policies /\ "evidence" \in Policies /\ "state_output" \in Policies
  BY DEF Policies
<1>5. ASSUME NEW p \in Policies, raw \in Aliases[p], \A q \in Policies : raw \in Aliases[q] => q = p
      PROVE  NormalizePolicy(raw) = p
  <2>1. (CHOOSE q \in Policies : raw \in Aliases[q]) = p
    BY <1>5
  <2>2. QED
    BY <1>5, <2>1 DEF NormalizePolicy
<1>6. CASE raw \in Aliases.command
  <2>1. \A q \in Policies : raw \in Aliases[q] => q = "command"
    BY <1>2, <1>3, <1>6
  <2>2. NormalizePolicy(raw) = "command"
    BY <1>4, <1>5, <1>6, <2>1
  <2>3. QED
    BY <1>2, <1>6, <2>2
<1>7. CASE raw \in Aliases.evidence
  <2>1. \A q \in Policies : raw \in Aliases[q] => q = "evidence"
    BY <1>2, <1>3, <1>7
  <2>2. NormalizePolicy(raw) = "evidence"
    BY <1>4, <1>5, <1>7, <2>1
  <2>3. QED
    BY <1>2, <1>7, <2>2
<1>8. CASE raw \in Aliases.state_output
  <2>1. \A q \in Policies : raw \in Aliases[q] => q = "state_output"
    BY <1>2, <1>3, <1>8
  <2>2. NormalizePolicy(raw) = "state_output"
    BY <1>4, <1>5, <1>8, <2>1
  <2>3. QED
    BY <1>2, <1>8, <2>2
<1>9. CASE raw \notin Aliases.command /\ raw \notin Aliases.evidence
             /\ raw \notin Aliases.state_output
  <2>1. \A p \in Policies : raw \notin Aliases[p]
    BY <1>3, <1>9
  <2>2. NormalizePolicy(raw) = ""
    BY <2>1 DEF NormalizePolicy
  <2>3. QED
    BY <1>9, <2>2
<1>10. QED
  BY <1>6, <1>7, <1>8, <1>9

(* Evidence of sources holds only for claims that are backed.              *)
LEMMA ResearchIsBacked ==
  ASSUME NEW r, DOMAIN r.sources \subseteq Nat \ {0}, r.present, ResearchHolds(r)
  PROVE  ClaimsAreBacked(r)
<1>1. ASSUME NEW finding \in Range(r.findings), NEW id \in Range(finding.supports)
      PROVE  /\ Cardinality({i \in DOMAIN r.sources : r.sources[i].id = id}) = 1
             /\ \A source \in Range(r.sources) : source.id = id => source.located
  <2>1. SupportKnown(r, finding)
    BY <1>1 DEF ResearchHolds, Range
  <2>2. PICK k \in DOMAIN finding.supports : finding.supports[k] = id
    BY <1>1 DEF Range
  <2>3. PICK i \in DOMAIN r.sources : r.sources[i].id = id
    BY <2>1, <2>2 DEF SupportKnown
  <2>4. \A a \in DOMAIN r.sources : \A b \in 1 .. a - 1 : r.sources[b].id # r.sources[a].id
    BY DEF ResearchHolds
  <2>5. ASSUME NEW j \in DOMAIN r.sources, r.sources[j].id = id
        PROVE  j = i
    <3>1. \/ i \in 1 .. j - 1 \/ j \in 1 .. i - 1 \/ i = j
      OBVIOUS
    <3>2. QED
      BY <2>3, <2>4, <2>5, <3>1
  <2>6. {j \in DOMAIN r.sources : r.sources[j].id = id} = {i}
    BY <2>3, <2>5
  <2>7. \A source \in Range(r.sources) : source.located
    BY DEF ResearchHolds, Range
  <2>8. QED
    BY <2>6, <2>7, FS_Singleton
<1>2. ASSUME NEW finding \in Range(r.findings)
      PROVE  finding.supports # <<>>
  <2>1. SupportKnown(r, finding)
    BY <1>2 DEF ResearchHolds, Range
  <2>2. QED
    BY <2>1 DEF SupportKnown
<1>3. QED
  BY <1>1, <1>2 DEF ClaimsAreBacked, ResearchHolds

(* Results of files hold only if they are as expected.                     *)
LEMMA FilesAreRight ==
  ASSUME NEW f, DOMAIN f.results \subseteq Nat \ {0}, f.present, FilesHold(f)
  PROVE  FilesAreAsExpected(f)
<1>1. ASSUME NEW e \in Range(f.expectations)
      PROVE  LET here == {i \in DOMAIN f.results : f.results[i].path = e.path}
             IN /\ Cardinality(here) = 1
                /\ \A i \in here :
                     /\ ~f.results[i].error /\ (f.results[i].exists <=> e.shouldExist)
                     /\ e.shouldExist => e.required \ {""} \subseteq f.results[i].content
  <2> DEFINE here == {i \in DOMAIN f.results : f.results[i].path = e.path}
  <2>1. PICK i \in DOMAIN f.results : f.results[i].path = e.path /\ Meets(f.results[i], e)
    BY <1>1 DEF FilesHold
  <2>2. \A a \in DOMAIN f.results : \A b \in 1 .. a - 1 : f.results[b].path # f.results[a].path
    BY DEF FilesHold
  <2>3. ASSUME NEW j \in here
        PROVE  j = i
    <3>1. \/ i \in 1 .. j - 1 \/ j \in 1 .. i - 1 \/ i = j
      OBVIOUS
    <3>2. QED
      BY <2>1, <2>2, <2>3, <3>1
  <2>4. here = {i}
    BY <2>1, <2>3
  <2>5. Cardinality(here) = 1
    BY <2>4, FS_Singleton
  <2>6. \A j \in here : Meets(f.results[j], e)
    BY <2>1, <2>3
  <2> HIDE DEF here
  <2>7. \A j \in here :
          /\ ~f.results[j].error /\ (f.results[j].exists <=> e.shouldExist)
          /\ e.shouldExist => e.required \ {""} \subseteq f.results[j].content
    BY <2>6 DEF Meets
  <2>8. QED
    BY <2>5, <2>7 DEF here
<1>2. QED
  BY <1>1 DEF FilesAreAsExpected, FilesHold

LEMMA VerdictsDiffer == ~Failed.passed /\ ~NotApplicable.passed /\ Passed.passed
BY DEF Failed, NotApplicable, Passed, Verdict

(* What the built-in verifier of each policy lets pass.                    *)
LEMMA BuiltinsAskForEvidence ==
  ASSUME NEW policy, NEW o,
         DOMAIN o.research.sources \subseteq Nat \ {0},
         DOMAIN o.files.results \subseteq Nat \ {0},
         BuiltinVerify(policy, o).passed
  PROVE  /\ policy = "command" => CommandsSucceeded(o)
         /\ policy = "evidence" => ClaimsAreBacked(o.research)
         /\ policy = "state_output" => FilesAreAsExpected(o.files)
<1>1. ASSUME policy = "command" PROVE CommandsSucceeded(o)
  <2>1. BuiltinVerify(policy, o) = CommandVerify(o)
    BY <1>1 DEF BuiltinVerify
  <2>2. ~ \E i \in Commands : CommandFails(o.runs[i])
    BY <2>1, VerdictsDiffer DEF CommandVerify
  <2>3. QED
    BY <2>2 DEF CommandsSucceeded, CommandFails
<1>3. ASSUME policy = "evidence" PROVE ClaimsAreBacked(o.research)
  <2>1. BuiltinVerify(policy, o) = EvidenceVerify(o, o.research.present, ResearchHolds(o.research))
    BY <1>3 DEF BuiltinVerify
  <2>2. o.research.present /\ ResearchHolds(o.research)
    BY <2>1, VerdictsDiffer DEF EvidenceVerify
  <2>3. QED
    BY <2>2, ResearchIsBacked
<1>4. ASSUME policy = "state_output" PROVE FilesAreAsExpected(o.files)
  <2>1. BuiltinVerify(policy, o) = EvidenceVerify(o, o.files.present, FilesHold(o.files))
    BY <1>4 DEF BuiltinVerify
  <2>2. o.files.present /\ FilesHold(o.files)
    BY <2>1, VerdictsDiffer DEF EvidenceVerify
  <2>3. QED
    BY <2>2, FilesAreRight
<1>5. QED
  BY <1>1, <1>3, <1>4

(* A task without a policy gets that of its category.                      *)
LEMMA CategoriesArePromised ==
  ASSUME NEW task, task.policy = ""
  PROVE  LET policy == ResolveTask(task).policy
         IN \/ policy = "command" /\ Promised(task) = "commands"
            \/ policy = "evidence" /\ Promised(task) = "claims"
            \/ policy = "state_output" /\ Promised(task) = "files"
<1> DEFINE category == NormalizeCategory(task.category)
<1>1. ResolveTask(task).policy = CategoryPolicy[category]
  BY DEF ResolveTask
<1>2. /\ task.category = "coding" => category = "coding"
      /\ task.category = "file_workflow" => category = "file_workflow"
      /\ task.category \notin {"coding", "file_workflow"} => category \in {"research", "general"}
  BY DEF NormalizeCategory
<1>3. /\ CategoryPolicy["coding"] = "command"
      /\ CategoryPolicy["file_workflow"] = "state_output"
      /\ CategoryPolicy["research"] = "evidence"
      /\ CategoryPolicy["general"] = "evidence"
  BY DEF CategoryPolicy
<1>4. /\ task.category = "coding" => Promised(task) = "commands"
      /\ task.category = "file_workflow" => Promised(task) = "files"
      /\ task.category \notin {"coding", "file_workflow"} => Promised(task) = "claims"
  BY DEF Promised
<1> HIDE DEF category
<1>5. QED
  BY <1>1, <1>2, <1>3, <1>4

(* The task registry and the verifier judge by the policy that is promised.*)
LEMMA JudgedAsPromised ==
  ASSUME NEW task, NEW o, TaskAwareVerify(ResolveTask(task), o).passed
  PROVE  \E p : /\ BuiltinVerify(p, o).passed
                /\ \/ p = "command" /\ Promised(task) = "commands"
                   \/ p = "evidence" /\ Promised(task) = "claims"
                   \/ p = "state_output" /\ Promised(task) = "files"
<1> DEFINE policy == ResolveTask(task).policy
           p == NormalizePolicy(policy)
<1>1. \/ p = "command" /\ Promised(task) = "commands"
      \/ p = "evidence" /\ Promised(task) = "claims"
      \/ p = "state_output" /\ Promised(task) = "files"
      \/ p = "" /\ policy # ""
  <2>1. CASE task.policy = ""
    <3>1. \/ policy = "command" /\ Promised(task) = "commands"
          \/ policy = "evidence" /\ Promised(task) = "claims"
          \/ policy = "state_output" /\ Promised(task) = "files"
      BY <2>1, CategoriesArePromised
    <3>2. /\ "command" \in Aliases.command /\ "evidence" \in Aliases.evidence
          /\ "state_output" \in Aliases.state_output
      BY DEF Aliases
    <3>3. /\ NormalizePolicy("command") = "command"
          /\ NormalizePolicy("evidence") = "evidence"
          /\ NormalizePolicy("state_output") = "state_output"
      BY <3>2, AliasesAreDistinct
    <3> HIDE DEF policy
    <3>4. QED
      BY <3>1, <3>3
  <2>2. CASE task.policy # ""
    <3>1. policy = task.policy
      BY <2>2 DEF ResolveTask
    <3>2. /\ policy \in Aliases.command => p = "command"
          /\ policy \in Aliases.evidence => p = "evidence"
          /\ policy \in Aliases.state_output => p = "state_output"
          /\ policy \notin Aliases.command /\ policy \notin Aliases.evidence
              /\ policy \notin Aliases.state_output => p = ""
      BY AliasesAreDistinct
    <3> HIDE DEF p
    <3>3. /\ policy \in Aliases.command =>
               policy \notin Aliases.evidence /\ policy \notin Aliases.state_output
          /\ policy \in Aliases.evidence => policy \notin Aliases.state_output
      BY <3>2
    <3>4. Promised(task) =
            CASE policy \in Aliases.command      -> "commands"
              [] policy \in Aliases.evidence     -> "claims"
              [] policy \in Aliases.state_output -> "files"
              [] OTHER                           -> "nothing passes"
      BY <2>2, <3>1 DEF Promised
    <3>5. /\ policy \in Aliases.command => Promised(task) = "commands"
          /\ policy \in Aliases.evidence => Promised(task) = "claims"
          /\ policy \in Aliases.state_output => Promised(task) = "files"
      BY <3>3, <3>4
    <3> HIDE DEF policy
    <3>6. QED
      BY <2>2, <3>1, <3>2, <3>5
  <2>3. QED
    BY <2>1, <2>2
<1>2. ~(p = "" /\ policy # "")
  BY VerdictsDiffer DEF TaskAwareVerify
<1>3. BuiltinVerify(p, o).passed
  <2>1. TaskAwareVerify(ResolveTask(task), o) = BuiltinVerify(SelectPolicy(ResolveTask(task)), o)
    BY <1>2 DEF TaskAwareVerify
  <2>2. SelectPolicy(ResolveTask(task)) = p
    BY <1>1, <1>2 DEF SelectPolicy
  <2>3. QED
    BY <2>1, <2>2
<1> HIDE DEF p
<1>4. QED
  BY <1>1, <1>2, <1>3

LEMMA IterationIsEarned ==
  ASSUME NEW q \in Iterations,
         Iterate(q.front, q.mode, q.task, q.action, q.o).outcome = "success"
  PROVE  /\ q.action # "request_input"
         /\ IF q.mode = "off" THEN q.front = "cli" /\ q.o.response
            ELSE CASE Promised(q.task) = "commands" -> CommandsSucceeded(q.o)
                   [] Promised(q.task) = "claims"   -> ClaimsAreBacked(q.o.research)
                   [] Promised(q.task) = "files"    -> FilesAreAsExpected(q.o.files)
                   [] OTHER                         -> FALSE
<1> DEFINE verifier == VerifierOf(q.front, q.mode)
           verdict == VerifyIteration(verifier, q.task, q.action, q.o)
<1>1. /\ verifier # "none" /\ Outcome(q.action, verdict) = "success"
  BY DEF Iterate
<1>2. q.action # "request_input" /\ verdict.passed
  <2> HIDE DEF verdict
  <2>1. QED
    BY <1>1 DEF Outcome
<1>3. CASE q.mode = "off"
  <2>1. verifier = "fake" /\ q.front = "cli"
    BY <1>1, <1>3 DEF VerifierOf
  <2>2. verdict = IF q.o.response THEN Passed ELSE Failed
    BY <1>2, <2>1 DEF VerifyIteration
  <2>3. q.o.response
    BY <1>2, <2>2, VerdictsDiffer
  <2>4. QED
    BY <1>2, <1>3, <2>1, <2>3
<1>4. CASE q.mode # "off"
  <2>1. verifier = "task_aware"
    BY <1>4 DEF VerifierOf
  <2>2. verdict = TaskAwareVerify(ResolveTask(q.task), q.o)
    BY <1>2, <2>1 DEF VerifyIteration
  <2>3. PICK p : /\ BuiltinVerify(p, q.o).passed
                 /\ \/ p = "command" /\ Promised(q.task) = "commands"
                    \/ p = "evidence" /\ Promised(q.task) = "claims"
                    \/ p = "state_output" /\ Promised(q.task) = "files"
    BY <1>2, <2>2, JudgedAsPromised
  <2>4. /\ p = "command" => CommandsSucceeded(q.o)
        /\ p = "evidence" => ClaimsAreBacked(q.o.research)
        /\ p = "state_output" => FilesAreAsExpected(q.o.files)
    BY <2>3, IterationsAssumption, BuiltinsAskForEvidence
  <2>5. QED
    BY <1>2, <1>4, <2>3, <2>4
<1>5. QED
  BY <1>3, <1>4

-----------------------------------------------------------------------------
(* The questions and their answers.                                        *)
QuestionTyped ==
  \/ question[1] = "iteration" /\ Q \in Iterations
  \/ question[1] = "delegate" /\ Q \in Delegates
  \/ question[1] = "merge" /\ Q \in Merges
  \/ question[1] = "load" /\ Q \in Loads
  \/ question[1] = "verifiers" /\ Q \in Requests
  \/ question[1] = "strategy" /\ Q \in Strategies
  \/ question[1] = "call" /\ Q \in Calls
  \/ question[1] = "plugins" /\ Q \in Plugins

AnswerFits ==
  /\ Answered("iteration") => A = Iterate(Q.front, Q.mode, Q.task, Q.action, Q.o)
  /\ Answered("delegate") =>
       A = [given |-> PluginVerify(Q), read |-> UnmarshalVerdict(MarshalVerdict(PluginVerify(Q)))]
  /\ Answered("merge") =>
       A = MergeStored(MergeStored(NoProvenance, AllMerged(Q[1])), AllMerged(Q[2]))
  /\ Answered("load") => A = Load(Q.path, Q.disk, Q.env, Q.flags, Q.first)
  /\ Answered("verifiers") => A = RegisteredAfter(NewVerifierRegistry, Q)
  /\ Answered("strategy") => A = ResolveStrategy(StrategiesOf(Q.requests), Q.id)
  /\ Answered("call") => A = Execute(Q.policy, Q.call)
  /\ Answered("plugins") => A = BuildPluginExecutor(Q.policy, Q.directory, Q.targets)

DecisionInv == QuestionTyped /\ AnswerFits

LEMMA DecisionInitInv == DecisionInit => DecisionInv
<1>1. SUFFICES ASSUME DecisionInit PROVE DecisionInv
  OBVIOUS
<1>2. \A k, q : <<k, q>>[1] = k /\ <<k, q>>[2] = q
  OBVIOUS
<1>3. QuestionTyped
  BY <1>1, <1>2 DEF DecisionInit, QuestionTyped, Q
<1>4. AnswerFits
  BY <1>1 DEF DecisionInit, AnswerFits, Answered
<1>5. QED
  BY <1>3, <1>4 DEF DecisionInv

LEMMA DecisionNextInv == DecisionInv /\ [DecisionNext]_decisionVars => DecisionInv'
<1>1. SUFFICES ASSUME DecisionInv, [DecisionNext]_decisionVars PROVE DecisionInv'
  OBVIOUS
<1>2. question' = question
  BY <1>1 DEF DecisionNext, decisionVars, Answer, JudgeIteration, StoreVerdict, StoreProvenance,
              LoadConfig, RegisterVerifiers, ChooseStrategy, ExecuteCall, LoadPlugins
<1>3. QuestionTyped'
  BY <1>1, <1>2 DEF DecisionInv, QuestionTyped, Q
<1>4. ASSUME NEW result, Answer(result) PROVE A' = result
  BY <1>4 DEF Answer, A
<1>5. CASE UNCHANGED decisionVars
  BY <1>1, <1>3, <1>5 DEF DecisionInv, AnswerFits, Answered, Q, A, decisionVars
<1>6. CASE JudgeIteration
  <2>1. question[1] = "iteration" /\ A' = Iterate(Q.front, Q.mode, Q.task, Q.action, Q.o)
    BY <1>4, <1>6 DEF JudgeIteration, Asked
  <2>2. QED
    BY <1>2, <1>3, <2>1 DEF DecisionInv, AnswerFits, Answered, Q
<1>7. CASE StoreVerdict
  <2>1. /\ question[1] = "delegate"
        /\ A' = [given |-> PluginVerify(Q),
                 read |-> UnmarshalVerdict(MarshalVerdict(PluginVerify(Q)))]
    BY <1>4, <1>7 DEF StoreVerdict, Asked
  <2>2. QED
    BY <1>2, <1>3, <2>1 DEF DecisionInv, AnswerFits, Answered, Q
<1>8. CASE StoreProvenance
  <2>1. /\ question[1] = "merge"
        /\ A' = MergeStored(MergeStored(NoProvenance, AllMerged(Q[1])), AllMerged(Q[2]))
    BY <1>4, <1>8 DEF StoreProvenance, Asked
  <2>2. QED
    BY <1>2, <1>3, <2>1 DEF DecisionInv, AnswerFits, Answered, Q
<1>9. CASE LoadConfig
  <2>1. question[1] = "load" /\ A' = Load(Q.path, Q.disk, Q.env, Q.flags, Q.first)
    BY <1>4, <1>9 DEF LoadConfig, Asked
  <2>2. QED
    BY <1>2, <1>3, <2>1 DEF DecisionInv, AnswerFits, Answered, Q
<1>10. CASE RegisterVerifiers
  <2>1. question[1] = "verifiers" /\ A' = RegisteredAfter(NewVerifierRegistry, Q)
    BY <1>4, <1>10 DEF RegisterVerifiers, Asked
  <2>2. QED
    BY <1>2, <1>3, <2>1 DEF DecisionInv, AnswerFits, Answered, Q
<1>11. CASE ChooseStrategy
  <2>1. question[1] = "strategy" /\ A' = ResolveStrategy(StrategiesOf(Q.requests), Q.id)
    BY <1>4, <1>11 DEF ChooseStrategy, Asked
  <2>2. QED
    BY <1>2, <1>3, <2>1 DEF DecisionInv, AnswerFits, Answered, Q
<1>12. CASE ExecuteCall
  <2>1. question[1] = "call" /\ A' = Execute(Q.policy, Q.call)
    BY <1>4, <1>12 DEF ExecuteCall, Asked
  <2>2. QED
    BY <1>2, <1>3, <2>1 DEF DecisionInv, AnswerFits, Answered, Q
<1>13. CASE LoadPlugins
  <2>1. question[1] = "plugins" /\ A' = BuildPluginExecutor(Q.policy, Q.directory, Q.targets)
    BY <1>4, <1>13 DEF LoadPlugins, Asked
  <2>2. QED
    BY <1>2, <1>3, <2>1 DEF DecisionInv, AnswerFits, Answered, Q
<1>14. QED
  BY <1>1, <1>5, <1>6, <1>7, <1>8, <1>9, <1>10, <1>11, <1>12, <1>13 DEF DecisionNext

(* Every answer is that of the code to the question that was asked.        *)
THEOREM DecisionsFit == DecisionSpec => []DecisionInv
BY DecisionInitInv, DecisionNextInv, PTL DEF DecisionSpec

(* A success is earned, whatever the task, the action and the evidence:    *)
(* verifyIteration passes nothing that lacks the evidence its task needs.  *)
THEOREM SuccessEarned == DecisionSpec => []SuccessIsEarned
<1>1. DecisionInv => SuccessIsEarned
  <2>1. SUFFICES ASSUME DecisionInv, Answered("iteration"), A.outcome = "success"
                 PROVE  SuccessIsEarned
    BY DEF SuccessIsEarned
  <2>2. Q \in Iterations
    BY <2>1 DEF DecisionInv, QuestionTyped, Answered
  <2>3. A = Iterate(Q.front, Q.mode, Q.task, Q.action, Q.o)
    BY <2>1 DEF DecisionInv, AnswerFits
  <2>4. QED
    BY <2>1, <2>2, <2>3, IterationIsEarned DEF SuccessIsEarned
<1>2. QED
  BY <1>1, DecisionsFit, PTL

-----------------------------------------------------------------------------
(* Loops over a sequence.  The state after each turn is a recursive        *)
(* function; that there is one, and what holds after every turn, follow by *)
(* the least counterexample.                                               *)

LEMMA EveryTurn ==
  ASSUME NEW len \in Nat, NEW S, 0 \in S, \A n \in 1 .. len : n - 1 \in S => n \in S
  PROVE  \A n \in 0 .. len : n \in S
<1> DEFINE T == {n \in 0 .. len : n \notin S}
<1>1. ASSUME T # {} PROVE FALSE
  <2>1. PICK m \in T : \A n \in T : m <= n
    <3>1. T \in SUBSET Nat
      OBVIOUS
    <3> HIDE DEF T
    <3>2. QED
      BY <1>1, <3>1, LeastElement
  <2>2. m \in 1 .. len /\ m - 1 \in 0 .. len /\ ~(m <= m - 1)
    BY <2>1
  <2>3. m - 1 \in S
    BY <2>1, <2>2
  <2>4. QED
    BY <2>1, <2>2, <2>3
<1>2. QED
  BY <1>1

(* f[n] is the state of a loop after n turns, of which h[n] makes the n-th.*)
Turns(f, len, base, h) ==
  \A n \in 0 .. len : f[n] = IF n = 0 THEN base ELSE h[n][f[n - 1]]

LEMMA LoopExists ==
  ASSUME NEW len \in Nat, NEW U, NEW base \in U, NEW h \in [1 .. len -> [U -> U]]
  PROVE  \E f \in [0 .. len -> U] : Turns(f, len, base, h)
<1> DEFINE Loop(f, k) == /\ f \in [0 .. k -> U]
                         /\ \A n \in 0 .. k : f[n] = IF n = 0 THEN base ELSE h[n][f[n - 1]]
           S == {k \in 0 .. len : \E f : Loop(f, k)}
<1>1. 0 \in S
  <2>1. Loop([n \in 0 .. 0 |-> base], 0)
    OBVIOUS
  <2>2. 0 \in 0 .. len
    OBVIOUS
  <2> HIDE DEF Loop
  <2>3. QED
    BY <2>1, <2>2
<1>2. ASSUME NEW k \in 1 .. len, k - 1 \in S PROVE k \in S
  <2>1. PICK f : Loop(f, k - 1)
    BY <1>2
  <2> DEFINE g == [n \in 0 .. k |-> IF n = k THEN h[k][f[k - 1]] ELSE f[n]]
  <2>2. f[k - 1] \in U
    BY <2>1
  <2>3. h[k][f[k - 1]] \in U
    BY <2>2
  <2>4. g \in [0 .. k -> U]
    BY <2>1, <2>3
  <2>5. ASSUME NEW n \in 0 .. k PROVE g[n] = IF n = 0 THEN base ELSE h[n][g[n - 1]]
    <3>1. CASE n = k
      <4>1. g[k - 1] = f[k - 1] /\ g[k] = h[k][f[k - 1]] /\ k # 0
        OBVIOUS
      <4> HIDE DEF g
      <4>2. QED
        BY <3>1, <4>1
    <3>2. CASE n # k
      <4>1. n \in 0 .. k - 1 /\ g[n] = f[n] /\ (n # 0 => g[n - 1] = f[n - 1])
        BY <3>2
      <4> HIDE DEF g
      <4>2. QED
        BY <2>1, <4>1
    <3>3. QED
      BY <3>1, <3>2
  <2> HIDE DEF g
  <2>6. Loop(g, k)
    BY <2>4, <2>5
  <2> HIDE DEF Loop
  <2>7. QED
    BY <2>6
<1> HIDE DEF S
<1>3. \A k \in 0 .. len : k \in S
  BY <1>1, <1>2, EveryTurn
<1>4. len \in S
  BY <1>3
<1>5. QED
  BY <1>4 DEF S, Turns

(* filepath.Clean and the walk along a path.                               *)
Along(f, from, path) ==
  f = [n \in 0 .. Len(path) |-> IF n = 0 THEN from ELSE Step(f[n - 1], path[n])]

LEMMA StepType ==
  ASSUME NEW Names, NEW done \in Seq(Names), NEW component \in Names
  PROVE  Step(done, component) \in Seq(Names)
<1>1. CASE component = "."
  BY <1>1 DEF Step
<1>2. CASE component = ".."
  <2>1. CASE done = <<>>
    BY <1>2, <2>1 DEF Step
  <2>2. CASE done # <<>>
    <3>1. Step(done, component) = Front(done)
      BY <1>2, <2>2 DEF Step
    <3>2. QED
      BY <2>2, <3>1 DEF Front
  <2>3. QED
    BY <2>1, <2>2
<1>3. CASE component \notin {".", ".."}
  BY <1>3 DEF Step
<1>4. QED
  BY <1>1, <1>2, <1>3

LEMMA WalkAlong ==
  ASSUME NEW Names, NEW from \in Seq(Names), NEW path \in Seq(Names)
  PROVE  \E f \in [0 .. Len(path) -> Seq(Names)] :
           Along(f, from, path) /\ Walk(from, path) = f[Len(path)]
<1> DEFINE len == Len(path)
           h == [n \in 1 .. len |-> [d \in Seq(Names) |-> Step(d, path[n])]]
<1>0. len \in Nat /\ \A n \in 1 .. len : path[n] \in Names
  OBVIOUS
<1>1. h \in [1 .. len -> [Seq(Names) -> Seq(Names)]]
  <2> HIDE DEF len
  <2>1. QED
    BY <1>0, StepType
<1>2. \A d \in Seq(Names) : \A n \in 1 .. len : h[n][d] = Step(d, path[n])
  OBVIOUS
<1> HIDE DEF h
<1>3. PICK f \in [0 .. len -> Seq(Names)] : Turns(f, len, from, h)
  BY <1>0, <1>1, LoopExists
<1>4. \A n \in 0 .. len : f[n] = IF n = 0 THEN from ELSE Step(f[n - 1], path[n])
  <2> HIDE DEF len
  <2>1. \A n \in 1 .. len : n \in 0 .. len /\ n - 1 \in 0 .. len /\ n # 0
    BY <1>0
  <2>2. \A n \in 1 .. len : f[n] = Step(f[n - 1], path[n])
    BY <1>2, <1>3, <2>1 DEF Turns
  <2>3. \A n \in 0 .. len : n = 0 \/ n \in 1 .. len
    BY <1>0
  <2>4. f[0] = from
    BY <1>0, <1>3 DEF Turns
  <2>5. QED
    BY <2>2, <2>3, <2>4, <2>1
<1>5. Along(f, from, path)
  BY <1>4 DEF Along
<1> DEFINE c == CHOOSE g : Along(g, from, path)
<1>6. Along(c, from, path)
  BY <1>5
<1>7. Walk(from, path) = c[Len(path)]
  BY DEF Walk, Along
<1> HIDE DEF c
<1>8. \A n \in 0 .. Len(path) : c[n] \in Seq(Names)
  <2> DEFINE S == {n \in 0 .. Len(path) : c[n] \in Seq(Names)}
  <2>1. 0 \in S
    BY <1>6 DEF Along
  <2>2. ASSUME NEW n \in 1 .. Len(path), n - 1 \in S PROVE n \in S
    <3>1. n \in 0 .. Len(path) /\ n # 0 /\ path[n] \in Names /\ c[n - 1] \in Seq(Names)
      BY <2>2
    <3>2. c[n] = Step(c[n - 1], path[n])
      BY <1>6, <3>1 DEF Along
    <3>3. QED
      BY <3>1, <3>2, StepType
  <2> HIDE DEF S
  <2>n. Len(path) \in Nat
    OBVIOUS
  <2>3. \A n \in 0 .. Len(path) : n \in S
    BY <2>1, <2>2, <2>n, EveryTurn
  <2>4. QED
    BY <2>3 DEF S
<1>9. c \in [0 .. Len(path) -> Seq(Names)]
  BY <1>6, <1>8 DEF Along
<1>10. QED
  BY <1>6, <1>7, <1>9

LEMMA WalkType ==
  ASSUME NEW Names, NEW from \in Seq(Names), NEW path \in Seq(Names)
  PROVE  Walk(from, path) \in Seq(Names)
<1>1. PICK f \in [0 .. Len(path) -> Seq(Names)] :
        Along(f, from, path) /\ Walk(from, path) = f[Len(path)]
  BY WalkAlong
<1>2. Len(path) \in 0 .. Len(path)
  OBVIOUS
<1>3. QED
  BY <1>1, <1>2

(* A walk goes on where the one before it has led.                         *)
LEMMA WalkOn ==
  ASSUME NEW Names, NEW from \in Seq(Names), NEW p \in Seq(Names), NEW q \in Seq(Names)
  PROVE  Walk(from, p \o q) = Walk(Walk(from, p), q)
<1> DEFINE on == Walk(from, p)
<1>1. p \o q \in Seq(Names) /\ on \in Seq(Names)
  BY WalkType
<1>2. PICK f : Along(f, from, p \o q) /\ Walk(from, p \o q) = f[Len(p \o q)]
  <2> DEFINE all == p \o q
  <2>1. all \in Seq(Names)
    BY <1>1
  <2> HIDE DEF all, on
  <2>2. PICK f : Along(f, from, all) /\ Walk(from, all) = f[Len(all)]
    BY <2>1, WalkAlong
  <2>3. QED
    BY <2>2 DEF all
<1>3. PICK g : Along(g, from, p) /\ on = g[Len(p)]
  BY WalkAlong
<1> HIDE DEF on
<1>4. PICK h : Along(h, on, q) /\ Walk(on, q) = h[Len(q)]
  BY <1>1, WalkAlong
<1>5. /\ Len(p) \in Nat /\ Len(q) \in Nat /\ Len(p \o q) = Len(p) + Len(q)
      /\ \A n \in 1 .. Len(p) : (p \o q)[n] = p[n]
      /\ \A n \in 1 .. Len(q) : (p \o q)[Len(p) + n] = q[n]
  OBVIOUS
<1>6. \A n \in 0 .. Len(p) : f[n] = g[n]
  <2> DEFINE S == {n \in 0 .. Len(p) : f[n] = g[n]}
  <2>1. 0 \in S
    BY <1>2, <1>3, <1>5 DEF Along
  <2>2. ASSUME NEW n \in 1 .. Len(p), n - 1 \in S PROVE n \in S
    <3>1. n \in 0 .. Len(p) /\ n # 0 /\ n \in 0 .. Len(p \o q) /\ f[n - 1] = g[n - 1]
      BY <1>5, <2>2
    <3>2. f[n] = Step(f[n - 1], p[n])
      BY <1>2, <1>5, <3>1 DEF Along
    <3>3. g[n] = Step(g[n - 1], p[n])
      BY <1>3, <3>1 DEF Along
    <3>4. QED
      BY <3>1, <3>2, <3>3
  <2> HIDE DEF S
  <2>3. \A n \in 0 .. Len(p) : n \in S
    BY <1>5, <2>1, <2>2, EveryTurn
  <2>4. QED
    BY <2>3 DEF S
<1>7. \A n \in 0 .. Len(q) : f[Len(p) + n] = h[n]
  <2> DEFINE S == {n \in 0 .. Len(q) : f[Len(p) + n] = h[n]}
  <2>1. 0 \in S
    <3>1. h[0] = on /\ Len(p) + 0 = Len(p) /\ Len(p) \in 0 .. Len(p)
      BY <1>4, <1>5 DEF Along
    <3>2. QED
      BY <1>3, <1>5, <1>6, <3>1
  <2>2. ASSUME NEW n \in 1 .. Len(q), n - 1 \in S PROVE n \in S
    <3>1. /\ n \in 0 .. Len(q) /\ n # 0 /\ Len(p) + n \in 0 .. Len(p \o q)
          /\ Len(p) + n # 0 /\ Len(p) + n - 1 = Len(p) + (n - 1)
      BY <1>5, <2>2
    <3>2. f[Len(p) + n] = Step(f[Len(p) + n - 1], q[n])
      <4>1. \A m \in 0 .. Len(p \o q) : m # 0 => f[m] = Step(f[m - 1], (p \o q)[m])
        BY <1>2 DEF Along
      <4>2. (p \o q)[Len(p) + n] = q[n]
        BY <1>5
      <4> DEFINE m == Len(p) + n
      <4>3. m \in 0 .. Len(p \o q) /\ m # 0
        BY <3>1
      <4> HIDE DEF m
      <4>4. f[m] = Step(f[m - 1], (p \o q)[m])
        BY <4>1, <4>3
      <4>5. QED
        BY <4>2, <4>4 DEF m
    <3>3. h[n] = Step(h[n - 1], q[n])
      BY <1>4, <3>1 DEF Along
    <3>4. f[Len(p) + (n - 1)] = h[n - 1]
      BY <2>2
    <3>5. QED
      BY <3>1, <3>2, <3>3, <3>4
  <2> HIDE DEF S
  <2>3. \A n \in 0 .. Len(q) : n \in S
    BY <1>5, <2>1, <2>2, EveryTurn
  <2>4. QED
    BY <2>3 DEF S
<1>8. f[Len(p) + Len(q)] = h[Len(q)]
  BY <1>5, <1>7
<1>9. QED
  BY <1>2, <1>4, <1>5, <1>8 DEF on

LEMMA FromTheWorkspace ==
  ASSUME NEW workspace \in Seq(STRING), Clean(workspace) = workspace, NEW path \in Seq(STRING)
  PROVE  Clean(workspace \o path) = Walk(workspace, path)
<1> DEFINE Names == STRING
           none == <<>>
<1>1. none \in Seq(Names) /\ workspace \in Seq(Names) /\ path \in Seq(Names)
  OBVIOUS
<1> HIDE DEF Names, none
<1>2. Walk(none, workspace \o path) = Walk(Walk(none, workspace), path)
  BY <1>1, WalkOn
<1> USE DEF none
<1>3. QED
  BY <1>2 DEF Clean

(* Execute and the safety policy.                                          *)
LEMMA FilesInWorkspace ==
  ASSUME NEW policy, NEW call, WorkspaceIsClean(policy),
         policy.roots = {[from |-> "workspace", path |-> <<>>]},
         call.path \in Seq(STRING), call.tool \in FileTools, Execute(policy, call).runs
  PROVE  IsPrefix(policy.workspace, Walk(policy.workspace, call.path))
<1> DEFINE w == policy.workspace
           root == [from |-> "workspace", path |-> <<>>]
           place == Walk(w, call.path)
<1>1. CallAllowed(policy, call)
  BY DEF Execute
<1>2. PathAllowed(policy, call.path, policy.roots)
  BY <1>1 DEF CallAllowed, FileTools
<1>3. Below(Placed(policy, root), Clean(w \o call.path))
  BY <1>2 DEF PathAllowed
<1>4. w \in Seq(STRING) /\ Clean(w) = w /\ w \o <<>> = w
  BY DEF WorkspaceIsClean
<1>5. Placed(policy, root) = w
  BY <1>4 DEF Placed
<1>6. Clean(w \o call.path) = place /\ place \in Seq(STRING)
  BY <1>4, FromTheWorkspace, WalkType
<1>7. Below(w, place)
  BY <1>3, <1>5, <1>6
<1> HIDE DEF w, place
<1>8. IsPrefix(w, w)
  BY <1>4 DEF IsPrefix
<1>9. IsPrefix(w, place)
  BY <1>7, <1>8 DEF Below
<1>10. QED
  BY <1>9 DEF w, place

(* A file tool stays in the workspace, whatever path it is given.          *)
(* (tools/safety.go Validate, adapters/files.go resolve)                   *)
THEOREM FilesAreInside == DecisionSpec => []FilesStayInWorkspace
<1>1. ASSUME DecisionInv, Answered("call"), A.runs, Q.call.tool \in FileTools
      PROVE  IsPrefix(Q.policy.workspace, Walk(Q.policy.workspace, Q.call.path))
  <2>1. Q \in Calls /\ A = Execute(Q.policy, Q.call)
    BY <1>1 DEF DecisionInv, QuestionTyped, AnswerFits, Answered
  <2>2. /\ WorkspaceIsClean(Q.policy)
        /\ Q.policy.roots = {[from |-> "workspace", path |-> <<>>]}
        /\ Q.call.path \in Seq(STRING)
    BY <2>1, CallsAssumption
  <2>3. QED
    BY <1>1, <2>1, <2>2, FilesInWorkspace
<1>2. DecisionInv => FilesStayInWorkspace
  BY <1>1 DEF FilesStayInWorkspace
<1>3. QED
  BY <1>2, DecisionsFit, PTL

(* What one target must be to be loaded, the names before it being taken.  *)
TargetFits(q, t, taken) ==
  LET named == t.from = "directory"
      path == IF named THEN q.directory.path \o t.path ELSE t.path
      relative == IF named THEN q.directory.from = "workspace" /\ q.directory.path # <<>>
                  ELSE t.from = "workspace"
  IN /\ t.name \notin taken
     /\ q.policy.capabilities # {} => t.capabilities \subseteq q.policy.capabilities
     /\ relative /\ q.policy.pluginRoots # {} =>
          \E root \in q.policy.pluginRoots :
            Below(Placed(q.policy, root), Walk(q.policy.workspace, path))

LEMMA TargetsFit ==
  ASSUME NEW q, WorkspaceIsClean(q.policy), q.directory \in Places,
         NEW t, t.path \in Seq(STRING), NEW taken,
         Loadable(q.policy, ResolvePluginTarget(q.directory, t), t, taken)
  PROVE  TargetFits(q, t, taken)
<1> DEFINE named == t.from = "directory"
           path == IF named THEN q.directory.path \o t.path ELSE t.path
           w == q.policy.workspace
           roots == q.policy.pluginRoots
<1>1. t.name \notin taken
  BY DEF Loadable
<1>2. q.policy.capabilities # {} => t.capabilities \subseteq q.policy.capabilities
  BY DEF Loadable, CapabilitiesAllowed
<1>3. ResolvePluginTarget(q.directory, t).path = path
  BY DEF ResolvePluginTarget
<1>4. PluginPathAllowed(q.policy, path)
  BY <1>3 DEF Loadable
<1>5. q.directory.path \in Seq(STRING)
  BY DEF Places
<1>6. path \in Seq(STRING)
  <2>1. q.directory.path \o t.path \in Seq(STRING)
    BY <1>5
  <2>2. QED
    BY <2>1
<1> HIDE DEF path
<1>7. Clean(w \o path) = Walk(w, path)
  BY <1>6, FromTheWorkspace DEF WorkspaceIsClean
<1>8. roots # {} => \E root \in roots : Below(Placed(q.policy, root), Walk(w, path))
  BY <1>4, <1>7 DEF PluginPathAllowed, PathAllowed
<1>9. QED
  BY <1>1, <1>2, <1>8 DEF TargetFits, path

(* The plugins that are loaded all passed the checks of the loop.          *)
LEMMA PluginsTogether ==
  ASSUME NEW q \in Plugins, NEW plugins,
         plugins = BuildPluginExecutor(q.policy, q.directory, q.targets), plugins # {}
  PROVE  /\ Cardinality({t.name : t \in plugins}) = Len(q.targets)
         /\ \A t \in plugins : TargetFits(q, t, DOMAIN Tools)
<1> DEFINE Before(i) == DOMAIN Tools \cup {q.targets[j].name : j \in 1 .. i - 1}
           Passed1(i) == Loadable(q.policy, ResolvePluginTarget(q.directory, q.targets[i]),
                                  q.targets[i], Before(i))
           len == Len(q.targets)
<1>1. plugins = {q.targets[i] : i \in DOMAIN q.targets} /\ \A i \in DOMAIN q.targets : Passed1(i)
  BY DEF BuildPluginExecutor
<1>2. DOMAIN q.targets = 1 .. len /\ len \in Nat
  BY PluginsAssumption
<1>3. \A i \in 1 .. len : q.targets[i].path \in Seq(STRING)
  <2> DEFINE R == [from : {"root", "workspace", "directory", "search"},
                   path : Seq(STRING), major : Nat, capabilities : SUBSET STRING, name : STRING]
  <2>1. \A r \in R : r.path \in Seq(STRING)
    OBVIOUS
  <2>2. q.targets \in Seq(R)
    BY PluginsAssumption
  <2> HIDE DEF R
  <2>3. \A i \in 1 .. len : q.targets[i] \in R
    BY <2>2
  <2>4. QED
    BY <2>1, <2>3
<1> HIDE DEF len
<1>4. ASSUME NEW i \in 1 .. len PROVE TargetFits(q, q.targets[i], Before(i))
  <2>1. Passed1(i)
    BY <1>1, <1>2
  <2>2. WorkspaceIsClean(q.policy) /\ q.directory \in Places
    BY PluginsAssumption
  <2> DEFINE t == q.targets[i]
             taken == Before(i)
  <2>3. t.path \in Seq(STRING)
    BY <1>3
  <2>4. Loadable(q.policy, ResolvePluginTarget(q.directory, t), t, taken)
    BY <2>1
  <2> HIDE DEF t, taken
  <2>5. TargetFits(q, t, taken)
    BY <2>2, <2>3, <2>4, TargetsFit
  <2>6. QED
    BY <2>5 DEF t, taken
<1>5. Cardinality({t.name : t \in plugins}) = len
  <2> DEFINE names == {t.name : t \in plugins}
             f == [i \in 1 .. len |-> q.targets[i].name]
  <2>1. f \in [1 .. len -> names] /\ \A n \in names : \E i \in 1 .. len : f[i] = n
    BY <1>1, <1>2
  <2>2. \A i, j \in 1 .. len : j \in 1 .. i - 1 => f[j] # f[i]
    BY <1>4 DEF TargetFits
  <2>3. \A i, j \in 1 .. len : i = j \/ i \in 1 .. j - 1 \/ j \in 1 .. i - 1
    BY <1>2
  <2> HIDE DEF f, names
  <2>4. \A i, j \in 1 .. len : f[i] = f[j] => i = j
    BY <2>2, <2>3
  <2>5. f \in Bijection(1 .. len, names)
    BY <2>1, <2>4 DEF Bijection, Injection, Surjection, IsInjective
  <2>6. ExistsBijection(1 .. len, names)
    BY <2>5 DEF ExistsBijection
  <2>7. QED
    BY <1>2, <2>6, FS_CountingElements DEF names
<1>6. ASSUME NEW t \in plugins PROVE TargetFits(q, t, DOMAIN Tools)
  <2>1. PICK i \in 1 .. len : t = q.targets[i]
    BY <1>1, <1>2
  <2>2. TargetFits(q, t, Before(i))
    BY <1>4, <2>1
  <2>3. QED
    BY <2>2 DEF TargetFits
<1>7. QED
  BY <1>5, <1>6 DEF len

(* The plugins of a host load together or not at all, and each of them     *)
(* passes every check.  (runtimebuilder/builder.go buildPluginExecutor)    *)
THEOREM PluginsAreTogether == DecisionSpec => []PluginsLoadTogether
<1>1. ASSUME DecisionInv, Answered("plugins"), A # {}
      PROVE  /\ Cardinality({t.name : t \in A}) = Len(Q.targets)
             /\ \A t \in A : TargetFits(Q, t, DOMAIN Tools)
  <2>1. Q \in Plugins /\ A = BuildPluginExecutor(Q.policy, Q.directory, Q.targets)
    BY <1>1 DEF DecisionInv, QuestionTyped, AnswerFits, Answered
  <2>2. QED
    BY <1>1, <2>1, PluginsTogether
<1>2. DecisionInv => PluginsLoadTogether
  BY <1>1 DEF PluginsLoadTogether, TargetFits
<1>3. QED
  BY <1>2, DecisionsFit, PTL

(* Files and plugins are where the policy lets them be.                    *)
(* (tools/safety.go, runtimebuilder/builder.go buildPluginExecutor)        *)
THEOREM CallsInBounds == DecisionSpec => []CallsStayInBounds
<1>1. FilesStayInWorkspace /\ PluginsLoadTogether => CallsStayInBounds
  BY DEF CallsStayInBounds
<1>2. QED
  BY <1>1, FilesAreInside, PluginsAreTogether, PTL

-----------------------------------------------------------------------------
(* The loops over registrations and metadata, like that along a path: each *)
(* has a function of its states, which stay in any set U that every turn   *)
(* stays in.                                                               *)

(* NewVerifierRegistry and the registrations after it.                     *)
Registering(f, r, requests) ==
  f = [n \in 0 .. Len(requests) |->
         IF n = 0 THEN r ELSE Registered(f[n - 1], requests[n])]

LEMMA RegisteringLoop ==
  ASSUME NEW r, NEW requests, requests \in Seq(Range(requests)),
         NEW U, r \in U, \A d \in U : \A n \in 1 .. Len(requests) : Registered(d, requests[n]) \in U
  PROVE  \E f \in [0 .. Len(requests) -> U] : Registering(f, r, requests)
           /\ RegisteredAfter(r, requests) = f
<1> DEFINE len == Len(requests)
           h == [n \in 1 .. len |-> [d \in U |-> Registered(d, requests[n])]]
<1>0. len \in Nat /\ \A d \in U : \A n \in 1 .. len : Registered(d, requests[n]) \in U
  OBVIOUS
<1>1. h \in [1 .. len -> [U -> U]]
  <2> HIDE DEF len
  <2>1. QED
    BY <1>0
<1>2. \A d \in U : \A n \in 1 .. len : h[n][d] = Registered(d, requests[n])
  OBVIOUS
<1> HIDE DEF h
<1>3. PICK f \in [0 .. len -> U] : Turns(f, len, r, h)
  BY <1>0, <1>1, LoopExists
<1>4. \A n \in 0 .. len : f[n] = IF n = 0 THEN r ELSE Registered(f[n - 1], requests[n])
  <2> HIDE DEF len
  <2>1. \A n \in 1 .. len : n \in 0 .. len /\ n - 1 \in 0 .. len /\ n # 0
    BY <1>0
  <2>2. \A n \in 1 .. len : f[n] = Registered(f[n - 1], requests[n])
    BY <1>2, <1>3, <2>1 DEF Turns
  <2>3. \A n \in 0 .. len : n = 0 \/ n \in 1 .. len
    BY <1>0
  <2>4. f[0] = r
    BY <1>0, <1>3 DEF Turns
  <2>5. QED
    BY <2>1, <2>2, <2>3, <2>4
<1>5. Registering(f, r, requests)
  BY <1>4 DEF Registering
<1> DEFINE c == CHOOSE g : Registering(g, r, requests)
<1>6. Registering(c, r, requests)
  BY <1>5
<1>7. RegisteredAfter(r, requests) = c
  BY DEF RegisteredAfter, Registering
<1> HIDE DEF c
<1>8. \A n \in 0 .. len : c[n] \in U
  <2> HIDE DEF len
  <2> DEFINE S == {n \in 0 .. len : c[n] \in U}
  <2>1. 0 \in S
    BY <1>0, <1>6 DEF Registering, len
  <2>2. ASSUME NEW n \in 1 .. len, n - 1 \in S PROVE n \in S
    <3>1. n \in 0 .. len /\ n # 0 /\ c[n - 1] \in U
      BY <1>0, <2>2
    <3>2. c[n] = Registered(c[n - 1], requests[n])
      BY <1>6, <3>1 DEF Registering, len
    <3>3. QED
      BY <3>1, <3>2 DEF len
  <2> HIDE DEF S
  <2>3. \A n \in 0 .. len : n \in S
    BY <1>0, <2>1, <2>2, EveryTurn
  <2>4. QED
    BY <2>3 DEF S
<1>9. c \in [0 .. len -> U]
  BY <1>6, <1>8 DEF Registering
<1>10. QED
  BY <1>6, <1>7, <1>9

(* Registrations of strategies.                                            *)
Claiming(f, requests) ==
  f = [n \in 0 .. Len(requests) |->
         IF n = 0 THEN NoStrategies
           ELSE RegisterStrategy(f[n - 1], requests[n].id, requests[n].metadata)]

LEMMA ClaimingLoop ==
  ASSUME NEW requests, requests \in Seq(Range(requests)),
         NEW U, NoStrategies \in U,
           \A d \in U : \A n \in 1 .. Len(requests) :
             RegisterStrategy(d, requests[n].id, requests[n].metadata) \in U
  PROVE  \E f \in [0 .. Len(requests) -> U] : Claiming(f, requests)
           /\ StrategiesOf(requests) = f[Len(requests)]
<1> DEFINE len == Len(requests)
           h == [n \in 1 .. len |-> [d \in U |-> RegisterStrategy(d, requests[n].id,
             requests[n].metadata)]]
<1>0. len \in Nat /\ \A d \in U : \A n \in 1 .. len :
        RegisterStrategy(d, requests[n].id, requests[n].metadata) \in U
  OBVIOUS
<1>1. h \in [1 .. len -> [U -> U]]
  <2> HIDE DEF len
  <2>1. QED
    BY <1>0
<1>2. \A d \in U : \A n \in 1 .. len :
        h[n][d] = RegisterStrategy(d, requests[n].id, requests[n].metadata)
  OBVIOUS
<1> HIDE DEF h
<1>3. PICK f \in [0 .. len -> U] : Turns(f, len, NoStrategies, h)
  BY <1>0, <1>1, LoopExists
<1>4. \A n \in 0 .. len : f[n] = IF n = 0 THEN NoStrategies
        ELSE RegisterStrategy(f[n - 1], requests[n].id, requests[n].metadata)
  <2> HIDE DEF len
  <2>1. \A n \in 1 .. len : n \in 0 .. len /\ n - 1 \in 0 .. len /\ n # 0
    BY <1>0
  <2>2. \A n \in 1 .. len : f[n] = RegisterStrategy(f[n - 1], requests[n].id, requests[n].metadata)
    BY <1>2, <1>3, <2>1 DEF Turns
  <2>3. \A n \in 0 .. len : n = 0 \/ n \in 1 .. len
    BY <1>0
  <2>4. f[0] = NoStrategies
    BY <1>0, <1>3 DEF Turns
  <2>5. QED
    BY <2>1, <2>2, <2>3, <2>4
<1>5. Claiming(f, requests)
  BY <1>4 DEF Claiming
<1> DEFINE c == CHOOSE g : Claiming(g, requests)
<1>6. Claiming(c, requests)
  BY <1>5
<1>7. StrategiesOf(requests) = c[Len(requests)]
  BY DEF StrategiesOf, Claiming
<1> HIDE DEF c
<1>8. \A n \in 0 .. len : c[n] \in U
  <2> HIDE DEF len
  <2> DEFINE S == {n \in 0 .. len : c[n] \in U}
  <2>1. 0 \in S
    BY <1>0, <1>6 DEF Claiming, len
  <2>2. ASSUME NEW n \in 1 .. len, n - 1 \in S PROVE n \in S
    <3>1. n \in 0 .. len /\ n # 0 /\ c[n - 1] \in U
      BY <1>0, <2>2
    <3>2. c[n] = RegisterStrategy(c[n - 1], requests[n].id, requests[n].metadata)
      BY <1>6, <3>1 DEF Claiming, len
    <3>3. QED
      BY <3>1, <3>2 DEF len
  <2> HIDE DEF S
  <2>3. \A n \in 0 .. len : n \in S
    BY <1>0, <2>1, <2>2, EveryTurn
  <2>4. QED
    BY <2>3 DEF S
<1>9. c \in [0 .. len -> U]
  BY <1>6, <1>8 DEF Claiming
<1>10. QED
  BY <1>6, <1>7, <1>9

(* mergeProvenance of one plugin after the other.                          *)
Merging(f, metadata) ==
  f = [n \in 0 .. Len(metadata) |->
         IF n = 0 THEN NoProvenance ELSE MergeProvenance(f[n - 1], metadata[n])]

LEMMA MergingLoop ==
  ASSUME NEW metadata, metadata \in Seq(Range(metadata)),
         NEW U, NoProvenance \in U,
           \A d \in U : \A n \in 1 .. Len(metadata) : MergeProvenance(d, metadata[n]) \in U
  PROVE  \E f \in [0 .. Len(metadata) -> U] : Merging(f, metadata)
           /\ AllMerged(metadata) = f[Len(metadata)]
<1> DEFINE len == Len(metadata)
           h == [n \in 1 .. len |-> [d \in U |-> MergeProvenance(d, metadata[n])]]
<1>0. len \in Nat /\ \A d \in U : \A n \in 1 .. len : MergeProvenance(d, metadata[n]) \in U
  OBVIOUS
<1>1. h \in [1 .. len -> [U -> U]]
  <2> HIDE DEF len
  <2>1. QED
    BY <1>0
<1>2. \A d \in U : \A n \in 1 .. len : h[n][d] = MergeProvenance(d, metadata[n])
  OBVIOUS
<1> HIDE DEF h
<1>3. PICK f \in [0 .. len -> U] : Turns(f, len, NoProvenance, h)
  BY <1>0, <1>1, LoopExists
<1>4. \A n \in 0 .. len : f[n] = IF n = 0 THEN NoProvenance
        ELSE MergeProvenance(f[n - 1], metadata[n])
  <2> HIDE DEF len
  <2>1. \A n \in 1 .. len : n \in 0 .. len /\ n - 1 \in 0 .. len /\ n # 0
    BY <1>0
  <2>2. \A n \in 1 .. len : f[n] = MergeProvenance(f[n - 1], metadata[n])
    BY <1>2, <1>3, <2>1 DEF Turns
  <2>3. \A n \in 0 .. len : n = 0 \/ n \in 1 .. len
    BY <1>0
  <2>4. f[0] = NoProvenance
    BY <1>0, <1>3 DEF Turns
  <2>5. QED
    BY <2>1, <2>2, <2>3, <2>4
<1>5. Merging(f, metadata)
  BY <1>4 DEF Merging
<1> DEFINE c == CHOOSE g : Merging(g, metadata)
<1>6. Merging(c, metadata)
  BY <1>5
<1>7. AllMerged(metadata) = c[Len(metadata)]
  BY DEF AllMerged, Merging
<1> HIDE DEF c
<1>8. \A n \in 0 .. len : c[n] \in U
  <2> HIDE DEF len
  <2> DEFINE S == {n \in 0 .. len : c[n] \in U}
  <2>1. 0 \in S
    BY <1>0, <1>6 DEF Merging, len
  <2>2. ASSUME NEW n \in 1 .. len, n - 1 \in S PROVE n \in S
    <3>1. n \in 0 .. len /\ n # 0 /\ c[n - 1] \in U
      BY <1>0, <2>2
    <3>2. c[n] = MergeProvenance(c[n - 1], metadata[n])
      BY <1>6, <3>1 DEF Merging, len
    <3>3. QED
      BY <3>1, <3>2 DEF len
  <2> HIDE DEF S
  <2>3. \A n \in 0 .. len : n \in S
    BY <1>0, <2>1, <2>2, EveryTurn
  <2>4. QED
    BY <2>3 DEF S
<1>9. c \in [0 .. len -> U]
  BY <1>6, <1>8 DEF Merging
<1>10. QED
  BY <1>6, <1>7, <1>9

(* mergeStoredProvenance.                                                  *)
Adding(f, existing, incoming) ==
  f = [n \in 0 .. Len(incoming) |->
         IF n = 0 THEN existing ELSE AddStored(f[n - 1], incoming[n])]

LEMMA AddingLoop ==
  ASSUME NEW existing, NEW incoming, incoming \in Seq(Range(incoming)),
         NEW U, existing \in U, \A d \in U : \A n \in 1 .. Len(incoming) :
           AddStored(d, incoming[n]) \in U
  PROVE  \E f \in [0 .. Len(incoming) -> U] : Adding(f, existing, incoming)
           /\ AllAdded(existing, incoming) = f[Len(incoming)]
<1> DEFINE len == Len(incoming)
           h == [n \in 1 .. len |-> [d \in U |-> AddStored(d, incoming[n])]]
<1>0. len \in Nat /\ \A d \in U : \A n \in 1 .. len : AddStored(d, incoming[n]) \in U
  OBVIOUS
<1>1. h \in [1 .. len -> [U -> U]]
  <2> HIDE DEF len
  <2>1. QED
    BY <1>0
<1>2. \A d \in U : \A n \in 1 .. len : h[n][d] = AddStored(d, incoming[n])
  OBVIOUS
<1> HIDE DEF h
<1>3. PICK f \in [0 .. len -> U] : Turns(f, len, existing, h)
  BY <1>0, <1>1, LoopExists
<1>4. \A n \in 0 .. len : f[n] = IF n = 0 THEN existing ELSE AddStored(f[n - 1], incoming[n])
  <2> HIDE DEF len
  <2>1. \A n \in 1 .. len : n \in 0 .. len /\ n - 1 \in 0 .. len /\ n # 0
    BY <1>0
  <2>2. \A n \in 1 .. len : f[n] = AddStored(f[n - 1], incoming[n])
    BY <1>2, <1>3, <2>1 DEF Turns
  <2>3. \A n \in 0 .. len : n = 0 \/ n \in 1 .. len
    BY <1>0
  <2>4. f[0] = existing
    BY <1>0, <1>3 DEF Turns
  <2>5. QED
    BY <2>1, <2>2, <2>3, <2>4
<1>5. Adding(f, existing, incoming)
  BY <1>4 DEF Adding
<1> DEFINE c == CHOOSE g : Adding(g, existing, incoming)
<1>6. Adding(c, existing, incoming)
  BY <1>5
<1>7. AllAdded(existing, incoming) = c[Len(incoming)]
  BY DEF AllAdded, Adding
<1> HIDE DEF c
<1>8. \A n \in 0 .. len : c[n] \in U
  <2> HIDE DEF len
  <2> DEFINE S == {n \in 0 .. len : c[n] \in U}
  <2>1. 0 \in S
    BY <1>0, <1>6 DEF Adding, len
  <2>2. ASSUME NEW n \in 1 .. len, n - 1 \in S PROVE n \in S
    <3>1. n \in 0 .. len /\ n # 0 /\ c[n - 1] \in U
      BY <1>0, <2>2
    <3>2. c[n] = AddStored(c[n - 1], incoming[n])
      BY <1>6, <3>1 DEF Adding, len
    <3>3. QED
      BY <3>1, <3>2 DEF len
  <2> HIDE DEF S
  <2>3. \A n \in 0 .. len : n \in S
    BY <1>0, <2>1, <2>2, EveryTurn
  <2>4. QED
    BY <2>3 DEF S
<1>9. c \in [0 .. len -> U]
  BY <1>6, <1>8 DEF Adding
<1>10. QED
  BY <1>6, <1>7, <1>9

-----------------------------------------------------------------------------
(* Verdicts and provenance in the store.                                   *)

(* What pluginVerifier.Verify makes of a plugin can be read back.          *)
LEMMA VerdictsAreRead ==
  ASSUME NEW d \in Delegates
  PROVE  LET given == PluginVerify(d)
             read == UnmarshalVerdict(MarshalVerdict(given))
         IN /\ read.ok /\ read.verdict = given
            /\ given.passed => d.does = "answers" /\ d.verdict.passed
<1> DEFINE given == PluginVerify(d)
           v == d.verdict
<1>1. Failed.status = "failed" /\ Failed.reason = "why" /\ Failed.passed = FALSE
  BY DEF Failed, Verdict
<1>2. v \in [passed : BOOLEAN, status : STRING, reason : STRING]
  BY DelegatesAssumption
<1>3. ASSUME Valid(v)
      PROVE  LET n == NormalizeVerdict(v) IN
             /\ n.status # "" /\ n.reason # "" /\ (n.passed <=> n.status = "passed")
             /\ n.status \in {"passed", "failed", "not_applicable"}
             /\ n.passed = v.passed
  <2>1. Valid(v) => /\ NormalizeVerdict(v).reason # ""
                    /\ NormalizeVerdict(v).status \in {"passed", "failed", "not_applicable"}
                    /\ NormalizeVerdict(v).passed <=> NormalizeVerdict(v).status = "passed"
    BY DEF Valid
  <2>2. NormalizeVerdict(v).passed = v.passed
    BY <1>2 DEF NormalizeVerdict
  <2>3. QED
    BY <1>3, <2>1, <2>2
<1>4. /\ given.status # "" /\ given.reason # "" /\ (given.passed <=> given.status = "passed")
      /\ given.status \in {"passed", "failed", "not_applicable"}
      /\ given.passed => d.does = "answers" /\ d.verdict.passed
  <2>1. CASE d.does = "answers" /\ Valid(v)
    <3>1. given = NormalizeVerdict(v)
      BY <2>1 DEF PluginVerify
    <3>2. QED
      BY <1>3, <2>1, <3>1
  <2>2. CASE ~(d.does = "answers" /\ Valid(v))
    <3>1. given = Failed
      BY <2>2 DEF PluginVerify
    <3>2. QED
      BY <1>1, <3>1
  <2>3. QED
    BY <2>1, <2>2
<1> HIDE DEF given
<1>5. NormalizeVerdict(given) = given
  BY <1>4 DEF NormalizeVerdict
<1>6. MarshalVerdict(given) = given
  BY <1>4, <1>5 DEF MarshalVerdict
<1>7. Valid(given)
  BY <1>4, <1>5 DEF Valid
<1>8. UnmarshalVerdict(given) = [ok |-> TRUE, verdict |-> given]
  BY <1>5, <1>7 DEF UnmarshalVerdict
<1> DEFINE read == UnmarshalVerdict(MarshalVerdict(given))
<1>9. read.ok /\ read.verdict = given
  BY <1>6, <1>8
<1>10. QED
  BY <1>4, <1>9 DEF given

LEMMA KeysAreEqual ==
  ASSUME NEW p, NEW m, NEW n, SameKey(m, n)
  PROVE  HasKey(p, m) <=> HasKey(p, n)
BY DEF HasKey, SameKey

(* One more plugin, unless its key is there.                               *)
LEMMA AddedKeeps ==
  ASSUME NEW M, NEW p \in Seq(M), NEW m \in M, ProvenanceValid(p), MetadataValid(m)
  PROVE  /\ AddStored(p, m) \in Seq(M) /\ ProvenanceValid(AddStored(p, m))
         /\ \A x : HasKey(AddStored(p, m), x) <=> HasKey(p, x) \/ SameKey(m, x)
         /\ \A i \in DOMAIN AddStored(p, m) :
              \/ i \in DOMAIN p /\ AddStored(p, m)[i] = p[i]
              \/ AddStored(p, m)[i] = m /\ ~HasKey(p, m)
<1>1. CASE HasKey(p, m)
  <2>1. AddStored(p, m) = p
    BY <1>1 DEF AddStored
  <2>2. \A x : SameKey(m, x) => HasKey(p, x)
    BY <1>1, KeysAreEqual
  <2>3. QED
    BY <2>1, <2>2
<1>2. CASE ~HasKey(p, m)
  <2> DEFINE q == Append(p, m)
  <2>1. AddStored(p, m) = q
    BY <1>2 DEF AddStored
  <2>2. /\ q \in Seq(M) /\ DOMAIN p = 1 .. Len(p) /\ DOMAIN q = 1 .. Len(p) + 1
        /\ Len(p) \in Nat
        /\ \A i \in 1 .. Len(p) : q[i] = p[i]
        /\ q[Len(p) + 1] = m
    OBVIOUS
  <2> HIDE DEF q
  <2>3. \A i \in DOMAIN q : \/ i \in DOMAIN p /\ q[i] = p[i]
                            \/ i = Len(p) + 1 /\ q[i] = m
    BY <2>2
  <2>4. \A i \in DOMAIN p : i \in DOMAIN q /\ i # Len(p) + 1
    BY <2>2
  <2>5. Len(p) + 1 \in DOMAIN q
    BY <2>2
  <2>6. \A x : HasKey(q, x) <=> HasKey(p, x) \/ SameKey(m, x)
    BY <2>2, <2>3, <2>4, <2>5 DEF HasKey
  <2>7. \A i \in DOMAIN q : MetadataValid(q[i])
    BY <2>3 DEF ProvenanceValid
  <2>8. ASSUME NEW i \in DOMAIN q, NEW j \in DOMAIN q, SameKey(q[i], q[j])
        PROVE  i = j
    <3>1. CASE i \in DOMAIN p /\ j \in DOMAIN p
      BY <2>2, <2>8, <3>1 DEF ProvenanceValid
    <3>2. \A k \in DOMAIN p : ~SameKey(q[k], m) /\ ~SameKey(m, q[k])
      BY <1>2, <2>2 DEF HasKey, SameKey
    <3>3. QED
      BY <2>3, <2>8, <3>1, <3>2
  <2>9. ProvenanceValid(q)
    BY <2>7, <2>8 DEF ProvenanceValid
  <2>10. QED
    BY <1>2, <2>1, <2>2, <2>3, <2>6, <2>9
<1>3. QED
  BY <1>1, <1>2

LEMMA MergedKeeps ==
  ASSUME NEW M, NEW p \in Seq(M), NEW m \in M, ProvenanceValid(p)
  PROVE  /\ MergeProvenance(p, m) \in Seq(M) /\ ProvenanceValid(MergeProvenance(p, m))
         /\ \A x : HasKey(MergeProvenance(p, m), x)
                     <=> HasKey(p, x) \/ (MetadataValid(m) /\ SameKey(m, x))
         /\ \A i \in DOMAIN MergeProvenance(p, m) :
              \/ i \in DOMAIN p /\ MergeProvenance(p, m)[i] = p[i]
              \/ MergeProvenance(p, m)[i] = m /\ MetadataValid(m) /\ ~HasKey(p, m)
<1>1. CASE MetadataValid(m)
  <2>1. MergeProvenance(p, m) = AddStored(p, m)
    BY <1>1 DEF MergeProvenance, AddStored
  <2>2. /\ AddStored(p, m) \in Seq(M) /\ ProvenanceValid(AddStored(p, m))
        /\ \A x : HasKey(AddStored(p, m), x) <=> HasKey(p, x) \/ SameKey(m, x)
        /\ \A i \in DOMAIN AddStored(p, m) :
             \/ i \in DOMAIN p /\ AddStored(p, m)[i] = p[i]
             \/ AddStored(p, m)[i] = m /\ ~HasKey(p, m)
    BY <1>1, AddedKeeps
  <2>3. QED
    BY <1>1, <2>1, <2>2, Zenon
<1>2. CASE ~MetadataValid(m)
  <2>1. MergeProvenance(p, m) = p
    BY <1>2 DEF MergeProvenance
  <2>2. QED
    BY <1>2, <2>1, Zenon
<1>3. QED
  BY <1>1, <1>2

(* A run collects what is valid of the plugins it meets, as it meets them. *)
LEMMA RunCollects ==
  ASSUME NEW metadata, metadata \in Seq(Range(metadata))
  PROVE  LET p == AllMerged(metadata) IN
         /\ p \in Seq(Range(metadata)) /\ ProvenanceValid(p)
         /\ \A j \in DOMAIN metadata : MetadataValid(metadata[j]) => HasKey(p, metadata[j])
         /\ \A i \in DOMAIN p : \E j \in DOMAIN metadata :
              p[i] = metadata[j] /\ IsFirstMet(metadata, j)
<1> DEFINE M == Range(metadata)
           U == {p \in Seq(M) : ProvenanceValid(p)}
           len == Len(metadata)
<1>1. len \in Nat /\ DOMAIN metadata = 1 .. len /\ \A n \in 1 .. len : metadata[n] \in M
  OBVIOUS
<1>2. NoProvenance \in U
  BY DEF NoProvenance, ProvenanceValid
<1> HIDE DEF M
<1>3. \A d \in U : \A n \in 1 .. len : MergeProvenance(d, metadata[n]) \in U
  BY <1>1, MergedKeeps
<1> HIDE DEF U
<1>4. PICK f \in [0 .. len -> U] :
        Merging(f, metadata) /\ AllMerged(metadata) = f[len]
  BY <1>2, <1>3, MergingLoop
<1> DEFINE Kept(n) == \A k \in 1 .. n : MetadataValid(metadata[k]) => HasKey(f[n], metadata[k])
           Firsts(n) == \A i \in DOMAIN f[n] : \E j \in 1 .. n :
                         f[n][i] = metadata[j] /\ IsFirstMet(metadata, j)
<1>5. \A n \in 0 .. len : Kept(n) /\ Firsts(n)
  <2> DEFINE S == {n \in 0 .. len : Kept(n) /\ Firsts(n)}
  <2>1. 0 \in S
    <3>1. 0 \in 0 .. len /\ f[0] = NoProvenance
      BY <1>1, <1>4 DEF Merging
    <3>2. DOMAIN f[0] = {}
      BY <3>1 DEF NoProvenance
    <3>3. QED
      BY <3>1, <3>2
  <2>2. ASSUME NEW n \in 1 .. len, n - 1 \in S PROVE n \in S
    <3>1. n \in 0 .. len /\ n - 1 \in 0 .. len /\ n # 0 /\ Kept(n - 1) /\ Firsts(n - 1)
      BY <1>1, <2>2
    <3>2. f[n] = MergeProvenance(f[n - 1], metadata[n])
      BY <1>4, <3>1 DEF Merging
    <3>3. f[n - 1] \in Seq(M) /\ ProvenanceValid(f[n - 1]) /\ metadata[n] \in M
      BY <1>1, <1>4, <3>1 DEF U
    <3>4. \A x : HasKey(f[n], x) <=>
                   HasKey(f[n - 1], x) \/ (MetadataValid(metadata[n]) /\ SameKey(metadata[n], x))
      BY <3>2, <3>3, MergedKeeps
    <3>5. ASSUME NEW k \in 1 .. n, MetadataValid(metadata[k])
          PROVE  HasKey(f[n], metadata[k])
      <4>1. CASE k = n
        BY <3>4, <3>5, <4>1 DEF SameKey
      <4>2. CASE k # n
        <5>1. k \in 1 .. n - 1
          BY <3>1, <4>2
        <5>2. HasKey(f[n - 1], metadata[k])
          BY <3>1, <3>5, <5>1
        <5>3. QED
          BY <3>4, <5>2
      <4>3. QED
        BY <4>1, <4>2
    <3>6. ASSUME NEW i \in DOMAIN f[n]
          PROVE  \E j \in 1 .. n : f[n][i] = metadata[j] /\ IsFirstMet(metadata, j)
      <4>1. \/ i \in DOMAIN f[n - 1] /\ f[n][i] = f[n - 1][i]
            \/ /\ f[n][i] = metadata[n] /\ MetadataValid(metadata[n])
               /\ ~HasKey(f[n - 1], metadata[n])
        <5> DEFINE d == f[n - 1]
                   m == metadata[n]
        <5>1. d \in Seq(M) /\ m \in M /\ ProvenanceValid(d) /\ f[n] = MergeProvenance(d, m)
          BY <3>2, <3>3
        <5> HIDE DEF d, m
        <5>2. \A k \in DOMAIN MergeProvenance(d, m) :
                \/ k \in DOMAIN d /\ MergeProvenance(d, m)[k] = d[k]
                \/ MergeProvenance(d, m)[k] = m /\ MetadataValid(m) /\ ~HasKey(d, m)
          BY <5>1, MergedKeeps, Zenon
        <5>3. QED
          BY <3>6, <5>1, <5>2 DEF d, m
      <4>2. CASE i \in DOMAIN f[n - 1] /\ f[n][i] = f[n - 1][i]
        <5>1. 1 .. n - 1 \subseteq 1 .. n
          BY <3>1
        <5>2. QED
          BY <3>1, <4>2, <5>1
      <4>3. CASE /\ f[n][i] = metadata[n] /\ MetadataValid(metadata[n])
                 /\ ~HasKey(f[n - 1], metadata[n])
        <5>1. \A k \in 1 .. n - 1 : MetadataValid(metadata[k]) => ~SameKey(metadata[k], metadata[n])
          BY <3>1, <4>3, KeysAreEqual
        <5>2. IsFirstMet(metadata, n)
          BY <4>3, <5>1 DEF IsFirstMet
        <5>3. n \in 1 .. n
          BY <3>1
        <5>4. QED
          BY <4>3, <5>2, <5>3
      <4>4. QED
        BY <4>1, <4>2, <4>3
    <3>7. QED
      BY <3>1, <3>5, <3>6
  <2> HIDE DEF S
  <2>3. \A n \in 0 .. len : n \in S
    BY <1>1, <2>1, <2>2, EveryTurn
  <2>4. QED
    BY <2>3 DEF S
<1>6. len \in 0 .. len
  BY <1>1
<1>7. f[len] \in Seq(M) /\ ProvenanceValid(f[len])
  BY <1>4, <1>6 DEF U
<1>8. Kept(len) /\ Firsts(len)
  BY <1>5, <1>6
<1>9. QED
  BY <1>1, <1>4, <1>7, <1>8 DEF M

(* The store keeps every plugin of two valid provenances.                  *)
LEMMA StoreAdds ==
  ASSUME NEW M, NEW p \in Seq(M), NEW q \in Seq(M), ProvenanceValid(p), ProvenanceValid(q)
  PROVE  LET r == AllAdded(p, q) IN
         /\ r \in Seq(M) /\ ProvenanceValid(r)
         /\ \A x : HasKey(p, x) \/ HasKey(q, x) => HasKey(r, x)
         /\ \A i \in DOMAIN r : \/ \E j \in DOMAIN p : r[i] = p[j]
                                \/ \E j \in DOMAIN q : r[i] = q[j] /\ ~HasKey(p, q[j])
<1> DEFINE U == {d \in Seq(M) : ProvenanceValid(d)}
           len == Len(q)
<1>1. /\ len \in Nat /\ DOMAIN q = 1 .. len /\ q \in Seq(Range(q))
      /\ \A n \in 1 .. len : q[n] \in M
  BY DEF Range
<1>2. p \in U
  OBVIOUS
<1>3. ASSUME NEW d \in U, NEW n \in 1 .. len PROVE AddStored(d, q[n]) \in U
  <2> DEFINE m == q[n]
  <2>1. m \in M /\ MetadataValid(m) /\ d \in Seq(M) /\ ProvenanceValid(d)
    BY <1>1 DEF ProvenanceValid
  <2> HIDE DEF m
  <2>2. AddStored(d, m) \in Seq(M) /\ ProvenanceValid(AddStored(d, m))
    BY <2>1, AddedKeeps
  <2>3. QED
    BY <2>2 DEF m
<1> HIDE DEF U
<1>4. PICK f \in [0 .. len -> U] : Adding(f, p, q) /\ AllAdded(p, q) = f[len]
  BY <1>1, <1>2, <1>3, AddingLoop
<1> DEFINE Kept(n) == \A x : HasKey(p, x) \/ (\E k \in 1 .. n : SameKey(q[k], x)) =>
             HasKey(f[n], x)
           From(n) == \A i \in DOMAIN f[n] :
             \/ \E j \in DOMAIN p : f[n][i] = p[j]
             \/ \E j \in DOMAIN q : f[n][i] = q[j] /\ ~HasKey(p, q[j])
<1>5. \A n \in 0 .. len : Kept(n) /\ From(n)
  <2> DEFINE S == {n \in 0 .. len : Kept(n) /\ From(n)}
  <2>1. 0 \in S
    <3>1. 0 \in 0 .. len /\ f[0] = p
      BY <1>1, <1>4 DEF Adding
    <3>2. QED
      BY <3>1
  <2>2. ASSUME NEW n \in 1 .. len, n - 1 \in S PROVE n \in S
    <3>1. n \in 0 .. len /\ n - 1 \in 0 .. len /\ n # 0 /\ Kept(n - 1) /\ From(n - 1)
      BY <1>1, <2>2
    <3>2. f[n] = AddStored(f[n - 1], q[n])
      BY <1>4, <3>1 DEF Adding
    <3>3. /\ f[n - 1] \in Seq(M) /\ ProvenanceValid(f[n - 1]) /\ q[n] \in M
          /\ MetadataValid(q[n])
      BY <1>1, <1>4, <3>1 DEF U, ProvenanceValid
    <3>4. /\ \A x : HasKey(f[n], x) <=> HasKey(f[n - 1], x) \/ SameKey(q[n], x)
          /\ \A i \in DOMAIN f[n] : \/ i \in DOMAIN f[n - 1] /\ f[n][i] = f[n - 1][i]
                                    \/ f[n][i] = q[n] /\ ~HasKey(f[n - 1], q[n])
      <4> DEFINE d == f[n - 1]
                 m == q[n]
      <4>1. d \in Seq(M) /\ m \in M /\ ProvenanceValid(d) /\ MetadataValid(m)
        BY <3>3
      <4> HIDE DEF d, m
      <4>2. /\ \A x : HasKey(AddStored(d, m), x) <=> HasKey(d, x) \/ SameKey(m, x)
            /\ \A i \in DOMAIN AddStored(d, m) :
                 \/ i \in DOMAIN d /\ AddStored(d, m)[i] = d[i]
                 \/ AddStored(d, m)[i] = m /\ ~HasKey(d, m)
        BY <4>1, AddedKeeps
      <4>3. QED
        BY <3>2, <4>2 DEF d, m
    <3>5. \A k \in 1 .. n : k = n \/ k \in 1 .. n - 1
      BY <3>1
    <3>6. Kept(n)
      BY <3>1, <3>4, <3>5
    <3>7. From(n)
      <4>1. ~HasKey(f[n - 1], q[n]) => ~HasKey(p, q[n])
        BY <3>1
      <4>2. n \in DOMAIN q
        BY <1>1
      <4>3. QED
        BY <3>1, <3>4, <4>1, <4>2
    <3>8. QED
      BY <3>1, <3>6, <3>7
  <2> HIDE DEF S
  <2>3. \A n \in 0 .. len : n \in S
    BY <1>1, <2>1, <2>2, EveryTurn
  <2>4. QED
    BY <2>3 DEF S
<1>6. len \in 0 .. len
  BY <1>1
<1>7. f[len] \in Seq(M) /\ ProvenanceValid(f[len])
  BY <1>4, <1>6 DEF U
<1>8. \A x : HasKey(q, x) => \E k \in 1 .. len : SameKey(q[k], x)
  BY <1>1 DEF HasKey
<1>9. \A x : HasKey(p, x) \/ HasKey(q, x) => HasKey(f[len], x)
  BY <1>5, <1>6, <1>8
<1>10. From(len)
  BY <1>5, <1>6
<1>11. QED
  BY <1>4, <1>7, <1>9, <1>10

LEMMA StoreMerges ==
  ASSUME NEW M, NEW p \in Seq(M), NEW q \in Seq(M), ProvenanceValid(p), ProvenanceValid(q)
  PROVE  LET r == MergeStored(p, q) IN
         /\ r \in Seq(M) /\ ProvenanceValid(r)
         /\ \A x : HasKey(p, x) \/ HasKey(q, x) => HasKey(r, x)
         /\ \A i \in DOMAIN r : \/ \E j \in DOMAIN p : r[i] = p[j]
                                \/ \E j \in DOMAIN q : r[i] = q[j] /\ ~HasKey(p, q[j])
<1>1. CASE p = NoProvenance
  <2>1. MergeStored(p, q) = q
    BY <1>1 DEF MergeStored
  <2>2. \A x : ~HasKey(p, x)
    BY <1>1 DEF HasKey, NoProvenance
  <2>3. QED
    BY <2>1, <2>2
<1>2. CASE p # NoProvenance
  <2>1. LET r == AllAdded(p, q) IN
        /\ r \in Seq(M) /\ ProvenanceValid(r)
        /\ \A x : HasKey(p, x) \/ HasKey(q, x) => HasKey(r, x)
        /\ \A i \in DOMAIN r : \/ \E j \in DOMAIN p : r[i] = p[j]
                               \/ \E j \in DOMAIN q : r[i] = q[j] /\ ~HasKey(p, q[j])
    BY StoreAdds
  <2>2. MergeStored(p, q) = AllAdded(p, q)
    BY <1>2, <2>1 DEF MergeStored
  <2>3. QED
    BY <2>1, <2>2
<1>3. QED
  BY <1>1, <1>2

(* What is first in one of two sequences, one after the other.             *)
FirstOfBoth(m, a, b) ==
  /\ \A j \in DOMAIN a : IsFirstMet(a, j) =>
       j \in DOMAIN m /\ m[j] = a[j] /\ IsFirstMet(m, j)
  /\ \A j \in DOMAIN b :
       IsFirstMet(b, j) /\ (\A k \in DOMAIN a : MetadataValid(a[k]) => ~SameKey(a[k], b[j])) =>
         \E i \in DOMAIN m : m[i] = b[j] /\ IsFirstMet(m, i)
  /\ \A j \in DOMAIN m : (\E k \in DOMAIN a : m[j] = a[k]) \/ (\E k \in DOMAIN b : m[j] = b[k])

LEMMA FirstInBoth ==
  ASSUME NEW M, NEW a \in Seq(M), NEW b \in Seq(M)
  PROVE  FirstOfBoth(a \o b, a, b)
<1> DEFINE m == a \o b
           na == Len(a)
           nb == Len(b)
<1>1. /\ na \in Nat /\ nb \in Nat
      /\ DOMAIN a = 1 .. na /\ DOMAIN b = 1 .. nb /\ DOMAIN m = 1 .. na + nb
      /\ \A k \in 1 .. na : m[k] = a[k]
      /\ \A k \in 1 .. nb : m[na + k] = b[k]
  OBVIOUS
<1> HIDE DEF m, na, nb
<1>2. ASSUME NEW j \in DOMAIN a, IsFirstMet(a, j)
      PROVE  j \in DOMAIN m /\ m[j] = a[j] /\ IsFirstMet(m, j)
  <2>1. j \in 1 .. na /\ j \in DOMAIN m /\ m[j] = a[j]
    BY <1>1
  <2>2. \A k \in 1 .. j - 1 : k \in 1 .. na
    BY <1>1, <2>1
  <2>3. QED
    BY <1>1, <1>2, <2>1, <2>2 DEF IsFirstMet
<1>3. ASSUME NEW j \in DOMAIN b, IsFirstMet(b, j),
             \A k \in DOMAIN a : MetadataValid(a[k]) => ~SameKey(a[k], b[j])
      PROVE  \E i \in DOMAIN m : m[i] = b[j] /\ IsFirstMet(m, i)
  <2> DEFINE i == na + j
  <2>1. j \in 1 .. nb /\ i \in DOMAIN m /\ m[i] = b[j]
    BY <1>1
  <2>2. ASSUME NEW k \in 1 .. i - 1, MetadataValid(m[k]) PROVE ~SameKey(m[k], m[i])
    <3>1. CASE k \in 1 .. na
      BY <1>1, <1>3, <2>1, <2>2, <3>1
    <3>2. CASE k \notin 1 .. na
      <4> DEFINE l == k - na
      <4>1. l \in 1 .. j - 1 /\ l \in 1 .. nb /\ k = na + l
        BY <1>1, <2>1, <3>2
      <4> HIDE DEF l
      <4>2. m[k] = b[l]
        BY <1>1, <4>1
      <4>3. QED
        BY <1>3, <2>1, <2>2, <4>1, <4>2 DEF IsFirstMet
    <3>3. QED
      BY <3>1, <3>2
  <2>3. MetadataValid(m[i])
    BY <1>3, <2>1 DEF IsFirstMet
  <2> HIDE DEF i
  <2>4. QED
    BY <2>1, <2>2, <2>3 DEF IsFirstMet
<1>4. ASSUME NEW j \in DOMAIN m
      PROVE  (\E k \in DOMAIN a : m[j] = a[k]) \/ \E k \in DOMAIN b : m[j] = b[k]
  <2>1. j \in 1 .. na \/ (j - na \in 1 .. nb /\ j = na + (j - na))
    BY <1>1
  <2>2. QED
    BY <1>1, <2>1
<1>5. QED
  BY <1>2, <1>3, <1>4 DEF FirstOfBoth, m

(* Two runs that are stored one after the other.                           *)
LEMMA ProvenanceIsKept ==
  ASSUME NEW a, NEW b, a \in Seq(Range(a)), b \in Seq(Range(b))
  PROVE  LET r == MergeStored(MergeStored(NoProvenance, AllMerged(a)), AllMerged(b))
             met == a \o b
         IN /\ ProvenanceValid(r)
            /\ \A j \in DOMAIN met : MetadataValid(met[j]) => HasKey(r, met[j])
            /\ \A i \in DOMAIN r : \E j \in DOMAIN met : r[i] = met[j] /\ IsFirstMet(met, j)
<1> DEFINE M == Range(a) \cup Range(b)
           met == a \o b
           first == AllMerged(a)
           second == AllMerged(b)
           once == MergeStored(NoProvenance, first)
           r == MergeStored(once, second)
<1>1. /\ first \in Seq(Range(a)) /\ ProvenanceValid(first)
      /\ \A j \in DOMAIN a : MetadataValid(a[j]) => HasKey(first, a[j])
      /\ \A i \in DOMAIN first : \E j \in DOMAIN a : first[i] = a[j] /\ IsFirstMet(a, j)
  BY RunCollects
<1>2. /\ second \in Seq(Range(b)) /\ ProvenanceValid(second)
      /\ \A j \in DOMAIN b : MetadataValid(b[j]) => HasKey(second, b[j])
      /\ \A i \in DOMAIN second : \E j \in DOMAIN b : second[i] = b[j] /\ IsFirstMet(b, j)
  BY RunCollects
<1>3. NoProvenance \in Seq(M) /\ ProvenanceValid(NoProvenance)
  BY DEF NoProvenance, ProvenanceValid
<1> HIDE DEF first, second
<1>4. first \in Seq(M) /\ second \in Seq(M) /\ a \in Seq(M) /\ b \in Seq(M)
  BY <1>1, <1>2
<1>5. once = first
  BY <1>1 DEF MergeStored
<1> HIDE DEF once
<1>6. /\ r \in Seq(M) /\ ProvenanceValid(r)
      /\ \A x : HasKey(first, x) \/ HasKey(second, x) => HasKey(r, x)
      /\ \A i \in DOMAIN r : \/ \E j \in DOMAIN first : r[i] = first[j]
                             \/ \E j \in DOMAIN second :
                                  r[i] = second[j] /\ ~HasKey(first, second[j])
  <2> HIDE DEF M
  <2>1. QED
    BY <1>1, <1>2, <1>4, <1>5, StoreMerges
<1> HIDE DEF r
<1>7. FirstOfBoth(met, a, b)
  <2> HIDE DEF M
  <2>1. QED
    BY <1>4, FirstInBoth
<1> HIDE DEF met, M
<1>8. ASSUME NEW j \in DOMAIN met, MetadataValid(met[j]) PROVE HasKey(r, met[j])
  BY <1>1, <1>2, <1>6, <1>7, <1>8 DEF FirstOfBoth
<1>9. ASSUME NEW i \in DOMAIN r
      PROVE  \E j \in DOMAIN met : r[i] = met[j] /\ IsFirstMet(met, j)
  <2>1. CASE \E j \in DOMAIN first : r[i] = first[j]
    BY <1>1, <1>7, <2>1 DEF FirstOfBoth
  <2>2. CASE \E j \in DOMAIN second : r[i] = second[j] /\ ~HasKey(first, second[j])
    <3>1. PICK j \in DOMAIN b : r[i] = b[j] /\ IsFirstMet(b, j) /\ ~HasKey(first, b[j])
      BY <1>2, <2>2
    <3>2. \A k \in DOMAIN a : MetadataValid(a[k]) => ~SameKey(a[k], b[j])
      BY <1>1, <3>1, KeysAreEqual
    <3>3. PICK n \in DOMAIN met : met[n] = b[j] /\ IsFirstMet(met, n)
      BY <1>7, <3>1, <3>2 DEF FirstOfBoth
    <3>4. QED
      BY <3>1, <3>3
  <2>3. QED
    BY <1>6, <2>1, <2>2
<1>10. QED
  BY <1>6, <1>8, <1>9 DEF r, once, first, second, met

(* Whatever plugins do, the store can read back the verdict it has written,*)
(* as it was given.  (domain/verification.go, verify/registry.go)          *)
THEOREM VerdictsRead == DecisionSpec => []VerdictsReadBack
<1>1. ASSUME DecisionInv, Answered("delegate")
      PROVE  /\ A.read.ok /\ A.read.verdict = A.given
             /\ A.given.passed => Q.does = "answers" /\ Q.verdict.passed
  <2>1. /\ Q \in Delegates
        /\ A = [given |-> PluginVerify(Q),
             read |-> UnmarshalVerdict(MarshalVerdict(PluginVerify(Q)))]
    BY <1>1 DEF DecisionInv, QuestionTyped, AnswerFits, Answered
  <2>2. A.given = PluginVerify(Q) /\ A.read = UnmarshalVerdict(MarshalVerdict(PluginVerify(Q)))
    BY <2>1
  <2>3. QED
    BY <2>1, <2>2, VerdictsAreRead
<1>2. DecisionInv => VerdictsReadBack
  BY <1>1 DEF VerdictsReadBack
<1>3. QED
  BY <1>2, DecisionsFit, PTL

(* The provenance of two runs has each plugin as it was met first.         *)
(* (runtime.go mergeProvenance, store/provenance.go)                       *)
THEOREM FirstMetIsKept == DecisionSpec => []ProvenanceKeepsTheFirst
<1>1. ASSUME DecisionInv, Answered("merge")
      PROVE  /\ Q \in Merges
             /\ A = MergeStored(MergeStored(NoProvenance, AllMerged(Q[1])), AllMerged(Q[2]))
  BY <1>1 DEF DecisionInv, QuestionTyped, AnswerFits, Answered
<1>2. ASSUME DecisionInv, Answered("merge")
      PROVE  LET met == Q[1] \o Q[2]
             IN /\ ProvenanceValid(A)
                /\ \A j \in DOMAIN met : MetadataValid(met[j]) => HasKey(A, met[j])
                /\ \A i \in DOMAIN A : \E j \in DOMAIN met : A[i] = met[j] /\ IsFirstMet(met, j)
  <2> DEFINE a == Q[1]
             b == Q[2]
  <2>1. a \in Seq(Range(a)) /\ b \in Seq(Range(b))
    BY <1>1, <1>2, SequencesAssumption
  <2>2. A = MergeStored(MergeStored(NoProvenance, AllMerged(a)), AllMerged(b))
    BY <1>1, <1>2
  <2> HIDE DEF a, b
  <2>3. LET met == a \o b
        IN /\ ProvenanceValid(A)
           /\ \A j \in DOMAIN met : MetadataValid(met[j]) => HasKey(A, met[j])
           /\ \A i \in DOMAIN A : \E j \in DOMAIN met : A[i] = met[j] /\ IsFirstMet(met, j)
    BY <2>1, <2>2, ProvenanceIsKept
  <2>4. QED
    BY <2>3 DEF a, b
<1>3. DecisionInv => ProvenanceKeepsTheFirst
  BY <1>2 DEF ProvenanceKeepsTheFirst
<1>4. QED
  BY <1>3, DecisionsFit, PTL

(* What is stored of verdicts and of provenance can be loaded as it was.   *)
(* (domain/verification.go, store/provenance.go)                           *)
THEOREM FormsLoad == DecisionSpec => []StoredFormsLoad
<1>1. VerdictsReadBack /\ ProvenanceKeepsTheFirst => StoredFormsLoad
  BY DEF StoredFormsLoad
<1>2. QED
  BY <1>1, VerdictsRead, FirstMetIsKept, PTL

-----------------------------------------------------------------------------
(* Registrations.                                                          *)

(* A host's registry of verifiers as it can be: only what plugins bound    *)
(* differs from the first, for the register of the outer registry refuses  *)
(* a policy that has a built-in verifier, and all that are allowed have.   *)
HostRegistry(plugins) == [NewVerifierRegistry EXCEPT !.plugins = plugins]

Hosts(M) == {HostRegistry(g) : g \in UNION {[D -> M] : D \in SUBSET Policies}}

LEMMA HostFields ==
  ASSUME NEW g
  PROVE  /\ HostRegistry(g).plugins = g
         /\ HostRegistry(g).entries = Policies
         /\ HostRegistry(g).predeclared = Policies
         /\ DOMAIN HostRegistry(g).builtins = Policies
         /\ \A p \in Policies : HostRegistry(g).builtins[p] = "builtin"
<1> DEFINE P == Policies
           B == [p \in P |-> "builtin"]
           E == <<>>
<1>1. NewVerifierRegistry = [entries |-> P, predeclared |-> P, builtins |-> B, plugins |-> E]
  BY DEF NewVerifierRegistry
<1>2. DOMAIN B = P /\ \A p \in P : B[p] = "builtin"
  OBVIOUS
<1> HIDE DEF P, B, E
<1>3. HostRegistry(g) = [entries |-> P, predeclared |-> P, builtins |-> B, plugins |-> g]
  BY <1>1 DEF HostRegistry
<1>4. QED
  BY <1>2, <1>3 DEF P

LEMMA HostBinds ==
  ASSUME NEW g, NEW p, NEW m
  PROVE  BindPlugin(HostRegistry(g), p, m)
           = HostRegistry([q \in DOMAIN g \cup {p} |-> IF q = p THEN m ELSE g[q]])
<1> DEFINE P == NewVerifierRegistry
           new == [q \in DOMAIN g \cup {p} |-> IF q = p THEN m ELSE g[q]]
           E == <<>>
           B == [q \in Policies |-> "builtin"]
<1>1. P = [entries |-> Policies, predeclared |-> Policies, builtins |-> B, plugins |-> E]
  BY DEF NewVerifierRegistry
<1> HIDE DEF P, B, E
<1>2. HostRegistry(g).plugins = g
  BY HostFields
<1>3. BindPlugin(HostRegistry(g), p, m) = [HostRegistry(g) EXCEPT !.plugins = new]
  BY <1>2 DEF BindPlugin
<1> HIDE DEF new
<1>4. [HostRegistry(g) EXCEPT !.plugins = new] = HostRegistry(new)
  BY <1>1 DEF HostRegistry, P
<1>5. QED
  BY <1>3, <1>4 DEF new

LEMMA NewHost ==
  ASSUME NEW M
  PROVE  NewVerifierRegistry \in Hosts(M) /\ DOMAIN NewVerifierRegistry.plugins = {}
<1> DEFINE E == <<>>
           P == Policies
           B == [q \in P |-> "builtin"]
<1>1. NewVerifierRegistry = [entries |-> P, predeclared |-> P, builtins |-> B, plugins |-> E]
  BY DEF NewVerifierRegistry
<1>2. DOMAIN E = {} /\ E \in [{} -> M]
  OBVIOUS
<1> HIDE DEF P, B, E
<1>3. HostRegistry(E) = NewVerifierRegistry /\ NewVerifierRegistry.plugins = E
  BY <1>1 DEF HostRegistry
<1>4. {} \in SUBSET Policies
  OBVIOUS
<1>5. E \in UNION {[D -> M] : D \in SUBSET Policies}
  BY <1>2, <1>4
<1>6. QED
  BY <1>2, <1>3, <1>5 DEF Hosts

(* One registration: nothing that is bound changes, and an accepted        *)
(* contract of its own policy, and nothing else, binds a plugin.           *)
LEMMA RegistrationKeeps ==
  ASSUME NEW M, NEW d \in Hosts(M), NEW request, request.metadata \in M
  PROVE  LET e == Registered(d, request) IN
         /\ e \in Hosts(M)
         /\ \A p \in DOMAIN d.plugins : p \in DOMAIN e.plugins /\ e.plugins[p] = d.plugins[p]
         /\ \A p \in DOMAIN e.plugins : p \notin DOMAIN d.plugins =>
              Binds(request, p) /\ e.plugins[p] = request.metadata
         /\ \A p \in Policies : Binds(request, p) => p \in DOMAIN e.plugins
<1> DEFINE p0 == NormalizePolicy(request.policy)
           m == request.metadata
<1>0. PICK g \in UNION {[D -> M] : D \in SUBSET Policies} : d = HostRegistry(g)
  BY DEF Hosts
<1>1. PICK D \in SUBSET Policies : d = HostRegistry(g) /\ g \in [D -> M]
  BY <1>0
<1>2. /\ d.plugins = g /\ d.predeclared = Policies /\ DOMAIN d.builtins = Policies
  BY <1>1, HostFields
<1> HIDE DEF p0
<1>3. CASE Registered(d, request) = d
  <2>1. ASSUME NEW p \in Policies, Binds(request, p) PROVE p \in DOMAIN g
    <3>1. CASE p \notin DOMAIN g
      <4>1. Registered(d, request) = BindPlugin(d, p, m)
        BY <1>2, <2>1, <3>1 DEF Registered, RegisterContract, Binds
      <4> DEFINE h == [q \in DOMAIN g \cup {p} |-> IF q = p THEN m ELSE g[q]]
      <4>a. p \in DOMAIN h
        OBVIOUS
      <4>b. BindPlugin(HostRegistry(g), p, m) = HostRegistry(h)
        BY HostBinds
      <4> HIDE DEF h
      <4>2. BindPlugin(d, p, m) = HostRegistry(h) /\ p \in DOMAIN h
        BY <1>1, <4>a, <4>b
      <4>3. d.plugins = h
        BY <1>3, <4>1, <4>2, HostFields
      <4>4. QED
        BY <1>2, <3>1, <4>2, <4>3
    <3>2. QED
      BY <3>1
  <2>2. QED
    BY <1>2, <1>3, <2>1
<1>4. CASE Registered(d, request) # d
  <2>1. request.via = "contract" /\ Registered(d, request) = RegisterContract(d, request)
    <3>1. RegisterVerifier(d, request) = d
      BY <1>2 DEF RegisterVerifier
    <3>2. QED
      BY <1>4, <3>1 DEF Registered
  <2>2. /\ ContractAccepted(m, "verifier") /\ p0 \in Policies /\ p0 \notin DOMAIN g
        /\ Registered(d, request) = BindPlugin(d, p0, m)
    BY <1>2, <1>4, <2>1 DEF RegisterContract, p0
  <2> DEFINE h == [q \in DOMAIN g \cup {p0} |-> IF q = p0 THEN m ELSE g[q]]
  <2>3. Registered(d, request) = HostRegistry(h)
    BY <1>1, <2>2, HostBinds
  <2>4. /\ h \in [D \cup {p0} -> M]
        /\ \A q \in D : h[q] = g[q]
        /\ DOMAIN h = D \cup {p0} /\ h[p0] = m
    BY <1>1, <2>2
  <2> HIDE DEF h
  <2>5. HostRegistry(h).plugins = h
    BY HostFields
  <2>6. D \cup {p0} \in SUBSET Policies
    BY <2>2
  <2>7. HostRegistry(h) \in Hosts(M)
    BY <2>4, <2>6 DEF Hosts
  <2>8. \A p : Binds(request, p) => p = p0
    BY DEF Binds, p0
  <2>9. Binds(request, p0)
    BY <2>1, <2>2 DEF Binds, p0
  <2>10. QED
    BY <1>1, <1>2, <2>2, <2>3, <2>4, <2>5, <2>7, <2>8, <2>9
<1>5. QED
  BY <1>3, <1>4

(* A policy is its own alias.                                              *)
LEMMA PolicyIsItself ==
  ASSUME NEW p \in Policies
  PROVE  NormalizePolicy(p) = p /\ p # ""
<1>1. p = "command" \/ p = "evidence" \/ p = "state_output"
  BY DEF Policies
<1>2. /\ "command" \in Aliases.command /\ "evidence" \in Aliases.evidence
      /\ "state_output" \in Aliases.state_output
  BY DEF Aliases
<1>3. /\ NormalizePolicy("command") = "command"
      /\ NormalizePolicy("evidence") = "evidence"
      /\ NormalizePolicy("state_output") = "state_output"
  BY <1>2, AliasesAreDistinct
<1>4. QED
  BY <1>1, <1>3

(* What a host's registry answers.                                         *)
LEMMA HostResolves ==
  ASSUME NEW M, NEW d \in Hosts(M), NEW p \in Policies
  PROVE  ResolveVerifier(d, p) = IF p \in DOMAIN d.plugins
                                 THEN [by |-> "plugin", id |-> d.plugins[p].id]
                                 ELSE [by |-> "builtin", id |-> p]
<1>1. PICK g : d = HostRegistry(g)
  BY DEF Hosts
<1>2. p \in DOMAIN d.builtins /\ d.builtins[p] = "builtin"
  BY <1>1, HostFields
<1>3. NormalizePolicy(p) = p /\ p # ""
  BY PolicyIsItself
<1>4. QED
  BY <1>2, <1>3 DEF ResolveVerifier

(* Any sequence of registrations.                                          *)
FirstBinds(requests, n, p, k) ==
  /\ k \in 1 .. n /\ Binds(requests[k], p)
  /\ \A j \in 1 .. k - 1 : ~Binds(requests[j], p)

Standing(f, requests) ==
  \A n \in DOMAIN f : \A p \in Policies :
    \/ /\ \A k \in 1 .. n : ~Binds(requests[k], p)
       /\ ResolveVerifier(f[n], p) = [by |-> "builtin", id |-> p]
    \/ \E k : /\ FirstBinds(requests, n, p, k)
              /\ ResolveVerifier(f[n], p) = [by |-> "plugin", id |-> requests[k].metadata.id]

LEMMA VerifiersStand ==
  ASSUME NEW requests \in Requests
  PROVE  Standing(RegisteredAfter(NewVerifierRegistry, requests), requests)
<1> DEFINE len == Len(requests)
           M == {requests[n].metadata : n \in 1 .. len}
           U == Hosts(M)
<1>1. requests \in Seq(Range(requests)) /\ len \in Nat
  BY SequencesAssumption
<1>2. NewVerifierRegistry \in U
  BY NewHost
<1>3. \A n \in 1 .. len : requests[n].metadata \in M
  OBVIOUS
<1> HIDE DEF M
<1>4. \A d \in U : \A n \in 1 .. len : Registered(d, requests[n]) \in U
  BY <1>3, RegistrationKeeps
<1> HIDE DEF U
<1>5. PICK f \in [0 .. len -> U] :
        /\ Registering(f, NewVerifierRegistry, requests)
        /\ RegisteredAfter(NewVerifierRegistry, requests) = f
  BY <1>1, <1>2, <1>4, RegisteringLoop
<1>6. ASSUME NEW n \in 1 .. len
      PROVE  /\ \A p \in DOMAIN f[n - 1].plugins :
                  p \in DOMAIN f[n].plugins /\ f[n].plugins[p] = f[n - 1].plugins[p]
             /\ \A p \in DOMAIN f[n].plugins : p \notin DOMAIN f[n - 1].plugins =>
                  Binds(requests[n], p) /\ f[n].plugins[p] = requests[n].metadata
             /\ \A p \in Policies : Binds(requests[n], p) => p \in DOMAIN f[n].plugins
  <2>1. n \in 0 .. len /\ n - 1 \in 0 .. len /\ n # 0
    BY <1>1
  <2>2. f[n] = Registered(f[n - 1], requests[n]) /\ f[n - 1] \in U
    BY <1>5, <2>1 DEF Registering
  <2>3. requests[n].metadata \in M
    BY <1>3
  <2>4. QED
    BY <2>2, <2>3, RegistrationKeeps DEF U
<1>7. ASSUME NEW p \in Policies
      PROVE  \A n \in 0 .. len :
               /\ p \notin DOMAIN f[n].plugins => \A k \in 1 .. n : ~Binds(requests[k], p)
               /\ p \in DOMAIN f[n].plugins =>
                    \E k : /\ FirstBinds(requests, n, p, k)
                           /\ f[n].plugins[p] = requests[k].metadata
  <2> DEFINE Free(n) == p \notin DOMAIN f[n].plugins => \A k \in 1 .. n : ~Binds(requests[k], p)
             Taken(n) == p \in DOMAIN f[n].plugins =>
                           \E k : /\ FirstBinds(requests, n, p, k)
                                  /\ f[n].plugins[p] = requests[k].metadata
             S == {n \in 0 .. len : Free(n) /\ Taken(n)}
  <2>1. 0 \in S
    <3>1. 0 \in 0 .. len /\ f[0] = NewVerifierRegistry
      BY <1>1, <1>5 DEF Registering
    <3>2. DOMAIN NewVerifierRegistry.plugins = {}
      BY NewHost
    <3>3. QED
      BY <3>1, <3>2
  <2>2. ASSUME NEW n \in 1 .. len, n - 1 \in S PROVE n \in S
    <3>1. /\ n \in 0 .. len /\ n \in 1 .. n /\ \A k \in 1 .. n - 1 : k \in 1 .. n
          /\ \A k \in 1 .. n : k = n \/ k \in 1 .. n - 1
      BY <1>1
    <3>2. Free(n - 1) /\ Taken(n - 1)
      BY <2>2
    <3>3. Free(n)
      BY <1>6, <3>1, <3>2
    <3>4. ASSUME p \in DOMAIN f[n].plugins
          PROVE  \E k : /\ FirstBinds(requests, n, p, k)
                        /\ f[n].plugins[p] = requests[k].metadata
      <4>1. CASE p \in DOMAIN f[n - 1].plugins
        <5>1. PICK k : /\ FirstBinds(requests, n - 1, p, k)
                       /\ f[n - 1].plugins[p] = requests[k].metadata
          BY <3>2, <4>1
        <5>2. FirstBinds(requests, n, p, k)
          BY <3>1, <5>1 DEF FirstBinds
        <5>3. QED
          BY <1>6, <4>1, <5>1, <5>2
      <4>2. CASE p \notin DOMAIN f[n - 1].plugins
        <5>1. Binds(requests[n], p) /\ f[n].plugins[p] = requests[n].metadata
          BY <1>6, <3>4, <4>2
        <5>2. FirstBinds(requests, n, p, n)
          BY <3>1, <3>2, <4>2, <5>1 DEF FirstBinds
        <5>3. QED
          BY <5>1, <5>2
      <4>3. QED
        BY <4>1, <4>2
    <3>5. QED
      BY <3>1, <3>3, <3>4
  <2> HIDE DEF S
  <2>3. \A n \in 0 .. len : n \in S
    BY <1>1, <2>1, <2>2, EveryTurn
  <2>4. QED
    BY <2>3 DEF S
<1>8. ASSUME NEW n \in 0 .. len, NEW p \in Policies
      PROVE  ResolveVerifier(f[n], p) = IF p \in DOMAIN f[n].plugins
                                        THEN [by |-> "plugin", id |-> f[n].plugins[p].id]
                                        ELSE [by |-> "builtin", id |-> p]
  BY <1>5, HostResolves DEF U
<1>9. ASSUME NEW n \in 0 .. len, NEW p \in Policies
      PROVE  \/ /\ \A k \in 1 .. n : ~Binds(requests[k], p)
                /\ ResolveVerifier(f[n], p) = [by |-> "builtin", id |-> p]
             \/ \E k : /\ FirstBinds(requests, n, p, k)
                       /\ ResolveVerifier(f[n], p)
                            = [by |-> "plugin", id |-> requests[k].metadata.id]
  <2>1. CASE p \notin DOMAIN f[n].plugins
    BY <1>7, <1>8, <2>1
  <2>2. CASE p \in DOMAIN f[n].plugins
    <3>1. PICK k : FirstBinds(requests, n, p, k) /\ f[n].plugins[p] = requests[k].metadata
      BY <1>7, <2>2
    <3>2. QED
      BY <1>8, <2>2, <3>1
  <2>3. QED
    BY <2>1, <2>2
<1>10. DOMAIN f = 0 .. len
  BY <1>5
<1>11. QED
  BY <1>5, <1>9, <1>10 DEF Standing

(* The functions on some of the ids.                                       *)
Partial(I, M) == UNION {[D -> M] : D \in SUBSET I}

(* r is e, with m for id if that is an id which nothing has in e.          *)
Claims(e, id, m, r) ==
  /\ \A i \in DOMAIN e : i \in DOMAIN r /\ r[i] = e[i]
  /\ \A i \in DOMAIN r : i \in DOMAIN e \/ i = id
  /\ id # "" => id \in DOMAIN r
  /\ id # "" /\ id \notin DOMAIN e => r[id] = m

(* One registration of a strategy.                                         *)
LEMMA ClaimKeeps ==
  ASSUME NEW I, NEW M, NEW e \in Partial(I, M), NEW id \in I, NEW m \in M
  PROVE  /\ RegisterStrategy(e, id, m) \in Partial(I, M)
         /\ Claims(e, id, m, RegisterStrategy(e, id, m))
<1>1. PICK D \in SUBSET I : e \in [D -> M]
  BY DEF Partial
<1>2. CASE id = "" \/ id \in DOMAIN e
  <2>1. RegisterStrategy(e, id, m) = e
    BY <1>2 DEF RegisterStrategy
  <2>2. QED
    BY <1>2, <2>1 DEF Claims
<1>3. CASE ~(id = "" \/ id \in DOMAIN e)
  <2> DEFINE r == [i \in DOMAIN e \cup {id} |-> IF i = id THEN m ELSE e[i]]
  <2>1. RegisterStrategy(e, id, m) = r
    BY <1>3 DEF RegisterStrategy
  <2>2. /\ r \in [D \cup {id} -> M] /\ DOMAIN r = DOMAIN e \cup {id}
        /\ \A i \in DOMAIN e : r[i] = e[i]
        /\ r[id] = m
    BY <1>1, <1>3
  <2> HIDE DEF r
  <2>3. D \cup {id} \in SUBSET I
    OBVIOUS
  <2>4. r \in Partial(I, M)
    BY <2>2, <2>3 DEF Partial
  <2>5. QED
    BY <1>3, <2>1, <2>2, <2>4 DEF Claims
<1>4. QED
  BY <1>2, <1>3

(* Whoever claims an id first has it.                                      *)
ClaimsFirst(requests, k) ==
  /\ requests[k].id # ""
  /\ \A j \in 1 .. k - 1 : requests[j].id # requests[k].id

LEMMA FirstClaims ==
  ASSUME NEW requests, requests \in Seq(Range(requests)),
         NEW k \in DOMAIN requests, ClaimsFirst(requests, k)
  PROVE  LET e == StrategiesOf(requests) IN
         requests[k].id \in DOMAIN e /\ e[requests[k].id] = requests[k].metadata
<1> DEFINE len == Len(requests)
           I == {requests[n].id : n \in 1 .. len}
           M == {requests[n].metadata : n \in 1 .. len}
           U == Partial(I, M)
           a == requests[k].id
<1>1. len \in Nat /\ DOMAIN requests = 1 .. len /\ k \in 1 .. len
  OBVIOUS
<1>2. \A n \in 1 .. len : requests[n].id \in I /\ requests[n].metadata \in M
  OBVIOUS
<1> HIDE DEF I, M
<1>3. NoStrategies \in U /\ DOMAIN NoStrategies = {}
  <2>1. {} \in SUBSET I
    OBVIOUS
  <2>2. DOMAIN NoStrategies = {} /\ NoStrategies \in [{} -> M]
    BY DEF NoStrategies
  <2>3. QED
    BY <2>1, <2>2 DEF Partial
<1>4. \A d \in U : \A n \in 1 .. len :
        RegisterStrategy(d, requests[n].id, requests[n].metadata) \in U
  <2>1. \A d \in U : \A id \in I : \A m \in M : RegisterStrategy(d, id, m) \in U
    BY ClaimKeeps
  <2> HIDE DEF U
  <2>2. QED
    BY <1>2, <2>1
<1> HIDE DEF U
<1>5. PICK f \in [0 .. len -> U] : Claiming(f, requests) /\ StrategiesOf(requests) = f[len]
  BY <1>3, <1>4, ClaimingLoop
<1>6. f[0] = NoStrategies
  BY <1>1, <1>5 DEF Claiming
<1>7. ASSUME NEW n \in 1 .. len
      PROVE  Claims(f[n - 1], requests[n].id, requests[n].metadata, f[n])
  <2>1. n \in 0 .. len /\ n - 1 \in 0 .. len /\ n # 0
    BY <1>1
  <2>2. f[n] = RegisterStrategy(f[n - 1], requests[n].id, requests[n].metadata) /\ f[n - 1] \in U
    BY <1>5, <2>1 DEF Claiming
  <2>3. requests[n].id \in I /\ requests[n].metadata \in M
    BY <1>2
  <2>4. QED
    BY <2>2, <2>3, ClaimKeeps DEF U
<1> HIDE DEF a
<1>8. \A n \in 0 .. len : n < k => a \notin DOMAIN f[n]
  <2> DEFINE S == {n \in 0 .. len : n < k => a \notin DOMAIN f[n]}
  <2>1. 0 \in S
    BY <1>1, <1>3, <1>6
  <2>2. ASSUME NEW n \in 1 .. len, n - 1 \in S PROVE n \in S
    <3>1. n \in 0 .. len /\ (n < k => n - 1 < k /\ n \in 1 .. k - 1)
      BY <1>1
    <3>2. n < k => a # requests[n].id
      BY <3>1 DEF a, ClaimsFirst
    <3>3. n < k => a \notin DOMAIN f[n - 1]
      BY <2>2, <3>1
    <3>4. a \in DOMAIN f[n] => a \in DOMAIN f[n - 1] \/ a = requests[n].id
      BY <1>7 DEF Claims
    <3>5. n < k => a \notin DOMAIN f[n]
      BY <3>2, <3>3, <3>4
    <3>6. QED
      BY <3>1, <3>5
  <2> HIDE DEF S
  <2>3. \A n \in 0 .. len : n \in S
    BY <1>1, <2>1, <2>2, EveryTurn
  <2>4. QED
    BY <2>3 DEF S
<1>9. a \in DOMAIN f[k] /\ f[k][a] = requests[k].metadata
  <2>1. k - 1 \in 0 .. len /\ k - 1 < k
    BY <1>1
  <2>2. a \notin DOMAIN f[k - 1]
    BY <1>8, <2>1
  <2>3. QED
    BY <1>1, <1>7, <2>2 DEF a, ClaimsFirst, Claims
<1>10. \A n \in 0 .. len : k <= n => a \in DOMAIN f[n] /\ f[n][a] = requests[k].metadata
  <2> DEFINE S == {n \in 0 .. len : k <= n => a \in DOMAIN f[n] /\ f[n][a] = requests[k].metadata}
  <2>1. 0 \in S
    BY <1>1
  <2>2. ASSUME NEW n \in 1 .. len, n - 1 \in S PROVE n \in S
    <3>1. n \in 0 .. len /\ (k <= n => n = k \/ k <= n - 1)
      BY <1>1
    <3>2. k <= n - 1 => a \in DOMAIN f[n - 1] /\ f[n - 1][a] = requests[k].metadata
      BY <2>2
    <3>3. a \in DOMAIN f[n - 1] => a \in DOMAIN f[n] /\ f[n][a] = f[n - 1][a]
      BY <1>7 DEF Claims
    <3>4. k <= n => a \in DOMAIN f[n] /\ f[n][a] = requests[k].metadata
      BY <1>9, <3>1, <3>2, <3>3
    <3>5. QED
      BY <3>1, <3>4
  <2> HIDE DEF S
  <2>3. \A n \in 0 .. len : n \in S
    BY <1>1, <2>1, <2>2, EveryTurn
  <2>4. QED
    BY <2>3 DEF S
<1>11. len \in 0 .. len /\ k <= len
  BY <1>1
<1>12. QED
  BY <1>5, <1>10, <1>11 DEF a

(* The strategy that is chosen.                                            *)
LEMMA StrategyStands ==
  ASSUME NEW q \in Strategies,
         LET A0 == ResolveStrategy(StrategiesOf(q.requests), q.id) IN A0 # ""
  PROVE  LET chosen == ResolveStrategy(StrategiesOf(q.requests), q.id) IN
         /\ chosen = (IF q.id = "" THEN HostDefault ELSE q.id)
         /\ \A k \in DOMAIN q.requests :
              q.requests[k].id = chosen /\ (\A j \in 1 .. k - 1 : q.requests[j].id # chosen) =>
                /\ q.requests[k].metadata.id = chosen
                /\ ContractAccepted(q.requests[k].metadata, "agent_strategy")
<1> DEFINE e == StrategiesOf(q.requests)
           all == RegisterStrategy(e, HostDefault, HostDefaultMetadata)
           selected == IF q.id = "" THEN HostDefault ELSE q.id
           chosen == ResolveStrategy(e, q.id)
<1>1. /\ chosen = selected /\ chosen # ""
      /\ ContractAccepted(all[selected], "agent_strategy") /\ all[selected].id = selected
  BY DEF ResolveStrategy
<1>2. \A i \in DOMAIN e : all[i] = e[i]
  BY DEF RegisterStrategy
<1> HIDE DEF chosen, all, selected
<1>3. ASSUME NEW k \in DOMAIN q.requests, q.requests[k].id = chosen,
             \A j \in 1 .. k - 1 : q.requests[j].id # chosen
      PROVE  /\ q.requests[k].metadata.id = chosen
             /\ ContractAccepted(q.requests[k].metadata, "agent_strategy")
  <2>1. q.requests \in Seq(Range(q.requests))
    BY SequencesAssumption
  <2>2. q.requests[k].id \in DOMAIN e /\ e[q.requests[k].id] = q.requests[k].metadata
    BY <1>1, <1>3, <2>1, FirstClaims DEF ClaimsFirst
  <2>3. QED
    BY <1>1, <1>2, <1>3, <2>2
<1>4. QED
  BY <1>1, <1>3 DEF chosen, selected

(* A policy has the verifier of the first contract that was accepted, a    *)
(* plugin's before the built-in one; a strategy is the first of its id.    *)
THEOREM BindingsAreKept == DecisionSpec => []BindingsStand
<1>1. DecisionInv => BindingsStand
  <2>1. SUFFICES ASSUME DecisionInv PROVE BindingsStand
    OBVIOUS
  <2>2. ASSUME Answered("verifiers")
        PROVE  Q \in Requests /\ A = RegisteredAfter(NewVerifierRegistry, Q)
    BY <2>1, <2>2 DEF DecisionInv, QuestionTyped, AnswerFits, Answered
  <2>3. ASSUME Answered("strategy")
        PROVE  Q \in Strategies /\ A = ResolveStrategy(StrategiesOf(Q.requests), Q.id)
    BY <2>1, <2>3 DEF DecisionInv, QuestionTyped, AnswerFits, Answered
  <2>4. ASSUME Answered("verifiers") PROVE Standing(A, Q)
    BY <2>2, <2>4, VerifiersStand
  <2>5. ASSUME Answered("strategy"), A # ""
        PROVE  /\ A = (IF Q.id = "" THEN HostDefault ELSE Q.id)
               /\ \A k \in DOMAIN Q.requests :
                    Q.requests[k].id = A /\ (\A j \in 1 .. k - 1 : Q.requests[j].id # A) =>
                      /\ Q.requests[k].metadata.id = A
                      /\ ContractAccepted(Q.requests[k].metadata, "agent_strategy")
    BY <2>3, <2>5, StrategyStands
  <2>6. ASSUME Answered("verifiers"), NEW n \in DOMAIN A, NEW p \in Policies
        PROVE  \/ /\ \A k \in 1 .. n : ~Binds(Q[k], p)
                  /\ ResolveVerifier(A[n], p) = [by |-> "builtin", id |-> p]
               \/ \E k \in 1 .. n :
                    /\ Binds(Q[k], p) /\ \A j \in 1 .. k - 1 : ~Binds(Q[j], p)
                    /\ ResolveVerifier(A[n], p) = [by |-> "plugin", id |-> Q[k].metadata.id]
    BY <2>4, <2>6 DEF Standing, FirstBinds
  <2>7. QED
    BY <2>5, <2>6 DEF BindingsStand
<1>2. QED
  BY <1>1, DecisionsFit, PTL

-----------------------------------------------------------------------------
(* Configurations.                                                         *)

IsSettings(s) == \E t, m : s = [type |-> t, model |-> m]

(* The providers of a configuration; none has a blank name.                *)
Entries(ps) ==
  /\ "" \notin DOMAIN ps
  /\ \A p \in DOMAIN ps : IsSettings(ps[p])

Config(d, pr, pl, ps, l, b, g, f) ==
  [default |-> d, provider |-> pr, plugin |-> pl, providers |-> ps, limit |-> l,
   builtinBy |-> b, pluginBy |-> g, failed |-> f]

(* A configuration in the making.                                          *)
Configured(c) ==
  \E d, pr, pl, ps, l, b, g, f :
    c = Config(d, pr, pl, ps, l, b, g, f) /\ f \in BOOLEAN /\ Entries(ps)

LEMMA ConfigFields ==
  ASSUME NEW d, NEW pr, NEW pl, NEW ps, NEW l, NEW b, NEW g, NEW f
  PROVE  LET c == Config(d, pr, pl, ps, l, b, g, f) IN
         /\ c.default = d /\ c.provider = pr /\ c.plugin = pl /\ c.providers = ps
         /\ c.limit = l /\ c.builtinBy = b /\ c.pluginBy = g /\ c.failed = f
         /\ f \in BOOLEAN /\ Entries(ps) => Configured(c)
BY DEF Config, Configured

LEMMA DefaultConfigured ==
  /\ Configured(Default)
  /\ Default.provider = "openai" /\ Default.limit = "builtin" /\ Default.plugin = ""
  /\ Default.pluginBy = "" /\ Default.builtinBy = ""
  /\ \A p \in DOMAIN Default.providers : Default.providers[p].model = "builtin"
<1> DEFINE ps == [p \in {"openai"} |-> [type |-> "openai", model |-> "builtin"]]
<1>1. Default = Config("openai", "openai", "", ps, "builtin", "", "", FALSE)
  BY DEF Default, Config
<1>2. /\ "" \notin DOMAIN ps
      /\ \A p \in DOMAIN ps : ps[p] = [type |-> "openai", model |-> "builtin"]
  OBVIOUS
<1> HIDE DEF ps
<1>3. /\ \A p \in DOMAIN ps : IsSettings(ps[p])
      /\ \A p \in DOMAIN ps : ps[p].model = "builtin"
  <2>1. ASSUME NEW p \in DOMAIN ps PROVE IsSettings(ps[p]) /\ ps[p].model = "builtin"
    <3>1. ps[p] = [type |-> "openai", model |-> "builtin"]
      BY <1>2
    <3>2. IsSettings(ps[p])
      BY <3>1, Zenon DEF IsSettings
    <3>3. QED
      BY <3>1, <3>2
  <2>2. QED
    BY <2>1
<1>4. Entries(ps)
  BY <1>2, <1>3 DEF Entries
<1> DEFINE openai == "openai"
           blank == ""
           builtin == "builtin"
           no == FALSE
           r == Config(openai, openai, blank, ps, builtin, blank, blank, no)
<1>5. no \in BOOLEAN
  OBVIOUS
<1>6. Default = r
  BY <1>1
<1> HIDE DEF openai, blank, builtin, no
<1>7. /\ Configured(r) /\ r.provider = openai /\ r.plugin = blank /\ r.providers = ps
      /\ r.limit = builtin /\ r.builtinBy = blank /\ r.pluginBy = blank
  BY <1>4, <1>5, ConfigFields
<1> HIDE DEF r
<1>8. QED
  BY <1>3, <1>6, <1>7 DEF openai, blank, builtin

SelectsBuiltin(r, c, name) ==
  /\ r.default = c.default /\ r.provider = c.provider /\ r.plugin = "" /\ r.providers = c.providers
  /\ r.limit = c.limit /\ r.builtinBy = name /\ r.pluginBy = ""
  /\ ~r.failed => ~c.failed /\ (name = "" \/ c.pluginBy = "")

LEMMA BuiltinSelected ==
  ASSUME NEW c, Configured(c), NEW name
  PROVE  Configured(SelectBuiltin(c, name)) /\ SelectsBuiltin(SelectBuiltin(c, name), c, name)
<1>1. PICK d, pr, pl, ps, l, b, g, f :
        c = Config(d, pr, pl, ps, l, b, g, f) /\ f \in BOOLEAN /\ Entries(ps)
  BY DEF Configured
<1> DEFINE fails == c.failed \/ (name # "" /\ c.pluginBy # "")
           blank == ""
<1>2. /\ c.default = d /\ c.provider = pr /\ c.plugin = pl /\ c.providers = ps
      /\ c.limit = l /\ c.builtinBy = b /\ c.pluginBy = g /\ c.failed = f
  BY <1>1, ConfigFields
<1>3. SelectBuiltin(c, name) = [c EXCEPT !.failed = fails, !.plugin = blank, !.builtinBy = name,
        !.pluginBy = blank]
  BY DEF SelectBuiltin
<1>4. fails \in BOOLEAN
  BY <1>1, <1>2
<1>5. ~fails => ~c.failed /\ (name = "" \/ c.pluginBy = "")
  OBVIOUS
<1> HIDE DEF fails, blank
<1>6. [c EXCEPT !.failed = fails, !.plugin = blank, !.builtinBy = name, !.pluginBy = blank]
        = Config(d, pr, blank, ps, l, name, blank, fails)
  <2>1. [Config(d, pr, pl, ps, l, b, g, f) EXCEPT !.failed = fails]
          = Config(d, pr, pl, ps, l, b, g, fails)
    BY DEF Config
  <2>2. [Config(d, pr, pl, ps, l, b, g, fails) EXCEPT !.plugin = blank]
          = Config(d, pr, blank, ps, l, b, g, fails)
    BY DEF Config
  <2>3. [Config(d, pr, blank, ps, l, b, g, fails) EXCEPT !.builtinBy = name]
          = Config(d, pr, blank, ps, l, name, g, fails)
    BY DEF Config
  <2>4. [Config(d, pr, blank, ps, l, name, g, fails) EXCEPT !.pluginBy = blank]
          = Config(d, pr, blank, ps, l, name, blank, fails)
    BY DEF Config
  <2>5. [c EXCEPT !.failed = fails, !.plugin = blank, !.builtinBy = name, !.pluginBy = blank]
         = [[[[c EXCEPT !.failed = fails] EXCEPT !.plugin = blank] EXCEPT !.builtinBy
           = name] EXCEPT !.pluginBy = blank]
    OBVIOUS
  <2>6. [c EXCEPT !.failed = fails]
         = Config(d, pr, pl, ps, l, b, g, fails)
    BY <1>1, <2>1
  <2>7. [[c EXCEPT !.failed = fails] EXCEPT !.plugin = blank]
         = Config(d, pr, blank, ps, l, b, g, fails)
    BY <2>6, <2>2
  <2>8. [[[c EXCEPT !.failed = fails] EXCEPT !.plugin = blank] EXCEPT !.builtinBy = name]
         = Config(d, pr, blank, ps, l, name, g, fails)
    BY <2>7, <2>3
  <2>9. [[[[c EXCEPT !.failed = fails] EXCEPT !.plugin = blank] EXCEPT !.builtinBy
          = name] EXCEPT !.pluginBy = blank]
         = Config(d, pr, blank, ps, l, name, blank, fails)
    BY <2>8, <2>4
  <2>10. QED
    BY <2>5, <2>9
<1> DEFINE r == Config(d, pr, blank, ps, l, name, blank, fails)
<1>7. /\ Configured(r)
      /\ r.default = c.default /\ r.provider = c.provider /\ r.plugin = blank
           /\ r.providers = c.providers
      /\ r.limit = c.limit /\ r.builtinBy = name /\ r.pluginBy = blank
      /\ r.failed = fails
  BY <1>1, <1>2, <1>4, ConfigFields
<1>8. SelectBuiltin(c, name) = r
  BY <1>3, <1>6
<1> HIDE DEF r
<1>9. QED
  BY <1>5, <1>7, <1>8 DEF blank, SelectsBuiltin

SelectsPlugin(r, c, name) ==
  /\ r.default = c.default /\ r.provider = name /\ r.plugin = name /\ r.providers = c.providers
  /\ r.limit = c.limit /\ r.builtinBy = "" /\ r.pluginBy = name
  /\ ~r.failed => ~c.failed /\ (name = "" \/ c.builtinBy = "")

LEMMA PluginSelected ==
  ASSUME NEW c, Configured(c), NEW name
  PROVE  Configured(SelectPlugin(c, name)) /\ SelectsPlugin(SelectPlugin(c, name), c, name)
<1>1. PICK d, pr, pl, ps, l, b, g, f :
        c = Config(d, pr, pl, ps, l, b, g, f) /\ f \in BOOLEAN /\ Entries(ps)
  BY DEF Configured
<1> DEFINE fails == c.failed \/ (name # "" /\ c.builtinBy # "")
           blank == ""
<1>2. /\ c.default = d /\ c.provider = pr /\ c.plugin = pl /\ c.providers = ps
      /\ c.limit = l /\ c.builtinBy = b /\ c.pluginBy = g /\ c.failed = f
  BY <1>1, ConfigFields
<1>3. SelectPlugin(c, name) = [c EXCEPT !.failed = fails, !.plugin = name, !.pluginBy = name,
        !.builtinBy = blank, !.provider = name]
  BY DEF SelectPlugin
<1>4. fails \in BOOLEAN
  BY <1>1, <1>2
<1>5. ~fails => ~c.failed /\ (name = "" \/ c.builtinBy = "")
  OBVIOUS
<1> HIDE DEF fails, blank
<1>6. [c EXCEPT !.failed = fails, !.plugin = name, !.pluginBy = name, !.builtinBy = blank,
        !.provider = name] = Config(d, name, name, ps, l, blank, name, fails)
  <2>1. [Config(d, pr, pl, ps, l, b, g, f) EXCEPT !.failed = fails]
          = Config(d, pr, pl, ps, l, b, g, fails)
    BY DEF Config
  <2>2. [Config(d, pr, pl, ps, l, b, g, fails) EXCEPT !.plugin = name]
          = Config(d, pr, name, ps, l, b, g, fails)
    BY DEF Config
  <2>3. [Config(d, pr, name, ps, l, b, g, fails) EXCEPT !.pluginBy = name]
          = Config(d, pr, name, ps, l, b, name, fails)
    BY DEF Config
  <2>4. [Config(d, pr, name, ps, l, b, name, fails) EXCEPT !.builtinBy = blank]
          = Config(d, pr, name, ps, l, blank, name, fails)
    BY DEF Config
  <2>5. [Config(d, pr, name, ps, l, blank, name, fails) EXCEPT !.provider = name]
          = Config(d, name, name, ps, l, blank, name, fails)
    BY DEF Config
  <2>6. [c EXCEPT !.failed = fails, !.plugin = name, !.pluginBy = name, !.builtinBy = blank,
          !.provider = name]
         = [[[[[c EXCEPT !.failed = fails] EXCEPT !.plugin = name] EXCEPT !.pluginBy
           = name] EXCEPT !.builtinBy = blank] EXCEPT !.provider = name]
    OBVIOUS
  <2>7. [c EXCEPT !.failed = fails]
         = Config(d, pr, pl, ps, l, b, g, fails)
    BY <1>1, <2>1
  <2>8. [[c EXCEPT !.failed = fails] EXCEPT !.plugin = name]
         = Config(d, pr, name, ps, l, b, g, fails)
    BY <2>7, <2>2
  <2>9. [[[c EXCEPT !.failed = fails] EXCEPT !.plugin = name] EXCEPT !.pluginBy = name]
         = Config(d, pr, name, ps, l, b, name, fails)
    BY <2>8, <2>3
  <2>10. [[[[c EXCEPT !.failed = fails] EXCEPT !.plugin = name] EXCEPT !.pluginBy
           = name] EXCEPT !.builtinBy = blank]
         = Config(d, pr, name, ps, l, blank, name, fails)
    BY <2>9, <2>4
  <2>11. [[[[[c EXCEPT !.failed = fails] EXCEPT !.plugin = name] EXCEPT !.pluginBy
           = name] EXCEPT !.builtinBy = blank] EXCEPT !.provider = name]
         = Config(d, name, name, ps, l, blank, name, fails)
    BY <2>10, <2>5
  <2>12. QED
    BY <2>6, <2>11
<1> DEFINE r == Config(d, name, name, ps, l, blank, name, fails)
<1>7. /\ Configured(r)
      /\ r.default = c.default /\ r.provider = name /\ r.plugin = name /\ r.providers = c.providers
      /\ r.limit = c.limit /\ r.builtinBy = blank /\ r.pluginBy = name
      /\ r.failed = fails
  BY <1>1, <1>2, <1>4, ConfigFields
<1>8. SelectPlugin(c, name) = r
  BY <1>3, <1>6
<1> HIDE DEF r
<1>9. QED
  BY <1>5, <1>7, <1>8 DEF blank, SelectsPlugin

LEMMA LimitSet ==
  ASSUME NEW c, Configured(c), NEW value, value # None
  PROVE  LET r == Limited(c, value) IN
         /\ Configured(r)
         /\ r.default = c.default /\ r.provider = c.provider /\ r.plugin = c.plugin
              /\ r.providers = c.providers
         /\ r.limit = value /\ r.builtinBy = c.builtinBy /\ r.pluginBy = c.pluginBy
         /\ ~r.failed => ~c.failed
<1>1. PICK d, pr, pl, ps, l, b, g, f :
        c = Config(d, pr, pl, ps, l, b, g, f) /\ f \in BOOLEAN /\ Entries(ps)
  BY DEF Configured
<1> DEFINE fails == c.failed \/ value = "bad"
           blank == ""
<1>2. /\ c.default = d /\ c.provider = pr /\ c.plugin = pl /\ c.providers = ps
      /\ c.limit = l /\ c.builtinBy = b /\ c.pluginBy = g /\ c.failed = f
  BY <1>1, ConfigFields
<1>3. Limited(c, value) = [c EXCEPT !.limit = value, !.failed = fails]
  BY DEF Limited
<1>4. fails \in BOOLEAN
  BY <1>1, <1>2
<1>5. ~fails => ~c.failed
  OBVIOUS
<1> HIDE DEF fails, blank
<1>6. [c EXCEPT !.limit = value, !.failed = fails] = Config(d, pr, pl, ps, value, b, g, fails)
  <2>1. [Config(d, pr, pl, ps, l, b, g, f) EXCEPT !.limit = value]
          = Config(d, pr, pl, ps, value, b, g, f)
    BY DEF Config
  <2>2. [Config(d, pr, pl, ps, value, b, g, f) EXCEPT !.failed = fails]
          = Config(d, pr, pl, ps, value, b, g, fails)
    BY DEF Config
  <2>3. [c EXCEPT !.limit = value, !.failed = fails]
         = [[c EXCEPT !.limit = value] EXCEPT !.failed = fails]
    OBVIOUS
  <2>4. [c EXCEPT !.limit = value]
         = Config(d, pr, pl, ps, value, b, g, f)
    BY <1>1, <2>1
  <2>5. [[c EXCEPT !.limit = value] EXCEPT !.failed = fails]
         = Config(d, pr, pl, ps, value, b, g, fails)
    BY <2>4, <2>2
  <2>6. QED
    BY <2>3, <2>5
<1> DEFINE r == Config(d, pr, pl, ps, value, b, g, fails)
<1>7. /\ Configured(r)
      /\ r.default = c.default /\ r.provider = c.provider /\ r.plugin = c.plugin
           /\ r.providers = c.providers
      /\ r.limit = value /\ r.builtinBy = c.builtinBy /\ r.pluginBy = c.pluginBy
      /\ r.failed = fails
  BY <1>1, <1>2, <1>4, ConfigFields
<1>8. Limited(c, value) = r
  BY <1>3, <1>6
<1> HIDE DEF r
<1>9. QED
  BY <1>5, <1>7, <1>8 DEF blank

LEMMA ProviderSet ==
  ASSUME NEW c, Configured(c), NEW name
  PROVE  LET r == [c EXCEPT !.provider = name] IN
         /\ Configured(r)
         /\ r.default = c.default /\ r.provider = name /\ r.plugin = c.plugin
              /\ r.providers = c.providers
         /\ r.limit = c.limit /\ r.builtinBy = c.builtinBy /\ r.pluginBy = c.pluginBy
         /\ r.failed = c.failed
<1>1. PICK d, pr, pl, ps, l, b, g, f :
        c = Config(d, pr, pl, ps, l, b, g, f) /\ f \in BOOLEAN /\ Entries(ps)
  BY DEF Configured
<1>2. /\ c.default = d /\ c.provider = pr /\ c.plugin = pl /\ c.providers = ps
      /\ c.limit = l /\ c.builtinBy = b /\ c.pluginBy = g /\ c.failed = f
  BY <1>1, ConfigFields
<1>3. [c EXCEPT !.provider = name] = Config(d, name, pl, ps, l, b, g, f)
  BY <1>1, <1>2 DEF Config
<1>4. QED
  BY <1>1, <1>2, <1>3, ConfigFields

LEMMA DefaultSet ==
  ASSUME NEW c, Configured(c), NEW name
  PROVE  LET r == [c EXCEPT !.default = name] IN
         /\ Configured(r)
         /\ r.default = name /\ r.provider = c.provider /\ r.plugin = c.plugin
              /\ r.providers = c.providers
         /\ r.limit = c.limit /\ r.builtinBy = c.builtinBy /\ r.pluginBy = c.pluginBy
         /\ r.failed = c.failed
<1>1. PICK d, pr, pl, ps, l, b, g, f :
        c = Config(d, pr, pl, ps, l, b, g, f) /\ f \in BOOLEAN /\ Entries(ps)
  BY DEF Configured
<1>2. /\ c.default = d /\ c.provider = pr /\ c.plugin = pl /\ c.providers = ps
      /\ c.limit = l /\ c.builtinBy = b /\ c.pluginBy = g /\ c.failed = f
  BY <1>1, ConfigFields
<1>3. [c EXCEPT !.default = name] = Config(name, pr, pl, ps, l, b, g, f)
  BY <1>1, <1>2 DEF Config
<1>4. QED
  BY <1>1, <1>2, <1>3, ConfigFields

LEMMA ProvidersSet ==
  ASSUME NEW c, Configured(c), NEW new, Entries(new)
  PROVE  LET r == [c EXCEPT !.providers = new] IN
         /\ Configured(r)
         /\ r.default = c.default /\ r.provider = c.provider /\ r.plugin = c.plugin
              /\ r.providers = new
         /\ r.limit = c.limit /\ r.builtinBy = c.builtinBy /\ r.pluginBy = c.pluginBy
         /\ r.failed = c.failed
<1>1. PICK d, pr, pl, ps, l, b, g, f :
        c = Config(d, pr, pl, ps, l, b, g, f) /\ f \in BOOLEAN /\ Entries(ps)
  BY DEF Configured
<1>2. /\ c.default = d /\ c.provider = pr /\ c.plugin = pl /\ c.providers = ps
      /\ c.limit = l /\ c.builtinBy = b /\ c.pluginBy = g /\ c.failed = f
  BY <1>1, ConfigFields
<1>3. [c EXCEPT !.providers = new] = Config(d, pr, pl, new, l, b, g, f)
  BY <1>1, <1>2 DEF Config
<1>4. QED
  BY <1>1, <1>2, <1>3, ConfigFields

(* r is c with new as its providers.                                       *)
HasProviders(r, c, new) ==
  /\ r.default = c.default /\ r.provider = c.provider /\ r.plugin = c.plugin
  /\ r.providers = new /\ r.limit = c.limit
  /\ r.builtinBy = c.builtinBy /\ r.pluginBy = c.pluginBy /\ r.failed = c.failed

LEMMA ProvidersFit ==
  ASSUME NEW c, Configured(c), NEW new, Entries(new), NEW r, r = [c EXCEPT !.providers = new]
  PROVE  Configured(r) /\ HasProviders(r, c, new)
BY ProvidersSet DEF HasProviders

(* What most steps of loading leave alone.                                 *)
SameSelection(r, c) ==
  r.plugin = c.plugin /\ r.builtinBy = c.builtinBy /\ r.pluginBy = c.pluginBy

SameModels(r, c) ==
  /\ DOMAIN r.providers = DOMAIN c.providers
  /\ \A p \in DOMAIN c.providers : r.providers[p].model = c.providers[p].model

LEMMA Names ==
  ASSUME NEW name
  PROVE  /\ Lower(Lower(name)) = Lower(name)
         /\ name # "" => Lower(name) # ""
         /\ Lower("openai") = "openai"
BY DEF Lower

HasType(r, s, type) == r.type = type /\ r.model = s.model

LEMMA TypeSet ==
  ASSUME NEW s, IsSettings(s), NEW type, NEW r, r = [s EXCEPT !.type = type]
  PROVE  IsSettings(r) /\ HasType(r, s, type)
<1>1. PICK t, m : s = [type |-> t, model |-> m]
  BY DEF IsSettings
<1>2. r = [type |-> type, model |-> m]
  BY <1>1
<1>3. IsSettings(r)
  BY <1>2, Zenon DEF IsSettings
<1>4. HasType(r, s, type)
  BY <1>1, <1>2 DEF HasType
<1>5. QED
  BY <1>3, <1>4

HasModel(r, s, model) == r.model = model /\ r.type = s.type

LEMMA ModelSet ==
  ASSUME NEW s, IsSettings(s), NEW model, NEW r, r = [s EXCEPT !.model = model]
  PROVE  IsSettings(r) /\ HasModel(r, s, model)
<1>1. PICK t, m : s = [type |-> t, model |-> m]
  BY DEF IsSettings
<1>2. r = [type |-> t, model |-> model]
  BY <1>1
<1>3. IsSettings(r)
  BY <1>2, Zenon DEF IsSettings
<1>4. HasModel(r, s, model)
  BY <1>1, <1>2 DEF HasModel
<1>5. QED
  BY <1>3, <1>4

(* The settings of a provider, which the code completes with a type.       *)
LEMMA SettingsTyped ==
  ASSUME NEW c, Configured(c), NEW name
  PROVE  LET s == Settings(c, name)
             r == Typed(Settings(c, name), name) IN
         /\ IsSettings(s) /\ IsSettings(r) /\ r.model = s.model
         /\ name \in DOMAIN c.providers => s.model = c.providers[name].model
         /\ name \notin DOMAIN c.providers => s.model = ""
<1>1. Entries(c.providers)
  <2>1. PICK d, pr, pl, ps, l, b, g, f :
          c = Config(d, pr, pl, ps, l, b, g, f) /\ Entries(ps)
    BY DEF Configured
  <2>2. QED
    BY <2>1, ConfigFields
<1> DEFINE s == Settings(c, name)
           none == [type |-> "", model |-> ""]
<1>2. IsSettings(none) /\ none.model = ""
  BY Zenon DEF IsSettings
<1>3. /\ name \in DOMAIN c.providers => s = c.providers[name]
      /\ name \notin DOMAIN c.providers => s = none
  BY DEF Settings
<1> HIDE DEF s, none
<1>4. IsSettings(s)
  BY <1>1, <1>2, <1>3 DEF Entries
<1> DEFINE r == [s EXCEPT !.type = InferType(name)]
<1>5. IsSettings(r) /\ r.model = s.model
  BY <1>4, TypeSet DEF HasType
<1>6. Typed(s, name) = s \/ Typed(s, name) = r
  BY DEF Typed
<1> HIDE DEF r
<1>7. IsSettings(Typed(s, name)) /\ Typed(s, name).model = s.model
  BY <1>4, <1>5, <1>6
<1>8. QED
  BY <1>2, <1>3, <1>4, <1>7 DEF s

LEMMA HaveEntries ==
  ASSUME NEW c, Configured(c)
  PROVE  Entries(c.providers)
<1>1. PICK d, pr, pl, ps, l, b, g, f :
        c = Config(d, pr, pl, ps, l, b, g, f) /\ Entries(ps)
  BY DEF Configured
<1>2. QED
  BY <1>1, ConfigFields

(* r is c with s as the settings of name.                                  *)
HasEntry(r, c, name, s) ==
  /\ SameSelection(r, c)
  /\ r.default = c.default /\ r.provider = c.provider /\ r.limit = c.limit
  /\ r.failed = c.failed
  /\ DOMAIN r.providers = DOMAIN c.providers \cup {name}
  /\ r.providers[name] = s
  /\ \A p \in DOMAIN c.providers : p # name => r.providers[p] = c.providers[p]

LEMMA EntrySet ==
  ASSUME NEW c, Configured(c), NEW name, name # "", NEW s, IsSettings(s)
  PROVE  Configured(WithProvider(c, name, s)) /\ HasEntry(WithProvider(c, name, s), c, name, s)
<1> DEFINE ps == [p \in DOMAIN c.providers \cup {name} |-> IF p = name THEN s ELSE c.providers[p]]
<1>1. WithProvider(c, name, s) = [c EXCEPT !.providers = ps]
  BY DEF WithProvider
<1>2. /\ DOMAIN ps = DOMAIN c.providers \cup {name} /\ ps[name] = s
      /\ \A p \in DOMAIN c.providers : p # name => ps[p] = c.providers[p]
  OBVIOUS
<1>3. Entries(c.providers)
  BY HaveEntries
<1> HIDE DEF ps
<1>4. Entries(ps)
  BY <1>2, <1>3 DEF Entries
<1> DEFINE r == [c EXCEPT !.providers = ps]
<1>5. /\ Configured(r)
      /\ r.default = c.default /\ r.provider = c.provider /\ r.plugin = c.plugin
      /\ r.providers = ps /\ r.limit = c.limit
      /\ r.builtinBy = c.builtinBy /\ r.pluginBy = c.pluginBy /\ r.failed = c.failed
  <2>1. Entries(ps) /\ r = [c EXCEPT !.providers = ps]
    BY <1>4
  <2> HIDE DEF r
  <2>2. Configured(r) /\ HasProviders(r, c, ps)
    BY <2>1, ProvidersFit
  <2>3. QED
    BY <2>2 DEF HasProviders
<1> HIDE DEF r
<1>6. QED
  BY <1>1, <1>2, <1>5 DEF r, SameSelection, HasEntry

(* upsertSelectedProvider selects a name that is not blank, and changes no *)
(* model.                                                                  *)
LEMMA Upserted ==
  ASSUME NEW c, Configured(c)
  PROVE  LET r == Upsert(c) IN
         /\ Configured(r) /\ SameSelection(r, c) /\ SameModels(r, c)
         /\ r.default = c.default /\ r.limit = c.limit /\ r.failed = c.failed
         /\ r.provider # ""
         /\ r.provider = Lower(IF c.provider # "" THEN c.provider
                               ELSE IF c.default # "" THEN c.default ELSE "openai")
<1> DEFINE selected == IF c.provider # "" THEN c.provider
                       ELSE IF c.default # "" THEN c.default ELSE "openai"
           name == Lower(selected)
           named == [c EXCEPT !.provider = name]
           settings == Typed(Settings(c, name), name)
           plugged == [settings EXCEPT !.type = "plugin"]
           s == IF c.plugin # "" /\ name = c.plugin THEN plugged ELSE settings
           r == WithProvider(named, name, s)
<1>1. Upsert(c) = IF name \notin DOMAIN c.providers THEN named ELSE r
  BY DEF Upsert
<1>2. name # ""
  <2>1. selected # ""
    OBVIOUS
  <2> HIDE DEF selected
  <2>2. QED
    BY <2>1, Names
<1> HIDE DEF name
<1>3. /\ IsSettings(settings) /\ settings.model = Settings(c, name).model
      /\ name \in DOMAIN c.providers => Settings(c, name).model = c.providers[name].model
  BY SettingsTyped
<1> HIDE DEF settings
<1>4. IsSettings(plugged) /\ plugged.model = settings.model
  BY <1>3, TypeSet DEF HasType
<1> HIDE DEF plugged
<1>5. IsSettings(s) /\ s.model = settings.model
  BY <1>3, <1>4
<1> HIDE DEF s
<1>6. /\ Configured(named)
      /\ named.default = c.default /\ named.provider = name /\ named.plugin = c.plugin
      /\ named.providers = c.providers /\ named.limit = c.limit
      /\ named.builtinBy = c.builtinBy /\ named.pluginBy = c.pluginBy /\ named.failed = c.failed
  BY ProviderSet
<1> HIDE DEF named
<1>7. Configured(r) /\ HasEntry(r, named, name, s)
  <2>1. Configured(named) /\ name # "" /\ IsSettings(s)
    BY <1>2, <1>5, <1>6
  <2>2. QED
    BY <2>1, EntrySet
<1> HIDE DEF r
<1>8. name \in DOMAIN c.providers => SameModels(r, c)
  BY <1>3, <1>5, <1>6, <1>7 DEF SameModels, HasEntry
<1>9. SameModels(named, c) /\ SameSelection(named, c) /\ SameSelection(r, c)
  BY <1>6, <1>7 DEF SameModels, SameSelection, HasEntry
<1>10. CASE name \notin DOMAIN c.providers
  <2>1. Upsert(c) = named
    BY <1>1, <1>10
  <2>2. QED
    BY <1>2, <1>6, <1>9, <2>1 DEF name
<1>11. CASE name \in DOMAIN c.providers
  <2>1. Upsert(c) = r
    BY <1>1, <1>11
  <2>2. QED
    BY <1>2, <1>6, <1>7, <1>8, <1>9, <1>11, <2>1 DEF name, HasEntry
<1>12. QED
  BY <1>10, <1>11

(* Where the models of a configuration come from: a new entry has none,    *)
(* others are built in, listed in the file f, or among the models read.    *)
Origin(m, p, f, read) ==
  m = "" \/ m = "builtin" \/ (p \in DOMAIN f.providers /\ m = FileModel(p)) \/ m \in read

Origins(c, f, read) ==
  \A p \in DOMAIN c.providers : Origin(c.providers[p].model, p, f, read)

LEMMA OriginsKept ==
  ASSUME NEW r, NEW c, NEW f, NEW read, SameModels(r, c), Origins(c, f, read)
  PROVE  Origins(r, f, read)
BY DEF SameModels, Origins

LEMMA OriginsOfEntry ==
  ASSUME NEW r, NEW c, NEW name, NEW s, NEW f, NEW read, HasEntry(r, c, name, s),
         Origins(c, f, read), Origin(s.model, name, f, read)
  PROVE  Origins(r, f, read)
<1>1. ASSUME NEW p \in DOMAIN r.providers PROVE Origin(r.providers[p].model, p, f, read)
  <2>1. p = name \/ (p # name /\ p \in DOMAIN c.providers)
    BY DEF HasEntry
  <2>2. CASE p = name
    BY <2>2 DEF HasEntry
  <2>3. CASE p # name /\ p \in DOMAIN c.providers
    <3>1. r.providers[p] = c.providers[p]
      BY <2>3 DEF HasEntry
    <3>2. QED
      BY <2>3, <3>1 DEF Origins
  <2>4. QED
    BY <2>1, <2>2, <2>3
<1>2. QED
  BY <1>1 DEF Origins

LEMMA ValueLimits ==
  ASSUME NEW c, Configured(c), NEW value
  PROVE  /\ Configured(Limited(c, value)) /\ SameSelection(Limited(c, value), c)
         /\ Limited(c, value).provider = c.provider
         /\ Limited(c, value).default = c.default
         /\ Limited(c, value).providers = c.providers
         /\ Limited(c, value).limit = IF value = None THEN c.limit ELSE value
         /\ ~Limited(c, value).failed => ~c.failed
<1>1. CASE value = None
  BY <1>1 DEF Limited, SameSelection
<1>2. CASE value # None
  BY <1>2, LimitSet DEF SameSelection
<1>3. QED
  BY <1>1, <1>2

(* The providers that a file lists.                                        *)
Named(f) == "" \notin DOMAIN f.providers

LEMMA FileLists ==
  ASSUME NEW f, Named(f)
  PROVE  /\ Entries(ProvidersOfFile(f)) /\ DOMAIN ProvidersOfFile(f) = DOMAIN f.providers
         /\ \A p \in DOMAIN f.providers : ProvidersOfFile(f)[p].model = FileModel(p)
<1> DEFINE ps == ProvidersOfFile(f)
<1>1. /\ DOMAIN ps = DOMAIN f.providers
      /\ \A p \in DOMAIN f.providers :
           ps[p] = [type |-> IF f.providers[p] = "" THEN InferType(p) ELSE f.providers[p],
                    model |-> FileModel(p)]
  BY DEF ProvidersOfFile
<1> HIDE DEF ps
<1>2. ASSUME NEW p \in DOMAIN f.providers PROVE IsSettings(ps[p]) /\ ps[p].model = FileModel(p)
  <2>1. PICK t : ps[p] = [type |-> t, model |-> FileModel(p)]
    BY <1>1, Zenon
  <2>2. IsSettings(ps[p])
    BY <2>1, Zenon DEF IsSettings
  <2>3. ps[p].model = FileModel(p)
    BY <2>1
  <2>4. QED
    BY <2>2, <2>3
<1>3. Entries(ps)
  BY <1>1, <1>2 DEF Entries, Named
<1>4. QED
  BY <1>1, <1>2, <1>3 DEF ps

(* What the fields of today select in a file.                              *)
FileSelected(r, f) ==
  /\ r.limit = "builtin"
  /\ r.plugin = (IF f.plugin = None THEN "" ELSE f.plugin) /\ r.pluginBy = r.plugin
  /\ Given(f.plugin) => r.provider = f.plugin
  /\ f.providers # <<>> => DOMAIN r.providers = DOMAIN f.providers

LEMMA FileIsSelected ==
  ASSUME NEW f, Named(f)
  PROVE  /\ Configured(FileSelects(Default, f)) /\ FileSelected(FileSelects(Default, f), f)
         /\ Origins(FileSelects(Default, f), f, {f.model})
<1> DEFINE c == Default
           d == IF f.default = None THEN c ELSE [c EXCEPT !.default = f.default]
           s == IF f.plugin = None THEN d ELSE SelectPlugin(d, f.plugin)
           t == IF f.provider = None /\ s.provider = "" THEN [s EXCEPT !.provider = s.default]
                ELSE s
           u == IF f.providers = <<>> THEN t ELSE [t EXCEPT !.providers = ProvidersOfFile(f)]
           r == IF f.provider = None /\ f.plugin = None THEN [u EXCEPT !.provider = u.default]
                ELSE u
<1>1. FileSelects(Default, f) = r
  BY DEF FileSelects
<1>2. /\ Configured(c) /\ c.limit = "builtin" /\ c.plugin = "" /\ c.pluginBy = ""
      /\ \A p \in DOMAIN c.providers : c.providers[p].model = "builtin"
  BY DefaultConfigured
<1> HIDE DEF c
<1>3. /\ Configured(d) /\ d.limit = c.limit /\ d.plugin = c.plugin /\ d.pluginBy = c.pluginBy
      /\ d.providers = c.providers
  BY <1>2, DefaultSet
<1> HIDE DEF d
<1>4. /\ Configured(s) /\ s.limit = c.limit /\ s.providers = c.providers
      /\ s.plugin = IF f.plugin = None THEN c.plugin ELSE f.plugin
      /\ s.pluginBy = IF f.plugin = None THEN c.pluginBy ELSE f.plugin
      /\ f.plugin # None => s.provider = f.plugin
  <2>1. CASE f.plugin = None
    BY <1>3, <2>1
  <2>2. CASE f.plugin # None
    <3>1. s = SelectPlugin(d, f.plugin)
      BY <2>2
    <3> HIDE DEF s
    <3>2. Configured(s) /\ SelectsPlugin(s, d, f.plugin)
      BY <1>3, <3>1, PluginSelected
    <3>3. QED
      BY <1>3, <2>2, <3>2 DEF SelectsPlugin
  <2>3. QED
    BY <2>1, <2>2
<1> HIDE DEF s
<1>5. /\ Configured(t) /\ t.limit = s.limit /\ t.providers = s.providers
      /\ t.plugin = s.plugin /\ t.pluginBy = s.pluginBy
      /\ s.provider # "" => t.provider = s.provider
  BY <1>4, ProviderSet
<1> HIDE DEF t
<1>6. Entries(ProvidersOfFile(f)) /\ DOMAIN ProvidersOfFile(f) = DOMAIN f.providers
      /\ \A p \in DOMAIN f.providers : ProvidersOfFile(f)[p].model = FileModel(p)
  BY FileLists
<1>7. /\ Configured(u) /\ u.limit = t.limit /\ u.plugin = t.plugin /\ u.pluginBy = t.pluginBy
      /\ u.provider = t.provider
      /\ u.providers = IF f.providers = <<>> THEN t.providers ELSE ProvidersOfFile(f)
  <2>1. CASE f.providers = <<>>
    BY <1>5, <2>1
  <2>2. CASE f.providers # <<>>
    <3> DEFINE ps == ProvidersOfFile(f)
    <3>1. u = [t EXCEPT !.providers = ps]
      BY <2>2
    <3> HIDE DEF u, ps
    <3>2. Entries(ps)
      BY <1>6 DEF ps
    <3>3. /\ Configured(u) /\ u.limit = t.limit /\ u.plugin = t.plugin /\ u.pluginBy = t.pluginBy
          /\ u.provider = t.provider /\ u.providers = ps
      <4>1. Configured(t) /\ Entries(ps)
        BY <1>5, <3>2
      <4>2. Configured(u) /\ HasProviders(u, t, ps)
        BY <3>1, <4>1, ProvidersFit
      <4>3. QED
        BY <4>2 DEF HasProviders
    <3>4. QED
      BY <2>2, <3>3 DEF ps
  <2>3. QED
    BY <2>1, <2>2
<1> HIDE DEF u
<1>8. /\ Configured(r) /\ r.limit = u.limit /\ r.plugin = u.plugin /\ r.pluginBy = u.pluginBy
      /\ r.providers = u.providers
      /\ f.plugin # None => r.provider = u.provider
  BY <1>7, ProviderSet
<1> HIDE DEF r
<1>9. r.providers = IF f.providers = <<>> THEN c.providers ELSE ProvidersOfFile(f)
  BY <1>4, <1>5, <1>7, <1>8
<1>10. Origins(r, f, {f.model})
  BY <1>2, <1>6, <1>9 DEF Origins, Origin
<1>11. FileSelected(r, f)
  <2>1. r.limit = "builtin"
    BY <1>2, <1>4, <1>5, <1>7, <1>8
  <2>2. r.plugin = s.plugin /\ r.pluginBy = s.pluginBy
    BY <1>5, <1>7, <1>8
  <2>3. r.plugin = (IF f.plugin = None THEN "" ELSE f.plugin) /\ r.pluginBy = r.plugin
    BY <1>2, <1>4, <2>2
  <2>4. ASSUME Given(f.plugin) PROVE r.provider = f.plugin
    <3>1. f.plugin # None /\ f.plugin # ""
      BY <2>4 DEF Given
    <3>2. s.provider = f.plugin
      BY <1>4, <3>1
    <3>3. t.provider = f.plugin
      BY <1>5, <3>1, <3>2
    <3>4. QED
      BY <1>7, <1>8, <3>1, <3>3
  <2>5. ASSUME f.providers # <<>> PROVE DOMAIN r.providers = DOMAIN f.providers
    BY <1>6, <1>9, <2>5
  <2>6. QED
    BY <2>1, <2>3, <2>4, <2>5 DEF FileSelected
<1>12. QED
  BY <1>1, <1>8, <1>10, <1>11

(* What the fields of old files change.                                    *)
LegacySelected(r, c, f) ==
  /\ ~r.failed => ~c.failed /\ (f.provider \in {None, ""} \/ c.pluginBy = "")
  /\ r.plugin = IF f.provider = None THEN c.plugin ELSE ""
  /\ r.limit = IF f.oldLimit = None THEN c.limit ELSE f.oldLimit
  /\ r.provider \in DOMAIN r.providers
  /\ Given(f.provider) => r.provider = f.provider
  /\ f.provider = None /\ c.provider # "" => r.provider = c.provider

LEMMA LegacyIsSelected ==
  ASSUME NEW c, NEW f, Configured(c), Origins(c, f, {f.model})
  PROVE  /\ Configured(Legacy(c, f)) /\ LegacySelected(Legacy(c, f), c, f)
         /\ Origins(Legacy(c, f), f, {f.model})
<1> DEFINE s == IF f.provider = None THEN c ELSE SelectBuiltin(c, f.provider)
           wanted == IF f.provider = None THEN c.provider ELSE f.provider
           name == IF wanted # "" THEN wanted ELSE IF c.default # "" THEN c.default
                   ELSE "openai"
           settings == Typed(Settings(c, name), name)
           entry == IF f.model = None THEN settings ELSE [settings EXCEPT !.model = f.model]
           w == WithProvider(s, name, entry)
           n == [w EXCEPT !.default = name]
           e == [n EXCEPT !.provider = name]
           r == Limited(e, f.oldLimit)
<1>1. Legacy(c, f) = r
  <2>1. [w EXCEPT !.default = name, !.provider = name] = e
    OBVIOUS
  <2>2. Legacy(c, f) = Limited([w EXCEPT !.default = name, !.provider = name], f.oldLimit)
    BY DEF Legacy
  <2> HIDE DEF w, e, name
  <2>3. QED
    BY <2>1, <2>2
<1>2. name # ""
  OBVIOUS
<1>3. /\ wanted # "" => name = wanted
      /\ wanted = IF f.provider = None THEN c.provider ELSE f.provider
  OBVIOUS
<1> HIDE DEF name, wanted
<1>4. /\ Configured(s) /\ s.limit = c.limit /\ s.providers = c.providers
      /\ s.plugin = IF f.provider = None THEN c.plugin ELSE ""
      /\ ~s.failed => ~c.failed /\ (f.provider \in {None, ""} \/ c.pluginBy = "")
  <2>1. CASE f.provider = None
    BY <2>1
  <2>2. CASE f.provider # None
    <3>1. s = SelectBuiltin(c, f.provider)
      BY <2>2
    <3> HIDE DEF s
    <3>2. Configured(s) /\ SelectsBuiltin(s, c, f.provider)
      BY <3>1, BuiltinSelected
    <3>3. QED
      BY <2>2, <3>2 DEF SelectsBuiltin
  <2>3. QED
    BY <2>1, <2>2
<1> HIDE DEF s
<1>5. /\ IsSettings(settings) /\ settings.model = Settings(c, name).model
      /\ name \in DOMAIN c.providers => Settings(c, name).model = c.providers[name].model
      /\ name \notin DOMAIN c.providers => Settings(c, name).model = ""
  BY SettingsTyped
<1>6. Origin(settings.model, name, f, {f.model})
  <2>1. CASE name \in DOMAIN c.providers
    BY <1>5, <2>1 DEF Origins
  <2>2. CASE name \notin DOMAIN c.providers
    <3>1. settings.model = ""
      BY <1>5, <2>2
    <3>2. QED
      BY <3>1 DEF Origin
  <2>3. QED
    BY <2>1, <2>2
<1> HIDE DEF settings
<1>7. IsSettings(entry) /\ Origin(entry.model, name, f, {f.model})
  <2>1. CASE f.model = None
    BY <1>5, <1>6, <2>1
  <2>2. CASE f.model # None
    <3>1. IsSettings(entry) /\ entry.model = f.model
      <4>1. entry = [settings EXCEPT !.model = f.model]
        BY <2>2
      <4>2. IsSettings(settings)
        BY <1>5
      <4> HIDE DEF entry
      <4>3. IsSettings(entry) /\ HasModel(entry, settings, f.model)
        BY <4>1, <4>2, ModelSet
      <4>4. QED
        BY <4>3 DEF HasModel
    <3>2. QED
      BY <3>1 DEF Origin
  <2>3. QED
    BY <2>1, <2>2
<1> HIDE DEF entry
<1>8. Configured(w) /\ HasEntry(w, s, name, entry)
  BY <1>2, <1>4, <1>7, EntrySet
<1> HIDE DEF w
<1>9. Configured(n) /\ n.provider = w.provider /\ n.providers = w.providers /\ n.plugin = w.plugin
      /\ n.limit = w.limit /\ n.failed = w.failed
  BY <1>8, DefaultSet
<1> HIDE DEF n
<1>10. Configured(e) /\ e.provider = name /\ e.providers = n.providers /\ e.plugin = n.plugin
       /\ e.limit = n.limit /\ e.failed = n.failed
  BY <1>9, ProviderSet
<1> HIDE DEF e
<1>11. /\ Configured(r) /\ SameSelection(r, e) /\ r.provider = e.provider
       /\ r.providers = e.providers
       /\ r.limit = IF f.oldLimit = None THEN e.limit ELSE f.oldLimit
       /\ ~r.failed => ~e.failed
  BY <1>10, ValueLimits
<1> HIDE DEF r
<1>12. Origins(s, f, {f.model})
  BY <1>4 DEF Origins
<1>13. Origins(w, f, {f.model})
  BY <1>7, <1>8, <1>12, OriginsOfEntry
<1>14. Origins(r, f, {f.model})
  BY <1>9, <1>10, <1>11, <1>13 DEF Origins
<1>15. /\ r.plugin = s.plugin /\ r.provider = name /\ name \in DOMAIN r.providers
       /\ ~r.failed => ~s.failed
       /\ r.limit = IF f.oldLimit = None THEN s.limit ELSE f.oldLimit
  BY <1>8, <1>9, <1>10, <1>11 DEF HasEntry, SameSelection
<1>16. LegacySelected(r, c, f)
  BY <1>3, <1>4, <1>15 DEF LegacySelected, Given
<1>17. QED
  BY <1>1, <1>11, <1>14, <1>16

(* How a file ends: with a provider that it lists, if it can.              *)
LEMMA FileHasEnded ==
  ASSUME NEW c, Configured(c), NEW first
  PROVE  /\ Configured(FileEnds(c, first)) /\ SameModels(FileEnds(c, first), c)
         /\ FileEnds(c, first).plugin = c.plugin
         /\ FileEnds(c, first).limit = c.limit /\ FileEnds(c, first).failed = c.failed
         /\ FileEnds(c, first).provider # ""
         /\ c.provider \in DOMAIN c.providers => FileEnds(c, first).provider = Lower(c.provider)
<1> DEFINE listed == IF c.provider \in DOMAIN c.providers THEN c.provider ELSE ""
           name == IF listed # "" THEN listed
                   ELSE IF c.default # "" THEN c.default ELSE first
           p == [c EXCEPT !.provider = name]
           u == Upsert(p)
           r == IF u.default = "" THEN [u EXCEPT !.default = u.provider] ELSE u
<1>1. FileEnds(c, first) = r
  BY DEF FileEnds
<1>2. c.provider \in DOMAIN c.providers => name = c.provider /\ name # ""
  BY HaveEntries DEF Entries
<1> HIDE DEF name
<1>3. /\ Configured(p) /\ p.provider = name /\ p.plugin = c.plugin
      /\ p.providers = c.providers /\ p.limit = c.limit /\ p.failed = c.failed
  BY ProviderSet
<1> HIDE DEF p
<1>4. /\ Configured(u) /\ SameSelection(u, p) /\ SameModels(u, p)
      /\ u.limit = p.limit /\ u.failed = p.failed /\ u.provider # ""
      /\ p.provider # "" => u.provider = Lower(p.provider)
  BY <1>3, Upserted
<1> HIDE DEF u
<1>5. /\ Configured(r) /\ r.provider = u.provider /\ r.plugin = u.plugin
      /\ r.providers = u.providers /\ r.limit = u.limit /\ r.failed = u.failed
  <2>1. CASE u.default = ""
    <3>1. r = [u EXCEPT !.default = u.provider]
      BY <2>1
    <3> HIDE DEF r
    <3>2. Configured(u)
      BY <1>4
    <3>3. QED
      BY <3>1, <3>2, DefaultSet
  <2>2. CASE u.default # ""
    BY <1>4, <2>2
  <2>3. QED
    BY <2>1, <2>2
<1> HIDE DEF r
<1>6. SameModels(r, c)
  BY <1>3, <1>4, <1>5 DEF SameModels
<1>7. QED
  BY <1>1, <1>2, <1>3, <1>4, <1>5, <1>6 DEF SameSelection

(* What a configuration file says, in a configuration that read it.        *)
FileRead(r, f) ==
  /\ r.provider # ""
  /\ Origins(r, f, {f.model})
  /\ ~r.failed =>
       /\ r.limit = IF f.oldLimit # None THEN f.oldLimit
                    ELSE IF f.limit # None THEN f.limit ELSE "builtin"
       /\ Given(f.plugin) /\ f.plugin \in DOMAIN f.providers /\ f.provider # "" =>
            r.provider = Lower(f.plugin) /\ r.plugin # ""
       /\ ~Given(f.plugin) /\ Given(f.provider) => r.provider = Lower(f.provider) /\ r.plugin = ""

LEMMA FileIsRead ==
  ASSUME NEW f, Named(f), NEW first
  PROVE  /\ Configured(LoadFromFile(Default, f, first))
         /\ FileRead(LoadFromFile(Default, f, first), f)
<1> DEFINE s == FileSelects(Default, f)
           t == Limited(s, f.limit)
           l == IF IsLegacy(f) THEN Legacy(t, f) ELSE t
           r == FileEnds(l, first)
<1>1. LoadFromFile(Default, f, first) = r
  BY DEF LoadFromFile
<1>2. Configured(s) /\ FileSelected(s, f) /\ Origins(s, f, {f.model})
  BY FileIsSelected
<1> HIDE DEF s
<1>3. /\ Configured(t) /\ SameSelection(t, s) /\ t.provider = s.provider
      /\ t.providers = s.providers
      /\ t.limit = IF f.limit = None THEN s.limit ELSE f.limit
  BY <1>2, ValueLimits
<1>4. Origins(t, f, {f.model})
  BY <1>2, <1>3 DEF Origins
<1> HIDE DEF t
<1>5. CASE IsLegacy(f)
  <2>1. l = Legacy(t, f)
    BY <1>5
  <2> HIDE DEF l
  <2>2. Configured(l) /\ LegacySelected(l, t, f) /\ Origins(l, f, {f.model})
    BY <1>3, <1>4, <2>1, LegacyIsSelected
  <2>3. /\ Configured(r) /\ SameModels(r, l) /\ r.plugin = l.plugin
        /\ r.limit = l.limit /\ r.failed = l.failed /\ r.provider # ""
        /\ l.provider \in DOMAIN l.providers => r.provider = Lower(l.provider)
    BY <2>2, FileHasEnded
  <2> HIDE DEF r
  <2>4. Origins(r, f, {f.model})
    BY <2>2, <2>3, OriginsKept
  <2>5. r.provider = Lower(l.provider)
    BY <2>2, <2>3 DEF LegacySelected
  <2>6. r.limit = IF f.oldLimit # None THEN f.oldLimit
                  ELSE IF f.limit # None THEN f.limit ELSE "builtin"
    BY <1>2, <1>3, <2>2, <2>3 DEF LegacySelected, FileSelected
  <2>7. ASSUME ~r.failed, Given(f.plugin), f.provider # ""
        PROVE  r.provider = Lower(f.plugin) /\ r.plugin # ""
    <3>1. t.pluginBy = f.plugin /\ t.plugin = f.plugin /\ t.provider = f.plugin /\ f.plugin # ""
      BY <1>2, <1>3, <2>7 DEF FileSelected, SameSelection, Given
    <3>2. f.provider = None
      BY <2>2, <2>3, <2>7, <3>1 DEF LegacySelected
    <3>3. l.provider = f.plugin /\ l.plugin = f.plugin
      BY <2>2, <3>1, <3>2 DEF LegacySelected
    <3>4. QED
      BY <2>3, <2>5, <3>1, <3>3
  <2>8. ASSUME ~Given(f.plugin), Given(f.provider)
        PROVE  r.provider = Lower(f.provider) /\ r.plugin = ""
    <3>1. l.provider = f.provider /\ f.provider # None
      BY <2>2, <2>8 DEF LegacySelected, Given
    <3>2. l.plugin = ""
      BY <2>2, <3>1 DEF LegacySelected
    <3>3. QED
      BY <2>3, <2>5, <3>1, <3>2
  <2>9. QED
    BY <1>1, <2>3, <2>4, <2>6, <2>7, <2>8 DEF FileRead
<1>6. CASE ~IsLegacy(f)
  <2>1. l = t
    BY <1>6
  <2> HIDE DEF l
  <2>2. f.provider = None /\ f.oldLimit = None
    BY <1>6 DEF IsLegacy
  <2>3. /\ Configured(r) /\ SameModels(r, l) /\ r.plugin = l.plugin
        /\ r.limit = l.limit /\ r.failed = l.failed /\ r.provider # ""
        /\ l.provider \in DOMAIN l.providers => r.provider = Lower(l.provider)
    BY <1>3, <2>1, FileHasEnded
  <2> HIDE DEF r
  <2>4. Origins(r, f, {f.model})
    BY <1>4, <2>1, <2>3, OriginsKept
  <2>5. r.limit = IF f.limit # None THEN f.limit ELSE "builtin"
    BY <1>2, <1>3, <2>1, <2>3 DEF FileSelected
  <2>6. ASSUME Given(f.plugin), f.plugin \in DOMAIN f.providers
        PROVE  r.provider = Lower(f.plugin) /\ r.plugin # ""
    <3>1. l.plugin = f.plugin /\ l.provider = f.plugin /\ f.plugin # ""
      BY <1>2, <1>3, <2>1, <2>6 DEF FileSelected, SameSelection, Given
    <3>2. f.providers # <<>>
      BY <2>6
    <3>3. l.provider \in DOMAIN l.providers
      BY <1>2, <1>3, <2>1, <2>6, <3>1, <3>2 DEF FileSelected
    <3>4. QED
      BY <2>3, <3>1, <3>3
  <2>7. ~Given(f.provider)
    BY <2>2 DEF Given
  <2>8. QED
    BY <1>1, <2>2, <2>3, <2>4, <2>5, <2>6, <2>7 DEF FileRead
<1>7. QED
  BY <1>5, <1>6

(* The environment, which selects what it gives and nothing else.          *)
EnvApplied(r, c, env) ==
  /\ r.provider # ""
  /\ ~r.failed => ~c.failed
  /\ r.limit = IF Given(env.limit) THEN env.limit ELSE c.limit
  /\ Given(env.plugin) => r.provider = Lower(env.plugin) /\ r.plugin # ""
  /\ ~Given(env.plugin) /\ Given(env.provider) => r.provider = Lower(env.provider) /\ r.plugin = ""
  /\ ~Given(env.plugin) /\ ~Given(env.provider) => r.provider = c.provider /\ r.plugin = c.plugin

LEMMA MoreOrigins ==
  ASSUME NEW c, NEW f, NEW read, NEW m, Origins(c, f, read)
  PROVE  Origins(c, f, read \cup {m})
BY DEF Origins, Origin

HasSelected(c) == c.provider # ""

LEMMA EnvIsApplied ==
  ASSUME NEW c, Configured(c), HasSelected(c), NEW env, NEW f, NEW read, Origins(c, f, read)
  PROVE  /\ Configured(ApplyEnv(c, env)) /\ EnvApplied(ApplyEnv(c, env), c, env)
         /\ Origins(ApplyEnv(c, env), f, read \cup {env.model})
<1> DEFINE b1 == SelectBuiltin(c, env.provider)
           b2 == [b1 EXCEPT !.provider = env.provider]
           b3 == Upsert(b2)
           b == IF Given(env.provider) THEN b3 ELSE c
           p1 == SelectPlugin(b, env.plugin)
           p2 == Upsert(p1)
           p == IF Given(env.plugin) THEN p2 ELSE b
           settings == [Settings(p, p.provider) EXCEPT !.model = env.model]
           m1 == WithProvider(p, p.provider, settings)
           m == IF Given(env.model) THEN m1 ELSE p
           value == IF Given(env.limit) THEN env.limit ELSE None
           r == Limited(m, value)
<1>1. ApplyEnv(c, env) = r
  BY DEF ApplyEnv
<1>2. /\ Configured(b) /\ b.provider # "" /\ SameModels(b, c) /\ b.limit = c.limit
      /\ ~b.failed => ~c.failed
      /\ Given(env.provider) => b.provider = Lower(env.provider) /\ b.plugin = ""
      /\ ~Given(env.provider) => b.provider = c.provider /\ b.plugin = c.plugin
  <2>1. CASE ~Given(env.provider)
    <3>1. b = c
      BY <2>1
    <3>2. QED
      BY <2>1, <3>1 DEF SameModels, HasSelected
  <2>2. CASE Given(env.provider)
    <3>1. b = b3
      BY <2>2
    <3> HIDE DEF b
    <3>2. Configured(b1) /\ SelectsBuiltin(b1, c, env.provider)
      BY BuiltinSelected
    <3> HIDE DEF b1
    <3>3. /\ Configured(b2) /\ b2.provider = env.provider /\ b2.plugin = b1.plugin
          /\ b2.providers = b1.providers /\ b2.limit = b1.limit /\ b2.failed = b1.failed
      <4>1. Configured(b1)
        BY <3>2
      <4>2. QED
        BY <4>1, ProviderSet
    <3> HIDE DEF b2
    <3>4. /\ Configured(b3) /\ SameSelection(b3, b2) /\ SameModels(b3, b2)
          /\ b3.limit = b2.limit /\ b3.failed = b2.failed /\ b3.provider # ""
          /\ b2.provider # "" => b3.provider = Lower(b2.provider)
      BY <3>3, Upserted
    <3> HIDE DEF b3
    <3>5. SameModels(b3, c)
      BY <3>2, <3>3, <3>4 DEF SameModels, SelectsBuiltin
    <3>6. b3.provider = Lower(env.provider) /\ b3.plugin = ""
      BY <2>2, <3>2, <3>3, <3>4 DEF SameSelection, SelectsBuiltin, Given
    <3>7. b3.limit = c.limit /\ (~b3.failed => ~c.failed)
      BY <3>2, <3>3, <3>4 DEF SelectsBuiltin
    <3>8. QED
      BY <2>2, <3>1, <3>4, <3>5, <3>6, <3>7
  <2>3. QED
    BY <2>1, <2>2
<1> HIDE DEF b
<1>3. /\ Configured(p) /\ p.provider # "" /\ SameModels(p, b) /\ p.limit = b.limit
      /\ ~p.failed => ~b.failed
      /\ Given(env.plugin) => p.provider = Lower(env.plugin) /\ p.plugin # ""
      /\ ~Given(env.plugin) => p.provider = b.provider /\ p.plugin = b.plugin
  <2>1. CASE ~Given(env.plugin)
    <3>1. p = b
      BY <2>1
    <3>2. QED
      BY <1>2, <2>1, <3>1 DEF SameModels
  <2>2. CASE Given(env.plugin)
    <3>1. p = p2
      BY <2>2
    <3> HIDE DEF p
    <3>2. Configured(p1) /\ SelectsPlugin(p1, b, env.plugin)
      BY <1>2, PluginSelected
    <3> HIDE DEF p1
    <3>3. /\ Configured(p2) /\ SameSelection(p2, p1) /\ SameModels(p2, p1)
          /\ p2.limit = p1.limit /\ p2.failed = p1.failed /\ p2.provider # ""
          /\ p1.provider # "" => p2.provider = Lower(p1.provider)
      BY <3>2, Upserted
    <3> HIDE DEF p2
    <3>4. SameModels(p2, b)
      BY <3>2, <3>3 DEF SameModels, SelectsPlugin
    <3>5. p2.provider = Lower(env.plugin) /\ p2.plugin # ""
      BY <2>2, <3>2, <3>3 DEF SameSelection, SelectsPlugin, Given
    <3>6. p2.limit = b.limit /\ (~p2.failed => ~b.failed)
      BY <3>2, <3>3 DEF SelectsPlugin
    <3>7. QED
      BY <2>2, <3>1, <3>3, <3>4, <3>5, <3>6
  <2>3. QED
    BY <2>1, <2>2
<1> HIDE DEF p
<1>4. Origins(p, f, read)
  BY <1>2, <1>3, OriginsKept
<1>5. /\ Configured(m) /\ SameSelection(m, p) /\ m.provider = p.provider /\ m.limit = p.limit
      /\ m.failed = p.failed /\ Origins(m, f, read \cup {env.model})
  <2>1. CASE ~Given(env.model)
    <3>1. m = p
      BY <2>1
    <3>2. QED
      BY <1>3, <1>4, <3>1, MoreOrigins DEF SameSelection
  <2>2. CASE Given(env.model)
    <3>1. m = m1
      BY <2>2
    <3> HIDE DEF m
    <3>2. IsSettings(Settings(p, p.provider))
      BY <1>3, SettingsTyped
    <3>3. IsSettings(settings) /\ settings.model = env.model
      <4> DEFINE old == Settings(p, p.provider)
      <4>1. IsSettings(old) /\ settings = [old EXCEPT !.model = env.model]
        BY <3>2
      <4> HIDE DEF old, settings
      <4>2. IsSettings(settings) /\ HasModel(settings, old, env.model)
        BY <4>1, ModelSet
      <4>3. QED
        BY <4>2 DEF HasModel
    <3> HIDE DEF settings
    <3>4. Configured(m1) /\ HasEntry(m1, p, p.provider, settings)
      BY <1>3, <3>3, EntrySet
    <3> HIDE DEF m1
    <3>5. Origin(settings.model, p.provider, f, read \cup {env.model})
      BY <3>3 DEF Origin
    <3>6. Origins(m1, f, read \cup {env.model})
      BY <1>4, <3>4, <3>5, MoreOrigins, OriginsOfEntry
    <3>7. QED
      BY <3>1, <3>4, <3>6 DEF HasEntry
  <2>3. QED
    BY <2>1, <2>2
<1> HIDE DEF m
<1>6. /\ Given(env.limit) => value = env.limit /\ value # None
      /\ ~Given(env.limit) => value = None
  BY DEF Given
<1> HIDE DEF value
<1>7. /\ Configured(r) /\ SameSelection(r, m) /\ r.provider = m.provider
      /\ r.providers = m.providers
      /\ r.limit = IF value = None THEN m.limit ELSE value
      /\ ~r.failed => ~m.failed
  <2>1. Configured(m)
    BY <1>5
  <2>2. QED
    BY <2>1, ValueLimits
<1> HIDE DEF r
<1>8. Origins(r, f, read \cup {env.model})
  BY <1>5, <1>7 DEF Origins
<1>9. EnvApplied(r, c, env)
  BY <1>2, <1>3, <1>5, <1>6, <1>7 DEF EnvApplied, SameSelection
<1>10. QED
  BY <1>1, <1>7, <1>8, <1>9

HasFailed(r, c, name, fails) ==
  /\ r.default = c.default /\ r.provider = name /\ r.plugin = c.plugin
  /\ r.providers = c.providers /\ r.limit = c.limit
  /\ r.failed = fails

LEMMA FailedSet ==
  ASSUME NEW c, Configured(c), NEW name, NEW fails, fails \in BOOLEAN,
         NEW r, r = [c EXCEPT !.provider = name, !.failed = fails]
  PROVE  Configured(r) /\ HasFailed(r, c, name, fails)
<1>1. PICK d, pr, pl, ps, l, b, g, f :
        c = Config(d, pr, pl, ps, l, b, g, f) /\ f \in BOOLEAN /\ Entries(ps)
  BY DEF Configured
<1>2. /\ c.default = d /\ c.plugin = pl /\ c.providers = ps /\ c.limit = l
  BY <1>1, ConfigFields
<1>3. [c EXCEPT !.provider = name, !.failed = fails]
        = [[c EXCEPT !.provider = name] EXCEPT !.failed = fails]
  OBVIOUS
<1>4. [c EXCEPT !.provider = name] = Config(d, name, pl, ps, l, b, g, f)
  BY <1>1 DEF Config
<1>5. [Config(d, name, pl, ps, l, b, g, f) EXCEPT !.failed = fails]
        = Config(d, name, pl, ps, l, b, g, fails)
  BY DEF Config
<1>6. r = Config(d, name, pl, ps, l, b, g, fails)
  BY <1>3, <1>4, <1>5
<1>7. /\ Configured(r) /\ r.default = d /\ r.provider = name /\ r.plugin = pl
      /\ r.providers = ps /\ r.limit = l /\ r.failed = fails
  BY <1>1, <1>6, ConfigFields
<1>8. QED
  BY <1>2, <1>7 DEF HasFailed

(* What the settings among the flags change.                               *)
FlagsSet(r, c, name, flags) ==
  /\ r.default = c.default /\ r.provider = c.provider /\ r.plugin = c.plugin
  /\ r.limit = c.limit /\ r.failed = c.failed
  /\ DOMAIN r.providers = DOMAIN c.providers
  /\ \A p \in DOMAIN c.providers : p # name => r.providers[p] = c.providers[p]
  /\ name \in DOMAIN c.providers =>
       /\ r.providers[name].model = IF flags.model = None THEN c.providers[name].model
                                    ELSE flags.model
       /\ c.plugin # "" => r.providers[name].type = "plugin"

LEMMA FlagsAreSet ==
  ASSUME NEW c, Configured(c), NEW name, NEW flags, NEW before
  PROVE  /\ Configured(FlagSettings(c, name, flags, before))
         /\ FlagsSet(FlagSettings(c, name, flags, before), c, name, flags)
<1> DEFINE settings == Typed(Settings(c, name), name)
           model == IF flags.model = None THEN settings.model ELSE flags.model
           type == IF c.plugin # "" THEN "plugin" ELSE settings.type
           entry == [settings EXCEPT !.model = model, !.type = type]
           r == WithProvider(c, name, entry)
<1>1. FlagSettings(c, name, flags, before) = IF name \notin DOMAIN c.providers THEN c ELSE r
  BY DEF FlagSettings
<1>2. CASE name \notin DOMAIN c.providers
  <2>1. FlagSettings(c, name, flags, before) = c
    BY <1>1, <1>2
  <2>2. QED
    BY <1>2, <2>1 DEF FlagsSet
<1>3. CASE name \in DOMAIN c.providers
  <2>1. /\ IsSettings(settings) /\ settings.model = c.providers[name].model
    BY <1>3, SettingsTyped
  <2> HIDE DEF settings
  <2>2. /\ model = (IF flags.model = None THEN c.providers[name].model ELSE flags.model)
        /\ c.plugin # "" => type = "plugin"
    BY <2>1
  <2> HIDE DEF model, type
  <2> DEFINE half == [settings EXCEPT !.model = model]
  <2>3. entry = [half EXCEPT !.type = type]
    OBVIOUS
  <2>4. IsSettings(half) /\ half.model = model
    <3>1. IsSettings(settings) /\ half = [settings EXCEPT !.model = model]
      BY <2>1
    <3> HIDE DEF half
    <3>2. QED
      BY <3>1, ModelSet DEF HasModel
  <2> HIDE DEF half, entry
  <2>5. IsSettings(entry) /\ entry.model = model /\ entry.type = type
    <3>1. IsSettings(half)
      BY <2>4
    <3>2. IsSettings(entry) /\ HasType(entry, half, type)
      BY <2>3, <3>1, TypeSet
    <3>3. QED
      BY <2>4, <3>2 DEF HasType
  <2>6. name # ""
    BY <1>3, HaveEntries DEF Entries
  <2>7. Configured(r) /\ HasEntry(r, c, name, entry)
    BY <2>5, <2>6, EntrySet
  <2>8. FlagSettings(c, name, flags, before) = r
    BY <1>1, <1>3
  <2> HIDE DEF r
  <2>9. DOMAIN r.providers = DOMAIN c.providers
    BY <1>3, <2>7 DEF HasEntry
  <2>10. FlagsSet(r, c, name, flags)
    BY <2>2, <2>5, <2>7, <2>9 DEF FlagsSet, HasEntry, SameSelection
  <2>11. QED
    BY <2>7, <2>8, <2>10
<1>4. QED
  BY <1>2, <1>3

(* The flags.  A blank one goes back to the default provider.              *)
Blank(flags) == flags.provider = "" \/ flags.plugin = ""

Once(flags) == flags.provider = None \/ flags.plugin = None

FlagsApplied(r, c, flags) ==
  /\ ~r.failed => ~c.failed /\ Once(flags)
  /\ r.limit = IF flags.limit = None THEN c.limit ELSE flags.limit
  /\ Once(flags) =>
       /\ Blank(flags) => r.provider = Lower(r.default) /\ r.plugin = ""
       /\ Given(flags.plugin) => r.provider = Lower(flags.plugin) /\ r.plugin # ""
       /\ Given(flags.provider) => r.provider = Lower(flags.provider) /\ r.plugin = ""
       /\ ~Given(flags.plugin) /\ ~Given(flags.provider) /\ ~Blank(flags) =>
            r.provider = Lower(c.provider) /\ r.plugin = c.plugin
       /\ r.plugin # "" /\ r.provider \in DOMAIN r.providers =>
            r.providers[r.provider].type = "plugin"
       /\ Given(flags.model) /\ ~Blank(flags) /\ r.provider \in DOMAIN r.providers =>
            r.providers[r.provider].model = flags.model

(* Only the selected provider gets the model of the flags.                 *)
Unspoilt(r, f, read) ==
  \A p \in DOMAIN r.providers :
    p # r.provider => Origin(r.providers[p].model, p, f, read)

LEMMA FlagsAreApplied ==
  ASSUME NEW c, Configured(c), HasSelected(c), NEW flags, NEW f, NEW read, Origins(c, f, read)
  PROVE  /\ FlagsApplied(ApplyFlags(c, flags), c, flags)
         /\ Once(flags) => /\ Unspoilt(ApplyFlags(c, flags), f, read)
                           /\ Origins(ApplyFlags(c, flags), f, read \cup {flags.model})
<1> DEFINE b1 == SelectBuiltin(c, flags.provider)
           b == IF flags.provider = None THEN c
                ELSE [b1 EXCEPT !.provider = flags.provider]
           p == IF flags.plugin = None THEN b ELSE SelectPlugin(b, flags.plugin)
           name == Lower(p.provider)
           fails == p.failed \/ (flags.provider # None /\ flags.plugin # None)
           q == [p EXCEPT !.provider = name, !.failed = fails]
           u == Upsert(q)
           m == FlagSettings(u, name, flags, Settings(c, c.provider))
           s == Limited(m, flags.limit)
           r == IF s.default = "" THEN [s EXCEPT !.default = s.provider] ELSE s
<1>1. ApplyFlags(c, flags) = r
  BY DEF ApplyFlags
<1>2. /\ Configured(b) /\ b.default = c.default /\ b.providers = c.providers
      /\ b.limit = c.limit /\ (~b.failed => ~c.failed)
      /\ flags.provider = None => b = c
      /\ flags.provider # None => b.provider = flags.provider /\ b.plugin = ""
  <2>1. CASE flags.provider = None
    BY <2>1
  <2>2. CASE flags.provider # None
    <3>1. b = [b1 EXCEPT !.provider = flags.provider]
      BY <2>2
    <3> HIDE DEF b
    <3>2. Configured(b1) /\ SelectsBuiltin(b1, c, flags.provider)
      BY BuiltinSelected
    <3> HIDE DEF b1
    <3>3. /\ Configured(b) /\ b.default = b1.default /\ b.provider = flags.provider
          /\ b.plugin = b1.plugin /\ b.providers = b1.providers /\ b.limit = b1.limit
          /\ b.failed = b1.failed
      <4>1. Configured(b1)
        BY <3>2
      <4>2. QED
        BY <3>1, <4>1, ProviderSet
    <3>4. QED
      BY <2>2, <3>2, <3>3 DEF SelectsBuiltin
  <2>3. QED
    BY <2>1, <2>2
<1> HIDE DEF b
<1>3. /\ Configured(p) /\ p.default = c.default /\ p.providers = c.providers
      /\ p.limit = c.limit /\ (~p.failed => ~c.failed)
      /\ flags.plugin = None => p = b
      /\ flags.plugin # None => p.provider = flags.plugin /\ p.plugin = flags.plugin
  <2>1. CASE flags.plugin = None
    BY <1>2, <2>1
  <2>2. CASE flags.plugin # None
    <3>1. p = SelectPlugin(b, flags.plugin)
      BY <2>2
    <3> HIDE DEF p
    <3>2. Configured(p) /\ SelectsPlugin(p, b, flags.plugin)
      BY <1>2, <3>1, PluginSelected
    <3>3. QED
      BY <1>2, <2>2, <3>2 DEF SelectsPlugin
  <2>3. QED
    BY <2>1, <2>2
<1> HIDE DEF p
<1>4. fails \in BOOLEAN /\ (~fails => ~p.failed /\ Once(flags))
  <2>1. p.failed \in BOOLEAN
    <3>1. PICK d, pr, pl, ps, l, x, g, z :
            p = Config(d, pr, pl, ps, l, x, g, z) /\ z \in BOOLEAN /\ Entries(ps)
      BY <1>3 DEF Configured
    <3>2. QED
      BY <3>1, ConfigFields
  <2> DEFINE failed == p.failed
             twice == flags.provider # None /\ flags.plugin # None
  <2>2. twice \in BOOLEAN /\ (~twice <=> Once(flags))
    BY DEF Once
  <2>3. failed \in BOOLEAN /\ fails = (failed \/ twice)
    BY <2>1
  <2>4. p.failed = failed
    OBVIOUS
  <2> HIDE DEF failed, twice, fails
  <2>5. fails \in BOOLEAN /\ (~fails => ~failed /\ ~twice)
    BY <2>2, <2>3
  <2>6. QED
    BY <2>2, <2>4, <2>5
<1> HIDE DEF fails, name
<1>5. /\ Configured(q) /\ q.default = p.default /\ q.provider = name /\ q.plugin = p.plugin
      /\ q.providers = p.providers /\ q.limit = p.limit /\ q.failed = fails
  <2>1. Configured(p)
    BY <1>3
  <2>2. fails \in BOOLEAN
    BY <1>4
  <2>3. q = [p EXCEPT !.provider = name, !.failed = fails]
    OBVIOUS
  <2> HIDE DEF q
  <2>4. Configured(q) /\ HasFailed(q, p, name, fails)
    BY <2>1, <2>2, <2>3, FailedSet
  <2>5. QED
    BY <2>4 DEF HasFailed
<1> HIDE DEF q
<1>6. /\ Configured(u) /\ SameSelection(u, q) /\ SameModels(u, q)
      /\ u.default = q.default /\ u.limit = q.limit /\ u.failed = q.failed
      /\ u.provider # ""
      /\ u.provider = Lower(IF q.provider # "" THEN q.provider
                            ELSE IF q.default # "" THEN q.default ELSE "openai")
  BY <1>5, Upserted
<1> HIDE DEF u
<1>7. Configured(m) /\ FlagsSet(m, u, name, flags)
  <2>1. Configured(u)
    BY <1>6
  <2>2. QED
    BY <2>1, FlagsAreSet
<1> HIDE DEF m
<1>8. /\ Configured(s) /\ SameSelection(s, m) /\ s.provider = m.provider
      /\ s.default = m.default /\ s.providers = m.providers
      /\ s.limit = IF flags.limit = None THEN m.limit ELSE flags.limit
      /\ ~s.failed => ~m.failed
  <2>1. Configured(m)
    BY <1>7
  <2>2. QED
    BY <2>1, ValueLimits
<1> HIDE DEF s
<1>9. /\ r.provider = s.provider /\ r.plugin = s.plugin /\ r.providers = s.providers
      /\ r.limit = s.limit /\ r.failed = s.failed
      /\ r.default = IF s.default = "" THEN s.provider ELSE s.default
  <2>1. CASE s.default = ""
    <3>1. r = [s EXCEPT !.default = s.provider]
      BY <2>1
    <3> HIDE DEF r
    <3>2. Configured(s)
      BY <1>8
    <3>3. /\ r.default = s.provider /\ r.provider = s.provider /\ r.plugin = s.plugin
          /\ r.providers = s.providers /\ r.limit = s.limit /\ r.failed = s.failed
      BY <3>1, <3>2, DefaultSet
    <3>4. QED
      BY <2>1, <3>3
  <2>2. CASE s.default # ""
    BY <2>2
  <2>3. QED
    BY <2>1, <2>2
<1> HIDE DEF r
(* The selection.                                                          *)
<1>10. /\ r.provider = u.provider /\ r.plugin = p.plugin
       /\ r.default = IF c.default = "" THEN u.provider ELSE c.default
  <2>1. m.provider = u.provider /\ m.plugin = u.plugin /\ m.default = u.default
    BY <1>7 DEF FlagsSet
  <2>2. u.plugin = p.plugin /\ u.default = c.default
    BY <1>3, <1>5, <1>6 DEF SameSelection
  <2>3. s.provider = u.provider /\ s.plugin = p.plugin /\ s.default = c.default
    BY <1>8, <2>1, <2>2 DEF SameSelection
  <2>4. QED
    BY <1>9, <2>3
<1>11. name # "" => u.provider = name
  BY <1>5, <1>6, Names DEF name
<1>12. name = "" => r.provider = Lower(r.default)
  BY <1>3, <1>5, <1>6, <1>10, Names
<1>13. ASSUME Once(flags), ~Blank(flags)
       PROVE  /\ name # ""
              /\ Given(flags.plugin) => r.provider = Lower(flags.plugin) /\ r.plugin # ""
              /\ Given(flags.provider) => r.provider = Lower(flags.provider) /\ r.plugin = ""
              /\ ~Given(flags.plugin) /\ ~Given(flags.provider) =>
                   r.provider = Lower(c.provider) /\ r.plugin = c.plugin
  <2>1. p.provider # ""
    BY <1>2, <1>3, <1>13 DEF Once, Blank, HasSelected
  <2>2. name # "" /\ name = Lower(p.provider)
    BY <2>1, Names DEF name
  <2>3. r.provider = Lower(p.provider)
    BY <1>10, <1>11, <2>2
  <2>4. Given(flags.plugin) => p.provider = flags.plugin /\ p.plugin = flags.plugin /\ p.plugin # ""
    BY <1>3 DEF Given
  <2>5. Given(flags.provider) => p.provider = flags.provider /\ p.plugin = ""
    BY <1>2, <1>3, <1>13 DEF Given, Once
  <2>6. ~Given(flags.plugin) /\ ~Given(flags.provider) => p = c
    BY <1>2, <1>3, <1>13 DEF Given, Blank
  <2>7. QED
    BY <1>10, <2>2, <2>3, <2>4, <2>5, <2>6
<1>14. ASSUME Once(flags), Blank(flags)
       PROVE  name = "" /\ r.plugin = ""
  <2>1. None # ""
    BY DEF None
  <2>2. p.provider = "" /\ p.plugin = ""
    BY <1>2, <1>3, <1>14, <2>1 DEF Once, Blank
  <2>3. QED
    BY <1>10, <2>2 DEF name, Lower
(* The settings.                                                           *)
<1>15. /\ DOMAIN r.providers = DOMAIN u.providers
       /\ \A x \in DOMAIN u.providers : x # name => r.providers[x] = u.providers[x]
       /\ name \in DOMAIN u.providers =>
            /\ r.providers[name].model = IF flags.model = None THEN u.providers[name].model
                                         ELSE flags.model
            /\ u.plugin # "" => r.providers[name].type = "plugin"
  BY <1>7, <1>8, <1>9 DEF FlagsSet
<1>16. u.plugin = r.plugin
  BY <1>5, <1>6, <1>10 DEF SameSelection
<1>17. ASSUME Once(flags), ~Blank(flags), r.provider \in DOMAIN r.providers
       PROVE  /\ r.plugin # "" => r.providers[r.provider].type = "plugin"
              /\ Given(flags.model) => r.providers[r.provider].model = flags.model
  <2>1. r.provider = name
    BY <1>10, <1>11, <1>13, <1>17
  <2>2. QED
    BY <1>15, <1>16, <1>17, <2>1 DEF Given
<1>18. FlagsApplied(r, c, flags)
  <2>1. ~r.failed => ~c.failed /\ Once(flags)
    <3>1. r.failed = s.failed /\ (~s.failed => ~m.failed)
      BY <1>8, <1>9
    <3>2. m.failed = u.failed /\ u.failed = q.failed /\ q.failed = fails
      BY <1>5, <1>6, <1>7 DEF FlagsSet
    <3>3. ~fails => ~c.failed /\ Once(flags)
      BY <1>3, <1>4
    <3>4. QED
      BY <3>1, <3>2, <3>3
  <2>2. r.limit = IF flags.limit = None THEN c.limit ELSE flags.limit
    <3>1. q.limit = c.limit /\ u.limit = q.limit
      BY <1>3, <1>5, <1>6
    <3>2. m.limit = c.limit
      BY <1>7, <3>1 DEF FlagsSet
    <3>3. s.limit = IF flags.limit = None THEN m.limit ELSE flags.limit
      BY <1>8
    <3>4. r.limit = s.limit
      BY <1>9
    <3>5. QED
      BY <3>2, <3>3, <3>4
  <2>3. CASE Blank(flags)
    <3>1. Once(flags) => ~Given(flags.plugin) /\ ~Given(flags.provider)
      BY <2>3 DEF Once, Blank, Given, None
    <3>2. QED
      BY <1>12, <1>14, <2>1, <2>2, <2>3, <3>1 DEF FlagsApplied
  <2>4. CASE ~Blank(flags)
    BY <1>13, <1>17, <2>1, <2>2, <2>4 DEF FlagsApplied
  <2>5. QED
    BY <2>3, <2>4
<1>19. Origins(u, f, read)
  <2>1. Origins(q, f, read)
    BY <1>3, <1>5 DEF Origins
  <2>2. QED
    BY <1>6, <2>1, OriginsKept
<1>20. ASSUME NEW x \in DOMAIN r.providers, x # name
       PROVE  Origin(r.providers[x].model, x, f, read)
  BY <1>15, <1>19, <1>20 DEF Origins
<1>21. ASSUME Once(flags) PROVE Unspoilt(r, f, read)
  <2>1. ASSUME NEW x \in DOMAIN r.providers, x # r.provider PROVE x # name
    <3>1. CASE name = ""
      <4>1. "" \notin DOMAIN u.providers
        BY <1>6, HaveEntries DEF Entries
      <4>2. QED
        BY <1>15, <2>1, <3>1, <4>1
    <3>2. CASE name # ""
      BY <1>10, <1>11, <2>1, <3>2
    <3>3. QED
      BY <3>1, <3>2
  <2>2. QED
    BY <1>20, <2>1 DEF Unspoilt
<1>22. Origins(r, f, read \cup {flags.model})
  <2>1. ASSUME NEW x \in DOMAIN r.providers
        PROVE  Origin(r.providers[x].model, x, f, read \cup {flags.model})
    <3>1. CASE x # name
      BY <1>20, <3>1 DEF Origin
    <3>2. CASE x = name
      <4>1. Origin(u.providers[x].model, x, f, read)
        BY <1>15, <1>19 DEF Origins
      <4>2. r.providers[x].model = u.providers[x].model \/ r.providers[x].model = flags.model
        BY <1>15, <3>2
      <4>3. QED
        BY <4>1, <4>2 DEF Origin
    <3>3. QED
      BY <3>1, <3>2
  <2>2. QED
    BY <2>1 DEF Origins
<1>23. QED
  BY <1>1, <1>18, <1>21, <1>22

(* The file that a load reads.                                             *)
FileOf(q) ==
  LET where == ConfigFile(q.path, q.disk)
  IN IF where = None THEN NoFile ELSE q.disk[where]

(* What loading takes from each source, one after the other.               *)
Loaded(c, f, env, flags) ==
  \E d, e :
    /\ FileRead(d, f) /\ EnvApplied(e, d, env) /\ FlagsApplied(c, e, flags)
    /\ ~c.failed /\ ~e.failed /\ ~d.failed /\ Once(flags) /\ ConfigValid(c)
    /\ Unspoilt(c, f, {f.model} \cup {env.model})
    /\ Origins(c, f, {f.model} \cup {env.model} \cup {flags.model})

LEMMA FailedDefault ==
  LET r == [Default EXCEPT !.failed = TRUE] IN
  Configured(r) /\ HasSelected(r) /\ Origins(r, NoFile, {None}) /\ r.failed
<1> DEFINE r == [Default EXCEPT !.failed = TRUE]
           yes == TRUE
<1>1. PICK d, pr, pl, ps, l, b, g, f :
        Default = Config(d, pr, pl, ps, l, b, g, f) /\ f \in BOOLEAN /\ Entries(ps)
  BY DefaultConfigured DEF Configured
<1>2. Default.provider = pr /\ Default.providers = ps
  BY <1>1, ConfigFields
<1>3. r = Config(d, pr, pl, ps, l, b, g, yes)
  <2>1. ASSUME NEW y PROVE [Default EXCEPT !.failed = y] = Config(d, pr, pl, ps, l, b, g, y)
    BY <1>1 DEF Config
  <2>2. QED
    BY <2>1
<1>4. yes \in BOOLEAN /\ yes
  OBVIOUS
<1> HIDE DEF r, yes
<1>5. Configured(r) /\ r.provider = pr /\ r.providers = ps
  <2> DEFINE x == Config(d, pr, pl, ps, l, b, g, yes)
  <2>1. yes \in BOOLEAN /\ Entries(ps)
    BY <1>1, <1>4
  <2>2. Configured(x) /\ x.provider = pr /\ x.providers = ps
    BY <2>1, ConfigFields
  <2> HIDE DEF x
  <2>3. QED
    BY <1>3, <2>2 DEF x
<1>6. pr = "openai" /\ \A p \in DOMAIN ps : ps[p].model = "builtin"
  BY <1>2, DefaultConfigured
<1>7. HasSelected(r)
  BY <1>5, <1>6 DEF HasSelected
<1>8. Origins(r, NoFile, {None})
  BY <1>5, <1>6 DEF Origins, Origin
<1>9. r.failed
  <2>1. r.failed = yes
    BY <1>3 DEF Config
  <2>2. QED
    BY <1>4, <2>1
<1>10. QED
  BY <1>5, <1>7, <1>8, <1>9 DEF r

LEMMA NothingRead == Configured(Default) /\ FileRead(Default, NoFile)
<1>1. /\ NoFile.plugin = None /\ NoFile.provider = None /\ NoFile.limit = None
      /\ NoFile.oldLimit = None
  BY DEF NoFile
<1>2. ~Given(NoFile.plugin) /\ ~Given(NoFile.provider)
  BY <1>1 DEF Given
<1>3. Origins(Default, NoFile, {NoFile.model})
  BY DefaultConfigured DEF Origins, Origin
<1>4. Default.provider # ""
  BY DefaultConfigured
<1>5. QED
  BY <1>1, <1>2, <1>3, <1>4, DefaultConfigured DEF FileRead

(* The three stages of Load.                                               *)
LEMMA LoadIsStaged ==
  ASSUME NEW q \in Loads, Load(q.path, q.disk, q.env, q.flags, q.first).ok
  PROVE  /\ Loaded(Load(q.path, q.disk, q.env, q.flags, q.first).config, FileOf(q), q.env, q.flags)
         /\ \/ ConfigFile(q.path, q.disk) = None
            \/ ConfigFile(q.path, q.disk) \in DOMAIN q.disk
<1> DEFINE where == ConfigFile(q.path, q.disk)
           d == IF where = None THEN Default
                ELSE IF where \in DOMAIN q.disk
                THEN LoadFromFile(Default, q.disk[where], q.first)
                ELSE [Default EXCEPT !.failed = TRUE]
           e == ApplyEnv(d, q.env)
           c == ApplyFlags(e, q.flags)
           result == Load(q.path, q.disk, q.env, q.flags, q.first)
           found == where = None \/ where \in DOMAIN q.disk
           f == IF found THEN FileOf(q) ELSE NoFile
           read == {f.model}
<1>1. result = [ok |-> ~c.failed /\ ConfigValid(c), config |-> c]
  BY DEF Load
<1> HIDE DEF c
<1>2. result.config = c /\ ~c.failed /\ ConfigValid(c)
  <2> DEFINE fine == ~c.failed /\ ConfigValid(c)
  <2>1. result.ok /\ result = [ok |-> fine, config |-> c]
    BY <1>1
  <2> HIDE DEF fine, result
  <2>2. result.ok = fine /\ result.config = c
    BY <2>1
  <2>3. fine
    BY <2>1, <2>2
  <2>4. QED
    BY <2>2, <2>3 DEF fine
<1> HIDE DEF result
<1>3. Configured(d) /\ HasSelected(d) /\ Origins(d, f, read) /\ (found => FileRead(d, f))
      /\ (~found => d.failed)
  <2>1. CASE where = None
    <3>1. d = Default /\ f = NoFile /\ found
      BY <2>1 DEF FileOf
    <3> HIDE DEF d, f, found
    <3>2. QED
      BY <3>1, NothingRead DEF FileRead, HasSelected
  <2>2. CASE where # None /\ where \in DOMAIN q.disk
    <3>1. d = LoadFromFile(Default, f, q.first) /\ f = q.disk[where] /\ found
      BY <2>2 DEF FileOf
    <3>2. Named(f)
      BY <2>2, <3>1, LoadsAssumption DEF Named
    <3> HIDE DEF d, f, found
    <3>3. Configured(d) /\ FileRead(d, f)
      BY <3>1, <3>2, FileIsRead
    <3>4. QED
      BY <3>1, <3>3 DEF FileRead, HasSelected
  <2>3. CASE where # None /\ where \notin DOMAIN q.disk
    <3>1. d = [Default EXCEPT !.failed = TRUE] /\ f = NoFile /\ ~found
      BY <2>3
    <3>2. NoFile.model = None
      BY DEF NoFile
    <3> HIDE DEF d, f, found
    <3>3. QED
      BY <3>1, <3>2, FailedDefault
  <2>4. QED
    BY <2>1, <2>2, <2>3
<1> HIDE DEF d, found, f
<1>4. /\ Configured(e) /\ EnvApplied(e, d, q.env)
      /\ Origins(e, f, read \cup {q.env.model})
  BY <1>3, EnvIsApplied
<1> HIDE DEF e
<1>5. HasSelected(e)
  BY <1>4 DEF EnvApplied, HasSelected
<1>6. /\ FlagsApplied(c, e, q.flags)
      /\ Once(q.flags) => /\ Unspoilt(c, f, read \cup {q.env.model})
                          /\ Origins(c, f, read \cup {q.env.model} \cup {q.flags.model})
  <2>1. Configured(e) /\ Origins(e, f, read \cup {q.env.model})
    BY <1>4
  <2>2. QED
    BY <1>5, <2>1, FlagsAreApplied DEF c
<1>7. ~e.failed /\ Once(q.flags)
  BY <1>2, <1>6 DEF FlagsApplied
<1>8. ~d.failed
  BY <1>4, <1>7 DEF EnvApplied
<1>9. found /\ f = FileOf(q)
  BY <1>3, <1>8 DEF f
<1>10. Loaded(c, f, q.env, q.flags)
  <2>1. /\ FileRead(d, f) /\ EnvApplied(e, d, q.env) /\ FlagsApplied(c, e, q.flags)
        /\ ~c.failed /\ ~e.failed /\ ~d.failed /\ Once(q.flags) /\ ConfigValid(c)
        /\ Unspoilt(c, f, {f.model} \cup {q.env.model})
        /\ Origins(c, f, {f.model} \cup {q.env.model} \cup {q.flags.model})
    BY <1>2, <1>3, <1>4, <1>6, <1>7, <1>8, <1>9
  <2>2. QED
    BY <2>1, Zenon DEF Loaded
<1>11. QED
  BY <1>2, <1>9, <1>10 DEF result, found

(* What is known of the questions about loading.                           *)
SourcesFit(f, flags) ==
  /\ f.limit # "" /\ f.oldLimit # "" /\ flags.limit # ""
  /\ Given(flags.model) =>
       /\ flags.model # f.model
       /\ \A p \in DOMAIN f.providers : flags.model # FileModel(p)

LEMMA FileIsFit ==
  ASSUME NEW q \in Loads,
         ConfigFile(q.path, q.disk) = None \/ ConfigFile(q.path, q.disk) \in DOMAIN q.disk
  PROVE  SourcesFit(FileOf(q), q.flags)
<1> DEFINE where == ConfigFile(q.path, q.disk)
<1>1. CASE where = None
  <2>1. FileOf(q) = NoFile
    BY <1>1 DEF FileOf
  <2>2. /\ NoFile.limit = None /\ NoFile.oldLimit = None /\ NoFile.model = None
        /\ DOMAIN NoFile.providers = {}
    BY DEF NoFile
  <2>3. None # "" /\ (Given(q.flags.model) => q.flags.model # None)
    BY DEF None, Given
  <2>4. QED
    BY <2>1, <2>2, <2>3, LoadsAssumption DEF SourcesFit
<1>2. CASE where # None
  <2>1. FileOf(q) = q.disk[where] /\ where \in DOMAIN q.disk
    BY <1>2 DEF FileOf
  <2> HIDE DEF where
  <2>2. QED
    BY <2>1, LoadsAssumption DEF SourcesFit
<1>3. QED
  BY <1>1, <1>2

LEMMA LastOfFive ==
  ASSUME NEW v, Len(v) = 5, NEW n \in 1 .. 5, LastGiven(v, n)
  PROVE  \/ n = 1 /\ ~Given(v[2]) /\ ~Given(v[3]) /\ ~Given(v[4]) /\ ~Given(v[5])
         \/ n = 2 /\ Given(v[2]) /\ ~Given(v[3]) /\ ~Given(v[4]) /\ ~Given(v[5])
         \/ n = 3 /\ Given(v[3]) /\ ~Given(v[4]) /\ ~Given(v[5])
         \/ n = 4 /\ Given(v[4]) /\ ~Given(v[5])
         \/ n = 5 /\ Given(v[5])
<1>1. Given(v[n]) /\ \A k \in n + 1 .. 5 : ~Given(v[k])
  BY DEF LastGiven
<1>2. n = 1 \/ n = 2 \/ n = 3 \/ n = 4 \/ n = 5
  OBVIOUS
<1>3. QED
  BY <1>1, <1>2

LEMMA LastOfThree ==
  ASSUME NEW v, Len(v) = 3, NEW n \in 1 .. 3, LastGiven(v, n)
  PROVE  \/ n = 1 /\ Given(v[1]) /\ ~Given(v[2]) /\ ~Given(v[3])
         \/ n = 2 /\ Given(v[2]) /\ ~Given(v[3])
         \/ n = 3 /\ Given(v[3])
<1>1. Given(v[n]) /\ \A k \in n + 1 .. 3 : ~Given(v[k])
  BY DEF LastGiven
<1>2. n = 1 \/ n = 2 \/ n = 3
  OBVIOUS
<1>3. QED
  BY <1>1, <1>2

(* What the sources say, in the order in which they are read.              *)
Limits(f, env, flags) == <<"builtin", f.limit, f.oldLimit, env.limit, flags.limit>>

ChosenNames(f, env, flags) == <<Chosen(f), Chosen(env), Chosen(flags)>>

Sources(f, env, flags) == <<f, env, flags>>

(* The limit is the last that is given.                                    *)
LEMMA LimitIsLast ==
  ASSUME NEW c, NEW f, NEW env, NEW flags, Loaded(c, f, env, flags), SourcesFit(f, flags),
         NEW n \in 1 .. 5,
         LastGiven(Limits(f, env, flags), n)
  PROVE  c.limit = Limits(f, env, flags)[n]
<1> DEFINE builtin == "builtin"
           limits == Limits(f, env, flags)
<1>1. /\ limits[1] = builtin /\ limits[2] = f.limit /\ limits[3] = f.oldLimit
      /\ limits[4] = env.limit /\ limits[5] = flags.limit /\ Len(limits) = 5
  BY DEF Limits
<1>2. LastGiven(limits, n)
  OBVIOUS
<1> HIDE DEF limits
<1>3. \/ n = 1 /\ ~Given(limits[2]) /\ ~Given(limits[3]) /\ ~Given(limits[4]) /\ ~Given(limits[5])
      \/ n = 2 /\ Given(limits[2]) /\ ~Given(limits[3]) /\ ~Given(limits[4]) /\ ~Given(limits[5])
      \/ n = 3 /\ Given(limits[3]) /\ ~Given(limits[4]) /\ ~Given(limits[5])
      \/ n = 4 /\ Given(limits[4]) /\ ~Given(limits[5])
      \/ n = 5 /\ Given(limits[5])
  BY <1>1, <1>2, LastOfFive
<1>4. PICK d, e :
        FileRead(d, f) /\ EnvApplied(e, d, env) /\ FlagsApplied(c, e, flags) /\ ~d.failed
  BY DEF Loaded
<1>5. /\ d.limit = IF f.oldLimit # None THEN f.oldLimit
                   ELSE IF f.limit # None THEN f.limit ELSE builtin
      /\ e.limit = IF Given(env.limit) THEN env.limit ELSE d.limit
      /\ c.limit = IF flags.limit = None THEN e.limit ELSE flags.limit
  BY <1>4 DEF FileRead, EnvApplied, FlagsApplied
<1>6. /\ Given(f.limit) <=> f.limit # None
      /\ Given(f.oldLimit) <=> f.oldLimit # None
      /\ Given(flags.limit) <=> flags.limit # None
  BY DEF SourcesFit, Given
<1> HIDE DEF builtin
<1>7. CASE n = 1 /\ ~Given(limits[2]) /\ ~Given(limits[3]) /\ ~Given(limits[4]) /\ ~Given(limits[5])
  BY <1>1, <1>5, <1>6, <1>7 DEF limits, builtin
<1>8. CASE n = 2 /\ Given(limits[2]) /\ ~Given(limits[3]) /\ ~Given(limits[4]) /\ ~Given(limits[5])
  BY <1>1, <1>5, <1>6, <1>8 DEF limits, builtin
<1>9. CASE n = 3 /\ Given(limits[3]) /\ ~Given(limits[4]) /\ ~Given(limits[5])
  BY <1>1, <1>5, <1>6, <1>9 DEF limits, builtin
<1>10. CASE n = 4 /\ Given(limits[4]) /\ ~Given(limits[5])
  BY <1>1, <1>5, <1>6, <1>10 DEF limits, builtin
<1>11. CASE n = 5 /\ Given(limits[5])
  BY <1>1, <1>5, <1>6, <1>11 DEF limits, builtin
<1>12. QED
  BY <1>3, <1>7, <1>8, <1>9, <1>10, <1>11

(* The provider is the last that is chosen.                                *)
LEMMA ChoiceIsLast ==
  ASSUME NEW c, NEW f, NEW env, NEW flags, Loaded(c, f, env, flags), ~Blank(flags),
         NEW n \in 1 .. 3,
         LastGiven(ChosenNames(f, env, flags), n),
         n # 1 \/ (Given(f.plugin) => f.plugin \in DOMAIN f.providers /\ f.provider # "")
  PROVE  /\ c.provider = Lower(ChosenNames(f, env, flags)[n])
         /\ c.plugin # "" <=> Given(Sources(f, env, flags)[n].plugin)
<1> DEFINE chosen == ChosenNames(f, env, flags)
           sources == Sources(f, env, flags)
<1>1. /\ chosen[1] = Chosen(f) /\ chosen[2] = Chosen(env) /\ chosen[3] = Chosen(flags)
      /\ Len(chosen) = 3
      /\ sources[1] = f /\ sources[2] = env /\ sources[3] = flags
  BY DEF ChosenNames, Sources
<1>2. LastGiven(chosen, n)
  OBVIOUS
<1> HIDE DEF chosen
<1>3. \/ n = 1 /\ Given(chosen[1]) /\ ~Given(chosen[2]) /\ ~Given(chosen[3])
      \/ n = 2 /\ Given(chosen[2]) /\ ~Given(chosen[3])
      \/ n = 3 /\ Given(chosen[3])
  BY <1>1, <1>2, LastOfThree
<1>4. PICK d, e : FileRead(d, f) /\ EnvApplied(e, d, env) /\ FlagsApplied(c, e, flags)
                  /\ ~d.failed /\ Once(flags)
  BY DEF Loaded
<1>5. /\ Given(flags.plugin) => c.provider = Lower(flags.plugin) /\ c.plugin # ""
      /\ Given(flags.provider) => c.provider = Lower(flags.provider) /\ c.plugin = ""
      /\ ~Given(flags.plugin) /\ ~Given(flags.provider) =>
           c.provider = Lower(e.provider) /\ c.plugin = e.plugin
  BY <1>4 DEF FlagsApplied
<1>6. /\ Given(env.plugin) => e.provider = Lower(env.plugin) /\ e.plugin # ""
      /\ ~Given(env.plugin) /\ Given(env.provider) => e.provider = Lower(env.provider)
           /\ e.plugin = ""
      /\ ~Given(env.plugin) /\ ~Given(env.provider) => e.provider = d.provider
           /\ e.plugin = d.plugin
  BY <1>4 DEF EnvApplied
<1>7. ASSUME NEW s
      PROVE  /\ Given(s.plugin) => Given(Chosen(s)) /\ Chosen(s) = s.plugin
             /\ ~Given(s.plugin) => Chosen(s) = s.provider
             /\ ~Given(Chosen(s)) => ~Given(s.plugin) /\ ~Given(s.provider)
  BY DEF Chosen
<1>8. ASSUME ~Given(Chosen(flags)) PROVE c.provider = Lower(e.provider) /\ c.plugin = e.plugin
  BY <1>5, <1>7, <1>8
<1>9. CASE n = 3 /\ Given(chosen[3])
  <2>1. Given(Chosen(flags))
    BY <1>1, <1>9
  <2>2. c.provider = Lower(Chosen(flags)) /\ (c.plugin # "" <=> Given(flags.plugin))
    BY <1>5, <1>7, <2>1
  <2>3. QED
    BY <1>1, <1>9, <2>2 DEF chosen
<1>10. CASE n = 2 /\ Given(chosen[2]) /\ ~Given(chosen[3])
  <2>1. Given(Chosen(env)) /\ ~Given(Chosen(flags))
    BY <1>1, <1>10
  <2>2. e.provider = Lower(Chosen(env)) /\ (e.plugin # "" <=> Given(env.plugin))
    BY <1>6, <1>7, <2>1
  <2>3. c.provider = Lower(Chosen(env)) /\ (c.plugin # "" <=> Given(env.plugin))
    BY <1>8, <2>1, <2>2, Names
  <2>4. QED
    BY <1>1, <1>10, <2>3 DEF chosen
<1>11. CASE n = 1 /\ Given(chosen[1]) /\ ~Given(chosen[2]) /\ ~Given(chosen[3])
  <2>1. Given(Chosen(f)) /\ ~Given(Chosen(env)) /\ ~Given(Chosen(flags))
    BY <1>1, <1>11
  <2>2. Given(f.plugin) => f.plugin \in DOMAIN f.providers /\ f.provider # ""
    BY <1>11
  <2>3. d.provider = Lower(Chosen(f)) /\ (d.plugin # "" <=> Given(f.plugin))
    <3>1. CASE Given(f.plugin)
      <4>1. d.provider = Lower(f.plugin) /\ d.plugin # ""
        BY <1>4, <2>2, <3>1 DEF FileRead
      <4>2. QED
        BY <1>7, <3>1, <4>1
    <3>2. CASE ~Given(f.plugin)
      <4>1. Chosen(f) = f.provider /\ Given(f.provider)
        BY <1>7, <2>1, <3>2
      <4>2. d.provider = Lower(f.provider) /\ d.plugin = ""
        BY <1>4, <3>2, <4>1 DEF FileRead
      <4>3. QED
        BY <3>2, <4>1, <4>2
    <3>3. QED
      BY <3>1, <3>2
  <2>4. e.provider = d.provider /\ e.plugin = d.plugin
    BY <1>6, <1>7, <2>1
  <2>5. c.provider = Lower(Chosen(f)) /\ (c.plugin # "" <=> Given(f.plugin))
    BY <1>8, <2>1, <2>3, <2>4, Names
  <2>6. QED
    BY <1>1, <1>11, <2>5 DEF chosen
<1>12. QED
  BY <1>3, <1>9, <1>10, <1>11

(* A setting goes to the provider it was meant for, and to no other.       *)
Settled(c, f, env, flags) ==
  /\ c.plugin # "" <=> c.providers[c.provider].type = "plugin"
  /\ Given(flags.model) /\ ~Blank(flags) => c.providers[c.provider].model = flags.model
  /\ \A p \in DOMAIN c.providers :
       /\ c.providers[p].model \in {"", "builtin", FileModel(p)}
            \cup {f.model, env.model, flags.model}
       /\ p # c.provider /\ Given(flags.model) => c.providers[p].model # flags.model

LEMMA SettingsSettled ==
  ASSUME NEW c, NEW f, NEW env, NEW flags, Loaded(c, f, env, flags), SourcesFit(f, flags),
         Given(flags.model) => flags.model # "builtin" /\ flags.model # env.model
  PROVE  Settled(c, f, env, flags)
<1>1. PICK d, e :
        /\ FlagsApplied(c, e, flags) /\ Once(flags) /\ ConfigValid(c)
        /\ Unspoilt(c, f, {f.model} \cup {env.model})
        /\ Origins(c, f, {f.model} \cup {env.model} \cup {flags.model})
  BY DEF Loaded
<1>2. c.provider \in DOMAIN c.providers
      /\ (c.providers[c.provider].type = "plugin" => c.plugin # "")
  BY <1>1 DEF ConfigValid
<1>3. c.plugin # "" => c.providers[c.provider].type = "plugin"
  BY <1>1, <1>2 DEF FlagsApplied
<1>4. Given(flags.model) /\ ~Blank(flags) => c.providers[c.provider].model = flags.model
  BY <1>1, <1>2 DEF FlagsApplied
<1>5. ASSUME NEW p \in DOMAIN c.providers
      PROVE  c.providers[p].model \in {"", "builtin", FileModel(p)}
               \cup {f.model, env.model, flags.model}
  <2>1. Origin(c.providers[p].model, p, f, {f.model} \cup {env.model} \cup {flags.model})
    BY <1>1 DEF Origins
  <2>2. QED
    BY <2>1 DEF Origin
<1>6. ASSUME NEW p \in DOMAIN c.providers, p # c.provider, Given(flags.model)
      PROVE  c.providers[p].model # flags.model
  <2>1. Origin(c.providers[p].model, p, f, {f.model} \cup {env.model})
    BY <1>1, <1>6 DEF Unspoilt
  <2>2. /\ flags.model # "" /\ flags.model # "builtin" /\ flags.model # f.model
        /\ flags.model # env.model
        /\ p \in DOMAIN f.providers => flags.model # FileModel(p)
    BY <1>6 DEF SourcesFit, Given
  <2>3. QED
    BY <2>1, <2>2 DEF Origin
<1>7. QED
  BY <1>2, <1>3, <1>4, <1>5, <1>6 DEF Settled

(* A blank flag goes back to the default provider.                         *)
LEMMA BlankGoesBack ==
  ASSUME NEW c, NEW f, NEW env, NEW flags, Loaded(c, f, env, flags), Blank(flags)
  PROVE  c.provider = Lower(c.default) /\ c.plugin = ""
BY DEF Loaded, FlagsApplied

(* Whatever the sources say, a configuration that loads follows the last   *)
(* of them, but for the two selections that LoadRespectsPrecedence names,  *)
(* and no setting strays to another provider (config.go Load).             *)
THEOREM PrecedenceIsRespected == DecisionSpec => []LoadRespectsPrecedence
<1>1. DecisionInv => LoadRespectsPrecedence
  <2>1. SUFFICES ASSUME DecisionInv, Answered("load"), A.ok
                 PROVE  LoadRespectsPrecedence
    BY DEF LoadRespectsPrecedence
  <2> DEFINE c == A.config
             where == ConfigFile(Q.path, Q.disk)
             file == IF where = None THEN NoFile ELSE Q.disk[where]
             env == Q.env
             flags == Q.flags
             sources == <<file, env, flags>>
             chosen == <<Chosen(file), Chosen(env), Chosen(flags)>>
             limits == <<"builtin", file.limit, file.oldLimit, env.limit, flags.limit>>
             followed == Given(file.plugin) =>
                           file.plugin \in DOMAIN file.providers /\ file.provider # ""
             back == "" \in {flags.provider, flags.plugin}
  <2>2. Q \in Loads /\ A = Load(Q.path, Q.disk, Q.env, Q.flags, Q.first)
    BY <2>1 DEF DecisionInv, QuestionTyped, AnswerFits, Answered
  <2>3. /\ Loaded(c, FileOf(Q), env, flags)
        /\ where = None \/ where \in DOMAIN Q.disk
    BY <2>1, <2>2, LoadIsStaged
  <2>4. SourcesFit(FileOf(Q), flags)
    BY <2>2, <2>3, FileIsFit
  <2>5. Given(flags.model) => flags.model # "builtin" /\ flags.model # env.model
    BY <2>2, LoadsAssumption
  <2>6. file = FileOf(Q) /\ (back <=> Blank(flags))
    BY DEF FileOf, Blank
  <2>7. /\ sources = Sources(file, env, flags) /\ chosen = ChosenNames(file, env, flags)
        /\ limits = Limits(file, env, flags)
    BY DEF Sources, ChosenNames, Limits
  <2> HIDE DEF c, where, file, env, flags, sources, chosen, limits, back
  <2>8. ASSUME NEW n \in 1 .. 5, LastGiven(limits, n) PROVE c.limit = limits[n]
    <3>1. Loaded(c, file, env, flags) /\ SourcesFit(file, flags)
      BY <2>3, <2>4, <2>6
    <3>2. LastGiven(Limits(file, env, flags), n)
      BY <2>7, <2>8
    <3>3. c.limit = Limits(file, env, flags)[n]
      BY <3>1, <3>2, LimitIsLast
    <3>4. QED
      BY <2>7, <3>3
  <2>9. back => c.provider = Lower(c.default) /\ c.plugin = ""
    BY <2>3, <2>6, BlankGoesBack
  <2>10. ASSUME NEW n \in 1 .. 3, LastGiven(chosen, n), n > 1 \/ followed, ~back
         PROVE  /\ c.provider = Lower(chosen[n])
                /\ c.plugin # "" <=> Given(sources[n].plugin)
    <3> HIDE DEF followed
    <3>1. ~(n > 1) => followed
      BY <2>10
    <3>2. n = 1 => ~(n > 1)
      OBVIOUS
    <3>3. n # 1 \/ followed
      BY <3>1, <3>2
    <3>4. LastGiven(ChosenNames(file, env, flags), n) /\ Loaded(c, file, env, flags)
            /\ ~Blank(flags)
      BY <2>3, <2>6, <2>7, <2>10
    <3>5. /\ c.provider = Lower(ChosenNames(file, env, flags)[n])
          /\ c.plugin # "" <=> Given(Sources(file, env, flags)[n].plugin)
      BY <3>3, <3>4, ChoiceIsLast DEF followed
    <3>6. QED
      BY <2>7, <3>5
  <2>11. Settled(c, file, env, flags)
    BY <2>3, <2>4, <2>5, <2>6, SettingsSettled
  <2>12. QED
    BY <2>6, <2>8, <2>9, <2>10, <2>11
    DEF LoadRespectsPrecedence, Settled, c, where, file, env, flags, sources, chosen, limits, back
<1>2. QED
  BY <1>1, DecisionsFit, PTL

=============================================================================
