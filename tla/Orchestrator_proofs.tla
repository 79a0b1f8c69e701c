------------------------ MODULE Orchestrator_proofs ------------------------
(***************************************************************************)
(* Proofs about Orchestrator for all decompositions, pools and channels:   *)
(* dependencies run first, nobody sends on the closed channel, and what    *)
(* the command reports is what happened.                                   *)
(***************************************************************************)
EXTENDS Orchestrator, FiniteSetTheorems, SequenceTheorems, TLAPS

-----------------------------------------------------------------------------
(* The inductive invariant.                                                *)
Grouped == {"run", "join", "abort"}

(* What has been published, wherever it is until the command returns.      *)
Log == IF caller.pc = "aggregate" THEN caller.collected ELSE resultChannel
Logged(s) == \E i \in DOMAIN Log : Log[i].subtask = s

SomeFailed == \E s \in Subtasks : worker[s].err # "none"

(* Decompositions are queued, and taken up, in the order of the list.      *)
InOrder ==
  /\ loop.task + Len(taskChannel) = caller.next - 1
  /\ \A k \in DOMAIN taskChannel : taskChannel[k] = loop.task + k
  /\ \A i \in 1 .. caller.next - 1 : Valid(Task(i))
  /\ caller.pc \in {"stop", "wait"} /\ caller.err = "none" => caller.next = Len(caller.list) + 1
  /\ caller.pc \in {"collect", "aggregate"} => caller.next = Len(caller.list) + 1

(* The loop ends before the command goes on, and closes the channel.       *)
Exits ==
  /\ caller.pc = "start" => loop.pc = "off" /\ caller.next = 1
  /\ loop.pc \in Grouped => loop.task >= 1
  /\ resultClosed <=> loop.pc = "exited"
  /\ taskClosed => caller.pc \in {"wait", "collect", "aggregate", "returned"}
  /\ caller.pc \in {"collect", "aggregate", "returned"} => loop.pc = "exited"
  /\ caller.pc \in {"collect", "aggregate"} =>
       caller.err = IF loop.err = "canceled" THEN "none" ELSE loop.err
  /\ loop.pc = "exited" /\ loop.err = "none" => taskClosed /\ taskChannel = <<>>

(* A goroutine runs for a decomposition that was begun, and in its group.  *)
Begun ==
  \A s \in Subtasks :
    /\ worker[s].pc = "idle" => worker[s].err = "none"
    /\ worker[s].err # "none" => worker[s].pc \in {"publishing", "delivering", "returning", "gone"}
    /\ worker[s].pc # "idle" => \E i \in 1 .. loop.task : s \in Task(i).subtasks
    /\ worker[s].pc \notin {"idle", "gone"} => loop.pc \in Grouped /\ s \in Current.subtasks

(* Every worker that ran publishes its result, once.                       *)
Recorded ==
  caller.pc # "returned" =>
    /\ \A i \in DOMAIN Log :
         /\ Log[i].err = worker[Log[i].subtask].err
         /\ worker[Log[i].subtask].pc \in {"delivering", "returning", "gone"}
    /\ \A i, j \in DOMAIN Log : Log[i].subtask = Log[j].subtask => i = j
    /\ \A s \in Subtasks :
         \/ worker[s].pc \in {"delivering", "returning"}
         \/ worker[s].pc = "gone" /\ worker[s].err # "none"
         => Logged(s)

(* ... and hands it to its decomposition, once.                            *)
Delivered ==
  loop.pc \in Grouped =>
    /\ \A k \in DOMAIN results :
         /\ results[k] \in Current.subtasks /\ Logged(results[k])
         /\ worker[results[k]].pc \in {"returning", "gone"}
    /\ \A j, k \in DOMAIN results : results[j] = results[k] => j = k

(* The results the loop has taken, and the dependencies still open then.   *)
Taken ==
  {s \in Current.subtasks :
    worker[s].pc \in {"returning", "gone"} /\ worker[s].err = "none"
      /\ Logged(s) /\ s \notin ToSet(results)}
Pending(t, y, taken) ==
  {w \in (t.subtasks \ taken) \X (1 .. 3) : w[2] <= Multiplicity(t, w[1], y)}

Counted ==
  /\ \A s \in Subtasks : remaining[s] >= 0
  /\ loop.pc \in Grouped =>
       /\ \A s \in Current.subtasks : remaining[s] = Cardinality(Pending(Current, s, Taken))
       /\ loop.completed = Cardinality(Taken)

Ordered ==
  \A i \in 1 .. Len(caller.list) : \A s, x \in Task(i).subtasks :
    worker[s].pc # "idle" /\ Before(Task(i), x, s) =>
      worker[x].pc \in {"returning", "gone"} /\ worker[x].err = "none"

(* Every error has a reason, and no failure goes unnoticed.                *)
Accounted ==
  /\ groupErr # "none" => groupErr = ended \/ SomeFailed
  /\ loop.err # "none" => loop.err = ended \/ SomeFailed
  /\ loop.pc \in {"off", "select"} => ~SomeFailed
  /\ loop.pc \in Grouped =>
       \A s \in Subtasks : worker[s].pc = "gone" /\ (worker[s].err # "none" \/ ~Logged(s)) =>
         groupErr # "none"
  /\ loop.pc = "abort" => ended # "none" \/ groupErr # "none"
  /\ loop.pc = "join" => loop.completed = Cardinality(Current.subtasks) \/ SomeFailed

(* The decompositions the loop is through with.                            *)
Through(i) ==
  i < loop.task \/ loop.pc = "select" \/ (loop.pc = "exited" /\ loop.err = "none")
Finished ==
  caller.pc # "returned" =>
    \A i \in 1 .. loop.task : Through(i) =>
      \A s \in Task(i).subtasks : worker[s].pc = "gone" /\ worker[s].err = "none" /\ Logged(s)

IInv == /\ TypeOK /\ InOrder /\ Exits /\ Begun /\ Recorded /\ Delivered /\ Counted
        /\ Ordered /\ Accounted /\ Finished /\ ~panicked /\ SuccessMeansAllRan

-----------------------------------------------------------------------------
(* What the assumption says of a list.                                     *)
LEMMA ListFacts ==
  ASSUME NEW list \in TaskLists
  PROVE  /\ Len(list) \in Nat /\ DOMAIN list = 1 .. Len(list)
         /\ \A i \in 1 .. Len(list) :
              /\ IsFiniteSet(list[i].subtasks)
              /\ list[i].subtasks \subseteq Subtasks
              /\ list[i].subtasks \subseteq SubtasksOf(list)
         /\ \A s \in SubtasksOf(list) : \E i \in 1 .. Len(list) : s \in list[i].subtasks
         /\ \A i, j \in 1 .. Len(list) :
              i # j => list[i].subtasks \cap list[j].subtasks = {}
<1>1. list \in Seq(ToSet(list))
  BY TaskAssumption
<1>2. Len(list) \in Nat /\ DOMAIN list = 1 .. Len(list)
  BY <1>1, LenProperties
<1>3. SubtasksOf(list) = UNION {t.subtasks : t \in {list[i] : i \in 1 .. Len(list)}}
  BY <1>2 DEF SubtasksOf, ToSet
<1>4. \A s : s \in SubtasksOf(list) <=> \E i \in 1 .. Len(list) : s \in list[i].subtasks
  BY <1>3
<1>5. SubtasksOf(list) \subseteq Subtasks
  BY DEF Subtasks
<1>6. QED
  BY <1>2, <1>4, <1>5, TaskAssumption

LEMMA CurrentFacts ==
  ASSUME TypeOK
  PROVE  /\ caller.list \in TaskLists /\ Len(caller.list) \in Nat
         /\ \A i \in 1 .. Len(caller.list) :
              IsFiniteSet(Task(i).subtasks) /\ Task(i).subtasks \subseteq Subtasks
         /\ \A i, j \in 1 .. Len(caller.list) : \A s \in Task(i).subtasks \cap Task(j).subtasks : i = j
<1>1. caller.list \in TaskLists
  BY DEF TypeOK, CallerType
<1>2. QED
  BY <1>1, ListFacts DEF Task

(* How often a subtask waits for another one, and for how many.            *)
LEMMA MultiplicityFacts ==
  ASSUME NEW list \in TaskLists, NEW i \in 1 .. Len(list), NEW x, NEW y
  PROVE  /\ Multiplicity(list[i], x, y) \in 0 .. 3
         /\ Multiplicity(list[i], x, y) = 0 => ~Before(list[i], x, y)
<1> DEFINE t == list[i]
           edges == {e \in Directed(t) : e.from = x /\ e.to = y}
           both == {[from |-> x, to |-> y, type |-> "depends-on"],
                    [from |-> x, to |-> y, type |-> "sequential"]}
<1>1. edges \subseteq both
  BY ListFacts, TaskAssumption DEF Directed, EdgeTypes
<1>2. IsFiniteSet(both) /\ Cardinality(both) <= 2
  <2>1. /\ IsFiniteSet({[from |-> x, to |-> y, type |-> "depends-on"]})
        /\ Cardinality({[from |-> x, to |-> y, type |-> "depends-on"]}) = 1
    BY FS_Singleton
  <2>2. both = {[from |-> x, to |-> y, type |-> "depends-on"]}
                 \cup {[from |-> x, to |-> y, type |-> "sequential"]}
    OBVIOUS
  <2>3. QED
    BY <2>1, <2>2, FS_AddElement
<1>3. /\ IsFiniteSet(edges) /\ Cardinality(edges) \in 0 .. 2
      /\ Cardinality(edges) = 0 <=> edges = {}
  <2>1. IsFiniteSet(edges) /\ Cardinality(edges) <= Cardinality(both)
    BY <1>1, <1>2, FS_Subset
  <2>2. Cardinality(edges) \in Nat /\ Cardinality(both) \in Nat
    BY <1>2, <2>1, FS_CardinalityType
  <2>3. QED
    BY <1>2, <2>1, <2>2, FS_EmptySet
<1>4. Multiplicity(t, x, y) = (IF <<x, y>> \in t.deps THEN 1 ELSE 0) + Cardinality(edges)
  BY DEF Multiplicity
<1>5. Before(t, x, y) => <<x, y>> \in t.deps \/ edges # {}
  BY DEF Before
<1> HIDE DEF t, edges
<1>6. Multiplicity(t, x, y) \in 0 .. 3 /\ (Multiplicity(t, x, y) = 0 => ~Before(t, x, y))
  BY <1>3, <1>4, <1>5
<1>7. QED
  BY <1>6 DEF t

(* The result of x releases as many dependencies of y as y has on x.       *)
LEMMA PendingFacts ==
  ASSUME NEW list \in TaskLists, NEW i \in 1 .. Len(list), NEW y, NEW taken
  PROVE  /\ Cardinality(Pending(list[i], y, taken)) \in Nat
         /\ \A x \in list[i].subtasks \ taken :
              Cardinality(Pending(list[i], y, taken \cup {x}))
                = Cardinality(Pending(list[i], y, taken)) - Multiplicity(list[i], x, y)
         /\ Cardinality(Pending(list[i], y, taken)) = 0 =>
              \A x \in list[i].subtasks : Before(list[i], x, y) => x \in taken
<1> DEFINE t == list[i]
<1>1. \A more : IsFiniteSet(Pending(t, y, more)) /\ Cardinality(Pending(t, y, more)) \in Nat
  <2>1. IsFiniteSet(t.subtasks)
    BY ListFacts
  <2> HIDE DEF t
  <2>2. IsFiniteSet(1 .. 3)
    <3>1. 1 \in Int /\ 3 \in Int
      OBVIOUS
    <3>2. QED
      BY <3>1, FS_Interval
  <2>3. IsFiniteSet(t.subtasks \X (1 .. 3))
    BY <2>1, <2>2, FS_Product
  <2>4. \A more : Pending(t, y, more) \subseteq t.subtasks \X (1 .. 3)
    BY DEF Pending
  <2>5. QED
    BY <2>3, <2>4, FS_Subset, FS_CardinalityType
<1>2. \A x : Multiplicity(t, x, y) \in 0 .. 3 /\ (Multiplicity(t, x, y) = 0 => ~Before(t, x, y))
  BY MultiplicityFacts
<1>3. ASSUME NEW x \in t.subtasks \ taken
      PROVE  Cardinality(Pending(t, y, taken \cup {x}))
               = Cardinality(Pending(t, y, taken)) - Multiplicity(t, x, y)
  <2> DEFINE m == Multiplicity(t, x, y)
             mine == {x} \X (1 .. m)
             rest == Pending(t, y, taken \cup {x})
  <2>1. m \in 0 .. 3
    BY <1>2
  <2>2. Pending(t, y, taken) = rest \cup mine /\ rest \cap mine = {}
    <3>1. \A w \in mine : w \in Pending(t, y, taken)
      BY <1>3, <2>1 DEF Pending
    <3>2. \A w \in Pending(t, y, taken) : w \in rest \/ w \in mine
      BY <2>1 DEF Pending
    <3>3. \A w \in rest : w \in Pending(t, y, taken) /\ w \notin mine
      BY DEF Pending
    <3>4. QED
      BY <3>1, <3>2, <3>3
  <2>3. IsFiniteSet(mine) /\ Cardinality(mine) = m
    <3>1. IsFiniteSet({x}) /\ Cardinality({x}) = 1
      BY FS_Singleton
    <3> HIDE DEF m
    <3>2. IsFiniteSet(1 .. m) /\ Cardinality(1 .. m) = m
      <4>1. m \in Int /\ 1 \in Int
        BY <2>1
      <4>2. IsFiniteSet(1 .. m) /\ Cardinality(1 .. m) = IF 1 > m THEN 0 ELSE m - 1 + 1
        BY <4>1, FS_Interval
      <4>3. QED
        BY <2>1, <4>2
    <3>3. IsFiniteSet(mine) /\ Cardinality(mine) = 1 * m
      BY <3>1, <3>2, FS_Product, ZenonT(40)
    <3>4. QED
      BY <2>1, <3>3
  <2>4. IsFiniteSet(rest) /\ Cardinality(rest) \in Nat
    BY <1>1
  <2> HIDE DEF m, mine, rest
  <2>5. Cardinality(rest \cup mine) = Cardinality(rest) + Cardinality(mine) - Cardinality(rest \cap mine)
    BY <2>3, <2>4, FS_Union
  <2>6. Cardinality(rest \cap mine) = 0
    BY <2>2, FS_EmptySet
  <2>7. Cardinality(Pending(t, y, taken)) = Cardinality(rest) + m
    BY <2>1, <2>2, <2>3, <2>4, <2>5, <2>6
  <2>8. QED
    BY <2>1, <2>4, <2>7 DEF rest, m
<1>4. ASSUME Cardinality(Pending(t, y, taken)) = 0, NEW x \in t.subtasks, Before(t, x, y)
      PROVE  x \in taken
  <2>1. Pending(t, y, taken) = {}
    BY <1>1, <1>4, FS_EmptySet
  <2>2. Multiplicity(t, x, y) >= 1
    BY <1>2, <1>4
  <2>3. x \notin taken => <<x, 1>> \in Pending(t, y, taken)
    BY <2>2 DEF Pending
  <2>4. QED
    BY <2>1, <2>3
<1>5. QED
  BY <1>1, <1>3, <1>4 DEF t

-----------------------------------------------------------------------------
(* The invariant holds at first.                                           *)
LEMMA InitIInv == Init => IInv
<1>1. SUFFICES ASSUME Init PROVE IInv
  OBVIOUS
<1>2. PICK list \in TaskLists :
        caller = [pc |-> "start", list |-> list, next |-> 1, err |-> "none",
                  collected |-> <<>>, strategy |-> "all_succeed"]
  BY <1>1 DEF Init
<1>3. /\ loop = [pc |-> "off", task |-> 0, completed |-> 0, err |-> "none"]
      /\ taskChannel = <<>> /\ taskClosed = FALSE /\ ended = "none"
      /\ remaining = [s \in Subtasks |-> 0] /\ groupErr = "none"
      /\ worker = [s \in Subtasks |-> Idle] /\ results = <<>>
      /\ resultChannel = <<>> /\ resultClosed = FALSE /\ panicked = FALSE
  BY <1>1 DEF Init
<1>4. /\ \A S : <<>> \in Seq(S)
      /\ Len(<<>>) = 0 /\ DOMAIN <<>> = {}
  BY EmptySeq
<1>5. Len(list) \in Nat /\ MaxWorkers \in Nat /\ ResultCap \in Nat
  BY ListFacts, PoolAssumption
<1>6. TypeOK
  <2>1. caller \in CallerType /\ caller.next <= Len(caller.list) + 1
    <3>1. [pc |-> "start", list |-> list, next |-> 1, err |-> "none",
           collected |-> <<>>, strategy |-> "all_succeed"] \in CallerType
      BY <1>4 DEF CallerType, CallerPcs, Errs
    <3>2. caller.next = 1 /\ caller.list = list
      BY <1>2
    <3>3. QED
      BY <1>2, <1>5, <3>1, <3>2
  <2>2. loop \in LoopType
    BY <1>3 DEF LoopType, Errs
  <2>3. remaining \in [Subtasks -> Int] /\ worker \in [Subtasks -> WorkerType]
    BY <1>3 DEF WorkerType, WorkerPcs, Errs, Idle
  <2>4. /\ taskChannel \in Seq(Nat) /\ results \in Seq(Subtasks) /\ resultChannel \in Seq(ResultType)
        /\ Len(taskChannel) <= MaxWorkers /\ Len(resultChannel) <= ResultCap
    BY <1>3, <1>4, <1>5
  <2>5. groupErr \in Errs
    BY <1>3 DEF Errs
  <2>6. QED
    BY <1>3, <2>1, <2>2, <2>3, <2>4, <2>5 DEF TypeOK
<1>7. /\ caller.pc = "start" /\ caller.next = 1 /\ loop.pc = "off" /\ loop.task = 0
      /\ loop.err = "none"
  BY <1>2, <1>3
<1>8. \A s \in Subtasks : worker[s].pc = "idle" /\ worker[s].err = "none"
  BY <1>3 DEF Idle
<1>9. InOrder
  BY <1>3, <1>4, <1>7 DEF InOrder
<1>10. Exits /\ Begun /\ ~panicked /\ SuccessMeansAllRan
  BY <1>3, <1>7, <1>8 DEF Exits, Begun, SuccessMeansAllRan, Grouped
<1>11. Recorded
  <2>1. DOMAIN Log = {}
    BY <1>3, <1>4, <1>7 DEF Log
  <2>2. QED
    BY <1>8, <2>1 DEF Recorded
<1>12. Delivered /\ Accounted /\ Finished
  BY <1>3, <1>7, <1>8 DEF Delivered, Accounted, Finished, Grouped, SomeFailed
<1>13. Counted
  BY <1>3, <1>7 DEF Counted, Grouped
<1>14. Ordered
  BY <1>6, <1>8, CurrentFacts DEF Ordered
<1>15. QED
  BY <1>6, <1>9, <1>10, <1>11, <1>12, <1>13, <1>14 DEF IInv

-----------------------------------------------------------------------------
(* Steps of the caller and of the context: the group stays as it is.       *)
LEMMA SameWork ==
  ASSUME IInv, UNCHANGED group, loop' = loop, caller'.list = caller.list,
         caller.pc # "returned", caller'.pc = "returned" => loop.pc = "exited",
         caller'.pc # "returned" => Log' = Log,
         ended' = ended \/ ended = "none"
  PROVE  /\ Begun' /\ Recorded' /\ Delivered' /\ Counted' /\ Ordered'
         /\ Accounted' /\ Finished'
<1>1. /\ UNCHANGED <<remaining, groupErr, worker, results>>
      /\ \A i : Task(i)' = Task(i) /\ Current' = Current
      /\ loop.pc \in Grouped \/ caller'.pc # "returned" => \A s : Logged(s)' <=> Logged(s)
  BY DEF group, Task, Current, Logged, Grouped
<1>2. Begun'
  BY <1>1 DEF IInv, Begun
<1>3. Recorded'
  BY <1>1 DEF IInv, Recorded
<1>4. Delivered'
  BY <1>1 DEF IInv, Delivered
<1>5. Counted'
  <2>1. loop.pc \in Grouped => Taken' = Taken
    BY <1>1 DEF Taken
  <2>2. QED
    BY <1>1, <2>1 DEF IInv, Counted
<1>6. Ordered'
  BY <1>1 DEF IInv, Ordered
<1>7. Accounted'
  <2>1. SomeFailed' <=> SomeFailed
    BY <1>1 DEF SomeFailed
  <2>2. /\ groupErr # "none" => groupErr = ended' \/ SomeFailed
        /\ loop.err # "none" => loop.err = ended' \/ SomeFailed
        /\ ended # "none" => ended' # "none"
    BY DEF IInv, Accounted
  <2>3. loop.pc \in Grouped => caller'.pc # "returned"
    BY DEF Grouped
  <2>4. QED
    BY <1>1, <2>1, <2>2, <2>3 DEF IInv, Accounted
<1>8. Finished'
  <2>1. \A i : Through(i)' <=> Through(i)
    BY DEF Through
  <2>2. QED
    BY <1>1, <2>1 DEF IInv, Finished
<1>9. QED
  BY <1>2, <1>3, <1>4, <1>5, <1>6, <1>7, <1>8

LEMMA StartKeeps ==
  ASSUME IInv, Start
  PROVE  IInv'
<1>1. /\ caller' \in CallerType /\ caller'.pc = "submit" /\ caller'.list = caller.list
      /\ caller'.next = caller.next /\ caller.pc = "start"
  <2>1. caller \in CallerType /\ caller' = [caller EXCEPT !.pc = "submit"]
    BY DEF IInv, TypeOK, Start
  <2>2. QED
    BY <2>1 DEF CallerType, CallerPcs, Start
<1>2. /\ loop' \in LoopType /\ loop'.pc = "select" /\ loop'.task = loop.task /\ loop'.err = loop.err
  <2>1. loop \in LoopType /\ loop' = [loop EXCEPT !.pc = "select"]
    BY DEF IInv, TypeOK, Start
  <2>2. QED
    BY <2>1 DEF LoopType
<1>3. UNCHANGED <<ended, taskChannel, taskClosed, remaining, groupErr, worker, results,
                  resultChannel, resultClosed, panicked>>
  BY DEF Start, tasks, group, published
<1>4. loop.pc = "off" /\ loop.task = 0
  <2>1. loop.pc = "off" /\ loop.task + Len(taskChannel) = 0
    BY <1>1 DEF IInv, Exits, InOrder
  <2>2. loop.task \in Nat /\ Len(taskChannel) \in Nat
    BY LenProperties DEF IInv, TypeOK, LoopType
  <2>3. QED
    BY <2>1, <2>2
<1>5. /\ \A i : Task(i)' = Task(i)
      /\ Log' = Log
      /\ \A s : Logged(s)' <=> Logged(s)
      /\ SomeFailed' <=> SomeFailed
  BY <1>1, <1>3 DEF Task, Log, Logged, SomeFailed
<1>6. TypeOK'
  BY <1>1, <1>2, <1>3 DEF IInv, TypeOK
<1>7. InOrder'
  BY <1>1, <1>2, <1>3, <1>5 DEF IInv, InOrder
<1>8. Exits' /\ SuccessMeansAllRan'
  BY <1>1, <1>2, <1>3, <1>4 DEF IInv, Exits, SuccessMeansAllRan, Grouped
<1>9. Begun' /\ Recorded' /\ Delivered' /\ Finished'
  BY <1>1, <1>2, <1>3, <1>4, <1>5
     DEF IInv, Begun, Recorded, Delivered, Finished, Grouped, Current
<1>10. Counted' /\ Ordered'
  BY <1>1, <1>2, <1>3, <1>5 DEF IInv, Counted, Ordered, Grouped
<1>11. Accounted'
  BY <1>2, <1>3, <1>4, <1>5 DEF IInv, Accounted, Grouped
<1>12. QED
  BY <1>3, <1>6, <1>7, <1>8, <1>9, <1>10, <1>11 DEF IInv

LEMMA SubmitAcceptedKeeps ==
  ASSUME IInv, SubmitAccepted
  PROVE  IInv'
<1>1. /\ caller.pc = "submit" /\ caller'.pc = "submit" /\ caller'.list = caller.list
      /\ caller'.next = caller.next + 1 /\ caller'.err = caller.err
      /\ caller' \in CallerType
  <2>1. caller \in CallerType /\ caller' = [caller EXCEPT !.next = caller.next + 1]
    BY DEF IInv, TypeOK, SubmitAccepted
  <2>2. caller.next + 1 \in Nat
    BY <2>1 DEF CallerType
  <2>3. QED
    BY <2>1, <2>2 DEF CallerType, SubmitAccepted
<1>2. UNCHANGED <<ended, taskClosed, loop, group, resultChannel, resultClosed, panicked>>
  BY DEF SubmitAccepted, published
<1>3. /\ taskChannel' \in Seq(Nat) /\ Len(taskChannel) \in Nat
      /\ Len(taskChannel') = Len(taskChannel) + 1
      /\ DOMAIN taskChannel = 1 .. Len(taskChannel) /\ DOMAIN taskChannel' = 1 .. Len(taskChannel) + 1
      /\ \A k \in 1 .. Len(taskChannel) : taskChannel'[k] = taskChannel[k]
      /\ taskChannel'[Len(taskChannel) + 1] = caller.next
      /\ Len(taskChannel) < MaxWorkers
  <2>1. taskChannel \in Seq(Nat) /\ caller.next \in Nat
    BY DEF IInv, TypeOK, CallerType
  <2>2. taskChannel' = Append(taskChannel, caller.next) /\ Len(taskChannel) < MaxWorkers
    BY DEF SubmitAccepted
  <2>3. QED
    BY <2>1, <2>2, AppendProperties, LenProperties
<1>4. /\ caller.next <= Len(caller.list) /\ Valid(Task(caller.next))
      /\ caller.next \in Nat /\ loop.task \in Nat /\ Len(caller.list) \in Nat /\ MaxWorkers \in Nat
      /\ \A i : Task(i)' = Task(i)
  BY <1>1, CurrentFacts, PoolAssumption DEF SubmitAccepted, IInv, TypeOK, CallerType, LoopType, Task
<1>5. TypeOK'
  <2>1. /\ Len(taskChannel') <= MaxWorkers
        /\ caller'.next <= Len(caller'.list) + 1
    BY <1>1, <1>3, <1>4
  <2>2. QED
    BY <1>1, <1>2, <1>3, <2>1 DEF IInv, TypeOK, group
<1>6. InOrder'
  <2>1. /\ loop.task + Len(taskChannel) = caller.next - 1
        /\ \A k \in DOMAIN taskChannel : taskChannel[k] = loop.task + k
        /\ \A i \in 1 .. caller.next - 1 : Valid(Task(i))
    BY DEF IInv, InOrder
  <2>2. loop'.task + Len(taskChannel') = caller'.next - 1
    <3>1. /\ loop'.task = loop.task /\ Len(taskChannel') = Len(taskChannel) + 1
          /\ caller'.next = caller.next + 1 /\ Len(taskChannel) \in Nat
          /\ caller.next \in Nat /\ loop.task \in Nat
      BY <1>1, <1>2, <1>3, <1>4
    <3>2. loop.task + Len(taskChannel) = caller.next - 1
      BY <2>1
    <3>3. \A x, y, z \in Nat : x + y = z - 1 => x + (y + 1) = (z + 1) - 1
      OBVIOUS
    <3>4. loop.task + (Len(taskChannel) + 1) = (caller.next + 1) - 1
      BY <3>1, <3>2, <3>3
    <3> QED BY <3>1, <3>4
  <2>3. \A k \in DOMAIN taskChannel' : taskChannel'[k] = loop'.task + k
    <3>1. Len(taskChannel) \in Nat /\ caller.next \in Nat /\ loop.task \in Nat
      BY <1>3, <1>4
    <3>2. caller.next = loop.task + (Len(taskChannel) + 1)
      BY <2>1, <3>1
    <3>3. taskChannel'[Len(taskChannel) + 1] = loop.task + (Len(taskChannel) + 1)
      BY <1>3, <3>2
    <3>4. QED
      BY <1>2, <1>3, <2>1, <3>3
  <2>4. \A i \in 1 .. caller'.next - 1 : Valid(Task(i)')
    BY <1>1, <1>4, <2>1
  <2>5. QED
    BY <1>1, <2>2, <2>3, <2>4 DEF InOrder
<1>7. Exits' /\ ~panicked' /\ SuccessMeansAllRan'
  BY <1>1, <1>2 DEF IInv, Exits, SuccessMeansAllRan
<1>8. Log' = Log
  BY <1>1, <1>2 DEF Log
<1>9. QED
  BY <1>1, <1>2, <1>5, <1>6, <1>7, <1>8, SameWork DEF IInv

LEMMA SubmitFailsKeeps ==
  ASSUME IInv, SubmitFails
  PROVE  IInv'
<1>1. /\ caller.pc = "submit" /\ caller'.pc = "stop" /\ caller'.list = caller.list
      /\ caller'.next = caller.next /\ caller'.err # "none" /\ caller' \in CallerType
  <2> DEFINE err == IF ~Valid(Task(caller.next)) THEN "failed"
                    ELSE IF ended # "none" THEN ended ELSE "canceled"
  <2>1. err \in Errs /\ err # "none"
    BY DEF IInv, TypeOK, Errs
  <2>2. caller \in CallerType /\ caller' = [caller EXCEPT !.pc = "stop", !.err = err]
    BY DEF IInv, TypeOK, SubmitFails
  <2> HIDE DEF err
  <2>3. QED
    BY <2>1, <2>2 DEF CallerType, CallerPcs, SubmitFails
<1>2. UNCHANGED <<ended, taskChannel, taskClosed, loop, group, resultChannel, resultClosed, panicked>>
  BY DEF SubmitFails, published, tasks
<1>3. TypeOK'
  BY <1>1, <1>2 DEF IInv, TypeOK, group
<1>4. InOrder'
  BY <1>1, <1>2 DEF IInv, InOrder, Task
<1>5. Exits' /\ ~panicked' /\ SuccessMeansAllRan'
  BY <1>1, <1>2 DEF IInv, Exits, SuccessMeansAllRan
<1>6. Log' = Log
  BY <1>1, <1>2 DEF Log
<1>7. QED
  BY <1>1, <1>2, <1>3, <1>4, <1>5, <1>6, SameWork DEF IInv

LEMMA SubmittedAllKeeps ==
  ASSUME IInv, SubmittedAll
  PROVE  IInv'
<1>1. /\ caller.pc = "submit" /\ caller'.pc = "stop" /\ caller'.list = caller.list
      /\ caller'.next = caller.next /\ caller' \in CallerType
  <2>1. caller \in CallerType /\ caller' = [caller EXCEPT !.pc = "stop"]
    BY DEF IInv, TypeOK, SubmittedAll
  <2>2. QED
    BY <2>1 DEF CallerType, CallerPcs, SubmittedAll
<1>2. UNCHANGED <<ended, taskChannel, taskClosed, loop, group, resultChannel, resultClosed, panicked>>
  BY DEF SubmittedAll, published, tasks
<1>3. caller.next = Len(caller.list) + 1
  <2>1. caller.next <= Len(caller.list) + 1 /\ caller.next > Len(caller.list) /\ caller.next \in Nat
    BY DEF IInv, TypeOK, CallerType, SubmittedAll
  <2>2. Len(caller.list) \in Nat
    BY CurrentFacts DEF IInv
  <2>3. QED
    BY <2>1, <2>2
<1>4. TypeOK'
  BY <1>1, <1>2 DEF IInv, TypeOK, group
<1>5. InOrder'
  BY <1>1, <1>2, <1>3 DEF IInv, InOrder, Task
<1>6. Exits' /\ ~panicked' /\ SuccessMeansAllRan'
  BY <1>1, <1>2 DEF IInv, Exits, SuccessMeansAllRan
<1>7. Log' = Log
  BY <1>1, <1>2 DEF Log
<1>8. QED
  BY <1>1, <1>2, <1>4, <1>5, <1>6, <1>7, SameWork DEF IInv

LEMMA StopKeeps ==
  ASSUME IInv, Stop
  PROVE  IInv'
<1>1. /\ caller.pc = "stop" /\ caller'.pc = "wait" /\ caller'.list = caller.list
      /\ caller'.next = caller.next /\ caller'.err = caller.err /\ caller' \in CallerType
  <2>1. caller \in CallerType /\ caller' = [caller EXCEPT !.pc = "wait"]
    BY DEF IInv, TypeOK, Stop
  <2>2. QED
    BY <2>1 DEF CallerType, CallerPcs, Stop
<1>2. /\ taskClosed' = TRUE
      /\ UNCHANGED <<ended, taskChannel, loop, group, resultChannel, resultClosed, panicked>>
  BY DEF Stop, published
<1>3. TypeOK'
  BY <1>1, <1>2 DEF IInv, TypeOK, group
<1>4. InOrder'
  BY <1>1, <1>2 DEF IInv, InOrder, Task
<1>5. Exits' /\ ~panicked' /\ SuccessMeansAllRan'
  BY <1>1, <1>2 DEF IInv, Exits, SuccessMeansAllRan
<1>6. Log' = Log
  BY <1>1, <1>2 DEF Log
<1>7. QED
  BY <1>1, <1>2, <1>3, <1>4, <1>5, <1>6, SameWork DEF IInv

LEMMA WaitKeeps ==
  ASSUME IInv, Wait
  PROVE  IInv'
<1>1. /\ caller.pc = "wait" /\ caller'.list = caller.list /\ caller'.next = caller.next
      /\ caller' \in CallerType /\ loop.pc = "exited"
      /\ \/ caller'.pc = "returned" /\ caller'.err = caller.err /\ caller.err # "none"
         \/ /\ caller'.pc = "collect" /\ caller.err = "none"
            /\ caller'.err = IF loop.err = "canceled" THEN "none" ELSE loop.err
  <2> DEFINE err == IF loop.err = "canceled" THEN "none" ELSE loop.err
  <2>1. caller \in CallerType /\ err \in Errs
    BY DEF IInv, TypeOK, LoopType, Errs
  <2>2. caller' = IF caller.err # "none" THEN [caller EXCEPT !.pc = "returned"]
                  ELSE [caller EXCEPT !.pc = "collect", !.err = err]
    BY DEF Wait
  <2> HIDE DEF err
  <2>3. /\ caller'.list = caller.list /\ caller'.next = caller.next /\ caller' \in CallerType
        /\ \/ caller'.pc = "returned" /\ caller'.err = caller.err /\ caller.err # "none"
           \/ caller'.pc = "collect" /\ caller.err = "none" /\ caller'.err = err
    BY <2>1, <2>2 DEF CallerType, CallerPcs
  <2>4. QED
    BY <2>3 DEF Wait, err
<1>2. UNCHANGED <<ended, taskChannel, taskClosed, loop, group, resultChannel, resultClosed, panicked>>
  BY DEF Wait, published, tasks
<1>3. TypeOK'
  BY <1>1, <1>2 DEF IInv, TypeOK, group
<1>4. InOrder'
  BY <1>1, <1>2 DEF IInv, InOrder, Task
<1>5. Exits' /\ ~panicked' /\ SuccessMeansAllRan'
  BY <1>1, <1>2 DEF IInv, Exits, SuccessMeansAllRan, Grouped
<1>6. caller'.pc # "returned" => Log' = Log
  BY <1>1, <1>2 DEF Log
<1>7. QED
  BY <1>1, <1>2, <1>3, <1>4, <1>5, <1>6, SameWork DEF IInv

LEMMA CollectKeeps ==
  ASSUME IInv, Collect
  PROVE  IInv'
<1>1. /\ caller.pc = "collect" /\ caller'.pc = "aggregate" /\ caller'.list = caller.list
      /\ caller'.next = caller.next /\ caller'.err = caller.err /\ caller' \in CallerType
      /\ caller'.collected = resultChannel
  <2>1. /\ caller \in CallerType /\ resultChannel \in Seq(ResultType)
        /\ caller' = [caller EXCEPT !.pc = "aggregate", !.collected = resultChannel]
    BY DEF IInv, TypeOK, Collect
  <2>2. QED
    BY <2>1 DEF CallerType, CallerPcs, Collect
<1>2. /\ resultChannel' = <<>>
      /\ UNCHANGED <<ended, taskChannel, taskClosed, loop, group, resultClosed, panicked>>
  BY DEF Collect, tasks
<1>3. TypeOK'
  <2>1. <<>> \in Seq(ResultType) /\ Len(<<>>) <= ResultCap
    BY EmptySeq, PoolAssumption
  <2>2. QED
    BY <1>1, <1>2, <2>1 DEF IInv, TypeOK, group
<1>4. InOrder'
  BY <1>1, <1>2 DEF IInv, InOrder, Task
<1>5. Exits' /\ ~panicked' /\ SuccessMeansAllRan'
  BY <1>1, <1>2 DEF IInv, Exits, SuccessMeansAllRan
<1>6. Log' = Log
  BY <1>1 DEF Log
<1>7. QED
  BY <1>1, <1>2, <1>3, <1>4, <1>5, <1>6, SameWork DEF IInv

LEMMA EndContextKeeps ==
  ASSUME IInv, EndContext
  PROVE  IInv'
<1>1. /\ ended = "none" /\ ended' \in {"canceled", "deadline"} /\ loop.pc # "exited"
      /\ UNCHANGED <<caller, taskChannel, taskClosed, loop, group, resultChannel, resultClosed, panicked>>
  BY DEF EndContext, tasks, published
<1>2. TypeOK'
  BY <1>1 DEF IInv, TypeOK, group
<1>3. InOrder'
  BY <1>1 DEF IInv, InOrder, Task
<1>4. caller.pc # "returned"
  BY <1>1 DEF IInv, Exits
<1>5. Exits' /\ ~panicked' /\ SuccessMeansAllRan'
  BY <1>1, <1>4 DEF IInv, Exits, SuccessMeansAllRan
<1>6. Log' = Log
  BY <1>1 DEF Log
<1>7. QED
  BY <1>1, <1>2, <1>3, <1>4, <1>5, <1>6, SameWork DEF IInv

(* A success that the command reports is one: the results it has collected *)
(* show every failure, and without one the loop has ended by itself.       *)
LEMMA AggregateKeeps ==
  ASSUME IInv, Aggregate
  PROVE  IInv'
<1>1. PICK strategy \in {"all_succeed", "best_effort"} :
        caller' = [caller EXCEPT !.pc = "returned", !.strategy = strategy,
                     !.err = IF /\ @ = "none" /\ strategy = "all_succeed"
                                /\ FailedResults(caller.collected) # {}
                             THEN "failed" ELSE @]
  BY DEF Aggregate
<1>2. /\ caller.pc = "aggregate" /\ caller'.pc = "returned" /\ caller'.list = caller.list
      /\ caller'.next = caller.next /\ caller'.collected = caller.collected
      /\ caller' \in CallerType
      /\ caller'.err = "none" /\ caller'.strategy = "all_succeed" =>
           caller.err = "none" /\ FailedResults(caller.collected) = {}
  <2> DEFINE err == IF /\ caller.err = "none" /\ strategy = "all_succeed"
                       /\ FailedResults(caller.collected) # {}
                    THEN "failed" ELSE caller.err
  <2>1. caller \in CallerType /\ err \in Errs
    BY DEF IInv, TypeOK, CallerType, Errs
  <2>2. caller' = [caller EXCEPT !.pc = "returned", !.strategy = strategy, !.err = err]
    BY <1>1, <2>1 DEF CallerType
  <2>3. err = "none" /\ strategy = "all_succeed" =>
          caller.err = "none" /\ FailedResults(caller.collected) = {}
    OBVIOUS
  <2> HIDE DEF err
  <2>4. QED
    BY <2>1, <2>2, <2>3 DEF CallerType, CallerPcs, Aggregate
<1>3. UNCHANGED <<ended, taskChannel, taskClosed, loop, group, resultChannel, resultClosed, panicked>>
  BY DEF Aggregate, published, tasks
<1>4. TypeOK'
  BY <1>2, <1>3 DEF IInv, TypeOK, group
<1>5. InOrder'
  BY <1>2, <1>3 DEF IInv, InOrder, Task
<1>6. Exits'
  BY <1>2, <1>3 DEF IInv, Exits, Grouped
<1>7. SuccessMeansAllRan'
  <2>1. SUFFICES ASSUME caller'.err = "none", caller'.strategy = "all_succeed"
                 PROVE  /\ \A s \in Subtasks : worker[s].err = "none"
                        /\ ended # "canceled" =>
                             \A s \in SubtasksOf(caller.list) :
                               \E r \in ToSet(caller.collected) : r.subtask = s /\ r.err = "none"
    BY <1>2, <1>3 DEF SuccessMeansAllRan, group
  <2>2. /\ Log = caller.collected /\ caller.err = "none"
        /\ \A i \in DOMAIN Log : Log[i] \in ToSet(caller.collected) /\ Log[i].err = "none"
    BY <1>2, <2>1 DEF Log, FailedResults, ToSet
  <2>3. \A s \in Subtasks : worker[s].err = "none"
    <3>1. SUFFICES ASSUME NEW s \in Subtasks, worker[s].err # "none" PROVE FALSE
      OBVIOUS
    <3>2. loop.pc = "exited"
      BY <1>2 DEF IInv, Exits
    <3>3. worker[s].pc = "gone"
      BY <3>1, <3>2 DEF IInv, Begun, Grouped
    <3>4. PICK i \in DOMAIN Log : Log[i].subtask = s
      BY <1>2, <3>1, <3>3 DEF IInv, Recorded, Logged
    <3>5. Log[i].err = worker[s].err
      BY <1>2, <3>4 DEF IInv, Recorded
    <3>6. QED
      BY <2>2, <3>1, <3>5
  <2>4. ASSUME ended # "canceled", NEW s \in SubtasksOf(caller.list)
        PROVE  \E r \in ToSet(caller.collected) : r.subtask = s /\ r.err = "none"
    <3>1. loop.pc = "exited" /\ loop.err = "none"
      <4>1. loop.pc = "exited" /\ loop.err \in {"none", "canceled"}
        BY <1>2, <2>2 DEF IInv, Exits
      <4>2. loop.err # "canceled"
        BY <2>3, <2>4 DEF IInv, Accounted, SomeFailed
      <4>3. QED
        BY <4>1, <4>2
    <3>2. loop.task = Len(caller.list)
      <4>1. /\ taskChannel = <<>> /\ loop.task + Len(taskChannel) = caller.next - 1
            /\ caller.next = Len(caller.list) + 1
        BY <1>2, <3>1 DEF IInv, Exits, InOrder
      <4>2. loop.task \in Nat /\ Len(caller.list) \in Nat
        BY CurrentFacts DEF IInv, TypeOK, LoopType
      <4>3. Len(taskChannel) = 0
        BY <4>1, EmptySeq
      <4>4. QED
        BY <4>1, <4>2, <4>3
    <3>3. PICK i \in 1 .. Len(caller.list) : s \in Task(i).subtasks
      BY <2>4, ListFacts, CurrentFacts DEF IInv, Task
    <3>4. Logged(s)
      BY <1>2, <3>1, <3>2, <3>3 DEF IInv, Finished, Through
    <3>5. QED
      BY <2>2, <3>4 DEF Logged
  <2>5. QED
    BY <2>3, <2>4
<1>8. QED
  BY <1>2, <1>3, <1>4, <1>5, <1>6, <1>7, SameWork DEF IInv, Exits

-----------------------------------------------------------------------------
(* Steps of the loop.                                                      *)
LEMMA TailFacts ==
  ASSUME NEW S, NEW q \in Seq(S), q # <<>>
  PROVE  /\ Tail(q) \in Seq(S) /\ Len(q) \in Nat \ {0} /\ Len(Tail(q)) = Len(q) - 1
         /\ Head(q) = q[1] /\ Head(q) \in S
         /\ DOMAIN q = 1 .. Len(q) /\ DOMAIN Tail(q) = 1 .. Len(q) - 1
         /\ \A k \in 1 .. Len(q) - 1 : Tail(q)[k] = q[k + 1]
<1>1. /\ Head(q) \in S /\ Tail(q) \in Seq(S) /\ Len(Tail(q)) = Len(q) - 1
      /\ \A k \in 1 .. Len(Tail(q)) : Tail(q)[k] = q[k + 1]
  BY HeadTailProperties
<1>2. Len(q) \in Nat /\ DOMAIN q = 1 .. Len(q) /\ Len(Tail(q)) \in Nat
      /\ DOMAIN Tail(q) = 1 .. Len(Tail(q))
  BY <1>1, LenProperties
<1>3. Head(q) = q[1]
  OBVIOUS
<1>4. QED
  BY <1>1, <1>2, <1>3

LEMMA TailOnce ==
  ASSUME NEW S, NEW q \in Seq(S), q # <<>>
  PROVE  /\ ToSet(q) = ToSet(Tail(q)) \cup {q[1]}
         /\ (\A j, k \in DOMAIN q : q[j] = q[k] => j = k) =>
              /\ q[1] \notin ToSet(Tail(q))
              /\ \A j, k \in DOMAIN Tail(q) : Tail(q)[j] = Tail(q)[k] => j = k
<1>1. /\ Len(q) \in Nat \ {0}
      /\ DOMAIN q = 1 .. Len(q) /\ DOMAIN Tail(q) = 1 .. Len(q) - 1
      /\ \A k \in DOMAIN Tail(q) : Tail(q)[k] = q[k + 1]
  BY TailFacts
<1>2. /\ 1 \in DOMAIN q
      /\ \A k \in DOMAIN Tail(q) : k + 1 \in DOMAIN q /\ k + 1 # 1 /\ k \in Nat
      /\ \A k \in DOMAIN q : k = 1 \/ (k - 1 \in DOMAIN Tail(q) /\ (k - 1) + 1 = k)
      /\ \A j, k \in DOMAIN Tail(q) : j + 1 = k + 1 => j = k
  BY <1>1
<1>3. /\ \A k \in DOMAIN Tail(q) : Tail(q)[k] \in ToSet(q)
      /\ \A k \in DOMAIN q : k = 1 \/ q[k] \in ToSet(Tail(q))
  <2>1. \A k \in DOMAIN Tail(q) : Tail(q)[k] \in ToSet(q)
    BY <1>1, <1>2 DEF ToSet
  <2>2. ASSUME NEW k \in DOMAIN q, k # 1 PROVE q[k] \in ToSet(Tail(q))
    <3>1. k - 1 \in DOMAIN Tail(q) /\ (k - 1) + 1 = k
      BY <1>2, <2>2
    <3>2. Tail(q)[k - 1] = q[k]
      BY <1>1, <3>1
    <3>3. QED
      BY <3>1, <3>2 DEF ToSet
  <2>3. QED
    BY <2>1, <2>2
<1>4. ToSet(q) = ToSet(Tail(q)) \cup {q[1]}
  BY <1>2, <1>3 DEF ToSet
<1>5. ASSUME \A j, k \in DOMAIN q : q[j] = q[k] => j = k
      PROVE  /\ q[1] \notin ToSet(Tail(q))
             /\ \A j, k \in DOMAIN Tail(q) : Tail(q)[j] = Tail(q)[k] => j = k
  <2>1. \A k \in DOMAIN Tail(q) : Tail(q)[k] # q[1]
    BY <1>1, <1>2, <1>5
  <2>2. \A j, k \in DOMAIN Tail(q) : Tail(q)[j] = Tail(q)[k] => j + 1 = k + 1
    BY <1>1, <1>2, <1>5
  <2>3. QED
    BY <1>2, <2>1, <2>2 DEF ToSet
<1>6. QED
  BY <1>4, <1>5

(* The decomposition the loop works on is one of the list, and valid.      *)
LEMMA CurrentTyped ==
  ASSUME IInv, loop.pc \in Grouped
  PROVE  /\ loop.task \in Nat /\ loop.task \in 1 .. Len(caller.list) /\ Valid(Current)
         /\ IsFiniteSet(Current.subtasks) /\ Current.subtasks \subseteq Subtasks
<1>1. /\ loop.task >= 1 /\ loop.task + Len(taskChannel) = caller.next - 1
      /\ caller.next <= Len(caller.list) + 1
      /\ \A i \in 1 .. caller.next - 1 : Valid(Task(i))
  BY DEF IInv, TypeOK, Exits, InOrder
<1>2. /\ loop.task \in Nat /\ caller.next \in Nat /\ Len(taskChannel) \in Nat
      /\ Len(caller.list) \in Nat
  BY CurrentFacts, LenProperties DEF IInv, TypeOK, LoopType, CallerType
<1>3. loop.task \in 1 .. caller.next - 1 /\ loop.task \in 1 .. Len(caller.list)
  BY <1>1, <1>2
<1>4. QED
  BY <1>1, <1>2, <1>3, CurrentFacts DEF Current, IInv

(* The loop is not there any more when the command takes the results.      *)
LEMMA LoopIsThere ==
  ASSUME IInv, loop.pc # "exited"
  PROVE  caller.pc \notin {"collect", "aggregate", "returned"}
BY DEF IInv, Exits

LEMMA LoopEndsKeeps ==
  ASSUME IInv, LoopEnds
  PROVE  IInv'
<1>1. PICK err \in {"none", "canceled", "deadline"} :
        /\ ExitLoop(err)
        /\ err = ended \/ (err = "none" /\ taskClosed /\ taskChannel = <<>>)
        /\ err = "none" => taskClosed /\ taskChannel = <<>>
  BY DEF LoopEnds, IInv, TypeOK
<1>2. /\ loop.pc = "select" /\ loop'.pc = "exited" /\ loop'.err = err /\ loop'.task = loop.task
      /\ loop' \in LoopType /\ resultClosed' = TRUE
  <2>1. loop \in LoopType /\ loop' = [loop EXCEPT !.pc = "exited", !.err = err]
    BY <1>1 DEF IInv, TypeOK, ExitLoop
  <2>2. QED
    BY <1>1, <2>1 DEF LoopType, LoopEnds, ExitLoop, Errs
<1>3. UNCHANGED <<caller, ended, taskChannel, taskClosed, remaining, groupErr, worker, results,
                  resultChannel, panicked>>
  BY <1>1 DEF LoopEnds, ExitLoop, tasks, group
<1>4. /\ \A i : Task(i)' = Task(i)
      /\ Log' = Log
      /\ \A s : Logged(s)' <=> Logged(s)
      /\ SomeFailed' <=> SomeFailed
  BY <1>3 DEF Task, Log, Logged, SomeFailed
<1>5. TypeOK'
  BY <1>2, <1>3 DEF IInv, TypeOK
<1>6. InOrder'
  BY <1>2, <1>3, <1>4 DEF IInv, InOrder
<1>7. Exits' /\ SuccessMeansAllRan'
  BY <1>1, <1>2, <1>3, LoopIsThere DEF IInv, Exits, SuccessMeansAllRan, Grouped
<1>8. Begun' /\ Recorded' /\ Delivered'
  BY <1>2, <1>3, <1>4 DEF IInv, Begun, Recorded, Delivered, Grouped
<1>9. Counted' /\ Ordered'
  BY <1>2, <1>3, <1>4 DEF IInv, Counted, Ordered, Grouped
<1>10. Accounted'
  BY <1>1, <1>2, <1>3, <1>4 DEF IInv, Accounted, Grouped
<1>11. Finished'
  BY <1>2, <1>3, <1>4 DEF IInv, Finished, Through
<1>12. QED
  BY <1>3, <1>5, <1>6, <1>7, <1>8, <1>9, <1>10, <1>11 DEF IInv

LEMMA SeeWorkerDoneKeeps ==
  ASSUME IInv, SeeWorkerDone
  PROVE  IInv'
<1>1. /\ loop.pc = "run" /\ loop'.pc = "abort" /\ loop'.err = loop.err /\ loop'.task = loop.task
      /\ loop'.completed = loop.completed /\ loop' \in LoopType
      /\ ended # "none" \/ groupErr # "none"
  <2>1. loop \in LoopType /\ loop' = [loop EXCEPT !.pc = "abort"]
    BY DEF IInv, TypeOK, SeeWorkerDone
  <2>2. QED
    BY <2>1 DEF LoopType, SeeWorkerDone, WorkerDone
<1>2. UNCHANGED <<caller, ended, taskChannel, taskClosed, remaining, groupErr, worker, results,
                  resultChannel, resultClosed, panicked>>
  BY DEF SeeWorkerDone, tasks, group, published
<1>3. /\ \A i : Task(i)' = Task(i)
      /\ Current' = Current /\ Log' = Log
      /\ \A s : Logged(s)' <=> Logged(s)
      /\ SomeFailed' <=> SomeFailed
  BY <1>1, <1>2 DEF Task, Log, Logged, SomeFailed, Current
<1>4. Taken' = Taken
  BY <1>2, <1>3 DEF Taken
<1>5. TypeOK'
  BY <1>1, <1>2 DEF IInv, TypeOK
<1>6. InOrder'
  BY <1>1, <1>2, <1>3 DEF IInv, InOrder
<1>7. Exits' /\ SuccessMeansAllRan'
  BY <1>1, <1>2, LoopIsThere DEF IInv, Exits, SuccessMeansAllRan, Grouped
<1>8. Begun' /\ Recorded' /\ Delivered'
  BY <1>1, <1>2, <1>3 DEF IInv, Begun, Recorded, Delivered, Grouped
<1>9. Counted' /\ Ordered'
  BY <1>1, <1>2, <1>3, <1>4 DEF IInv, Counted, Ordered, Grouped
<1>10. Accounted'
  BY <1>1, <1>2, <1>3 DEF IInv, Accounted, Grouped
<1>11. Finished'
  BY <1>1, <1>2, <1>3 DEF IInv, Finished, Through
<1>12. QED
  BY <1>2, <1>5, <1>6, <1>7, <1>8, <1>9, <1>10, <1>11 DEF IInv

LEMMA TakeFailureKeeps ==
  ASSUME IInv, TakeFailure
  PROVE  IInv'
<1>1. /\ loop.pc = "run" /\ loop'.pc = "join" /\ loop'.err = loop.err /\ loop'.task = loop.task
      /\ loop'.completed = loop.completed /\ loop' \in LoopType
  <2>1. loop \in LoopType /\ loop' = [loop EXCEPT !.pc = "join"]
    BY DEF IInv, TypeOK, TakeFailure
  <2>2. QED
    BY <2>1 DEF LoopType, TakeFailure
<1>2. UNCHANGED <<caller, ended, taskChannel, taskClosed, remaining, groupErr, worker,
                  resultChannel, resultClosed, panicked>>
  BY DEF TakeFailure, tasks, published
<1>3. /\ \A i : Task(i)' = Task(i)
      /\ Current' = Current /\ Log' = Log
      /\ \A s : Logged(s)' <=> Logged(s)
      /\ SomeFailed' <=> SomeFailed
  BY <1>1, <1>2 DEF Task, Log, Logged, SomeFailed, Current
<1>4. /\ results' \in Seq(Subtasks) /\ results[1] \in Subtasks /\ worker[results[1]].err # "none"
      /\ ToSet(results) = ToSet(results') \cup {results[1]}
      /\ (\A j, k \in DOMAIN results : results[j] = results[k] => j = k) =>
           \A j, k \in DOMAIN results' : results'[j] = results'[k] => j = k
  <2>1. results \in Seq(Subtasks) /\ results # <<>> /\ results' = Tail(results)
    BY DEF IInv, TypeOK, TakeFailure
  <2>2. QED
    BY <2>1, TailFacts, TailOnce DEF TakeFailure
<1>5. \A k \in DOMAIN results' : \E j \in DOMAIN results : results[j] = results'[k]
  BY <1>4 DEF ToSet
<1>6. Taken' = Taken
  BY <1>2, <1>3, <1>4 DEF Taken
<1>7. TypeOK'
  BY <1>1, <1>2, <1>4 DEF IInv, TypeOK
<1>8. InOrder'
  BY <1>1, <1>2, <1>3 DEF IInv, InOrder
<1>9. Exits' /\ SuccessMeansAllRan'
  BY <1>1, <1>2, LoopIsThere DEF IInv, Exits, SuccessMeansAllRan, Grouped
<1>10. Begun' /\ Recorded'
  BY <1>1, <1>2, <1>3 DEF IInv, Begun, Recorded, Grouped
<1>11. Delivered'
  BY <1>1, <1>2, <1>3, <1>4, <1>5 DEF IInv, Delivered, Grouped
<1>12. Counted' /\ Ordered'
  BY <1>1, <1>2, <1>3, <1>6 DEF IInv, Counted, Ordered, Grouped
<1>13. Accounted'
  BY <1>1, <1>2, <1>3, <1>4 DEF IInv, Accounted, Grouped, SomeFailed
<1>14. Finished'
  BY <1>1, <1>2, <1>3 DEF IInv, Finished, Through
<1>15. QED
  BY <1>2, <1>7, <1>8, <1>9, <1>10, <1>11, <1>12, <1>13, <1>14 DEF IInv

(* group.Wait: a decomposition without an error has run to its end.        *)
LEMMA JoinKeeps ==
  ASSUME IInv, Join
  PROVE  IInv'
<1>1. /\ loop.pc \in {"join", "abort"}
      /\ UNCHANGED <<caller, ended, taskChannel, taskClosed, remaining, groupErr, worker, results,
                     resultChannel, panicked>>
  BY DEF Join, ExitLoop, tasks, group, published
<1>2. /\ loop' \in LoopType /\ loop'.task = loop.task
      /\ \/ /\ GroupResult = "none" /\ loop'.pc = "select" /\ loop'.err = loop.err
            /\ resultClosed' = resultClosed
         \/ /\ GroupResult # "none" /\ loop'.pc = "exited" /\ loop'.err = GroupResult
            /\ resultClosed' = TRUE
  <2>1. loop \in LoopType /\ GroupResult \in Errs
    BY DEF IInv, TypeOK, GroupResult, WorkerCtxErr, Errs
  <2>2. \/ GroupResult = "none" /\ loop' = [loop EXCEPT !.pc = "select"] /\ UNCHANGED published
        \/ GroupResult # "none" /\ ExitLoop(GroupResult)
    BY DEF Join
  <2>3. QED
    BY <2>1, <2>2 DEF LoopType, ExitLoop, published
<1>3. \A s \in Subtasks : worker[s].pc \in {"idle", "gone"}
  BY DEF Join, Live
<1>4. /\ \A i : Task(i)' = Task(i)
      /\ Log' = Log
      /\ \A s : Logged(s)' <=> Logged(s)
      /\ SomeFailed' <=> SomeFailed
  BY <1>1 DEF Task, Log, Logged, SomeFailed
<1>5. ASSUME GroupResult = "none"
      PROVE  /\ ~SomeFailed
             /\ \A s \in Current.subtasks :
                  worker[s].pc = "gone" /\ worker[s].err = "none" /\ Logged(s)
  <2>1. groupErr = "none" /\ loop.pc = "join"
    BY <1>1, <1>5 DEF IInv, Accounted, GroupResult, WorkerCtxErr
  <2>2. ~SomeFailed
    BY <1>3, <2>1 DEF IInv, Begun, Accounted, Grouped, SomeFailed
  <2>3. Cardinality(Taken) = Cardinality(Current.subtasks)
    BY <2>1, <2>2 DEF IInv, Accounted, Counted, Grouped
  <2>4. IsFiniteSet(Current.subtasks) /\ Current.subtasks \subseteq Subtasks
    BY <1>1, CurrentTyped DEF Grouped
  <2>5. Taken = Current.subtasks
    <3>1. Taken \in SUBSET Current.subtasks
      BY DEF Taken
    <3>2. QED
      BY <2>3, <2>4, <3>1, FS_Subset
  <2>6. QED
    BY <1>3, <2>2, <2>4, <2>5 DEF Taken
<1>6. TypeOK'
  BY <1>1, <1>2 DEF IInv, TypeOK
<1>7. InOrder'
  BY <1>1, <1>2, <1>4 DEF IInv, InOrder
<1>8. Exits' /\ SuccessMeansAllRan'
  <2>1. caller.pc \notin {"start", "collect", "aggregate", "returned"} /\ ~resultClosed
    BY <1>1 DEF IInv, Exits
  <2>2. QED
    BY <1>1, <1>2, <2>1 DEF IInv, Exits, SuccessMeansAllRan, Grouped
<1>9. Begun' /\ Recorded' /\ Delivered'
  BY <1>1, <1>2, <1>3, <1>4 DEF IInv, Begun, Recorded, Delivered, Grouped
<1>10. Counted' /\ Ordered'
  BY <1>1, <1>2, <1>4 DEF IInv, Counted, Ordered, Grouped
<1>11. Accounted'
  <2>1. GroupResult # "none" => GroupResult = ended \/ SomeFailed
    BY DEF IInv, Accounted, GroupResult, WorkerCtxErr
  <2>2. QED
    BY <1>1, <1>2, <1>4, <1>5, <2>1 DEF IInv, Accounted, Grouped
<1>12. Finished'
  <2>1. SUFFICES ASSUME caller.pc # "returned", NEW i \in 1 .. loop.task, Through(i)',
                        NEW s \in Task(i).subtasks
                 PROVE  worker[s].pc = "gone" /\ worker[s].err = "none" /\ Logged(s)
    BY <1>1, <1>2, <1>4 DEF Finished
  <2>2. CASE i < loop.task
    BY <2>1, <2>2 DEF IInv, Finished, Through
  <2>3. CASE ~(i < loop.task)
    <3>1. GroupResult = "none"
      BY <1>2, <2>1, <2>3 DEF Through
    <3>2. i = loop.task
      BY <2>3 DEF IInv, TypeOK, LoopType
    <3>3. QED
      BY <1>5, <2>1, <3>1, <3>2 DEF Current
  <2>4. QED
    BY <2>2, <2>3
<1>13. QED
  BY <1>1, <1>6, <1>7, <1>8, <1>9, <1>10, <1>11, <1>12 DEF IInv

(* A launch starts goroutines that were idle, and changes no other one.    *)
LEMMA LaunchFacts ==
  ASSUME TypeOK, NEW ready, worker' = Launched(ready)
  PROVE  /\ worker' \in [Subtasks -> WorkerType]
         /\ \A s \in Subtasks :
              \/ worker'[s] = worker[s]
              \/ /\ s \in ready /\ worker[s].pc = "idle"
                 /\ worker'[s].pc = "queued" /\ worker'[s].err = "none"
<1>1. /\ worker \in [Subtasks -> WorkerType]
      /\ [pc |-> "queued", err |-> "none"] \in WorkerType
  BY DEF TypeOK, WorkerType, WorkerPcs, Errs
<1>2. QED
  BY <1>1 DEF Launched

LEMMA LogTyped ==
  ASSUME TypeOK
  PROVE  \A i \in DOMAIN Log : Log[i].subtask \in Subtasks
<1>1. Log \in Seq(ResultType)
  BY DEF TypeOK, CallerType, Log
<1>2. \A i \in DOMAIN Log : Log[i] \in ResultType
  BY <1>1, LenProperties, ElementOfSeq
<1>3. QED
  BY <1>2 DEF ResultType

(* Nobody waits for a subtask that is not of the decomposition.            *)
LEMMA OutsideFacts ==
  ASSUME NEW list \in TaskLists, NEW i \in 1 .. Len(list), Valid(list[i]),
         NEW x, NEW y, y \notin list[i].subtasks
  PROVE  Multiplicity(list[i], x, y) = 0
<1>1. <<x, y>> \notin list[i].deps
  BY ListFacts, TaskAssumption
<1>2. {e \in Directed(list[i]) : e.from = x /\ e.to = y} = {}
  BY DEF Valid, Directed
<1>3. Cardinality({e \in Directed(list[i]) : e.from = x /\ e.to = y}) = 0
  BY <1>2, FS_EmptySet
<1>4. QED
  BY <1>1, <1>3 DEF Multiplicity

LEMMA BeginDecompositionKeeps ==
  ASSUME IInv, BeginDecomposition
  PROVE  IInv'
<1> DEFINE n == Head(taskChannel)
           t == Task(n)
<1>1. /\ loop.pc = "select" /\ loop'.pc = "run" /\ loop'.task = n /\ loop'.completed = 0
      /\ loop'.err = loop.err /\ loop' \in LoopType
      /\ worker' = Launched(Roots(t))
      /\ remaining' = [s \in Subtasks |-> IF s \in t.subtasks THEN DependencyCount(t, s) ELSE 0]
      /\ groupErr' = "none" /\ results' = <<>>
  <2>1. loop \in LoopType /\ n \in Nat
    BY TailFacts DEF IInv, TypeOK, BeginDecomposition
  <2>2. loop' = [loop EXCEPT !.pc = "run", !.task = n, !.completed = 0]
    BY DEF BeginDecomposition
  <2> HIDE DEF n
  <2>3. /\ loop'.pc = "run" /\ loop'.task = n /\ loop'.completed = 0
        /\ loop'.err = loop.err /\ loop' \in LoopType
    BY <2>1, <2>2 DEF LoopType
  <2>4. QED
    BY <2>3 DEF BeginDecomposition, n
<1>2. UNCHANGED <<caller, ended, taskClosed, resultChannel, resultClosed, panicked>>
  BY DEF BeginDecomposition, published
<1>3. /\ taskChannel \in Seq(Nat) /\ taskChannel # <<>> /\ taskChannel' = Tail(taskChannel)
  BY DEF IInv, TypeOK, BeginDecomposition
<1>4. /\ taskChannel' \in Seq(Nat) /\ Len(taskChannel) \in Nat \ {0}
      /\ Len(taskChannel') = Len(taskChannel) - 1
      /\ DOMAIN taskChannel = 1 .. Len(taskChannel)
      /\ DOMAIN taskChannel' = 1 .. Len(taskChannel) - 1
      /\ \A k \in 1 .. Len(taskChannel) - 1 : taskChannel'[k] = taskChannel[k + 1]
      /\ taskChannel[1] = n
  BY <1>3, TailFacts
<1>5. /\ n = loop.task + 1 /\ n \in 1 .. Len(caller.list) /\ Valid(t)
      /\ loop.task \in Nat
  <2>1. /\ loop.task + Len(taskChannel) = caller.next - 1
        /\ \A k \in DOMAIN taskChannel : taskChannel[k] = loop.task + k
        /\ \A i \in 1 .. caller.next - 1 : Valid(Task(i))
        /\ caller.next <= Len(caller.list) + 1
    BY DEF IInv, InOrder, TypeOK
  <2>2. caller.next \in Nat /\ loop.task \in Nat /\ Len(caller.list) \in Nat
    BY CurrentFacts DEF IInv, TypeOK, CallerType, LoopType
  <2>3. 1 \in DOMAIN taskChannel
    BY <1>4
  <2>4. n = loop.task + 1
    BY <1>4, <2>1, <2>3
  <2>5. n \in 1 .. caller.next - 1 /\ n \in 1 .. Len(caller.list)
    <3> HIDE DEF n
    <3>1. Len(taskChannel) \in Nat \ {0}
      BY <1>4
    <3>2. QED
      BY <2>1, <2>2, <2>4, <3>1
  <2>6. QED
    BY <2>1, <2>2, <2>4, <2>5
<1> HIDE DEF n
<1>6. /\ caller.list \in TaskLists /\ IsFiniteSet(t.subtasks) /\ t.subtasks \subseteq Subtasks
      /\ \A i \in 1 .. Len(caller.list) : \A s \in Task(i).subtasks \cap t.subtasks : i = n
      /\ Len(caller.list) \in Nat
  BY <1>5, CurrentFacts DEF IInv
<1>7. /\ \A i : Task(i)' = Task(i)
      /\ Current' = t /\ Log' = Log
      /\ \A s : Logged(s)' <=> Logged(s)
  BY <1>1, <1>2 DEF Task, Log, Logged, Current
<1>8. /\ worker' \in [Subtasks -> WorkerType]
      /\ \A s \in Subtasks :
           \/ worker'[s] = worker[s]
           \/ /\ s \in Roots(t) /\ worker[s].pc = "idle"
              /\ worker'[s].pc = "queued" /\ worker'[s].err = "none"
  BY <1>1, LaunchFacts DEF IInv
<1>9. /\ \A s \in Subtasks : worker[s].pc \in {"idle", "gone"} /\ worker[s].err = "none"
      /\ \A s \in t.subtasks : worker[s].pc = "idle"
  <2>1. \A s \in Subtasks : worker[s].pc \in {"idle", "gone"} /\ worker[s].err = "none"
    BY <1>1 DEF IInv, Begun, Accounted, SomeFailed, Grouped
  <2>2. ASSUME NEW s \in t.subtasks, worker[s].pc # "idle" PROVE FALSE
    <3>1. PICK i \in 1 .. loop.task : s \in Task(i).subtasks
      BY <1>6, <2>2 DEF IInv, Begun
    <3>2. i \in 1 .. Len(caller.list) /\ i # n
      BY <1>5, <1>6, <3>1
    <3>3. QED
      BY <1>6, <2>2, <3>1, <3>2
  <2>3. QED
    BY <2>1, <2>2
<1>10. /\ \A s \in t.subtasks : DependencyCount(t, s) = Cardinality(Pending(t, s, {}))
       /\ \A s \in t.subtasks : DependencyCount(t, s) \in Nat
       /\ \A s \in Roots(t), x \in t.subtasks : ~Before(t, x, s)
       /\ Roots(t) \subseteq t.subtasks
  <2>1. \A s : DependencyCount(t, s) = Cardinality(Pending(t, s, {}))
    <3>1. t.subtasks \ {} = t.subtasks
      OBVIOUS
    <3>2. QED
      BY <3>1 DEF DependencyCount, Pending
  <2>2. \A s : /\ Cardinality(Pending(t, s, {})) \in Nat
               /\ Cardinality(Pending(t, s, {})) = 0 =>
                    \A x \in t.subtasks : ~Before(t, x, s)
    <3>1. t = caller.list[n] /\ n \in 1 .. Len(caller.list) /\ caller.list \in TaskLists
      BY <1>5, <1>6 DEF Task
    <3> HIDE DEF t
    <3>2. \A s : /\ Cardinality(Pending(t, s, {})) \in Nat
                 /\ Cardinality(Pending(t, s, {})) = 0 =>
                      \A x \in t.subtasks : Before(t, x, s) => x \in {}
      <4>1. \A s, taken :
              /\ Cardinality(Pending(caller.list[n], s, taken)) \in Nat
              /\ Cardinality(Pending(caller.list[n], s, taken)) = 0 =>
                   \A x \in caller.list[n].subtasks : Before(caller.list[n], x, s) => x \in taken
        BY <3>1, PendingFacts
      <4>2. QED
        BY <3>1, <4>1
    <3>3. QED
      BY <3>2
  <2>3. QED
    BY <2>1, <2>2 DEF Roots
<1> HIDE DEF t
<1>11. Taken' = {}
  <2>1. Taken' \subseteq {s \in t.subtasks : worker'[s].pc \in {"returning", "gone"}}
    BY <1>7 DEF Taken
  <2>2. QED
    BY <1>6, <1>8, <1>9, <2>1
<1>12. TypeOK'
  <2>1. /\ remaining' \in [Subtasks -> Int] /\ results' \in Seq(Subtasks)
        /\ groupErr' \in Errs
    BY <1>1, <1>10, EmptySeq DEF Errs
  <2>2. Len(taskChannel') <= MaxWorkers
    BY <1>4, PoolAssumption DEF IInv, TypeOK
  <2>3. QED
    BY <1>1, <1>2, <1>4, <1>8, <2>1, <2>2 DEF IInv, TypeOK
<1>13. InOrder'
  <2>1. /\ loop.task + Len(taskChannel) = caller.next - 1
        /\ \A k \in DOMAIN taskChannel : taskChannel[k] = loop.task + k
    BY DEF IInv, InOrder
  <2>2. caller.next \in Nat
    BY DEF IInv, TypeOK, CallerType
  <2>3. n + Len(taskChannel') = caller.next - 1
    BY <1>4, <1>5, <2>1, <2>2
  <2>4. \A k \in DOMAIN taskChannel' : taskChannel'[k] = n + k
    <3>1. SUFFICES ASSUME NEW k \in DOMAIN taskChannel' PROVE taskChannel'[k] = n + k
      OBVIOUS
    <3>2. k + 1 \in DOMAIN taskChannel /\ k \in Nat
      BY <1>4, <3>1
    <3>3. taskChannel'[k] = loop.task + (k + 1)
      BY <1>4, <2>1, <3>1, <3>2
    <3>4. QED
      BY <1>5, <3>2, <3>3
  <2>5. QED
    BY <1>1, <1>2, <1>7, <2>3, <2>4 DEF IInv, InOrder
<1>14. Exits' /\ SuccessMeansAllRan'
  BY <1>1, <1>2, <1>5, LoopIsThere DEF IInv, Exits, SuccessMeansAllRan, Grouped
<1>15. Begun'
  <2>1. SUFFICES ASSUME NEW s \in Subtasks
                 PROVE  /\ worker'[s].pc = "idle" => worker'[s].err = "none"
                        /\ worker'[s].err # "none" =>
                             worker'[s].pc \in {"publishing", "delivering", "returning", "gone"}
                        /\ worker'[s].pc # "idle" => \E i \in 1 .. n : s \in Task(i).subtasks
                        /\ worker'[s].pc \notin {"idle", "gone"} => s \in t.subtasks
    BY <1>1, <1>7 DEF Begun, Grouped
  <2>2. CASE worker'[s] = worker[s]
    <3>1. worker[s].pc # "idle" => \E i \in 1 .. loop.task : s \in Task(i).subtasks
      BY DEF IInv, Begun
    <3>2. \A i \in 1 .. loop.task : i \in 1 .. n
      BY <1>5
    <3>3. QED
      BY <1>9, <2>2, <3>1, <3>2
  <2>3. CASE s \in Roots(t) /\ worker'[s].pc = "queued" /\ worker'[s].err = "none"
    <3>1. n \in 1 .. n /\ s \in Task(n).subtasks
      BY <1>5, <1>10, <2>3 DEF t
    <3>2. QED
      BY <1>10, <2>3, <3>1
  <2>4. QED
    BY <1>8, <2>2, <2>3
<1>16. Recorded'
  <2>1. \A i \in DOMAIN Log : worker'[Log[i].subtask] = worker[Log[i].subtask]
    BY <1>1, <1>8, LogTyped, LoopIsThere DEF IInv, Recorded
  <2>2. \A s \in Subtasks : worker'[s].pc \in {"delivering", "returning", "gone"} =>
          worker'[s] = worker[s]
    BY <1>8
  <2>3. QED
    BY <1>2, <1>7, <2>1, <2>2 DEF IInv, Recorded
<1>17. Delivered'
  BY <1>1, EmptySeq DEF Delivered
<1>18. Counted'
  <2>1. \A s \in Subtasks : remaining'[s] >= 0
    BY <1>1, <1>10
  <2>2. \A s \in t.subtasks : remaining'[s] = Cardinality(Pending(t, s, {}))
    BY <1>1, <1>6, <1>10
  <2>3. QED
    BY <1>1, <1>7, <1>11, <2>1, <2>2, FS_EmptySet DEF Counted
<1>19. Ordered'
  <2>1. SUFFICES ASSUME NEW i \in 1 .. Len(caller.list), NEW s \in Task(i).subtasks,
                        NEW x \in Task(i).subtasks,
                        worker'[s].pc # "idle", Before(Task(i), x, s)
                 PROVE  worker'[x].pc \in {"returning", "gone"} /\ worker'[x].err = "none"
    BY <1>2, <1>7 DEF Ordered
  <2>2. s \in Subtasks /\ x \in Subtasks
    BY <2>1, CurrentFacts DEF IInv
  <2>3. worker'[s] = worker[s]
    <3>1. SUFFICES ASSUME s \in Roots(t) PROVE FALSE
      BY <1>8, <2>2
    <3>2. i = n
      BY <1>6, <1>10, <2>1, <3>1
    <3>3. QED
      BY <1>10, <2>1, <3>1, <3>2 DEF t
  <2>4. worker[x].pc \in {"returning", "gone"} /\ worker[x].err = "none"
    BY <2>1, <2>3 DEF IInv, Ordered
  <2>5. QED
    BY <1>8, <2>2, <2>4
<1>20. Accounted'
  <2>1. ~SomeFailed' /\ \A s \in Subtasks : worker'[s].pc = "gone" => worker'[s] = worker[s]
    BY <1>8, <1>9 DEF SomeFailed
  <2>2. loop.err = "none" \/ loop.err = ended
    BY <1>9 DEF IInv, Accounted, SomeFailed
  <2>3. \A s \in Subtasks : worker[s].pc = "gone" => Logged(s)
    <3>1. SUFFICES ASSUME NEW s \in Subtasks, worker[s].pc = "gone" PROVE Logged(s)
      OBVIOUS
    <3>2. PICK i \in 1 .. loop.task : s \in Task(i).subtasks
      BY <3>1 DEF IInv, Begun
    <3>3. QED
      BY <1>1, <3>2, LoopIsThere DEF IInv, Finished, Through
  <2>4. QED
    BY <1>1, <1>2, <1>7, <1>9, <2>1, <2>2, <2>3 DEF Accounted, Grouped, SomeFailed
<1>21. Finished'
  <2>1. SUFFICES ASSUME NEW i \in 1 .. n, Through(i)', NEW s \in Task(i).subtasks
                 PROVE  worker'[s].pc = "gone" /\ worker'[s].err = "none" /\ Logged(s)
    BY <1>1, <1>2, <1>7 DEF Finished
  <2>2. i < n
    BY <1>1, <2>1 DEF Through
  <2>3. i \in 1 .. loop.task /\ i \in 1 .. Len(caller.list)
    BY <1>5, <2>2
  <2>4. worker[s].pc = "gone" /\ worker[s].err = "none" /\ Logged(s)
    BY <1>1, <2>1, <2>3, LoopIsThere DEF IInv, Finished, Through
  <2>5. s \in Subtasks
    BY <2>1, <2>3, CurrentFacts DEF IInv
  <2>6. QED
    BY <1>8, <2>4, <2>5
<1>22. QED
  BY <1>2, <1>12, <1>13, <1>14, <1>15, <1>16, <1>17, <1>18, <1>19, <1>20, <1>21 DEF IInv

LEMMA TakeResultKeeps ==
  ASSUME IInv, TakeResult
  PROVE  IInv'
<1> DEFINE s == Head(results)
           left == [d \in Subtasks |-> remaining[d] - Multiplicity(Current, s, d)]
           ready == Unblocked(Current, s, left)
<1>1. /\ loop.pc = "run" /\ loop'.pc \in {"run", "join"} /\ loop'.err = loop.err
      /\ loop'.task = loop.task /\ loop'.completed = loop.completed + 1 /\ loop' \in LoopType
      /\ loop'.pc = "join" => loop'.completed = Cardinality(Current.subtasks)
  <2> DEFINE pc == IF loop.completed + 1 = Cardinality(Current.subtasks) THEN "join" ELSE loop.pc
  <2>1. loop \in LoopType /\ loop.completed + 1 \in Nat /\ loop.pc = "run"
    BY DEF IInv, TypeOK, LoopType, TakeResult
  <2>2. /\ pc \in {"run", "join"}
        /\ pc = "join" => loop.completed + 1 = Cardinality(Current.subtasks)
    BY <2>1
  <2>3. loop' = [loop EXCEPT !.completed = loop.completed + 1, !.pc = pc]
    BY <2>1 DEF TakeResult, LoopType
  <2> HIDE DEF pc
  <2>4. QED
    BY <2>1, <2>2, <2>3 DEF LoopType
<1>2. UNCHANGED <<caller, ended, taskChannel, taskClosed, groupErr, resultChannel, resultClosed,
                  panicked>>
  BY DEF TakeResult, tasks, published
<1>3. /\ remaining' = left /\ worker' = Launched(ready) /\ results' = Tail(results)
      /\ results \in Seq(Subtasks) /\ results # <<>> /\ worker[s].err = "none"
  BY DEF TakeResult, IInv, TypeOK
<1>4. /\ results' \in Seq(Subtasks) /\ s \in Subtasks /\ s = results[1] /\ 1 \in DOMAIN results
      /\ ToSet(results) = ToSet(results') \cup {s}
      /\ (\A j, k \in DOMAIN results : results[j] = results[k] => j = k) =>
           /\ s \notin ToSet(results')
           /\ \A j, k \in DOMAIN results' : results'[j] = results'[k] => j = k
  BY <1>3, TailFacts, TailOnce
<1> HIDE DEF s, left, ready
<1>5. /\ s \in Current.subtasks /\ Logged(s) /\ worker[s].pc \in {"returning", "gone"}
      /\ s \notin ToSet(results') /\ s \in ToSet(results)
      /\ \A j, k \in DOMAIN results' : results'[j] = results'[k] => j = k
  BY <1>1, <1>4 DEF IInv, Delivered, Grouped
<1>6. /\ loop.task \in 1 .. Len(caller.list) /\ Valid(Current)
      /\ loop.task \in Nat
  BY <1>1, CurrentTyped DEF Grouped
<1>7. /\ caller.list \in TaskLists /\ Current = caller.list[loop.task]
      /\ IsFiniteSet(Current.subtasks) /\ Current.subtasks \subseteq Subtasks
      /\ \A i \in 1 .. Len(caller.list) : \A o \in Task(i).subtasks \cap Current.subtasks :
           i = loop.task
  BY <1>6, CurrentFacts DEF IInv, Current, Task
<1>8. /\ \A i : Task(i)' = Task(i)
      /\ Current' = Current /\ Log' = Log
      /\ \A o : Logged(o)' <=> Logged(o)
  BY <1>1, <1>2 DEF Task, Log, Logged, Current
<1>9. /\ worker' \in [Subtasks -> WorkerType]
      /\ \A o \in Subtasks :
           \/ worker'[o] = worker[o]
           \/ /\ o \in ready /\ worker[o].pc = "idle"
              /\ worker'[o].pc = "queued" /\ worker'[o].err = "none"
  BY <1>3, LaunchFacts DEF IInv
<1>10. Taken' = Taken \cup {s} /\ s \notin Taken
  <2>1. s \notin Taken
    BY <1>5 DEF Taken
  <2>2. ASSUME NEW o \in Current.subtasks
        PROVE  o \in Taken' <=> o \in Taken \cup {s}
    <3>1. worker[s].err = "none"
      BY <1>3
    <3>2. o \in Subtasks
      BY <1>7
    <3>3. CASE worker'[o] = worker[o]
      BY <1>4, <1>5, <1>8, <3>1, <3>3 DEF Taken
    <3>4. CASE worker[o].pc = "idle" /\ worker'[o].pc = "queued"
      BY <1>5, <1>8, <3>4 DEF Taken
    <3>5. QED
      BY <1>9, <3>2, <3>3, <3>4
  <2>3. Taken \subseteq Current.subtasks /\ Taken' \subseteq Current.subtasks
    BY <1>8 DEF Taken
  <2>4. QED
    BY <1>5, <2>1, <2>2, <2>3
<1>11. /\ \A d \in Current.subtasks :
            /\ left[d] = Cardinality(Pending(Current, d, Taken'))
            /\ left[d] \in Nat
            /\ left[d] = 0 => \A x \in Current.subtasks : Before(Current, x, d) => x \in Taken'
       /\ \A d \in Subtasks \ Current.subtasks : left[d] = remaining[d]
       /\ left \in [Subtasks -> Int]
  <2>1. remaining \in [Subtasks -> Int]
    BY DEF IInv, TypeOK
  <2>2. \A d \in Subtasks : left[d] = remaining[d] - Multiplicity(Current, s, d)
    BY DEF left
  <2>3. \A d : Multiplicity(Current, s, d) \in Int
    <3>1. \A d : Multiplicity(caller.list[loop.task], s, d) \in 0 .. 3
      BY <1>6, <1>7, MultiplicityFacts
    <3>2. QED
      BY <1>7, <3>1
  <2>4. left \in [Subtasks -> Int]
    BY <2>1, <2>3 DEF left
  <2>5. ASSUME NEW d \in Current.subtasks
        PROVE  /\ left[d] = Cardinality(Pending(Current, d, Taken'))
               /\ left[d] \in Nat
               /\ left[d] = 0 => \A x \in Current.subtasks : Before(Current, x, d) => x \in Taken'
    <3>1. remaining[d] = Cardinality(Pending(Current, d, Taken))
      BY <1>1 DEF IInv, Counted, Grouped
    <3>2. Cardinality(Pending(Current, d, Taken'))
            = Cardinality(Pending(Current, d, Taken)) - Multiplicity(Current, s, d)
      <4>1. s \in Current.subtasks \ Taken
        BY <1>5, <1>10
      <4>2. \A x \in caller.list[loop.task].subtasks \ Taken :
              Cardinality(Pending(caller.list[loop.task], d, Taken \cup {x}))
                = Cardinality(Pending(caller.list[loop.task], d, Taken))
                    - Multiplicity(caller.list[loop.task], x, d)
        BY <1>6, <1>7, PendingFacts
      <4>3. QED
        BY <1>7, <1>10, <4>1, <4>2
    <3>3. /\ Cardinality(Pending(Current, d, Taken')) \in Nat
          /\ Cardinality(Pending(Current, d, Taken')) = 0 =>
               \A x \in Current.subtasks : Before(Current, x, d) => x \in Taken'
      BY <1>6, <1>7, PendingFacts
    <3>4. left[d] = Cardinality(Pending(Current, d, Taken'))
      BY <1>7, <2>2, <3>1, <3>2
    <3>5. QED
      BY <3>3, <3>4
  <2>6. ASSUME NEW d \in Subtasks \ Current.subtasks
        PROVE  left[d] = remaining[d]
    <3>1. Multiplicity(Current, s, d) = 0
      BY <1>6, <1>7, <2>6, OutsideFacts
    <3>2. remaining[d] \in Int
      BY <2>1
    <3>3. QED
      BY <2>2, <3>1, <3>2
  <2>7. QED
    BY <2>4, <2>5, <2>6
<1>12. ready \subseteq Current.subtasks /\ \A d \in ready : left[d] = 0
  BY DEF ready, Unblocked
<1>13. TypeOK'
  BY <1>1, <1>2, <1>3, <1>4, <1>9, <1>11 DEF IInv, TypeOK
<1>14. InOrder'
  BY <1>1, <1>2, <1>8 DEF IInv, InOrder
<1>15. Exits' /\ SuccessMeansAllRan'
  BY <1>1, <1>2, LoopIsThere DEF IInv, Exits, SuccessMeansAllRan, Grouped
<1>16. Begun'
  <2>1. SUFFICES ASSUME NEW o \in Subtasks
                 PROVE  /\ worker'[o].pc = "idle" => worker'[o].err = "none"
                        /\ worker'[o].err # "none" =>
                             worker'[o].pc \in {"publishing", "delivering", "returning", "gone"}
                        /\ worker'[o].pc # "idle" => \E i \in 1 .. loop.task : o \in Task(i).subtasks
                        /\ worker'[o].pc \notin {"idle", "gone"} => o \in Current.subtasks
    BY <1>1, <1>8 DEF Begun, Grouped
  <2>2. CASE worker'[o] = worker[o]
    BY <2>2 DEF IInv, Begun
  <2>3. CASE o \in ready /\ worker'[o].pc = "queued" /\ worker'[o].err = "none"
    <3>1. loop.task \in 1 .. loop.task /\ o \in Task(loop.task).subtasks
      BY <1>6, <1>12, <2>3 DEF Current
    <3>2. QED
      BY <1>12, <2>3, <3>1
  <2>4. QED
    BY <1>9, <2>2, <2>3
<1>17. Recorded'
  <2>1. \A i \in DOMAIN Log : worker'[Log[i].subtask] = worker[Log[i].subtask]
    BY <1>1, <1>9, LogTyped, LoopIsThere DEF IInv, Recorded
  <2>2. \A o \in Subtasks : worker'[o].pc \in {"delivering", "returning", "gone"} =>
          worker'[o] = worker[o]
    BY <1>9
  <2>3. QED
    BY <1>2, <1>8, <2>1, <2>2 DEF IInv, Recorded
<1>18. Delivered'
  <2>1. SUFFICES ASSUME NEW k \in DOMAIN results'
                 PROVE  /\ results'[k] \in Current.subtasks /\ Logged(results'[k])
                        /\ worker'[results'[k]].pc \in {"returning", "gone"}
    BY <1>5, <1>8 DEF Delivered
  <2>2. PICK j \in DOMAIN results : results[j] = results'[k]
    BY <1>4 DEF ToSet
  <2>3. /\ results[j] \in Current.subtasks /\ Logged(results[j])
        /\ worker[results[j]].pc \in {"returning", "gone"}
    BY <1>1 DEF IInv, Delivered, Grouped
  <2>4. QED
    BY <1>7, <1>9, <2>2, <2>3
<1>19. Counted'
  <2>1. \A d \in Subtasks : remaining'[d] >= 0
    <3>1. \A d \in Subtasks : remaining[d] >= 0
      BY DEF IInv, Counted
    <3>2. QED
      BY <1>3, <1>11, <3>1
  <2>2. \A d \in Current.subtasks : remaining'[d] = Cardinality(Pending(Current, d, Taken'))
    BY <1>3, <1>11
  <2>3. loop'.completed = Cardinality(Taken')
    <3>1. loop.completed = Cardinality(Taken)
      BY <1>1 DEF IInv, Counted, Grouped
    <3>2. IsFiniteSet(Taken)
      <4>1. Taken \in SUBSET Current.subtasks
        BY DEF Taken
      <4>2. QED
        BY <1>7, <4>1, FS_Subset
    <3>3. Cardinality(Taken') = Cardinality(Taken) + 1
      BY <1>10, <3>2, FS_AddElement
    <3>4. QED
      BY <1>1, <3>1, <3>3
  <2>4. QED
    BY <1>8, <2>1, <2>2, <2>3 DEF Counted
<1>20. Ordered'
  <2>1. SUFFICES ASSUME NEW i \in 1 .. Len(caller.list), NEW o \in Task(i).subtasks,
                        NEW x \in Task(i).subtasks,
                        worker'[o].pc # "idle", Before(Task(i), x, o)
                 PROVE  worker'[x].pc \in {"returning", "gone"} /\ worker'[x].err = "none"
    BY <1>2, <1>8 DEF Ordered
  <2>2. o \in Subtasks /\ x \in Subtasks
    BY <2>1, CurrentFacts DEF IInv
  <2>3. worker[x].pc \in {"returning", "gone"} /\ worker[x].err = "none"
    <3>1. CASE worker'[o] = worker[o]
      BY <2>1, <3>1 DEF IInv, Ordered
    <3>2. CASE o \in ready
      <4>1. i = loop.task
        BY <1>7, <1>12, <2>1, <3>2
      <4>2. x \in Taken'
        BY <1>11, <1>12, <2>1, <3>2, <4>1 DEF Current
      <4>3. CASE x = s
        BY <1>3, <1>5, <4>3
      <4>4. CASE x \in Taken
        BY <4>4 DEF Taken
      <4>5. QED
        BY <1>10, <4>2, <4>3, <4>4
    <3>3. QED
      BY <1>9, <2>2, <3>1, <3>2
  <2>4. QED
    BY <1>9, <2>2, <2>3
<1>21. Accounted'
  <2>1. SomeFailed' <=> SomeFailed
    <3>1. \A o \in Subtasks : worker'[o].err = worker[o].err
      BY <1>9 DEF IInv, Begun
    <3>2. QED
      BY <3>1 DEF SomeFailed
  <2>2. \A o \in Subtasks : worker'[o].pc = "gone" => worker'[o] = worker[o]
    BY <1>9
  <2>3. QED
    BY <1>1, <1>2, <1>8, <2>1, <2>2 DEF IInv, Accounted, Grouped
<1>22. Finished'
  <2>1. SUFFICES ASSUME NEW i \in 1 .. loop.task, i < loop.task, NEW o \in Task(i).subtasks
                 PROVE  worker'[o].pc = "gone" /\ worker'[o].err = "none" /\ Logged(o)
    BY <1>1, <1>2, <1>8 DEF Finished, Through
  <2>2. worker[o].pc = "gone" /\ worker[o].err = "none" /\ Logged(o)
    BY <1>1, <2>1, LoopIsThere DEF IInv, Finished, Through
  <2>3. o \in Subtasks
    BY <1>6, <2>1, CurrentFacts DEF IInv
  <2>4. QED
    BY <1>9, <2>2, <2>3
<1>23. QED
  BY <1>2, <1>13, <1>14, <1>15, <1>16, <1>17, <1>18, <1>19, <1>20, <1>21, <1>22 DEF IInv

-----------------------------------------------------------------------------
(* Steps of a goroutine.                                                   *)
LEMMA FailsFacts ==
  ASSUME TypeOK, NEW s \in Subtasks, NEW e \in Errs, Fails(s, e)
  PROVE  /\ worker' \in [Subtasks -> WorkerType]
         /\ worker'[s].pc = "publishing" /\ worker'[s].err = e
         /\ \A o \in Subtasks \ {s} : worker'[o] = worker[o]
<1>1. /\ worker \in [Subtasks -> WorkerType]
      /\ [pc |-> "publishing", err |-> e] \in WorkerType
  BY DEF TypeOK, WorkerType, WorkerPcs
<1>2. QED
  BY <1>1 DEF Fails

LEMMA StepToFacts ==
  ASSUME TypeOK, NEW s \in Subtasks, NEW p \in WorkerPcs, StepTo(s, p)
  PROVE  /\ worker' \in [Subtasks -> WorkerType]
         /\ worker'[s].pc = p /\ worker'[s].err = worker[s].err
         /\ \A o \in Subtasks \ {s} : worker'[o] = worker[o]
<1>1. worker \in [Subtasks -> WorkerType] /\ worker[s] \in WorkerType
  BY DEF TypeOK
<1>2. worker' = [worker EXCEPT ![s] = [worker[s] EXCEPT !.pc = p]]
  BY <1>1 DEF StepTo
<1>3. /\ [worker[s] EXCEPT !.pc = p] \in WorkerType
      /\ [worker[s] EXCEPT !.pc = p].pc = p
      /\ [worker[s] EXCEPT !.pc = p].err = worker[s].err
  BY <1>1 DEF WorkerType
<1>4. QED
  BY <1>1, <1>2, <1>3

(* A goroutine at work changes neither the order of things nor the past.   *)
LEMMA WorkerStepFrame ==
  ASSUME IInv, NEW s \in Subtasks, WorkerFrame, UNCHANGED resultClosed,
         worker[s].pc \notin {"idle", "gone"}, worker'[s].pc # "idle",
         worker' \in [Subtasks -> WorkerType],
         \A o \in Subtasks \ {s} : worker'[o] = worker[o],
         worker'[s].err # "none" =>
           worker'[s].pc \in {"publishing", "delivering", "returning", "gone"},
         worker[s].pc = "returning" =>
           worker'[s].pc \in {"returning", "gone"} /\ worker'[s].err = worker[s].err
  PROVE  /\ loop.pc \in Grouped /\ s \in Current.subtasks /\ ~resultClosed
         /\ caller.pc \notin {"collect", "aggregate", "returned"}
         /\ \A i : Task(i)' = Task(i)
         /\ Current' = Current
         /\ InOrder' /\ Exits' /\ Begun' /\ Ordered' /\ SuccessMeansAllRan'
         /\ (\A o : Logged(o) => Logged(o)') => Finished'
<1>1. UNCHANGED <<caller, ended, taskChannel, taskClosed, loop, remaining>>
  BY DEF WorkerFrame, tasks
<1>2. loop.pc \in Grouped /\ s \in Current.subtasks
  BY DEF IInv, Begun
<1>3. caller.pc \notin {"collect", "aggregate", "returned"} /\ ~resultClosed
  BY <1>2 DEF IInv, Exits, Grouped
<1>4. (\A i : Task(i)' = Task(i)) /\ Current' = Current
  BY <1>1 DEF Task, Current
<1>5. InOrder' /\ Exits' /\ SuccessMeansAllRan'
  BY <1>1, <1>3, <1>4 DEF IInv, InOrder, Exits, SuccessMeansAllRan
<1>6. Begun'
  <2>1. \A o \in Subtasks :
          /\ worker'[o].pc = "idle" => worker'[o].err = "none"
          /\ worker'[o].err # "none" =>
               worker'[o].pc \in {"publishing", "delivering", "returning", "gone"}
          /\ worker'[o].pc # "idle" => worker[o].pc # "idle"
          /\ worker'[o].pc \notin {"idle", "gone"} => worker[o].pc \notin {"idle", "gone"}
    BY DEF IInv, Begun
  <2>2. QED
    BY <1>1, <1>4, <2>1 DEF IInv, Begun
<1>7. Ordered'
  <2>1. \A o \in Subtasks :
          /\ worker'[o].pc # "idle" => worker[o].pc # "idle"
          /\ worker[o].pc \in {"returning", "gone"} /\ worker[o].err = "none" =>
               worker'[o].pc \in {"returning", "gone"} /\ worker'[o].err = "none"
    OBVIOUS
  <2>2. \A i \in 1 .. Len(caller.list) : Task(i).subtasks \subseteq Subtasks
    BY CurrentFacts DEF IInv
  <2>3. QED
    BY <1>1, <1>4, <2>1, <2>2 DEF IInv, Ordered
<1>8. ASSUME \A o : Logged(o) => Logged(o)'
      PROVE  Finished'
  <2>1. SUFFICES ASSUME NEW i \in 1 .. loop.task, i < loop.task, NEW o \in Task(i).subtasks
                 PROVE  worker'[o].pc = "gone" /\ worker'[o].err = "none" /\ Logged(o)'
    BY <1>1, <1>2, <1>4 DEF Finished, Through, Grouped
  <2>2. worker[o].pc = "gone" /\ worker[o].err = "none" /\ Logged(o)
    BY <1>3, <2>1 DEF IInv, Finished, Through
  <2>3. o \in Subtasks
    <3>1. /\ loop.task + Len(taskChannel) = caller.next - 1
          /\ caller.next <= Len(caller.list) + 1
      BY DEF IInv, TypeOK, InOrder
    <3>2. /\ loop.task \in Nat /\ caller.next \in Nat /\ Len(taskChannel) \in Nat
          /\ Len(caller.list) \in Nat
      BY CurrentFacts, LenProperties DEF IInv, TypeOK, LoopType, CallerType
    <3>3. i \in 1 .. Len(caller.list)
      BY <2>1, <3>1, <3>2
    <3>4. QED
      BY <2>1, <3>3, CurrentFacts DEF IInv
  <2>4. QED
    BY <1>8, <2>2, <2>3
<1>9. QED
  BY <1>2, <1>3, <1>4, <1>5, <1>6, <1>7, <1>8

(* Acquire, Plan, Execute and Verify, up to the publication of a result.   *)
LEMMA MoveKeeps ==
  ASSUME IInv, NEW s \in Subtasks, WorkerFrame, UNCHANGED <<groupErr, results, published>>,
         worker[s].pc \in {"queued", "planning", "executing", "verifying"},
         worker' \in [Subtasks -> WorkerType],
         worker'[s].pc \in {"planning", "executing", "verifying", "publishing"},
         worker'[s].err # "none" => worker'[s].pc = "publishing",
         \A o \in Subtasks \ {s} : worker'[o] = worker[o]
  PROVE  IInv'
<1>1. UNCHANGED <<caller, ended, taskChannel, taskClosed, loop, remaining, resultChannel,
                  resultClosed, panicked>>
  BY DEF WorkerFrame, tasks, published
<1>2. /\ Log' = Log
      /\ \A o : Logged(o)' <=> Logged(o)
      /\ worker[s].err = "none"
  BY <1>1 DEF IInv, Begun, Log, Logged
<1>3. /\ loop.pc \in Grouped /\ s \in Current.subtasks
      /\ caller.pc \notin {"collect", "aggregate", "returned"}
      /\ Current' = Current
      /\ InOrder' /\ Exits' /\ Begun' /\ Ordered' /\ SuccessMeansAllRan' /\ Finished'
  BY <1>1, <1>2, WorkerStepFrame
<1>4. TypeOK'
  BY <1>1 DEF IInv, TypeOK
<1>5. Recorded'
  <2>1. \A i \in DOMAIN Log : worker'[Log[i].subtask] = worker[Log[i].subtask]
    BY <1>3, LogTyped DEF IInv, Recorded
  <2>2. QED
    BY <1>1, <1>2, <2>1 DEF IInv, Recorded
<1>6. Delivered'
  <2>1. \A k \in DOMAIN results : results[k] \in Subtasks
    BY ElementOfSeq, LenProperties DEF IInv, TypeOK
  <2>2. QED
    BY <1>1, <1>2, <1>3, <2>1 DEF IInv, Delivered
<1>7. Counted'
  <2>1. Current.subtasks \subseteq Subtasks
    BY <1>3, CurrentTyped DEF IInv
  <2>2. Taken' = Taken
    BY <1>2, <1>3, <2>1 DEF Taken
  <2>3. QED
    BY <1>1, <1>3, <2>2 DEF IInv, Counted
<1>8. Accounted'
  <2>1. SomeFailed => SomeFailed'
    BY <1>2 DEF SomeFailed
  <2>2. QED
    BY <1>1, <1>2, <1>3, <2>1 DEF IInv, Accounted, Grouped
<1>9. QED
  BY <1>1, <1>3, <1>4, <1>5, <1>6, <1>7, <1>8 DEF IInv

LEMMA WorkKeeps ==
  ASSUME IInv, NEW s \in Subtasks, Acquire(s) \/ Plan(s) \/ Execute(s) \/ Verify(s)
  PROVE  IInv'
<1>1. /\ WorkerFrame /\ UNCHANGED <<groupErr, results, published>>
      /\ worker[s].pc \in {"queued", "planning", "executing", "verifying"}
  BY DEF Acquire, Plan, Execute, Verify
<1>2. \/ \E p \in {"planning", "executing", "verifying", "publishing"} : StepTo(s, p)
      \/ \E e \in Errs : Fails(s, e)
  <2>1. \A e \in Errs : MergedErr(s, e) \in Errs
    BY DEF MergedErr, Errs
  <2>2. "failed" \in Errs /\ "deadline" \in Errs /\ WorkerCtxErr \in Errs
    BY DEF IInv, TypeOK, Errs, WorkerCtxErr
  <2>3. QED
    BY <2>1, <2>2 DEF Acquire, Plan, Execute, Verify
<1>3. worker[s].err = "none"
  BY <1>1 DEF IInv, Begun
<1>4. CASE \E p \in {"planning", "executing", "verifying", "publishing"} : StepTo(s, p)
  <2>1. PICK p \in {"planning", "executing", "verifying", "publishing"} : StepTo(s, p)
    BY <1>4
  <2>2. p \in WorkerPcs
    BY DEF WorkerPcs
  <2>3. QED
    BY <1>1, <1>3, <2>1, <2>2, StepToFacts, MoveKeeps DEF IInv
<1>5. CASE \E e \in Errs : Fails(s, e)
  BY <1>1, <1>5, FailsFacts, MoveKeeps DEF IInv
<1>6. QED
  BY <1>2, <1>4, <1>5

(* A goroutine that gives up leaves no result, but the error of the group. *)
LEMMA GiveUpKeeps ==
  ASSUME IInv, NEW s \in Subtasks, GiveUp(s)
  PROVE  IInv'
<1>1. /\ WorkerFrame
      /\ UNCHANGED <<caller, ended, taskChannel, taskClosed, loop, remaining, results,
                     resultChannel, resultClosed, panicked>>
      /\ worker[s].pc = "queued"
      /\ groupErr' = FirstErr(WorkerCtxErr)
  BY DEF GiveUp, WorkerFrame, tasks, published
<1>2. /\ worker' \in [Subtasks -> WorkerType]
      /\ worker'[s].pc = "gone" /\ worker'[s].err = worker[s].err
      /\ \A o \in Subtasks \ {s} : worker'[o] = worker[o]
  BY StepToFacts DEF IInv, GiveUp, WorkerPcs
<1>3. /\ groupErr' \in Errs /\ groupErr' # "none"
      /\ groupErr # "none" => groupErr' = groupErr
      /\ groupErr = "none" => groupErr' = ended
  BY <1>1 DEF IInv, TypeOK, GiveUp, WorkerDone, WorkerCtxErr, FirstErr, Errs
<1>4. /\ Log' = Log
      /\ \A o : Logged(o)' <=> Logged(o)
      /\ worker[s].err = "none"
  BY <1>1 DEF IInv, Begun, Log, Logged
<1>5. /\ loop.pc \in Grouped /\ s \in Current.subtasks
      /\ caller.pc \notin {"collect", "aggregate", "returned"}
      /\ Current' = Current
      /\ InOrder' /\ Exits' /\ Begun' /\ Ordered' /\ SuccessMeansAllRan' /\ Finished'
  BY <1>1, <1>2, <1>4, WorkerStepFrame
<1>6. TypeOK'
  BY <1>1, <1>2, <1>3 DEF IInv, TypeOK
<1>7. \A i \in DOMAIN Log : Log[i].subtask # s
  BY <1>1, <1>5 DEF IInv, Recorded
<1>8. Recorded'
  <2>1. \A i \in DOMAIN Log : worker'[Log[i].subtask] = worker[Log[i].subtask]
    BY <1>2, <1>7, LogTyped DEF IInv
  <2>2. QED
    BY <1>1, <1>2, <1>4, <2>1 DEF IInv, Recorded
<1>9. Delivered'
  <2>1. \A k \in DOMAIN results : results[k] \in Subtasks
    BY ElementOfSeq, LenProperties DEF IInv, TypeOK
  <2>2. QED
    BY <1>1, <1>2, <1>4, <1>5, <2>1 DEF IInv, Delivered
<1>10. Counted'
  <2>1. Current.subtasks \subseteq Subtasks
    BY <1>5, CurrentTyped
  <2>2. Taken' = Taken
    BY <1>1, <1>2, <1>4, <1>5, <1>7, <2>1 DEF Taken, Logged
  <2>3. QED
    BY <1>1, <1>5, <2>2 DEF IInv, Counted
<1>11. Accounted'
  <2>1. SomeFailed' <=> SomeFailed
    BY <1>2 DEF SomeFailed
  <2>2. QED
    BY <1>1, <1>2, <1>3, <1>4, <1>5, <2>1 DEF IInv, Accounted, Grouped
<1>12. QED
  BY <1>1, <1>5, <1>6, <1>8, <1>9, <1>10, <1>11 DEF IInv

LEMMA PublishKeeps ==
  ASSUME IInv, NEW s \in Subtasks, Publish(s)
  PROVE  IInv'
<1>1. /\ WorkerFrame
      /\ UNCHANGED <<caller, ended, taskChannel, taskClosed, loop, remaining, groupErr, results,
                     resultClosed>>
      /\ worker[s].pc = "publishing"
  BY DEF Publish, WorkerFrame, tasks
<1>2. /\ worker' \in [Subtasks -> WorkerType]
      /\ worker'[s].pc = "delivering" /\ worker'[s].err = worker[s].err
      /\ \A o \in Subtasks \ {s} : worker'[o] = worker[o]
  BY StepToFacts DEF IInv, Publish, WorkerPcs
<1>3. /\ loop.pc \in Grouped /\ s \in Current.subtasks /\ ~resultClosed
      /\ caller.pc \notin {"collect", "aggregate", "returned"}
      /\ Current' = Current
      /\ InOrder' /\ Exits' /\ Begun' /\ Ordered' /\ SuccessMeansAllRan'
      /\ (\A o : Logged(o) => Logged(o)') => Finished'
  BY <1>1, <1>2, WorkerStepFrame
<1>4. /\ panicked' = panicked /\ resultChannel' = Append(resultChannel, Result(s))
      /\ Len(resultChannel) < ResultCap
  BY <1>3 DEF Publish
<1>5. Log = resultChannel /\ Log' = Append(Log, Result(s))
  BY <1>1, <1>3, <1>4 DEF Log
<1>6. /\ Result(s) \in ResultType /\ Result(s).subtask = s /\ Result(s).err = worker[s].err
  BY DEF IInv, TypeOK, WorkerType, Result, ResultType
<1>7. /\ resultChannel' \in Seq(ResultType) /\ Len(resultChannel') = Len(Log) + 1
      /\ Len(Log) \in Nat /\ DOMAIN Log = 1 .. Len(Log) /\ DOMAIN Log' = 1 .. Len(Log) + 1
      /\ \A i \in 1 .. Len(Log) : Log'[i] = Log[i]
      /\ Log'[Len(Log) + 1] = Result(s)
  <2>1. resultChannel \in Seq(ResultType)
    BY DEF IInv, TypeOK
  <2>2. QED
    BY <1>4, <1>5, <1>6, <2>1, AppendProperties, LenProperties
<1>8. /\ DOMAIN Log' = DOMAIN Log \cup {Len(Log) + 1} /\ Len(Log) + 1 \notin DOMAIN Log
      /\ \A i \in DOMAIN Log : Log'[i] = Log[i]
  BY <1>7
<1>9. \A i \in DOMAIN Log : Log[i].subtask \in Subtasks \ {s}
  BY <1>1, <1>3, LogTyped DEF IInv, Recorded
<1>10. \A o : Logged(o)' <=> Logged(o) \/ o = s
  BY <1>6, <1>7, <1>8 DEF Logged
<1>11. TypeOK'
  <2>1. Len(resultChannel') <= ResultCap
    BY <1>4, <1>5, <1>7, PoolAssumption
  <2>2. QED
    BY <1>1, <1>2, <1>4, <1>7, <2>1 DEF IInv, TypeOK
<1>12. Recorded'
  <2>1. \A i \in DOMAIN Log' :
          /\ Log'[i].err = worker'[Log'[i].subtask].err
          /\ worker'[Log'[i].subtask].pc \in {"delivering", "returning", "gone"}
    <3>1. SUFFICES ASSUME NEW i \in DOMAIN Log'
                   PROVE  /\ Log'[i].err = worker'[Log'[i].subtask].err
                          /\ worker'[Log'[i].subtask].pc \in {"delivering", "returning", "gone"}
      OBVIOUS
    <3>2. CASE i \in DOMAIN Log
      BY <1>2, <1>3, <1>8, <1>9, <3>2 DEF IInv, Recorded
    <3>3. CASE i = Len(Log) + 1
      BY <1>2, <1>6, <1>7, <3>3
    <3>4. QED
      BY <1>8, <3>1, <3>2, <3>3
  <2>2. \A i, j \in DOMAIN Log' : Log'[i].subtask = Log'[j].subtask => i = j
    <3>1. \A i \in DOMAIN Log : Log'[i].subtask # s
      BY <1>8, <1>9
    <3>2. Log'[Len(Log) + 1].subtask = s
      BY <1>6, <1>7
    <3>3. \A i, j \in DOMAIN Log : Log'[i].subtask = Log'[j].subtask => i = j
      BY <1>3, <1>8 DEF IInv, Recorded
    <3>4. QED
      BY <1>8, <3>1, <3>2, <3>3
  <2>3. \A o \in Subtasks :
          \/ worker'[o].pc \in {"delivering", "returning"}
          \/ worker'[o].pc = "gone" /\ worker'[o].err # "none"
          => Logged(o)'
    BY <1>2, <1>3, <1>10 DEF IInv, Recorded
  <2>4. QED
    BY <2>1, <2>2, <2>3 DEF Recorded
<1>13. Delivered'
  <2>1. \A k \in DOMAIN results : results[k] \in Subtasks
    BY ElementOfSeq, LenProperties DEF IInv, TypeOK
  <2>2. QED
    BY <1>1, <1>2, <1>3, <1>10, <2>1 DEF IInv, Delivered
<1>14. Counted'
  <2>1. Current.subtasks \subseteq Subtasks
    BY <1>3, CurrentTyped
  <2>2. Taken' = Taken
    BY <1>1, <1>2, <1>3, <1>10, <2>1 DEF Taken
  <2>3. QED
    BY <1>1, <1>3, <2>2 DEF IInv, Counted
<1>15. Accounted'
  <2>1. SomeFailed' <=> SomeFailed
    BY <1>2 DEF SomeFailed
  <2>2. QED
    BY <1>1, <1>2, <1>3, <1>10, <2>1 DEF IInv, Accounted, Grouped
<1>16. QED
  BY <1>3, <1>4, <1>10, <1>11, <1>12, <1>13, <1>14, <1>15 DEF IInv

LEMMA DeliverKeeps ==
  ASSUME IInv, NEW s \in Subtasks, Deliver(s)
  PROVE  IInv'
<1>1. /\ WorkerFrame
      /\ UNCHANGED <<caller, ended, taskChannel, taskClosed, loop, remaining, groupErr,
                     resultChannel, resultClosed, panicked>>
      /\ worker[s].pc = "delivering" /\ results' = Append(results, s)
  BY DEF Deliver, WorkerFrame, tasks, published
<1>2. /\ worker' \in [Subtasks -> WorkerType]
      /\ worker'[s].pc = "returning" /\ worker'[s].err = worker[s].err
      /\ \A o \in Subtasks \ {s} : worker'[o] = worker[o]
  BY StepToFacts DEF IInv, Deliver, WorkerPcs
<1>3. /\ Log' = Log
      /\ \A o : Logged(o)' <=> Logged(o)
  BY <1>1 DEF Log, Logged
<1>4. /\ loop.pc \in Grouped /\ s \in Current.subtasks
      /\ caller.pc \notin {"collect", "aggregate", "returned"}
      /\ Current' = Current
      /\ InOrder' /\ Exits' /\ Begun' /\ Ordered' /\ SuccessMeansAllRan' /\ Finished'
  BY <1>1, <1>2, <1>3, WorkerStepFrame
<1>5. /\ results' \in Seq(Subtasks) /\ Len(results) \in Nat
      /\ DOMAIN results' = DOMAIN results \cup {Len(results) + 1}
      /\ Len(results) + 1 \notin DOMAIN results
      /\ \A k \in DOMAIN results : results'[k] = results[k] /\ results[k] \in Subtasks
      /\ results'[Len(results) + 1] = s
  <2>1. results \in Seq(Subtasks)
    BY DEF IInv, TypeOK
  <2>2. /\ results' \in Seq(Subtasks) /\ Len(results') = Len(results) + 1
        /\ \A k \in 1 .. Len(results) : results'[k] = results[k]
        /\ results'[Len(results) + 1] = s
    BY <1>1, <2>1, AppendProperties
  <2>3. /\ Len(results) \in Nat /\ DOMAIN results = 1 .. Len(results)
        /\ DOMAIN results' = 1 .. Len(results')
        /\ \A k \in 1 .. Len(results) : results[k] \in Subtasks
    BY <2>1, <2>2, LenProperties, ElementOfSeq
  <2>4. QED
    BY <2>2, <2>3
<1>6. \A k \in DOMAIN results : results[k] # s
  BY <1>1, <1>4 DEF IInv, Delivered
<1>7. ToSet(results') = ToSet(results) \cup {s}
  BY <1>5 DEF ToSet
<1>8. Logged(s)
  BY <1>1, <1>4 DEF IInv, Recorded
<1>9. TypeOK'
  BY <1>1, <1>2, <1>5 DEF IInv, TypeOK
<1>10. Recorded'
  <2>1. \A i \in DOMAIN Log : Log[i].subtask \in Subtasks
    BY LogTyped DEF IInv
  <2>2. QED
    BY <1>1, <1>2, <1>3, <1>8, <2>1 DEF IInv, Recorded
<1>11. Delivered'
  <2>1. \A k \in DOMAIN results' :
          /\ results'[k] \in Current.subtasks /\ Logged(results'[k])
          /\ worker'[results'[k]].pc \in {"returning", "gone"}
    BY <1>2, <1>4, <1>5, <1>6, <1>8 DEF IInv, Delivered
  <2>2. \A j, k \in DOMAIN results' : results'[j] = results'[k] => j = k
    BY <1>4, <1>5, <1>6 DEF IInv, Delivered
  <2>3. QED
    BY <1>3, <1>4, <2>1, <2>2 DEF Delivered
<1>12. Counted'
  <2>1. Current.subtasks \subseteq Subtasks
    BY <1>4, CurrentTyped
  <2>2. Taken' = Taken
    BY <1>1, <1>2, <1>3, <1>4, <1>7, <2>1 DEF Taken
  <2>3. QED
    BY <1>1, <1>4, <2>2 DEF IInv, Counted
<1>13. Accounted'
  <2>1. SomeFailed' <=> SomeFailed
    BY <1>2 DEF SomeFailed
  <2>2. QED
    BY <1>1, <1>2, <1>3, <1>4, <2>1 DEF IInv, Accounted, Grouped
<1>14. QED
  BY <1>1, <1>4, <1>9, <1>10, <1>11, <1>12, <1>13 DEF IInv

LEMMA ReturnKeeps ==
  ASSUME IInv, NEW s \in Subtasks, Return(s)
  PROVE  IInv'
<1>1. /\ WorkerFrame
      /\ UNCHANGED <<caller, ended, taskChannel, taskClosed, loop, remaining, results,
                     resultChannel, resultClosed, panicked>>
      /\ worker[s].pc = "returning"
      /\ groupErr' = IF worker[s].err = "none" THEN groupErr ELSE FirstErr(worker[s].err)
  BY DEF Return, WorkerFrame, tasks, published
<1>2. /\ worker' \in [Subtasks -> WorkerType]
      /\ worker'[s].pc = "gone" /\ worker'[s].err = worker[s].err
      /\ \A o \in Subtasks \ {s} : worker'[o] = worker[o]
  BY StepToFacts DEF IInv, Return, WorkerPcs
<1>3. /\ groupErr' \in Errs
      /\ worker[s].err # "none" => groupErr' # "none"
      /\ groupErr # "none" => groupErr' = groupErr
      /\ groupErr = "none" /\ worker[s].err = "none" => groupErr' = "none"
  <2>1. worker[s].err \in Errs /\ groupErr \in Errs
    BY DEF IInv, TypeOK, WorkerType
  <2>2. QED
    BY <1>1, <2>1 DEF FirstErr
<1>4. /\ Log' = Log
      /\ \A o : Logged(o)' <=> Logged(o)
  BY <1>1 DEF Log, Logged
<1>5. /\ loop.pc \in Grouped /\ s \in Current.subtasks
      /\ caller.pc \notin {"collect", "aggregate", "returned"}
      /\ Current' = Current
      /\ InOrder' /\ Exits' /\ Begun' /\ Ordered' /\ SuccessMeansAllRan' /\ Finished'
  BY <1>1, <1>2, <1>4, WorkerStepFrame
<1>6. Logged(s)
  BY <1>1, <1>5 DEF IInv, Recorded
<1>7. TypeOK'
  BY <1>1, <1>2, <1>3 DEF IInv, TypeOK
<1>8. Recorded'
  <2>1. \A i \in DOMAIN Log : Log[i].subtask \in Subtasks
    BY LogTyped DEF IInv
  <2>2. QED
    BY <1>1, <1>2, <1>4, <1>6, <2>1 DEF IInv, Recorded
<1>9. Delivered'
  <2>1. \A k \in DOMAIN results : results[k] \in Subtasks
    BY ElementOfSeq, LenProperties DEF IInv, TypeOK
  <2>2. QED
    BY <1>1, <1>2, <1>4, <1>5, <2>1 DEF IInv, Delivered
<1>10. Counted'
  <2>1. Current.subtasks \subseteq Subtasks
    BY <1>5, CurrentTyped
  <2>2. Taken' = Taken
    BY <1>1, <1>2, <1>4, <1>5, <2>1 DEF Taken
  <2>3. QED
    BY <1>1, <1>5, <2>2 DEF IInv, Counted
<1>11. Accounted'
  <2>1. SomeFailed' <=> SomeFailed
    BY <1>2 DEF SomeFailed
  <2>2. worker[s].err # "none" => SomeFailed
    BY DEF SomeFailed
  <2>3. QED
    BY <1>1, <1>2, <1>3, <1>4, <1>5, <1>6, <2>1, <2>2 DEF IInv, Accounted, Grouped
<1>12. QED
  BY <1>1, <1>5, <1>7, <1>8, <1>9, <1>10, <1>11 DEF IInv

-----------------------------------------------------------------------------
LEMMA NextKeeps == IInv /\ [Next]_vars => IInv'
<1>1. SUFFICES ASSUME IInv, [Next]_vars PROVE IInv'
  OBVIOUS
<1>2. CASE CallerStep
  BY <1>1, <1>2, StartKeeps, SubmitAcceptedKeeps, SubmitFailsKeeps, SubmittedAllKeeps, StopKeeps,
     WaitKeeps, CollectKeeps, AggregateKeeps DEF CallerStep
<1>3. CASE EndContext
  BY <1>1, <1>3, EndContextKeeps
<1>4. CASE LoopStep
  BY <1>1, <1>4, LoopEndsKeeps, BeginDecompositionKeeps, TakeResultKeeps, TakeFailureKeeps,
     SeeWorkerDoneKeeps, JoinKeeps DEF LoopStep
<1>5. CASE \E s \in Subtasks : WorkerStep(s)
  BY <1>1, <1>5, WorkKeeps, GiveUpKeeps, PublishKeeps, DeliverKeeps, ReturnKeeps DEF WorkerStep
<1>6. CASE UNCHANGED vars
  <2>1. UNCHANGED <<caller, ended, taskChannel, taskClosed, loop, remaining, groupErr, worker,
                    results, resultChannel, resultClosed, panicked>>
    BY <1>6 DEF vars, tasks, group, published
  <2>2. /\ Log' = Log
        /\ \A i : Task(i)' = Task(i)
        /\ \A o : Logged(o)' <=> Logged(o)
        /\ Current' = Current
        /\ SomeFailed' <=> SomeFailed
    BY <2>1 DEF Log, Task, Logged, Current, SomeFailed
  <2>3. Taken' = Taken
    BY <2>1, <2>2 DEF Taken
  <2>4. TypeOK' /\ InOrder' /\ Exits' /\ Begun' /\ ~panicked' /\ SuccessMeansAllRan'
    BY <1>1, <2>1, <2>2 DEF IInv, TypeOK, InOrder, Exits, Begun, SuccessMeansAllRan
  <2>5. Recorded' /\ Delivered' /\ Counted' /\ Ordered'
    BY <1>1, <2>1, <2>2, <2>3 DEF IInv, Recorded, Delivered, Counted, Ordered
  <2>6. Accounted' /\ Finished'
    BY <1>1, <2>1, <2>2 DEF IInv, Accounted, Finished, Through
  <2>7. QED
    BY <2>4, <2>5, <2>6 DEF IInv
<1>7. QED
  BY <1>1, <1>2, <1>3, <1>4, <1>5, <1>6 DEF Next

LEMMA Invariance == Spec => []IInv
<1>1. Init => IInv
  BY InitIInv
<1>2. IInv /\ [Next]_vars => IInv'
  BY NextKeeps
<1>3. QED
  BY <1>1, <1>2, PTL DEF Spec

(* However many workers there are and in whatever order they end,          *)
(* executeDecomposition launches a subtask only after all it depends on,   *)
(* and remainingDeps never falls below zero.                               *)
THEOREM DependenciesRunFirst == Spec => []DependenciesFirst
<1>1. IInv => DependenciesFirst
  <2>1. SUFFICES ASSUME IInv, NEW i \in 1 .. Len(caller.list), NEW s \in Task(i).subtasks
                 PROVE  /\ worker[s].pc # "idle" =>
                             \A x \in Task(i).subtasks :
                               Before(Task(i), x, s) =>
                                 worker[x].pc \in {"returning", "gone"} /\ worker[x].err = "none"
                        /\ remaining[s] >= 0
    BY DEF DependenciesFirst
  <2>2. s \in Subtasks
    BY <2>1, CurrentFacts DEF IInv
  <2>3. QED
    BY <2>1, <2>2 DEF IInv, Ordered, Counted
<1>2. QED
  BY <1>1, Invariance, PTL

(* closeResultChannel never runs while a worker could still send, on the   *)
(* error paths of executeDecomposition as little as on the others.         *)
THEOREM NobodySends == Spec => []NobodySendsOnClosed
<1>1. IInv => NobodySendsOnClosed
  BY DEF IInv, Exits, Begun, Grouped, Live, NobodySendsOnClosed
<1>2. QED
  BY <1>1, Invariance, PTL

(* The command collects one result of each worker that ran, and reports    *)
(* success with all_succeed only if no worker failed and, unless the run   *)
(* was cancelled, every subtask of every decomposition has run.            *)
THEOREM OutcomeIsTrue == Spec => []OutcomeIsHonest
<1>1. IInv => OutcomeIsHonest
  <2>1. SUFFICES ASSUME IInv, caller.pc = "aggregate", NEW s \in Subtasks
                 PROVE  LET mine == {i \in DOMAIN caller.collected :
                                       caller.collected[i].subtask = s}
                        IN  /\ \A i, j \in mine : i = j
                            /\ \A i \in mine : caller.collected[i].err = worker[s].err
                            /\ mine = {} => worker[s].err = "none" /\ worker[s].pc \in {"idle", "gone"}
    BY DEF IInv, OutcomeIsHonest, OneResultPerWorker
  <2>2. Log = caller.collected
    BY <2>1 DEF Log
  <2>3. worker[s].pc \in {"idle", "gone"}
    BY <2>1 DEF IInv, Exits, Begun, Grouped
  <2>4. ~Logged(s) => worker[s].err = "none"
    BY <2>1, <2>3 DEF IInv, Recorded, Begun
  <2>5. QED
    BY <2>1, <2>2, <2>3, <2>4 DEF IInv, Recorded, Logged
<1>2. QED
  BY <1>1, Invariance, PTL
=============================================================================
