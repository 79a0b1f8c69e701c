----------------------------- MODULE Scheduler -----------------------------
(***************************************************************************)
(* The DAGScheduler (internal/orchestration/scheduler.go): a decomposition *)
(* that passed Validate is turned into counts of open dependencies; a      *)
(* client takes batches of ready subtasks with Schedule and reports them   *)
(* with MarkComplete, which trusts it: any known subtask may be reported,  *)
(* one that was never handed out too.                                      *)
(*                                                                         *)
(* A subtask is its position in the decomposition.  The ready queue is     *)
(* kept sorted by position, so it is a set here, and queued[id] means      *)
(* membership.  A definition that stands right before another one and      *)
(* differs from it in one respect is a mistake the properties are tested   *)
(* against.                                                                *)
(***************************************************************************)
EXTENDS Integers, FiniteSets

CONSTANT N       \* number of subtasks
ASSUME NAssumption == N \in Nat \ {0}

Subtasks == 1 .. N

VARIABLES
  deps,            \* the edges, once each, by the subtask they lead to
  dependencyCount,
  ready,           \* readyQueue
  scheduled,
  completed

vars == <<deps, dependencyCount, ready, scheduled, completed>>

-----------------------------------------------------------------------------
(* Validate accepts a graph without cycles: what has a place among numbers *)
(* such that every edge leads upwards.                                     *)
Acyclic(d) ==
  \E place \in [Subtasks -> Subtasks] :
    \A i \in Subtasks : \A j \in d[i] : place[j] < place[i]

Dependents(i) == {j \in Subtasks : i \in deps[j]}

(* NewDAGScheduler and buildGraph.                                         *)
Init ==
  /\ deps \in [Subtasks -> SUBSET Subtasks]
  /\ Acyclic(deps)
  /\ dependencyCount = [i \in Subtasks |-> Cardinality(deps[i])]
  /\ ready = {i \in Subtasks : dependencyCount[i] = 0}
  /\ scheduled = {}
  /\ completed = {}

Schedule ==
  /\ ready # {}
  /\ scheduled' = scheduled \cup ready
  /\ ready' = {}
  /\ UNCHANGED <<deps, dependencyCount, completed>>

MarkCompleteForgetsCompleted(i) ==
  /\ completed' = completed \cup {i}
  /\ dependencyCount' = [j \in Subtasks |->
       IF j \in Dependents(i) \ completed /\ dependencyCount[j] > 0
       THEN dependencyCount[j] - 1 ELSE dependencyCount[j]]
  /\ ready' = ready \cup {j \in Dependents(i) \ (completed \cup scheduled \cup ready) :
                            dependencyCount'[j] = 0}
  /\ UNCHANGED <<deps, scheduled>>

MarkCompleteLosesReady(i) ==
  /\ i \notin completed
  /\ completed' = completed \cup {i}
  /\ dependencyCount' = [j \in Subtasks |->
       IF j \in Dependents(i) \ completed /\ dependencyCount[j] > 0
       THEN dependencyCount[j] - 1 ELSE dependencyCount[j]]
  /\ ready' = {j \in Dependents(i) \ (completed \cup scheduled \cup ready) :
                 dependencyCount'[j] = 0}
  /\ UNCHANGED <<deps, scheduled>>

(* A second report of a subtask is ignored.                                *)
MarkComplete(i) ==
  /\ i \notin completed
  /\ completed' = completed \cup {i}
  /\ dependencyCount' = [j \in Subtasks |->
       IF j \in Dependents(i) \ completed /\ dependencyCount[j] > 0
       THEN dependencyCount[j] - 1 ELSE dependencyCount[j]]
  /\ ready' = ready \cup {j \in Dependents(i) \ (completed \cup scheduled \cup ready) :
                            dependencyCount'[j] = 0}
  /\ UNCHANGED <<deps, scheduled>>

-----------------------------------------------------------------------------
(* TopologicalSort starts from the counts as they are: those of a          *)
(* scheduler in use are too low.  turns[n] is the state after n turns: the *)
(* place of each subtask taken and the counts that remain.  The queue is   *)
(* sorted by position at every turn, so the first one is taken.            *)
First(S) == CHOOSE i \in S : \A j \in S : i <= j

TakeEarly(i, s) ==
  [taken |-> s.taken \cup {i},
   order |-> [s.order EXCEPT ![i] = Cardinality(s.taken) + 1],
   queue |-> (s.queue \ {i}) \cup (Dependents(i) \ s.taken),
   remaining |-> s.remaining]

Take(i, s) ==
  [taken |-> s.taken \cup {i},
   order |-> [s.order EXCEPT ![i] = Cardinality(s.taken) + 1],
   queue |-> (s.queue \ {i}) \cup {j \in Dependents(i) : s.remaining[j] = 1},
   remaining |-> [j \in Subtasks |-> s.remaining[j] - IF i \in deps[j] THEN 1 ELSE 0]]

SortStart ==
  [taken |-> {}, order |-> [i \in Subtasks |-> 0],
   queue |-> {i \in Subtasks : dependencyCount[i] = 0}, remaining |-> dependencyCount]

Turn(s) == IF s.queue = {} THEN s ELSE Take(First(s.queue), s)

turns[n \in 0 .. N] == IF n = 0 THEN SortStart ELSE Turn(turns[n - 1])

Sort == turns[N]

-----------------------------------------------------------------------------
Next == Schedule \/ (\E i \in Subtasks : MarkComplete(i))

Spec == Init /\ [][Next]_vars

(* A client that takes what is ready and reports what it was handed.       *)
Fairness ==
  /\ WF_vars(Schedule)
  /\ \A i \in Subtasks : WF_vars(i \in scheduled /\ MarkComplete(i))

FairSpec == Spec /\ Fairness

-----------------------------------------------------------------------------
(* The count of a subtask that is still open is the number of its          *)
(* dependencies that are open: it cannot reach 0 early, or pass it.        *)
CountsAreExact ==
  \A i \in Subtasks \ completed :
    dependencyCount[i] = Cardinality(deps[i] \ completed)

(* Schedule hands out each subtask once, and after its dependencies, even  *)
(* if the client reports subtasks out of order (SubtaskOrder).             *)
Order == INSTANCE SubtaskOrder WITH started <- scheduled
KeepsOrder == Order!Spec

(* With a client that reports what it is handed, no subtask is forgotten.  *)
NobodyForgotten == <>(scheduled \cup completed = Subtasks)

(* TopologicalSort of a fresh scheduler places every subtask once, after   *)
(* its dependencies, and among those possible takes the one listed first.  *)
SortIsLegal ==
  completed = {} =>
    LET order == Sort.order IN
    /\ {order[i] : i \in Subtasks} = Subtasks
    /\ \A i \in Subtasks : \A j \in deps[i] : order[j] < order[i]
    /\ \A i, j \in Subtasks :
         (i < j /\ order[j] < order[i]) => \E k \in deps[i] : order[k] >= order[j]
=============================================================================
