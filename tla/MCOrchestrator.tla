--------------------------- MODULE MCOrchestrator ---------------------------
(* Small instances of Orchestrator for TLC.                                *)
EXTENDS Orchestrator

Edge(x, y, kind) == [from |-> x, to |-> y, type |-> kind]

(* Three callbacks for two slots; a join, with an edge of each type and a  *)
(* dependency that is both listed and drawn; a chain.                      *)
Wide == [subtasks |-> {"p", "q", "r"}, deps |-> {},
         dag |-> {Edge("p", "q", "parallel-with")}]
Joined == [subtasks |-> {"a", "b", "c"}, deps |-> {<<"a", "c">>},
           dag |-> {Edge("a", "c", "depends-on"), Edge("b", "c", "sequential")}]
Chain == [subtasks |-> {"a", "b", "c"}, deps |-> {<<"a", "b">>},
          dag |-> {Edge("b", "c", "sequential")}]
Single == [subtasks |-> {"d"}, deps |-> {}, dag |-> {}]
(* Closed only by the list and the DAG together.                           *)
Cyclic == [subtasks |-> {"d", "e"}, deps |-> {<<"d", "e">>},
           dag |-> {Edge("e", "d", "sequential")}]

MCTaskLists == {<<Wide>>, <<Joined, Single>>, <<Chain, Cyclic>>}
MCAgents == {"a", "c", "d"}
=============================================================================
