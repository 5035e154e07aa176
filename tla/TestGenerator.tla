----------------------------- MODULE TestGenerator -----------------------------
(***************************************************************************)
(* TestGenerator (Tema1/skel/tema/tester.py): the parameters of a test,    *)
(* drawn at random or read from a file, and the tasks made from them.      *)
(*                                                                         *)
(* A line of the file is the parameter it sets; a parameter's value is a   *)
(* number or text that int() refuses.  The random choices of a task do not *)
(* depend on those of another, so of the tasks made the model keeps the    *)
(* last one and the nodes that have got one.                               *)
(***************************************************************************)
EXTENDS Integers

CONSTANTS
  None, Text,   (* a parameter not given, and one that is not a number     *)
  FileValues,   (* parameter -> the values a file may give it              *)
  RandomSides,  (* 2 .. 15: nodes on a side of the grid of a random test   *)
  RandomBlocks, (* 3 .. 10: the sizes of its blocks                        *)
  RandomExtra   (* 0 .. 30: its tasks beyond one for each node             *)

Names ==
  {"num_nodes", "num_tasks", "stored_block_size", "test_name", "timeout"}

ASSUME GeneratorAssumption ==
  /\ None # Text
  /\ FileValues \in [Names -> SUBSET ((Nat \cup {Text}) \ {None})]
  /\ RandomSides \subseteq 2 .. 15
  /\ RandomBlocks \subseteq 3 .. 10
  /\ RandomExtra \subseteq 0 .. 30

VARIABLES
  source,   (* "file" or "random"                                          *)
  gen,      (* the step of the generation                                  *)
  params,   (* parameter -> its value so far                               *)
  k,        (* the number of tasks made                                    *)
  task,     (* the last task made                                          *)
  assigned  (* the nodes that have a task                                  *)

genVars == <<source, gen, params, k, task, assigned>>

num_nodes == params["num_nodes"]
num_tasks == params["num_tasks"]
stored_block_size == params["stored_block_size"]

(* int(math.sqrt(m))                                                       *)
IntSqrt(m) == CHOOSE s \in 0 .. m : s * s <= m /\ m < (s + 1) * (s + 1)

mat_dim == IntSqrt(num_nodes) * stored_block_size

(* Nodes on a side of the grid: mat_dim / stored_block_size.               *)
n == IntSqrt(num_nodes)

NoTask == [node |-> <<0, 0>>, start_row |-> 0, start_column |-> 0,
           num_rows |-> 0, num_columns |-> 0]

GenInit ==
  /\ source \in {"file", "random"}
  /\ gen = IF source = "file" THEN "open" ELSE "draw"
  /\ params = [p \in Names |-> None]
  /\ k = 0 /\ task = NoTask /\ assigned = {}

------------------------------------------------------------------------------
(* A file that cannot be opened leaves f unbound, and the handler's        *)
(* f.close() raises.                                                       *)
OpenFile ==
  /\ gen = "open"
  /\ gen' \in {"read", "raised"}
  /\ UNCHANGED <<source, params, k, task, assigned>>

(* A line sets a parameter, again if need be.                              *)
ReadLine ==
  /\ gen = "read"
  /\ \E p \in Names : \E v \in FileValues[p] : params' = [params EXCEPT ![p] = v]
  /\ UNCHANGED <<source, gen, k, task, assigned>>

(* A line that is not of the form name = value, or an error of the disk:   *)
(* os._exit.                                                               *)
ReadFails ==
  /\ gen = "read"
  /\ gen' = "exit"
  /\ UNCHANGED <<source, params, k, task, assigned>>

(* The end of the file: missing parameters, then int() of four of them.    *)
ReadEnd ==
  /\ gen = "read"
  /\ gen' = IF \E p \in Names : params[p] = None THEN "exit"
            ELSE IF \E p \in Names \ {"test_name"} : params[p] = Text
                 THEN "raised" ELSE "generate"
  /\ UNCHANGED <<source, params, k, task, assigned>>

generate_random_test ==
  /\ gen = "draw"
  /\ \E side \in RandomSides, extra \in RandomExtra, block \in RandomBlocks :
       params' = [params EXCEPT !["num_nodes"] = side * side,
                                !["num_tasks"] = side * side + extra,
                                !["stored_block_size"] = block]
  /\ gen' = "generate"
  /\ UNCHANGED <<source, k, task, assigned>>

(* n = mat_dim / stored_block_size                                         *)
generate_test ==
  /\ gen = "generate"
  /\ gen' = IF stored_block_size = 0 THEN "raised" ELSE "tasks"
  /\ UNCHANGED <<source, params, k, task, assigned>>

(* Mutant: the last row and the last column may be asked for, and one more.*)
StartsPastEnd(size) == 0 .. mat_dim - size + 1

(* randrange(0, mat_dim - size), the last row or column left out.          *)
Starts(size) == 0 .. mat_dim - size - 1

(* Mutant: the column is not brought back into the grid.                   *)
NodesForWithoutModulo ==
  IF k < num_nodes THEN {<<k \div n, k>>} ELSE (0 .. n - 1) \X (0 .. n - 1)

(* The first tasks go to the nodes in turn, the others to any.             *)
NodesFor ==
  IF k < num_nodes THEN {<<k \div n, k % n>>} ELSE (0 .. n - 1) \X (0 .. n - 1)

MakeTask ==
  /\ gen = "tasks" /\ k < num_tasks
  /\ \E rows \in 3 .. 4, columns \in 3 .. 4 :
       \/ /\ Starts(rows) = {} \/ Starts(columns) = {}
          /\ gen' = "raised"
          /\ UNCHANGED <<k, task, assigned>>
       \/ \E row \in Starts(rows), column \in Starts(columns) : \E node \in NodesFor :
            /\ task' = [node |-> node, start_row |-> row, start_column |-> column,
                        num_rows |-> rows, num_columns |-> columns]
            /\ assigned' = assigned \cup {node}
            /\ k' = k + 1
            /\ UNCHANGED gen
  /\ UNCHANGED <<source, params>>

TestReady ==
  /\ gen = "tasks" /\ k >= num_tasks
  /\ gen' = "ready"
  /\ UNCHANGED <<source, params, k, task, assigned>>

(* What a file that ends does not keep from going on.                      *)
GenerateOn ==
  \/ OpenFile \/ ReadFails \/ ReadEnd \/ generate_random_test
  \/ generate_test \/ MakeTask \/ TestReady

------------------------------------------------------------------------------
(* The block of every task of a test lies in the matrix, and its node in   *)
(* the grid, as the cluster assumes (ClusterAssumption there); only with a *)
(* number of nodes that is no square do the tasks in turn run past the     *)
(* grid's last row, and even then no block past the matrix                 *)
(* (tester.py:411-429).                                                    *)
TasksFit ==
  k > 0 =>
    /\ task.start_row + task.num_rows <= mat_dim
    /\ task.start_column + task.num_columns <= mat_dim
    /\ \/ task.node \in (0 .. n - 1) \X (0 .. n - 1)
       \/ n * n < num_nodes /\ k > n * n

(* A random test is always made, and "each node has at least one task"     *)
(* (tester.py:421), as has each node of a test from a file that has enough *)
(* tasks and a square number of nodes.                                     *)
EachNodeHasATask ==
  /\ source = "random" => gen # "raised"
  /\ gen = "ready" /\ num_tasks >= num_nodes /\ n * n = num_nodes =>
       assigned = (0 .. n - 1) \X (0 .. n - 1)
==============================================================================
