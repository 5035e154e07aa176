---------------------------- MODULE RunTestProofs ----------------------------
(***************************************************************************)
(* Theorems about TestGenerator and RunTest, for every test file, every    *)
(* range of the random parameters and every number of runs: the tasks made *)
(* are those the cluster is built for, each node gets one, and one result  *)
(* line is written, whichever of the two threads writes it.                *)
(***************************************************************************)
EXTENDS RunTest, WellFoundedInduction, TLAPS

------------------------------------------------------------------------------
(* The generation.                                                         *)

(* The parameters are numbers from the end of the file on; of a random     *)
(* test they are the squares and block sizes it is drawn from.             *)
GenTypes ==
  /\ source \in {"file", "random"}
  /\ gen \in {"open", "read", "draw", "generate", "tasks", "ready", "exit",
              "raised"}
  /\ params \in [Names -> Nat \cup {Text, None}]
  /\ k \in Nat
  /\ gen \in {"generate", "tasks", "ready"} \/ k > 0 =>
       num_nodes \in Nat /\ num_tasks \in Nat /\ stored_block_size \in Nat
  /\ k > 0 => gen \in {"tasks", "ready", "raised"}
  /\ assigned \subseteq Nat \X Nat

RandomDrawn ==
  source = "random" =>
    /\ gen \in {"draw", "generate", "tasks", "ready"}
    /\ gen # "draw" => /\ \E side \in 2 .. 15 : num_nodes = side * side
                       /\ stored_block_size \in 3 .. 10

(* The nodes served in turn so far have a task, none is beside the grid,   *)
(* and the loop over the tasks has not ended early.                        *)
ServedInTurn ==
  /\ gen = "ready" => k >= num_tasks
  /\ k = 0 => assigned = {}
  /\ k > 0 /\ n * n = num_nodes =>
       /\ assigned \subseteq (0 .. n - 1) \X (0 .. n - 1)
       /\ \A m \in 0 .. k - 1 : m < num_nodes => <<m \div n, m % n>> \in assigned

GenInv == GenTypes /\ RandomDrawn /\ ServedInTurn /\ TasksFit

------------------------------------------------------------------------------
(* The two threads.                                                        *)

(* Who holds the lock, and what it knows of finished_output.               *)
LockHeld ==
  /\ lock = "main" <=> main = "write"
  /\ lock = "timer" <=> timer \in {"test", "write"}
  /\ finished_output <=> Len(out_file) = 1
  /\ ~finished_output <=> out_file = <<>>
  /\ main = "write" => ~finished_output
  /\ timer \in {"test", "write"} /\ ~exited => ~finished_output

(* A thread that is over has left the result line to the other, or to      *)
(* nobody if there is to be none.                                          *)
LineOwed ==
  /\ main = "generate" => timer = "off"
  /\ timer = "off" => main \in {"generate", "ended"} /\ ~finished_output
  /\ main = "run" /\ ~exited => ~finished_output
  /\ main = "run" => timer # "ended"
  /\ timer = "ended" => main \in {"lock", "write"} \/ finished_output
  /\ exited => timer = "off" \/ finished_output

SeriesOver ==
  /\ main \in {"lock", "write"} => runs = Times
  /\ timer = "write" /\ label = "Finished" => passed_tests = Times

RunInv == RunTypeOK /\ LockHeld /\ LineOwed /\ SeriesOver /\ FinishedIsFinal
------------------------------------------------------------------------------
(* Integer square roots, from the least number whose successor's square is *)
(* too large.                                                              *)
LEMMA NatLessWellFounded == IsWellFoundedOn({p \in Nat \X Nat : p[1] < p[2]}, Nat)
BY NatLessThanWellFounded, Zenon DEF OpToRel

LEMMA LeastNumber ==
  ASSUME NEW T \in SUBSET Nat, T # {}
  PROVE  \E l \in T : \A m \in T : l <= m
<1> DEFINE Less == {p \in Nat \X Nat : p[1] < p[2]}
<1>1. PICK l \in T : \A m \in T : ~ (<<m, l>> \in Less)
  <2>1. IsWellFoundedOn(Less, Nat)
    BY NatLessWellFounded
  <2> HIDE DEF Less
  <2> QED BY <2>1, WFMin
<1>2. \A m \in T : ~ (m < l)
  BY <1>1
<1> QED BY <1>2

LEMMA Root ==
  ASSUME NEW m \in Nat
  PROVE  /\ IntSqrt(m) \in 0 .. m
         /\ IntSqrt(m) * IntSqrt(m) <= m
         /\ m < (IntSqrt(m) + 1) * (IntSqrt(m) + 1)
<1> DEFINE TooLarge == {s \in Nat : m < (s + 1) * (s + 1)}
<1>1. m \in TooLarge
  OBVIOUS
<1>2. PICK s \in TooLarge : \A l \in TooLarge : s <= l
  BY <1>1, LeastNumber
<1>3. s \in 0 .. m /\ m < (s + 1) * (s + 1)
  BY <1>1, <1>2
<1>4. s * s <= m
  <2>1. CASE s = 0
    BY <2>1
  <2>2. CASE s # 0
    <3>1. s - 1 \in Nat /\ s - 1 \notin TooLarge
      BY <1>2, <1>3, <2>2
    <3>2. ~ (m < ((s - 1) + 1) * ((s - 1) + 1)) /\ (s - 1) + 1 = s
      BY <1>3, <3>1
    <3> QED BY <1>3, <3>2
  <2> QED BY <2>1, <2>2
<1> QED BY <1>3, <1>4 DEF IntSqrt

LEMMA SquaresGrow ==
  ASSUME NEW a \in Nat, NEW b \in Nat, a < b
  PROVE  (a + 1) * (a + 1) <= b * b
<1>1. PICK d \in Nat : b = a + 1 + d
  <2>1. b - (a + 1) \in Nat /\ b = a + 1 + (b - (a + 1))
    OBVIOUS
  <2> QED BY <2>1
<1>2. b * b = (a + 1) * (a + 1) + 2 * d * (a + 1) + d * d
  BY <1>1
<1>3. 2 * d * (a + 1) \in Nat /\ d * d \in Nat
  OBVIOUS
<1> QED BY <1>2, <1>3

LEMMA RootOfSquare ==
  ASSUME NEW side \in Nat
  PROVE  IntSqrt(side * side) = side
<1> DEFINE r == IntSqrt(side * side)
<1>1. r \in Nat /\ r * r <= side * side /\ side * side < (r + 1) * (r + 1)
  BY Root
<1> HIDE DEF r
<1>2. ~ (r < side)
  BY <1>1, SquaresGrow
<1>3. ~ (side < r)
  <2> SUFFICES ASSUME side < r PROVE FALSE
    OBVIOUS
  <2>1. (side + 1) * (side + 1) = side * side + 2 * side + 1
    OBVIOUS
  <2>2. (side + 1) * (side + 1) <= r * r
    BY <1>1, SquaresGrow
  <2> QED BY <1>1, <2>1, <2>2
<1>4. r = side
  BY <1>1, <1>2, <1>3
<1> QED BY <1>4 DEF r

(* Numbering the places of a grid by rows.                                 *)
LEMMA RowAndColumn ==
  ASSUME NEW side \in Nat \ {0}, NEW m \in Nat
  PROVE  /\ m \div side \in Nat /\ m % side \in 0 .. side - 1
         /\ m = side * (m \div side) + (m % side)
         /\ m < side * side => m \div side \in 0 .. side - 1
<1>1. /\ m \div side \in Nat /\ m % side \in 0 .. side - 1
      /\ m = side * (m \div side) + (m % side)
  OBVIOUS
<1>2. ASSUME m < side * side, ~ (m \div side < side) PROVE FALSE
  <2> DEFINE q == m \div side
  <2>1. PICK d \in Nat : q = side + d
    <3>1. q - side \in Nat /\ q = side + (q - side)
      BY <1>1, <1>2
    <3> QED BY <3>1
  <2>2. side * q = side * side + side * d /\ side * d \in Nat
    BY <2>1
  <2> QED BY <1>1, <1>2, <2>2
<1> QED BY <1>1, <1>2

LEMMA PlaceInGrid ==
  ASSUME NEW side \in Nat \ {0}, NEW r \in 0 .. side - 1, NEW c \in 0 .. side - 1
  PROVE  /\ r * side + c \in Nat /\ r * side + c < side * side
         /\ (r * side + c) \div side = r /\ (r * side + c) % side = c
<1>1. r * side \in Nat /\ r * side = side * r
  OBVIOUS
<1>2. side * r + side <= side * side
  <2>1. PICK d \in Nat : side = r + 1 + d
    <3>1. side - (r + 1) \in Nat /\ side = r + 1 + (side - (r + 1))
      OBVIOUS
    <3> QED BY <3>1
  <2>2. side * side = side * r + side + side * d /\ side * d \in Nat
    BY <2>1
  <2> QED BY <2>2
<1> DEFINE m == r * side + c
           q == m \div side
<1>3. m \in Nat /\ m < side * side
  BY <1>1, <1>2
<1>4. q \in Nat /\ m % side \in 0 .. side - 1 /\ m = side * q + (m % side)
  BY <1>3, RowAndColumn
<1> HIDE DEF q
<1>5. ~ (q < r)
  <2> SUFFICES ASSUME q < r PROVE FALSE
    OBVIOUS
  <2>1. PICK d \in Nat : r = q + 1 + d
    <3>1. r - (q + 1) \in Nat /\ r = q + 1 + (r - (q + 1))
      BY <1>4
    <3> QED BY <3>1
  <2>2. side * r = side * q + side + side * d /\ side * d \in Nat
    BY <1>4, <2>1
  <2> QED BY <1>1, <1>4, <2>2
<1>6. ~ (r < q)
  <2> SUFFICES ASSUME r < q PROVE FALSE
    OBVIOUS
  <2>1. PICK d \in Nat : q = r + 1 + d
    <3>1. q - (r + 1) \in Nat /\ q = r + 1 + (q - (r + 1))
      BY <1>4
    <3> QED BY <3>1
  <2>2. side * q = side * r + side + side * d /\ side * d \in Nat
    BY <2>1
  <2> QED BY <1>1, <1>4, <2>2
<1>7. q = r
  BY <1>4, <1>5, <1>6
<1>8. m % side = c
  BY <1>1, <1>4, <1>7
<1> QED BY <1>3, <1>7, <1>8 DEF q

------------------------------------------------------------------------------
(* What the steps of the generation keep.                                  *)
LEMMA GenInvInit == GenInit => GenInv
BY DEF GenInit, GenInv, GenTypes, RandomDrawn, ServedInTurn, TasksFit

LEMMA SideOfGrid ==
  ASSUME num_nodes \in Nat
  PROVE  /\ n \in 0 .. num_nodes
         /\ n * n <= num_nodes /\ num_nodes < (n + 1) * (n + 1)
         /\ n = 0 <=> num_nodes = 0
<1>1. /\ n \in 0 .. num_nodes
      /\ n * n <= num_nodes /\ num_nodes < (n + 1) * (n + 1)
  BY Root DEF n
<1>2. n = 0 => num_nodes < 1
  BY <1>1
<1> QED BY <1>1, <1>2

(* The steps before the tasks: nothing is made yet.                        *)
LEMMA ParametersStep ==
  ASSUME GenInv, k = 0, UNCHANGED <<k, task, assigned>>,
         source' = source, gen' \in {"read", "generate", "tasks", "exit", "raised"},
         params' \in [Names -> Nat \cup {Text, None}],
         gen' \in {"generate", "tasks"} =>
           num_nodes' \in Nat /\ num_tasks' \in Nat /\ stored_block_size' \in Nat,
         RandomDrawn'
  PROVE  GenInv'
<1>1. GenTypes'
  BY DEF GenInv, GenTypes
<1>2. ServedInTurn'
  BY DEF GenInv, ServedInTurn
<1> QED BY <1>1, <1>2 DEF GenInv, GenTypes, TasksFit

LEMMA DrawStep == GenInv /\ generate_random_test => GenInv'
<1> SUFFICES ASSUME GenInv, generate_random_test PROVE GenInv'
  OBVIOUS
<1>1. PICK side \in RandomSides, extra \in RandomExtra, block \in RandomBlocks :
        params' = [params EXCEPT !["num_nodes"] = side * side,
                                 !["num_tasks"] = side * side + extra,
                                 !["stored_block_size"] = block]
  BY DEF generate_random_test
<1>2. side \in 2 .. 15 /\ extra \in 0 .. 30 /\ block \in 3 .. 10
  BY GeneratorAssumption
<1>3. side * side \in Nat /\ side * side + extra \in Nat /\ block \in Nat
  BY <1>2
<1>4. /\ params' \in [Names -> Nat \cup {Text, None}]
      /\ num_nodes' = side * side
      /\ num_tasks' = side * side + extra
      /\ stored_block_size' = block
  BY <1>1, <1>3
  DEF GenInv, GenTypes, Names, num_nodes, num_tasks, stored_block_size
<1>5. k = 0
  BY DEF generate_random_test, GenInv, GenTypes
<1>6. /\ UNCHANGED <<source, k, task, assigned>> /\ gen' = "generate"
  BY DEF generate_random_test
<1>7. RandomDrawn'
  BY <1>2, <1>4, <1>6 DEF RandomDrawn
<1> QED BY <1>3, <1>4, <1>5, <1>6, <1>7, ParametersStep

LEMMA ReadStep ==
  ASSUME GenInv, OpenFile \/ ReadLine \/ ReadFails \/ ReadEnd
  PROVE  GenInv'
<1>1. k = 0 /\ source = "file" /\ source' = source /\ UNCHANGED <<k, task, assigned>>
  BY DEF GenInv, GenTypes, RandomDrawn, OpenFile, ReadLine, ReadFails, ReadEnd
<1>2. RandomDrawn'
  BY <1>1 DEF RandomDrawn
<1>3. CASE OpenFile \/ ReadFails
  <2>1. gen' \in {"read", "exit", "raised"} /\ UNCHANGED params
    BY <1>3 DEF OpenFile, ReadFails
  <2> QED BY <1>1, <1>2, <2>1, ParametersStep DEF GenInv, GenTypes
<1>4. CASE ReadLine
  <2>1. PICK p \in Names : \E v \in FileValues[p] : params' = [params EXCEPT ![p] = v]
    BY <1>4 DEF ReadLine
  <2>2. FileValues[p] \subseteq Nat \cup {Text}
    BY GeneratorAssumption
  <2>3. params' \in [Names -> Nat \cup {Text, None}]
    BY <2>1, <2>2 DEF GenInv, GenTypes
  <2>4. gen' = "read"
    BY <1>4 DEF ReadLine
  <2> QED BY <1>1, <1>2, <2>3, <2>4, ParametersStep
<1>5. CASE ReadEnd
  <2>1. gen' \in {"exit", "raised", "generate"} /\ UNCHANGED params
    BY <1>5 DEF ReadEnd
  <2>2. ASSUME gen' = "generate", NEW p \in Names \ {"test_name"}
        PROVE  params[p] \in Nat
    BY <1>5, <2>2 DEF ReadEnd, GenInv, GenTypes
  <2>3. gen' = "generate" =>
          num_nodes' \in Nat /\ num_tasks' \in Nat /\ stored_block_size' \in Nat
    BY <2>1, <2>2 DEF Names, num_nodes, num_tasks, stored_block_size
  <2> QED BY <1>1, <1>2, <2>1, <2>3, ParametersStep DEF GenInv, GenTypes
<1> QED BY <1>3, <1>4, <1>5

LEMMA GenerateStep == GenInv /\ generate_test => GenInv'
<1> SUFFICES ASSUME GenInv, generate_test PROVE GenInv'
  OBVIOUS
<1>1. /\ k = 0 /\ UNCHANGED <<source, params, k, task, assigned>>
      /\ gen' \in {"raised", "tasks"}
      /\ num_nodes \in Nat /\ num_tasks \in Nat /\ stored_block_size \in Nat
  BY DEF generate_test, GenInv, GenTypes
<1>2. num_nodes' \in Nat /\ num_tasks' \in Nat /\ stored_block_size' \in Nat
  BY <1>1 DEF num_nodes, num_tasks, stored_block_size
<1>3. RandomDrawn'
  <2> SUFFICES ASSUME source = "random"
               PROVE  gen' = "tasks" /\ UNCHANGED <<num_nodes, stored_block_size>>
    BY <1>1 DEF RandomDrawn, GenInv, generate_test
  <2>1. stored_block_size # 0
    BY DEF RandomDrawn, GenInv, generate_test
  <2> QED BY <1>1, <2>1 DEF generate_test, num_nodes, stored_block_size
<1> QED BY <1>1, <1>2, <1>3, ParametersStep DEF GenInv, GenTypes

(* A task of a test in the making.                                         *)
LEMMA TaskStep ==
  ASSUME GenInv, gen = "tasks", k < num_tasks,
         NEW rows \in 3 .. 4, NEW columns \in 3 .. 4,
         NEW row \in Starts(rows), NEW column \in Starts(columns),
         NEW node \in NodesFor,
         task' = [node |-> node, start_row |-> row, start_column |-> column,
                  num_rows |-> rows, num_columns |-> columns],
         assigned' = assigned \cup {node}, k' = k + 1,
         UNCHANGED <<source, gen, params>>
  PROVE  GenInv'
<1>1. /\ num_nodes \in Nat /\ num_tasks \in Nat /\ stored_block_size \in Nat
      /\ k \in Nat
  BY DEF GenInv, GenTypes
<1>2. /\ n \in Nat /\ n * n <= num_nodes /\ mat_dim \in Nat
      /\ n = 0 => mat_dim = 0
  BY <1>1, SideOfGrid DEF mat_dim, n
<1>3. UNCHANGED <<num_nodes, num_tasks, stored_block_size, n, mat_dim>>
  BY DEF num_nodes, num_tasks, stored_block_size, n, mat_dim
<1>4. /\ row \in Nat /\ column \in Nat /\ mat_dim > 0
      /\ row + rows <= mat_dim /\ column + columns <= mat_dim
  BY <1>2 DEF Starts
<1>5. n \in Nat \ {0}
  BY <1>2, <1>4
<1>6. /\ k \div n \in Nat /\ k % n \in 0 .. n - 1
      /\ k < n * n => k \div n \in 0 .. n - 1
  BY <1>1, <1>5, RowAndColumn
<1>7. /\ node \in Nat \X Nat
      /\ k < num_nodes => node = <<k \div n, k % n>>
      /\ k >= num_nodes \/ k < n * n => node \in (0 .. n - 1) \X (0 .. n - 1)
  <2>1. CASE k < num_nodes
    BY <1>1, <1>6, <2>1 DEF NodesFor
  <2>2. CASE k >= num_nodes
    <3>1. node \in (0 .. n - 1) \X (0 .. n - 1)
      BY <1>1, <2>2 DEF NodesFor
    <3> QED BY <1>1, <2>2, <3>1
  <2> QED BY <1>1, <2>1, <2>2
<1>8. GenTypes'
  BY <1>1, <1>3, <1>7 DEF GenInv, GenTypes
<1>9. RandomDrawn'
  BY <1>3 DEF GenInv, RandomDrawn
<1>10. ServedInTurn'
  <2> SUFFICES ASSUME n * n = num_nodes
               PROVE  /\ assigned' \subseteq (0 .. n - 1) \X (0 .. n - 1)
                      /\ \A m \in 0 .. k : m < num_nodes =>
                           <<m \div n, m % n>> \in assigned'
    BY <1>1, <1>3 DEF ServedInTurn
  <2>1. /\ assigned \subseteq (0 .. n - 1) \X (0 .. n - 1)
        /\ \A m \in 0 .. k - 1 : m < num_nodes => <<m \div n, m % n>> \in assigned
    BY <1>1 DEF GenInv, ServedInTurn
  <2>2. node \in (0 .. n - 1) \X (0 .. n - 1)
    BY <1>1, <1>7
  <2>3. ASSUME NEW m \in 0 .. k, m < num_nodes PROVE <<m \div n, m % n>> \in assigned'
    BY <1>1, <1>7, <2>1, <2>3
  <2> QED BY <2>1, <2>2, <2>3
<1>11. TasksFit'
  <2>1. /\ task'.start_row + task'.num_rows <= mat_dim
        /\ task'.start_column + task'.num_columns <= mat_dim
        /\ task'.node = node
    BY <1>4
  <2>2. CASE node \in (0 .. n - 1) \X (0 .. n - 1)
    BY <1>3, <2>1, <2>2 DEF TasksFit
  <2>3. CASE node \notin (0 .. n - 1) \X (0 .. n - 1)
    <3>1. n * n \in Nat /\ k < num_nodes /\ k >= n * n
      BY <1>1, <1>2, <1>7, <2>3
    <3>2. n * n < num_nodes /\ k' > n * n
      BY <1>1, <3>1
    <3> QED BY <1>3, <2>1, <3>2 DEF TasksFit
  <2> QED BY <2>2, <2>3
<1> QED BY <1>8, <1>9, <1>10, <1>11 DEF GenInv

(* A block too small for a task is not that of a random test.              *)
LEMMA MakeTaskStep == GenInv /\ MakeTask => GenInv'
<1> SUFFICES ASSUME GenInv, MakeTask PROVE GenInv'
  OBVIOUS
<1>1. PICK rows \in 3 .. 4, columns \in 3 .. 4 :
        \/ /\ Starts(rows) = {} \/ Starts(columns) = {}
           /\ gen' = "raised"
           /\ UNCHANGED <<k, task, assigned>>
        \/ \E row \in Starts(rows), column \in Starts(columns) : \E node \in NodesFor :
             /\ task' = [node |-> node, start_row |-> row, start_column |-> column,
                         num_rows |-> rows, num_columns |-> columns]
             /\ assigned' = assigned \cup {node}
             /\ k' = k + 1
             /\ UNCHANGED gen
  BY DEF MakeTask
<1>2. CASE \E row \in Starts(rows), column \in Starts(columns) : \E node \in NodesFor :
             /\ task' = [node |-> node, start_row |-> row, start_column |-> column,
                         num_rows |-> rows, num_columns |-> columns]
             /\ assigned' = assigned \cup {node}
             /\ k' = k + 1
             /\ UNCHANGED gen
  BY <1>2, TaskStep DEF MakeTask
<1>3. CASE /\ Starts(rows) = {} \/ Starts(columns) = {}
           /\ gen' = "raised"
           /\ UNCHANGED <<k, task, assigned>>
  <2>1. /\ num_nodes \in Nat /\ num_tasks \in Nat /\ stored_block_size \in Nat
        /\ UNCHANGED <<source, params>>
    BY DEF GenInv, GenTypes, MakeTask
  <2>2. UNCHANGED <<num_nodes, num_tasks, stored_block_size, n, mat_dim>>
    BY <2>1 DEF num_nodes, num_tasks, stored_block_size, n, mat_dim
  <2>3. source # "random"
    <3> SUFFICES ASSUME source = "random" PROVE FALSE
      OBVIOUS
    <3>1. PICK side \in 2 .. 15 : num_nodes = side * side
      BY DEF GenInv, RandomDrawn, MakeTask
    <3>2. n = side
      BY <3>1, RootOfSquare DEF n
    <3>3. mat_dim = side * stored_block_size
      BY <3>2 DEF mat_dim, n
    <3>4. stored_block_size \in 3 .. 10
      BY DEF GenInv, RandomDrawn, MakeTask
    <3>5. mat_dim \in Nat /\ mat_dim >= 6
      <4>1. side * stored_block_size >= 2 * stored_block_size
        BY <3>4
      <4> QED BY <3>3, <3>4, <4>1
    <3>6. 0 \in Starts(rows) /\ 0 \in Starts(columns)
      BY <3>5 DEF Starts
    <3> QED BY <1>3, <3>6
  <2>4. GenTypes'
    BY <1>3, <2>1, <2>2 DEF GenInv, GenTypes
  <2>5. RandomDrawn'
    BY <2>1, <2>3 DEF RandomDrawn
  <2>6. ServedInTurn' /\ TasksFit'
    BY <1>3, <2>2 DEF GenInv, ServedInTurn, TasksFit
  <2> QED BY <2>4, <2>5, <2>6 DEF GenInv
<1> QED BY <1>1, <1>2, <1>3

LEMMA TestReadyStep == GenInv /\ TestReady => GenInv'
<1> SUFFICES ASSUME GenInv, TestReady PROVE GenInv'
  OBVIOUS
<1>1. UNCHANGED <<num_nodes, num_tasks, stored_block_size, n, mat_dim>>
  BY DEF TestReady, num_nodes, num_tasks, stored_block_size, n, mat_dim
<1> QED
  BY <1>1 DEF TestReady, GenInv, GenTypes, RandomDrawn, ServedInTurn, TasksFit

LEMMA GenInvStep == GenInv /\ (GenerateOn \/ ReadLine) => GenInv'
BY ReadStep, DrawStep, GenerateStep, MakeTaskStep, TestReadyStep DEF GenerateOn

LEMMA GenInvKept == GenInv /\ UNCHANGED genVars => GenInv'
<1> SUFFICES ASSUME GenInv, UNCHANGED genVars PROVE GenInv'
  OBVIOUS
<1>1. UNCHANGED <<num_nodes, num_tasks, stored_block_size, n, mat_dim>>
  BY DEF genVars, num_nodes, num_tasks, stored_block_size, n, mat_dim
<1> QED
  BY <1>1 DEF genVars, GenInv, GenTypes, RandomDrawn, ServedInTurn, TasksFit

(* In a test that is ready every place of the grid has got its task.       *)
LEMMA GridServed == GenInv => EachNodeHasATask
<1> SUFFICES ASSUME GenInv PROVE EachNodeHasATask
  OBVIOUS
<1>1. source = "random" => gen # "raised"
  BY DEF GenInv, RandomDrawn
<1>2. ASSUME gen = "ready", num_tasks >= num_nodes, n * n = num_nodes
      PROVE  assigned = (0 .. n - 1) \X (0 .. n - 1)
  <2>1. num_nodes \in Nat /\ num_tasks \in Nat /\ k \in Nat /\ k >= num_nodes
    BY <1>2 DEF GenInv, GenTypes, ServedInTurn
  <2>2. n \in Nat /\ (n = 0 <=> num_nodes = 0)
    BY <2>1, SideOfGrid
  <2>3. CASE k = 0
    BY <2>1, <2>2, <2>3 DEF GenInv, ServedInTurn
  <2>4. CASE k > 0
    <3>1. /\ assigned \subseteq (0 .. n - 1) \X (0 .. n - 1)
          /\ \A m \in 0 .. k - 1 : m < num_nodes => <<m \div n, m % n>> \in assigned
      BY <1>2, <2>4 DEF GenInv, ServedInTurn
    <3>2. ASSUME NEW r \in 0 .. n - 1, NEW c \in 0 .. n - 1
          PROVE  <<r, c>> \in assigned
      <4>1. /\ r * n + c \in Nat /\ r * n + c < n * n
            /\ (r * n + c) \div n = r /\ (r * n + c) % n = c
        BY <2>2, PlaceInGrid
      <4>2. r * n + c \in 0 .. k - 1 /\ r * n + c < num_nodes
        BY <1>2, <2>1, <4>1
      <4> QED BY <3>1, <4>1, <4>2
    <3> QED BY <3>1, <3>2
  <2> QED BY <2>1, <2>3, <2>4
<1> QED BY <1>1, <1>2 DEF EachNodeHasATask

------------------------------------------------------------------------------
(* What the steps of the two threads keep.                                 *)
USE TimesAssumption

LEMMA RunInvInit == RunInit => RunInv
<1> SUFFICES ASSUME RunInit PROVE RunInv
  OBVIOUS
<1>1. out_file \in Seq(Line) /\ Len(out_file) = 0 /\ DOMAIN out_file = {}
  BY DEF RunInit
<1>2. RunTypeOK
  <2>1. gen \in {"open", "draw"}
    BY DEF RunInit, GenInit
  <2>2. /\ main = "generate" /\ timer = "off" /\ label = "Finished" /\ lock = "free"
        /\ runs = 0 /\ passed_tests = 0 /\ k = 0 /\ assigned = {}
    BY DEF RunInit, GenInit
  <2>3. finished_output \in BOOLEAN /\ exited \in BOOLEAN
    BY DEF RunInit
  <2> QED BY <1>1, <2>1, <2>2, <2>3 DEF RunTypeOK
<1>3. LockHeld /\ LineOwed /\ SeriesOver
  BY <1>1 DEF RunInit, LockHeld, LineOwed, SeriesOver
<1> QED BY <1>1, <1>2, <1>3 DEF RunInv, FinishedIsFinal

LEMMA GeneratingStep ==
  ASSUME GenInv', RunInv, UNCHANGED runVars PROVE RunInv'
<1>1. RunTypeOK'
  BY DEF RunInv, RunTypeOK, runVars, GenInv, GenTypes
<1> QED BY <1>1 DEF RunInv, runVars, LockHeld, LineOwed, SeriesOver, FinishedIsFinal

(* Neither a file that is wrong nor an exception leaves a line behind.     *)
LEMMA MainStep ==
  ASSUME RunInv, ~exited, UNCHANGED genVars,
         GenerationFails \/ StartTimer \/ StartTestRaises \/ EndOfRun \/ Cancel
  PROVE  RunInv'
<1> USE DEF RunInv
<1>0. /\ exited' \in BOOLEAN
      /\ exited' => GenerationFails
  <2>1. CASE GenerationFails
    BY <2>1, Zenon DEF GenerationFails
  <2>2. CASE ~GenerationFails
    <3>1. UNCHANGED exited
      BY <2>2 DEF StartTimer, StartTestRaises, EndOfRun, Cancel
    <3> QED BY <3>1 DEF RunTypeOK
  <2> QED BY <2>1, <2>2
<1>1. RunTypeOK'
  BY <1>0 DEF RunTypeOK, genVars, GenerationFails, StartTimer,
              StartTestRaises, EndOfRun, Cancel
<1>2. LockHeld'
  <2>1. UNCHANGED <<lock, finished_output, out_file>> /\ main' # "write" /\ main # "write"
    BY DEF GenerationFails, StartTimer, StartTestRaises, EndOfRun, Cancel
  <2>2. timer' = timer \/ {timer, timer'} \subseteq {"off", "wait", "ended"}
    BY DEF RunTypeOK, LineOwed, GenerationFails, StartTimer, StartTestRaises,
           EndOfRun, Cancel
  <2> QED BY <2>1, <2>2 DEF LockHeld
<1>3. LineOwed'
  BY <1>0 DEF RunTypeOK, LineOwed, LockHeld, GenerationFails, StartTimer,
              StartTestRaises, EndOfRun, Cancel
<1>4. SeriesOver'
  BY DEF RunInv, RunTypeOK, SeriesOver, GenerationFails, StartTimer,
         StartTestRaises, EndOfRun, Cancel
<1>5. FinishedIsFinal'
  BY DEF RunInv, RunTypeOK, FinishedIsFinal, GenerationFails, StartTimer,
         StartTestRaises, EndOfRun, Cancel
<1> QED BY <1>1, <1>2, <1>3, <1>4, <1>5 DEF RunInv

LEMMA TimerStep ==
  ASSUME RunInv, ~exited, UNCHANGED genVars,
         MainLock \/ TimerFire \/ TimerLock \/ TimerTest
  PROVE  RunInv'
<1>1. RunTypeOK'
  BY DEF RunInv, RunTypeOK, genVars, MainLock, TimerFire, TimerLock, TimerTest
<1>2. LockHeld'
  BY DEF RunInv, RunTypeOK, LockHeld, MainLock, TimerFire, TimerLock, TimerTest
<1>3. LineOwed'
  BY DEF RunInv, RunTypeOK, LineOwed, LockHeld, MainLock, TimerFire, TimerLock,
         TimerTest
<1>4. SeriesOver'
  BY DEF RunInv, RunTypeOK, SeriesOver, MainLock, TimerFire, TimerLock, TimerTest
<1>5. FinishedIsFinal'
  BY DEF RunInv, FinishedIsFinal, MainLock, TimerFire, TimerLock, TimerTest
<1> QED BY <1>1, <1>2, <1>3, <1>4, <1>5 DEF RunInv

(* Whoever writes has the lock, and writes the first line.                 *)
LEMMA WriteStep ==
  ASSUME RunInv, ~exited, UNCHANGED genVars, MainWrite \/ TimerWrite
  PROVE  RunInv'
<1>1. out_file = <<>> /\ ~finished_output
  BY DEF RunInv, LockHeld, MainWrite, TimerWrite
<1>2. PICK line \in Line :
        /\ out_file' = <<line>>
        /\ line.label = "Finished" => line.passed = passed_tests /\ runs = Times
  <2>1. passed_tests \in 0 .. Times /\ runs \in 0 .. Times /\ passed_tests <= runs
    BY DEF RunInv, RunTypeOK
  <2>2. CASE MainWrite
    <3>1. [label |-> "Finished", passed |-> passed_tests] \in Line
      BY <2>1 DEF Line
    <3>2. /\ out_file' = <<[label |-> "Finished", passed |-> passed_tests]>>
          /\ runs = Times
      BY <1>1, <2>2 DEF MainWrite, RunInv, SeriesOver
    <3> QED BY <3>1, <3>2
  <2>3. CASE TimerWrite
    <3>1. [label |-> label, passed |-> passed_tests] \in Line
      BY <2>1 DEF Line, RunInv, RunTypeOK
    <3>2. /\ out_file' = <<[label |-> label, passed |-> passed_tests]>>
          /\ label = "Finished" => runs = Times
      BY <1>1, <2>1, <2>3 DEF TimerWrite, RunInv, SeriesOver
    <3> QED BY <3>1, <3>2
  <2> QED BY <2>2, <2>3
<1>3. /\ out_file' \in Seq(Line) /\ Len(out_file') = 1 /\ out_file' # <<>>
      /\ finished_output' = TRUE /\ UNCHANGED <<runs, passed_tests, label>>
  BY <1>2 DEF MainWrite, TimerWrite
<1>4. RunTypeOK'
  BY <1>3 DEF RunInv, RunTypeOK, genVars, MainWrite, TimerWrite
<1>5. LockHeld'
  BY <1>3 DEF RunInv, RunTypeOK, LockHeld, MainWrite, TimerWrite
<1>6. LineOwed'
  BY <1>3 DEF RunInv, RunTypeOK, LineOwed, MainWrite, TimerWrite
<1>7. SeriesOver'
  BY DEF RunInv, SeriesOver, MainWrite, TimerWrite
<1>8. FinishedIsFinal'
  BY <1>2, <1>3 DEF FinishedIsFinal
<1> QED BY <1>4, <1>5, <1>6, <1>7, <1>8 DEF RunInv

LEMMA RunInvStep ==
  GenInv /\ RunInv /\ [RunNext]_<<genVars, runVars>> => GenInv' /\ RunInv'
<1> SUFFICES ASSUME GenInv, RunInv, [RunNext]_<<genVars, runVars>>
             PROVE  GenInv' /\ RunInv'
  OBVIOUS
<1>1. CASE Generating /\ (GenerateOn \/ ReadLine) /\ UNCHANGED runVars
  BY <1>1, GenInvStep, GeneratingStep
<1>2. CASE (MainOn \/ (~exited /\ EndOfRun) \/ TimerThread) /\ UNCHANGED genVars
  BY <1>2, GenInvKept, MainStep, TimerStep, WriteStep DEF MainOn, TimerThread
<1>3. CASE UNCHANGED <<genVars, runVars>>
  BY <1>3, GenInvKept, GeneratingStep
<1> QED BY <1>1, <1>2, <1>3 DEF RunNext

LEMMA RunInvAlways == RunSpec => [](GenInv /\ RunInv)
<1>1. RunInit => GenInv /\ RunInv
  BY RunInvInit, GenInvInit DEF RunInit
<1> QED BY <1>1, RunInvStep, PTL DEF RunSpec

------------------------------------------------------------------------------
(* The generator and the two threads keep to their types.                  *)
THEOREM RunTestTyped == RunSpec => []RunTypeOK
<1>1. RunInv => RunTypeOK
  BY DEF RunInv
<1> QED BY <1>1, RunInvAlways, PTL

(* Every task made lies in the matrix, and with a square number of nodes   *)
(* its node in the grid, whatever a file says and whatever is drawn        *)
(* (tester.py:411-429).                                                    *)
THEOREM TasksAlwaysFit == RunSpec => []TasksFit
<1>1. GenInv => TasksFit
  BY DEF GenInv
<1> QED BY <1>1, RunInvAlways, PTL

(* A random test is always made, and leaves no node without a task; nor    *)
(* does one from a file with tasks enough for a square number of nodes     *)
(* (tester.py:421).                                                        *)
THEOREM EachNodeServed == RunSpec => []EachNodeHasATask
BY GridServed, RunInvAlways, PTL

(* The race for the lock has one winner: one result line once the timer is *)
(* started, in every process that ends (tester.py:66-94, 154, 287).        *)
THEOREM OneResultLine == RunSpec => []OneResult
<1>1. RunInv => OneResult
  <2> SUFFICES ASSUME RunInv PROVE OneResult
    OBVIOUS
  <2>1. Len(out_file) \in {0, 1} /\ (finished_output <=> Len(out_file) = 1)
    BY DEF RunInv, RunTypeOK, LockHeld
  <2>2. Over /\ timer # "off" => finished_output
    BY DEF RunInv, LineOwed, Over
  <2> QED BY <2>1, <2>2 DEF OneResult
<1> QED BY <1>1, RunInvAlways, PTL

(* A Finished line is the outcome of all the runs (tester.py:66-94).       *)
THEOREM FinishedLineFinal == RunSpec => []FinishedIsFinal
<1>1. RunInv => FinishedIsFinal
  BY DEF RunInv
<1> QED BY <1>1, RunInvAlways, PTL
==============================================================================
