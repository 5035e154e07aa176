------------------------------- MODULE Cluster -------------------------------
(***************************************************************************)
(* One test of the cluster simulation: Tester.start_test builds the nodes, *)
(* starts one thread per task, joins them, shuts the nodes down and judges *)
(* the test (Tema1/skel/tema/tester.py); a node multiplies its block with  *)
(* elements it requests from every node's bounded queue, and one wait      *)
(* thread per node answers them from the node's datastore                  *)
(* (Tema1/skel/tema/node.py).                                              *)
(*                                                                         *)
(* Matrix elements are symbolic: the element of matrix sel at row i and    *)
(* column j is the triple <<sel, i, j>>, so a block is right when every    *)
(* factor it is computed from is the element its place calls for.          *)
(***************************************************************************)
EXTENDS DataStore, Integers, Sequences

CONSTANTS
  Main,       (* the thread that runs start_test                           *)
  Tasks,      (* the tasks; a task is also the thread that runs it         *)
  GridSize,   (* n: rows, and columns, of the grid of nodes                *)
  BlockSize,  (* block_size: rows, and columns, stored by one node         *)
  TaskSpec    (* task -> the block it computes and the node it is sent to  *)

MatrixSize == GridSize * BlockSize

Index == 0 .. MatrixSize - 1

ASSUME ClusterAssumption ==
  /\ GridSize \in Nat \ {0}
  /\ BlockSize \in Nat \ {0}
  /\ Nodes = 0 .. GridSize * GridSize - 1
  /\ Threads = Nodes \cup Tasks \cup {Main}
  /\ Nodes \cap Tasks = {} /\ Main \notin Nodes \cup Tasks
  /\ IsFiniteSet(Tasks)
  /\ TaskSpec \in [Tasks -> [node : Nodes, start_row : Nat, start_column : Nat,
                             num_rows : Nat \ {0}, num_columns : Nat \ {0}]]
  /\ \A t \in Tasks :
       /\ TaskSpec[t].start_row + TaskSpec[t].num_rows <= MatrixSize
       /\ TaskSpec[t].start_column + TaskSpec[t].num_columns <= MatrixSize

VARIABLES
  main,              (* the step of start_test, and the node it is at      *)
  nodes_mat,         (* the nodes that set_nodes has told of the others    *)
  task_pc,           (* a task's thread: not started, running or ended     *)
  sent,              (* how many requests a task has sent                  *)
  num_requests,      (* how many responses a task still waits for          *)
  receive_queue,     (* the queue of responses to a task                   *)
  mat,               (* a task's mat_a and mat_b; None: not filled in      *)
  wait_pc,           (* the step of a node's wait thread                   *)
  request,           (* the request it is processing, or None              *)
  data_store_queue,  (* a node's bounded queue of requests, then None      *)
  num_correct,       (* num_correct_results                                *)
  verdict            (* how the test ended                                 *)

mainVars == <<main, nodes_mat, num_correct, verdict>>
taskVars == <<task_pc, sent, num_requests, mat>>
waitVars == <<wait_pc, request>>
queueVars == <<receive_queue, data_store_queue>>
vars == <<storeVars, mainVars, taskVars, waitVars, queueVars>>

------------------------------------------------------------------------------
(* Where the data are.                                                     *)

Selectors == {"A", "B"}
Elements == Selectors \X Index \X Index

(* nodes_mat[i][j]: the nodes are created, and numbered, row by row.       *)
NodeAt(i, j) == i * GridSize + j
NodeRow(n) == n \div GridSize
NodeColumn(n) == n % GridSize

(* Row r, column c of the block the tester cut out for node n.             *)
Stored(n, sel, r, c) ==
  <<sel, NodeRow(n) * BlockSize + r, NodeColumn(n) * BlockSize + c>>

------------------------------------------------------------------------------
(* The requests of a task, in the order of compute_matrix_block's loops.   *)

Request == [task : Tasks, selector : Selectors,
            node_identifier : (0 .. BlockSize - 1) \X (0 .. BlockSize - 1),
            matrix_identifier : Index \X Index]

Response == [selector : Selectors, matrix_identifier : Index \X Index,
             result : Elements \cup {None}]

ASSUME NoneAssumption == None \notin Request \cup Elements

RequestsPerStep(t) == TaskSpec[t].num_rows + TaskSpec[t].num_columns
NumRequests(t) == MatrixSize * RequestsPerStep(t)

(* The element the s-th request asks for: for each k first the elements of *)
(* A in the block's rows, then those of B in its columns.                  *)
Wanted(t, s) ==
  LET k == s \div RequestsPerStep(t)
      r == s % RequestsPerStep(t)
  IN  IF r < TaskSpec[t].num_rows
      THEN <<"A", TaskSpec[t].start_row + r, k>>
      ELSE <<"B", k, TaskSpec[t].start_column + r - TaskSpec[t].num_rows>>

RequestFor(t, e) ==
  [task |-> t, selector |-> e[1],
   node_identifier |-> <<e[2] % BlockSize, e[3] % BlockSize>>,
   matrix_identifier |-> <<e[2], e[3]>>]

(* Mutant: the grid of nodes indexed by column and row.                    *)
OwnerTransposed(e) == NodeAt(e[3] \div BlockSize, e[2] \div BlockSize)

Owner(e) == NodeAt(e[2] \div BlockSize, e[3] \div BlockSize)

(* The factors of the block's products.                                    *)
Rows(t) == TaskSpec[t].start_row ..
             TaskSpec[t].start_row + TaskSpec[t].num_rows - 1
Columns(t) == TaskSpec[t].start_column ..
                TaskSpec[t].start_column + TaskSpec[t].num_columns - 1
Factors(t) == ({"A"} \X Rows(t) \X Index) \cup ({"B"} \X Index \X Columns(t))

------------------------------------------------------------------------------
MainTypeOK ==
  /\ main \in [pc : {"construct", "set_nodes", "start", "shutdown", "join_wait",
                     "verdict", "done"},
               node : Nodes]
  /\ nodes_mat \subseteq Nodes
  /\ num_correct \in Nat
  /\ verdict \in {"running", "passed", "failed"}

TaskTypeOK ==
  /\ task_pc \in [Tasks -> {"new", "run", "done"}]
  /\ sent \in [Tasks -> Nat]
  /\ \A t \in Tasks : sent[t] <= NumRequests(t)
  /\ num_requests \in [Tasks -> Nat]
  /\ mat \in [Tasks -> [Elements -> Elements \cup {None}]]

WaitTypeOK ==
  /\ wait_pc \in [Nodes -> {"new", "register", "get", "process", "poison",
                            "ended"}]
  /\ request \in [Nodes -> Request \cup {None}]
  /\ \A n \in Nodes : request[n] # None <=> wait_pc[n] = "process"

QueueTypeOK ==
  /\ receive_queue \in [Tasks -> Seq(Response)]
  /\ data_store_queue \in [Nodes -> Seq(Request \cup {None})]

TypeOK ==
  StoreTypeOK /\ MainTypeOK /\ TaskTypeOK /\ WaitTypeOK /\ QueueTypeOK

Init ==
  /\ main = [pc |-> "construct", node |-> 0]
  /\ banned_threads = {Main}
  /\ node_threads = [n \in Nodes |-> {}]
  /\ messages = {}
  /\ store_node = [n \in Nodes |-> None]
  /\ store_threads = [n \in Nodes |-> {}]
  /\ remaining_requests = [n \in Nodes |-> MaxPending]
  /\ call = [th \in Threads |-> Idle]
  /\ nodes_mat = {}
  /\ task_pc = [t \in Tasks |-> "new"]
  /\ sent = [t \in Tasks |-> 0]
  /\ num_requests = [t \in Tasks |-> NumRequests(t)]
  /\ receive_queue = [t \in Tasks |-> <<>>]
  /\ mat = [t \in Tasks |-> [e \in Elements |-> None]]
  /\ wait_pc = [n \in Nodes |-> "new"]
  /\ request = [n \in Nodes |-> None]
  /\ data_store_queue = [n \in Nodes |-> <<>>]
  /\ num_correct = 0
  /\ verdict = "running"

------------------------------------------------------------------------------
(* Queue.put on a bounded queue blocks while it is full.                   *)
Put(n, item) ==
  /\ Len(data_store_queue[n]) < MaxPending
  /\ data_store_queue' = [data_store_queue EXCEPT ![n] = Append(@, item)]

(* Main: Tester.start_test.                                                *)

At(pc, n) == main = [pc |-> pc, node |-> n]
GoTo(pc, n) == main' = [pc |-> pc, node |-> n]

(* Mutant: one node too many.                                              *)
NextNodePastEnd(pc, n, after) ==
  IF n \in Nodes THEN GoTo(pc, n + 1) ELSE GoTo(after, 0)

(* The loop over the nodes: on to the next one, or to the step after it.   *)
NextNode(pc, n, after) ==
  IF n + 1 \in Nodes THEN GoTo(pc, n + 1) ELSE GoTo(after, 0)

(* Node.__init__ starts the node's wait thread.                            *)
MainConstruct(n) ==
  /\ At("construct", n)
  /\ wait_pc' = [wait_pc EXCEPT ![n] = "register"]
  /\ NextNode("construct", n, "set_nodes")
  /\ UNCHANGED <<storeVars, nodes_mat, num_correct, verdict, taskVars, request,
                 queueVars>>

(* No other thread looks at nodes_mat before the loop is over.             *)
MainSetNodes ==
  /\ At("set_nodes", 0)
  /\ nodes_mat' = Nodes
  /\ GoTo("start", 0)
  /\ UNCHANGED <<storeVars, num_correct, verdict, taskVars, waitVars, queueVars>>

(* The order of the list of tasks is left open.                            *)
MainStart(t) ==
  /\ At("start", 0)
  /\ task_pc[t] = "new"
  /\ add_banned_thread(t)
  /\ task_pc' = [task_pc EXCEPT ![t] = "run"]
  /\ UNCHANGED <<store_node, store_threads, remaining_requests, call, mainVars,
                 sent, num_requests, mat, waitVars, queueVars>>

(* Mutant: no join of the tasks' threads.                                  *)
MainJoinForgotten ==
  /\ At("start", 0)
  /\ \A t \in Tasks : task_pc[t] # "new"
  /\ GoTo("shutdown", 0)
  /\ UNCHANGED <<storeVars, nodes_mat, num_correct, verdict, taskVars, waitVars,
                 queueVars>>

MainJoin ==
  /\ At("start", 0)
  /\ \A t \in Tasks : task_pc[t] = "done"
  /\ GoTo("shutdown", 0)
  /\ UNCHANGED <<storeVars, nodes_mat, num_correct, verdict, taskVars, waitVars,
                 queueVars>>

(* Node.shutdown: put None, then join the wait thread.                     *)
MainShutdown(n) ==
  /\ At("shutdown", n)
  /\ Put(n, None)
  /\ GoTo("join_wait", n)
  /\ UNCHANGED <<storeVars, nodes_mat, num_correct, verdict, taskVars, waitVars,
                 receive_queue>>

MainJoinWait(n) ==
  /\ At("join_wait", n)
  /\ wait_pc[n] = "ended"
  /\ NextNode("shutdown", n, "verdict")
  /\ UNCHANGED <<storeVars, nodes_mat, num_correct, verdict, taskVars, waitVars,
                 queueVars>>

MainVerdict ==
  /\ At("verdict", 0)
  /\ verdict' = IF messages = {} /\ num_correct = Cardinality(Tasks)
                THEN "passed" ELSE "failed"
  /\ GoTo("done", 0)
  /\ UNCHANGED <<storeVars, nodes_mat, num_correct, taskVars, waitVars, queueVars>>

------------------------------------------------------------------------------
(* A task's thread: Tester.start_node and Node.compute_matrix_block.       *)

(* put blocks while the owner's queue is full.  On a node that set_nodes   *)
(* has not reached, the lookup in nodes_mat raises and ends the thread.    *)
TaskSend(t) ==
  LET e == Wanted(t, sent[t])
  IN  /\ task_pc[t] = "run"
      /\ sent[t] < NumRequests(t)
      /\ IF TaskSpec[t].node \in nodes_mat
         THEN /\ Put(Owner(e), RequestFor(t, e))
              /\ sent' = [sent EXCEPT ![t] = @ + 1]
              /\ UNCHANGED task_pc
         ELSE /\ task_pc' = [task_pc EXCEPT ![t] = "done"]
              /\ UNCHANGED <<sent, data_store_queue>>
      /\ UNCHANGED <<storeVars, mainVars, num_requests, mat, waitVars,
                     receive_queue>>

TaskReceive(t) ==
  LET response == Head(receive_queue[t])
      place == <<response.selector, response.matrix_identifier[1],
                 response.matrix_identifier[2]>>
  IN  /\ task_pc[t] = "run"
      /\ sent[t] = NumRequests(t)
      /\ num_requests[t] > 0
      /\ receive_queue[t] # <<>>
      /\ receive_queue' = [receive_queue EXCEPT ![t] = Tail(@)]
      /\ mat' = [mat EXCEPT ![t][place] = response.result]
      /\ num_requests' = [num_requests EXCEPT ![t] = @ - 1]
      /\ UNCHANGED <<storeVars, mainVars, task_pc, sent, waitVars,
                     data_store_queue>>

(* The product is right iff all its factors are.                           *)
ResultCorrect(t) == \A e \in Factors(t) : mat[t][e] = e

(* Mutant: the loop over the responses ends one short.                     *)
TaskFinishEarly(t) ==
  /\ task_pc[t] = "run"
  /\ sent[t] = NumRequests(t)
  /\ num_requests[t] <= 1
  /\ task_pc' = [task_pc EXCEPT ![t] = "done"]
  /\ num_correct' = IF ResultCorrect(t) THEN num_correct + 1 ELSE num_correct
  /\ UNCHANGED <<storeVars, main, nodes_mat, verdict, sent, num_requests, mat,
                 waitVars, queueVars>>

(* The multiplication, check_result and the count of correct results.      *)
TaskFinish(t) ==
  /\ task_pc[t] = "run"
  /\ sent[t] = NumRequests(t)
  /\ num_requests[t] = 0
  /\ task_pc' = [task_pc EXCEPT ![t] = "done"]
  /\ num_correct' = IF ResultCorrect(t) THEN num_correct + 1 ELSE num_correct
  /\ UNCHANGED <<storeVars, main, nodes_mat, verdict, sent, num_requests, mat,
                 waitVars, queueVars>>

------------------------------------------------------------------------------
(* A node's wait thread: __wait_request and __process_request.  The thread *)
(* of node n goes by the name n, and calls the datastore of n as node n.   *)

(* Mutant: the wait thread does not register.                              *)
WaitRegisterForgotten(n) ==
  /\ wait_pc[n] = "register"
  /\ wait_pc' = [wait_pc EXCEPT ![n] = "get"]
  /\ UNCHANGED <<storeVars, mainVars, taskVars, request, queueVars>>

WaitRegister(n) ==
  /\ wait_pc[n] = "register"
  /\ \/ BeginRegister(n, n, n) /\ UNCHANGED wait_pc
     \/ FinishRegister(n) /\ UNCHANGED wait_pc
     \/ CheckRegister(n) /\ wait_pc' = [wait_pc EXCEPT ![n] = "get"]
  /\ UNCHANGED <<mainVars, taskVars, request, queueVars>>

WaitGet(n) ==
  LET item == Head(data_store_queue[n])
  IN  /\ wait_pc[n] = "get"
      /\ data_store_queue[n] # <<>>
      /\ data_store_queue' = [data_store_queue EXCEPT ![n] = Tail(@)]
      /\ wait_pc' = [wait_pc EXCEPT
                       ![n] = IF item = None THEN "poison" ELSE "process"]
      /\ request' = [request EXCEPT ![n] = item]
      /\ UNCHANGED <<storeVars, mainVars, taskVars, receive_queue>>

(* Mutant: the thread goes on after it has put the None back.              *)
WaitEndNot(n) ==
  /\ wait_pc[n] = "poison"
  /\ Put(n, None)
  /\ wait_pc' = [wait_pc EXCEPT ![n] = "get"]
  /\ UNCHANGED <<storeVars, mainVars, taskVars, request, receive_queue>>

(* The None goes back into the queue, and the thread returns.              *)
WaitEnd(n) ==
  /\ wait_pc[n] = "poison"
  /\ Put(n, None)
  /\ wait_pc' = [wait_pc EXCEPT ![n] = "ended"]
  /\ UNCHANGED <<storeVars, mainVars, taskVars, request, receive_queue>>

(* Mutant: requests for elements of B are not answered.                    *)
RespondForA(n, result) ==
  LET r == request[n]
      response == [selector |-> r.selector,
                   matrix_identifier |-> r.matrix_identifier, result |-> result]
  IN  /\ receive_queue' = IF r.selector = "A"
                          THEN [receive_queue EXCEPT ![r.task] = Append(@, response)]
                          ELSE receive_queue
      /\ wait_pc' = [wait_pc EXCEPT ![n] = "get"]
      /\ request' = [request EXCEPT ![n] = None]

(* The response goes to the requester's queue, which is not bounded.       *)
Respond(n, result) ==
  LET r == request[n]
      response == [selector |-> r.selector,
                   matrix_identifier |-> r.matrix_identifier, result |-> result]
  IN  /\ receive_queue' = [receive_queue EXCEPT ![r.task] = Append(@, response)]
      /\ wait_pc' = [wait_pc EXCEPT ![n] = "get"]
      /\ request' = [request EXCEPT ![n] = None]

(* get_element of the request: the access check; the semaphore, without    *)
(* which the call returns None at once; the element after the sleep.       *)
WaitCheck(n) ==
  /\ wait_pc[n] = "process"
  /\ BeginGet(n, n, n)
  /\ UNCHANGED <<mainVars, taskVars, waitVars, queueVars>>

WaitAcquire(n) ==
  /\ wait_pc[n] = "process"
  /\ Acquire(n)
  /\ IF remaining_requests[n] > 0
     THEN UNCHANGED <<waitVars, receive_queue>>
     ELSE Respond(n, None)
  /\ UNCHANGED <<mainVars, taskVars, data_store_queue>>

WaitRespond(n) ==
  LET r == request[n]
  IN  /\ wait_pc[n] = "process"
      /\ Release(n)
      /\ Respond(n, Stored(n, r.selector, r.node_identifier[1],
                           r.node_identifier[2]))
      /\ UNCHANGED <<mainVars, taskVars, data_store_queue>>

------------------------------------------------------------------------------
(* The test is over: only stuttering is left.                              *)
Finished == main.pc = "done" /\ UNCHANGED vars

MainStep ==
  \/ \E n \in Nodes : MainConstruct(n) \/ MainShutdown(n) \/ MainJoinWait(n)
  \/ \E t \in Tasks : MainStart(t)
  \/ MainSetNodes \/ MainJoin \/ MainVerdict

TaskStep(t) == TaskSend(t) \/ TaskReceive(t) \/ TaskFinish(t)

WaitStep(n) ==
  \/ WaitRegister(n) \/ WaitGet(n) \/ WaitEnd(n)
  \/ WaitCheck(n) \/ WaitAcquire(n) \/ WaitRespond(n)

Next ==
  \/ MainStep
  \/ \E t \in Tasks : TaskStep(t)
  \/ \E n \in Nodes : WaitStep(n)
  \/ Finished

(* Every thread is scheduled again and again: weak fairness for each.      *)
Fairness ==
  /\ WF_vars(MainStep)
  /\ \A t \in Tasks : WF_vars(TaskStep(t))
  /\ \A n \in Nodes : WF_vars(WaitStep(n))

Spec == Init /\ [][Next]_vars

FairSpec == Spec /\ Fairness
------------------------------------------------------------------------------
(* What makes a run right.                                                 *)

Place(x) ==
  <<x.selector, x.matrix_identifier[1], x.matrix_identifier[2]>>

(* Node n, reading its own block where r says, finds the element r is for. *)
RequestRight(n, r) ==
  Stored(n, r.selector, r.node_identifier[1], r.node_identifier[2]) = Place(r)

QueueRight(n, q) == \A i \in DOMAIN q : q[i] # None => RequestRight(n, q[i])

ResponsesRight(q) ==
  \A i \in DOMAIN q : q[i].result \in {None, Place(q[i])}

(* Data never go astray: every request waits at, or is processed by, a     *)
(* node whose block holds the wanted element at the local index sent with  *)
(* it, so every response, and every entry a task has stored, is the        *)
(* element of its place or None (node.py:96-121, 173-194).                 *)
DataRight ==
  /\ \A n \in Nodes : QueueRight(n, data_store_queue[n])
  /\ \A n \in Nodes : request[n] # None => RequestRight(n, request[n])
  /\ \A t \in Tasks : ResponsesRight(receive_queue[t])
  /\ \A t \in Tasks : \A e \in Elements : mat[t][e] \in {None, e}

(* Requests of t that wait in a node's queue, or that a node processes.    *)
Waiting(t) ==
  {q \in Nodes \X (1 .. MaxPending) :
     /\ q[2] \in DOMAIN data_store_queue[q[1]]
     /\ data_store_queue[q[1]][q[2]] # None
     /\ data_store_queue[q[1]][q[2]].task = t}
Processed(t) == {n \in Nodes : request[n] # None /\ request[n].task = t}

(* Every response a task still expects is accounted for, as a request it   *)
(* has not sent, one that waits or is processed, or a response on its way: *)
(* none is lost or doubled, so the loop of node.py:113-121 ends with every *)
(* answer received and none left over.                                     *)
Conservation ==
  \A t \in Tasks :
    num_requests[t] = NumRequests(t) - sent[t] + Cardinality(Waiting(t))
                        + Cardinality(Processed(t)) + Len(receive_queue[t])

(* Nodes, however their threads interleave, never give the checker a       *)
(* reason to report: in particular no wait thread reads before it has      *)
(* registered, and none finds its semaphore exhausted (datastore.py:33-81).*)
NoReport == messages = {}

NodeDisciplined(n) ==
  /\ call[n] # Idle => call[n].store = n /\ call[n].node = n
  /\ call[n].pc \in {"register", "check"} => wait_pc[n] = "register"
  /\ call[n].pc \in {"acquire", "sleep"} => wait_pc[n] = "process"
  /\ remaining_requests[n] =
       IF call[n].pc = "sleep" THEN MaxPending - 1 ELSE MaxPending
  /\ node_threads[n] \subseteq {n}
  /\ store_node[n] \in {None, n}
  /\ wait_pc[n] \notin {"new", "register"} \/ call[n].pc = "check" =>
       store_node[n] = n /\ n \in store_threads[n]

(* The discipline behind that silence: the threads of the tester and of    *)
(* the tasks never enter a datastore; a node's wait thread enters only     *)
(* that of its node, in the node's name, first to register and then with   *)
(* one request at a time, and it runs only from its node's construction on *)
(* (node.py:51-53, 158-194).                                               *)
StoreDisciplined ==
  /\ \A th \in Tasks \cup {Main} : call[th] = Idle
  /\ banned_threads \subseteq Tasks \cup {Main}
  /\ \A n \in Nodes : NodeDisciplined(n)
  /\ main.pc = "construct" =>
       \A n \in Nodes : n >= main.node => wait_pc[n] = "new"

(* A task that ends has the right block, although the loop of              *)
(* node.py:113-121 only counts responses and never looks at which came.    *)
BlocksRight == \A t \in Tasks : task_pc[t] = "done" => ResultCorrect(t)

(* When a wait thread has returned, no task is left to send it anything    *)
(* and its queue holds the one None it put back: no request is stranded    *)
(* behind the None, and the put of node.py:168 did not block.              *)
ShutdownClean ==
  \A n \in Nodes : wait_pc[n] \in {"poison", "ended"} =>
    /\ \A t \in Tasks : task_pc[t] = "done"
    /\ data_store_queue[n] = IF wait_pc[n] = "ended" THEN <<None>> ELSE <<>>

------------------------------------------------------------------------------
(* Why the test ends: the guards of each thread's steps, and how much is   *)
(* left to it.                                                             *)
MainCanStep ==
  \/ main.pc = "construct" \/ At("set_nodes", 0) \/ At("verdict", 0)
  \/ At("start", 0) /\ \/ \E t \in Tasks : task_pc[t] = "new"
                       \/ \A t \in Tasks : task_pc[t] = "done"
  \/ main.pc = "shutdown" /\ Len(data_store_queue[main.node]) < MaxPending
  \/ main.pc = "join_wait" /\ wait_pc[main.node] = "ended"

TaskCanStep(t) ==
  /\ task_pc[t] = "run"
  /\ IF sent[t] < NumRequests(t)
     THEN TaskSpec[t].node \in nodes_mat =>
            Len(data_store_queue[Owner(Wanted(t, sent[t]))]) < MaxPending
     ELSE num_requests[t] = 0 \/ receive_queue[t] # <<>>

WaitCanStep(n) ==
  \/ wait_pc[n] = "register" /\ call[n].pc \in {"idle", "register", "check"}
  \/ wait_pc[n] = "get" /\ data_store_queue[n] # <<>>
  \/ wait_pc[n] = "process" /\ call[n].pc \in {"idle", "acquire", "sleep"}
  \/ wait_pc[n] = "poison" /\ Len(data_store_queue[n]) < MaxPending

(* Until the test is over some thread can go on: the bounded queues, of    *)
(* which each node empties its own while its tasks fill the others', the   *)
(* joins and the None put back never make all threads wait for each other  *)
(* (node.py:95-121, 146-171; tester.py:161-165).                           *)
NobodyStuck ==
  main.pc # "done" =>
    \/ MainCanStep
    \/ \E t \in Tasks : TaskCanStep(t)
    \/ \E n \in Nodes : WaitCanStep(n)

MainLeft ==
  LET nodes == GridSize * GridSize
  IN  CASE main.pc = "construct" -> 3 * nodes + 4 - main.node
        [] main.pc = "set_nodes" -> 2 * nodes + 3
        [] main.pc = "start"     -> 2 * nodes + 2
        [] main.pc = "shutdown"  -> 2 * (nodes - main.node) + 1
        [] main.pc = "join_wait" -> 2 * (nodes - main.node)
        [] main.pc = "verdict"   -> 1
        [] main.pc = "done"      -> 0

(* Requests to be sent, to be answered and to be received, and the thread. *)
TaskLeft(t) ==
  (NumRequests(t) - sent[t]) + (num_requests[t] - Len(receive_queue[t]))
    + num_requests[t]
    + CASE task_pc[t] = "new" -> 2 [] task_pc[t] = "run" -> 1 [] task_pc[t] = "done" -> 0

(* What is left to a wait thread until it answers a request or ends.       *)
WaitLeft(n) ==
  CASE wait_pc[n] = "register" -> (CASE call[n].pc = "idle"     -> 8
                                     [] call[n].pc = "register" -> 7
                                     [] OTHER                   -> 6)
    [] wait_pc[n] = "get"      -> 5
    [] wait_pc[n] = "process"  -> (CASE call[n].pc = "idle"    -> 4
                                     [] call[n].pc = "acquire" -> 3
                                     [] OTHER                  -> 2)
    [] wait_pc[n] = "poison"   -> 1
    [] OTHER                   -> 0

work == [th \in Tasks \cup {Main} |-> IF th = Main THEN MainLeft ELSE TaskLeft(th)]
answering == [n \in Nodes |-> WaitLeft(n)]

Less(f, g) == f # g /\ \A th \in DOMAIN g : f[th] <= g[th]

(* Every step brings the end nearer: there is less work, or as much and a  *)
(* wait thread is nearer to its next answer or its return.  Work and steps *)
(* are finitely many natural numbers, so no schedule, fair or not, goes on *)
(* for ever: nobody spins, and nothing is sent or put back twice           *)
(* (node.py:95-121, 158-194).                                              *)
EveryStepCounts ==
  [][Less(work', work) \/ (work' = work /\ Less(answering', answering))]_vars

(* start_test keeps the promise of TestRun: a task's block is delivered    *)
(* when its thread ends, and every step of the cluster is a step of        *)
(* TestRun or invisible to the submitter; under fairness the test ends.    *)
Promise == INSTANCE TestRun WITH
  block <- [t \in Tasks |->
              IF task_pc[t] # "done" THEN "none"
              ELSE IF ResultCorrect(t) THEN "right" ELSE "wrong"]
KeepsPromise == Promise!TestSpec
==============================================================================
