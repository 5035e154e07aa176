---------------------------- MODULE ClusterProofs ----------------------------
(***************************************************************************)
(* Theorems about Cluster, for every size of the grid, of the blocks and   *)
(* of the queues, and all tasks.  The inductive invariant IInv joins the   *)
(* types, the rightness of all data under way, the silence of the checker  *)
(* and the discipline that explains it; ClusterInv adds to it where every  *)
(* request is on its way, and with that every block and every shutdown.    *)
(* With MainPlace it shows that some thread can always go on, and that the *)
(* test ends after finitely many steps.                                    *)
(***************************************************************************)
EXTENDS Cluster, DataStoreProofs, SequenceTheorems, FunctionTheorems

------------------------------------------------------------------------------
(* Arithmetic of the layout.                                               *)

LEMMA DivMod ==
  ASSUME NEW x \in Nat, NEW b \in Nat \ {0}
  PROVE  /\ x \div b \in Nat
         /\ x % b \in 0 .. b - 1
         /\ x = (x \div b) * b + (x % b)
BY Z3

LEMMA DivLess ==
  ASSUME NEW x \in Nat, NEW b \in Nat \ {0}, NEW g \in Nat, x < g * b
  PROVE  x \div b < g
BY Z3

LEMMA DivUnique ==
  ASSUME NEW i \in Nat, NEW g \in Nat \ {0}, NEW j \in 0 .. g - 1
  PROVE  (i * g + j) \div g = i /\ (i * g + j) % g = j
BY Z3

LEMMA RowMajor ==
  ASSUME NEW i \in Nat, NEW g \in Nat, NEW m \in Nat, NEW j \in 0 .. g - 1, i < m
  PROVE  i * g + j \in 0 .. m * g - 1
<1>1. i * g \in Nat /\ m * g \in Nat
  BY Z3
<1>2. (i + 1) * g <= m * g
  BY Z3
<1>3. (i + 1) * g = i * g + g
  BY Z3
<1> QED BY <1>1, <1>2, <1>3

LEMMA Sizes ==
  /\ GridSize \in Nat \ {0} /\ BlockSize \in Nat \ {0}
  /\ MatrixSize \in Nat \ {0}
  /\ 0 \in Nodes
<1>1. GridSize \in Nat \ {0} /\ BlockSize \in Nat \ {0}
  BY ClusterAssumption
<1>2. GridSize * BlockSize \in Nat \ {0} /\ GridSize * GridSize \in Nat \ {0}
  BY <1>1, Z3
<1> QED BY <1>1, <1>2, ClusterAssumption DEF MatrixSize

(* The layout of module Cluster is sound: the tester's way of cutting the  *)
(* matrices into blocks (tester.py:120-139) and the node's way of finding  *)
(* an element (node.py:99-107) are each other's inverse.                   *)
LEMMA CoordinatesFound ==
  ASSUME NEW x \in Index
  PROVE  /\ x \div BlockSize \in 0 .. GridSize - 1
         /\ x % BlockSize \in 0 .. BlockSize - 1
         /\ (x \div BlockSize) * BlockSize + (x % BlockSize) = x
<1>1. x \in Nat /\ x < GridSize * BlockSize
  BY Sizes DEF Index, MatrixSize
<1>2. x \div BlockSize < GridSize
  BY <1>1, Sizes, DivLess
<1>3. /\ x \div BlockSize \in Nat
      /\ x % BlockSize \in 0 .. BlockSize - 1
      /\ x = (x \div BlockSize) * BlockSize + (x % BlockSize)
  BY <1>1, Sizes, DivMod
<1>4. x \div BlockSize \in 0 .. GridSize - 1
  BY <1>2, <1>3, Sizes
<1> QED BY <1>3, <1>4

LEMMA NodeFound ==
  ASSUME NEW i \in 0 .. GridSize - 1, NEW j \in 0 .. GridSize - 1
  PROVE  /\ NodeAt(i, j) \in Nodes
         /\ NodeRow(NodeAt(i, j)) = i /\ NodeColumn(NodeAt(i, j)) = j
<1>1. i \in Nat /\ i < GridSize
  BY Sizes
<1>2. i * GridSize + j \in 0 .. GridSize * GridSize - 1
  BY <1>1, Sizes, RowMajor
<1>3. (i * GridSize + j) \div GridSize = i /\ (i * GridSize + j) % GridSize = j
  BY <1>1, Sizes, DivUnique
<1> QED BY <1>2, <1>3, ClusterAssumption DEF NodeAt, NodeRow, NodeColumn

LEMMA OwnerHasElement ==
  ASSUME NEW t \in Tasks, NEW e \in Elements
  PROVE  /\ Owner(e) \in Nodes
         /\ RequestFor(t, e) \in Request
         /\ RequestRight(Owner(e), RequestFor(t, e))
<1>1. e[1] \in Selectors /\ e[2] \in Index /\ e[3] \in Index /\ e = <<e[1], e[2], e[3]>>
  BY DEF Elements
<1>2. Owner(e) \in Nodes /\ NodeRow(Owner(e)) = e[2] \div BlockSize
        /\ NodeColumn(Owner(e)) = e[3] \div BlockSize
  BY <1>1, CoordinatesFound, NodeFound DEF Owner
<1>3. <<e[2] % BlockSize, e[3] % BlockSize>>
        \in (0 .. BlockSize - 1) \X (0 .. BlockSize - 1)
  BY <1>1, CoordinatesFound
<1>4. RequestFor(t, e) \in Request
  BY <1>1, <1>3 DEF RequestFor, Request
<1>5. Place(RequestFor(t, e)) = e
  BY <1>1 DEF Place, RequestFor
<1>6. Stored(Owner(e), e[1], e[2] % BlockSize, e[3] % BlockSize) = e
  BY <1>1, <1>2, CoordinatesFound DEF Stored
<1>7. RequestRight(Owner(e), RequestFor(t, e))
  BY <1>5, <1>6 DEF RequestRight, RequestFor
<1> QED BY <1>2, <1>4, <1>7

------------------------------------------------------------------------------
(* What a task asks for.                                                   *)

LEMMA RequestCount ==
  ASSUME NEW t \in Tasks
  PROVE  /\ RequestsPerStep(t) \in Nat \ {0}
         /\ NumRequests(t) \in Nat
<1>1. TaskSpec[t].num_rows \in Nat \ {0} /\ TaskSpec[t].num_columns \in Nat \ {0}
  BY ClusterAssumption
<1>2. RequestsPerStep(t) \in Nat \ {0}
  BY <1>1 DEF RequestsPerStep
<1>3. MatrixSize * RequestsPerStep(t) \in Nat
  BY <1>2, Sizes, Z3
<1> QED BY <1>2, <1>3 DEF NumRequests

LEMMA WantedIsElement ==
  ASSUME NEW t \in Tasks, NEW s \in Nat, s < NumRequests(t)
  PROVE  Wanted(t, s) \in Elements
<1> DEFINE per == RequestsPerStep(t)
           k == s \div per
           r == s % per
           spec == TaskSpec[t]
<1>1. per \in Nat \ {0}
  BY RequestCount
<1>2. k \in Nat /\ r \in 0 .. per - 1
  BY <1>1, DivMod
<1>3. k \in Index
  <2>1. s < MatrixSize * per
    BY DEF NumRequests
  <2> HIDE DEF per
  <2>2. k < MatrixSize
    BY <1>1, <2>1, Sizes, DivLess
  <2> QED BY <1>2, <2>2, Sizes DEF Index
<1>4. /\ spec.num_rows \in Nat \ {0} /\ spec.num_columns \in Nat \ {0}
      /\ spec.start_row \in Nat /\ spec.start_column \in Nat
      /\ spec.start_row + spec.num_rows <= MatrixSize
      /\ spec.start_column + spec.num_columns <= MatrixSize
  BY ClusterAssumption
<1>5. per = spec.num_rows + spec.num_columns
  BY DEF RequestsPerStep
<1>6. CASE r < spec.num_rows
  <2>1. spec.start_row + r \in Index
    BY <1>2, <1>4, <1>6, Sizes DEF Index
  <2>2. Wanted(t, s) = <<"A", spec.start_row + r, k>>
    BY <1>6 DEF Wanted
  <2> QED BY <1>3, <2>1, <2>2 DEF Elements, Selectors
<1>7. CASE ~(r < spec.num_rows)
  <2>1. spec.start_column + r - spec.num_rows \in Index
    BY <1>2, <1>4, <1>5, <1>7, Sizes DEF Index
  <2>2. Wanted(t, s) = <<"B", k, spec.start_column + r - spec.num_rows>>
    BY <1>7 DEF Wanted
  <2> QED BY <1>3, <2>1, <2>2 DEF Elements, Selectors
<1> QED BY <1>6, <1>7

------------------------------------------------------------------------------
(* Queues.                                                                 *)

LEMMA AppendRight ==
  ASSUME NEW n, NEW q \in Seq(Request \cup {None}), NEW item \in Request \cup {None},
         QueueRight(n, q), item # None => RequestRight(n, item)
  PROVE  QueueRight(n, Append(q, item))
<1>1. /\ Append(q, item) \in Seq(Request \cup {None})
      /\ Len(Append(q, item)) = Len(q) + 1
      /\ \A i \in 1 .. Len(q) : Append(q, item)[i] = q[i]
      /\ Append(q, item)[Len(q) + 1] = item
  BY AppendProperties
<1>2. DOMAIN q = 1 .. Len(q) /\ DOMAIN Append(q, item) = 1 .. Len(q) + 1
      /\ Len(q) \in Nat
  BY <1>1, LenProperties
<1> QED BY <1>1, <1>2 DEF QueueRight

LEMMA TailRight ==
  ASSUME NEW n, NEW q \in Seq(Request \cup {None}), q # <<>>, QueueRight(n, q)
  PROVE  /\ Head(q) \in Request \cup {None}
         /\ Tail(q) \in Seq(Request \cup {None})
         /\ Head(q) # None => RequestRight(n, Head(q))
         /\ QueueRight(n, Tail(q))
<1>1. Head(q) \in Request \cup {None} /\ Tail(q) \in Seq(Request \cup {None})
        /\ Len(Tail(q)) = Len(q) - 1
        /\ \A i \in 1 .. Len(Tail(q)) : Tail(q)[i] = q[i + 1]
  BY HeadTailProperties
<1>2. DOMAIN q = 1 .. Len(q) /\ DOMAIN Tail(q) = 1 .. Len(q) - 1 /\ Len(q) \in Nat \ {0}
  BY <1>1, LenProperties, EmptySeq
<1>3. Head(q) = q[1]
  OBVIOUS
<1> QED BY <1>1, <1>2, <1>3 DEF QueueRight

LEMMA AppendResponse ==
  ASSUME NEW q \in Seq(Response), NEW r \in Response, ResponsesRight(q),
         r.result \in {None, Place(r)}
  PROVE  Append(q, r) \in Seq(Response) /\ ResponsesRight(Append(q, r))
<1>1. /\ Append(q, r) \in Seq(Response)
      /\ Len(Append(q, r)) = Len(q) + 1
      /\ \A i \in 1 .. Len(q) : Append(q, r)[i] = q[i]
      /\ Append(q, r)[Len(q) + 1] = r
  BY AppendProperties
<1>2. DOMAIN q = 1 .. Len(q) /\ DOMAIN Append(q, r) = 1 .. Len(q) + 1
      /\ Len(q) \in Nat
  BY <1>1, LenProperties
<1> QED BY <1>1, <1>2 DEF ResponsesRight

LEMMA TailResponse ==
  ASSUME NEW q \in Seq(Response), q # <<>>, ResponsesRight(q)
  PROVE  /\ Head(q) \in Response
         /\ Tail(q) \in Seq(Response)
         /\ Head(q).result \in {None, Place(Head(q))}
         /\ ResponsesRight(Tail(q))
<1>1. Head(q) \in Response /\ Tail(q) \in Seq(Response)
        /\ Len(Tail(q)) = Len(q) - 1
        /\ \A i \in 1 .. Len(Tail(q)) : Tail(q)[i] = q[i + 1]
  BY HeadTailProperties
<1>2. DOMAIN q = 1 .. Len(q) /\ DOMAIN Tail(q) = 1 .. Len(q) - 1 /\ Len(q) \in Nat \ {0}
  BY <1>1, LenProperties, EmptySeq
<1>3. Head(q) = q[1]
  OBVIOUS
<1> QED BY <1>1, <1>2, <1>3 DEF ResponsesRight

(* A response to a request that is right, with what the datastore holds    *)
(* there or with None.                                                     *)
LEMMA ResponseRight ==
  ASSUME NEW n \in Nodes, NEW r \in Request, RequestRight(n, r),
         NEW result \in {None, Stored(n, r.selector, r.node_identifier[1],
                                       r.node_identifier[2])}
  PROVE  LET response == [selector |-> r.selector,
                          matrix_identifier |-> r.matrix_identifier,
                          result |-> result]
         IN  response \in Response /\ response.result \in {None, Place(response)}
<1>1. /\ r.selector \in Selectors
      /\ r.matrix_identifier \in Index \X Index
  BY DEF Request
<1>2. Place(r) \in Elements
  BY <1>1 DEF Place, Elements
<1>3. result \in {None, Place(r)}
  BY DEF RequestRight
<1> QED BY <1>1, <1>2, <1>3 DEF Response, Place

------------------------------------------------------------------------------
(* The inductive invariant.                                                *)

IInv == TypeOK /\ DataRight /\ NoReport /\ StoreDisciplined

LEMMA InitInv == Init => IInv
<1> SUFFICES ASSUME Init PROVE IInv
  OBVIOUS
<1> USE StoreAssumption, ClusterAssumption DEF Init
<1>1. StoreTypeOK
  BY DEF StoreTypeOK, CheckerTypeOK, Calls
<1>2. MainTypeOK
  BY Sizes DEF MainTypeOK
<1>3. TaskTypeOK
  BY RequestCount DEF TaskTypeOK
<1>4. WaitTypeOK
  BY DEF WaitTypeOK
<1>5. QueueTypeOK
  BY EmptySeq DEF QueueTypeOK
<1>6. DataRight
  BY DEF DataRight, QueueRight, ResponsesRight
<1>7. StoreDisciplined
  BY DEF StoreDisciplined, NodeDisciplined, Idle
<1> QED BY <1>1, <1>2, <1>3, <1>4, <1>5, <1>6, <1>7 DEF IInv, TypeOK, NoReport

(* What the steps that leave the datastores alone have in common.          *)
LEMMA StoreKept ==
  ASSUME IInv, UNCHANGED storeVars
  PROVE  StoreTypeOK' /\ NoReport'
BY DEF IInv, TypeOK, StoreTypeOK, CheckerTypeOK, NoReport, storeVars, checkerVars

LEMMA DisciplineKept ==
  ASSUME IInv, UNCHANGED storeVars, UNCHANGED wait_pc, main'.pc # "construct"
  PROVE  StoreDisciplined'
BY DEF IInv, StoreDisciplined, NodeDisciplined, storeVars, checkerVars

LEMMA GoToType ==
  ASSUME NEW pc \in {"construct", "set_nodes", "start", "shutdown", "join_wait",
                     "verdict", "done"},
         NEW n \in Nodes, GoTo(pc, n)
  PROVE  /\ main' \in [pc : {"construct", "set_nodes", "start", "shutdown",
                             "join_wait", "verdict", "done"},
                       node : Nodes]
         /\ main'.pc = pc /\ main'.node = n
BY DEF GoTo

LEMMA NextNodeType ==
  ASSUME NEW pc \in {"construct", "shutdown"}, NEW n \in Nodes,
         NEW after \in {"set_nodes", "verdict"}, NextNode(pc, n, after)
  PROVE  /\ main' \in [pc : {"construct", "set_nodes", "start", "shutdown",
                             "join_wait", "verdict", "done"},
                       node : Nodes]
         /\ main'.pc \in {pc, after}
         /\ main'.pc = pc => main'.node = n + 1
BY GoToType, Sizes DEF NextNode

------------------------------------------------------------------------------
(* The steps of the main thread.                                           *)

LEMMA MainConstructInv ==
  ASSUME IInv, NEW n \in Nodes, MainConstruct(n)
  PROVE  IInv'
<1>1. main.pc = "construct" /\ main.node = n
  BY DEF MainConstruct, At
<1>2. wait_pc[n] = "new"
  BY <1>1, ClusterAssumption, Sizes DEF IInv, StoreDisciplined
<1>3. main'.pc \in {"construct", "set_nodes"}
        /\ (main'.pc = "construct" => main'.node = n + 1) /\ MainTypeOK'
  BY NextNodeType DEF MainConstruct, IInv, TypeOK, MainTypeOK
<1>4. StoreTypeOK' /\ NoReport'
  BY StoreKept DEF MainConstruct
<1>5. WaitTypeOK'
  BY <1>2 DEF MainConstruct, IInv, TypeOK, WaitTypeOK
<1>6. TaskTypeOK' /\ QueueTypeOK'
  BY DEF MainConstruct, IInv, TypeOK, TaskTypeOK, QueueTypeOK, taskVars, queueVars
<1>7. DataRight'
  BY DEF MainConstruct, IInv, DataRight, taskVars, queueVars
<1>8. StoreDisciplined'
  <2>1. ASSUME NEW m \in Nodes PROVE NodeDisciplined(m)'
    <3>1. NodeDisciplined(m)
      BY DEF IInv, StoreDisciplined
    <3>2. CASE m = n
      BY <1>2, <3>1, <3>2
      DEF MainConstruct, NodeDisciplined, IInv, TypeOK, WaitTypeOK, storeVars,
          checkerVars
    <3>3. CASE m # n
      BY <3>1, <3>3
      DEF MainConstruct, NodeDisciplined, IInv, TypeOK, WaitTypeOK, storeVars,
          checkerVars
    <3> QED BY <3>2, <3>3
  <2>2. ASSUME main'.pc = "construct", NEW m \in Nodes, m >= main'.node
        PROVE  wait_pc'[m] = "new"
    <3>1. m >= n /\ m # n
      BY <1>3, <2>2, ClusterAssumption, Sizes
    <3> QED BY <1>1, <3>1
            DEF MainConstruct, IInv, StoreDisciplined, TypeOK, WaitTypeOK
  <2> QED BY <2>1, <2>2
          DEF MainConstruct, IInv, StoreDisciplined, storeVars, checkerVars
<1> QED BY <1>3, <1>4, <1>5, <1>6, <1>7, <1>8 DEF IInv, TypeOK

LEMMA MainStartInv ==
  ASSUME IInv, NEW t \in Tasks, MainStart(t)
  PROVE  IInv'
<1>1. StoreTypeOK' /\ NoReport'
  BY ClusterAssumption
  DEF MainStart, add_banned_thread, IInv, TypeOK, StoreTypeOK, CheckerTypeOK,
      NoReport
<1>2. MainTypeOK' /\ WaitTypeOK' /\ QueueTypeOK' /\ TaskTypeOK'
  BY DEF MainStart, IInv, TypeOK, MainTypeOK, WaitTypeOK, QueueTypeOK,
         TaskTypeOK, mainVars, waitVars, queueVars
<1>3. DataRight'
  BY DEF MainStart, IInv, DataRight, waitVars, queueVars
<1>4. StoreDisciplined'
  BY DEF MainStart, add_banned_thread, IInv, StoreDisciplined, NodeDisciplined,
         mainVars, waitVars, At
<1> QED BY <1>1, <1>2, <1>3, <1>4 DEF IInv, TypeOK

LEMMA MainShutdownInv ==
  ASSUME IInv, NEW n \in Nodes, MainShutdown(n)
  PROVE  IInv'
<1>1. main'.pc = "join_wait" /\ MainTypeOK'
  BY GoToType DEF MainShutdown, IInv, TypeOK, MainTypeOK
<1>2. StoreTypeOK' /\ NoReport' /\ StoreDisciplined'
  BY <1>1, StoreKept, DisciplineKept DEF MainShutdown, waitVars
<1>3. WaitTypeOK' /\ TaskTypeOK'
  BY DEF MainShutdown, IInv, TypeOK, WaitTypeOK, TaskTypeOK, taskVars, waitVars
<1>4. /\ data_store_queue[n] \in Seq(Request \cup {None})
      /\ QueueRight(n, data_store_queue[n])
  BY DEF IInv, TypeOK, QueueTypeOK, DataRight
<1>5. Append(data_store_queue[n], None) \in Seq(Request \cup {None})
  BY <1>4, AppendProperties
<1>6. QueueRight(n, Append(data_store_queue[n], None))
  BY <1>4, AppendRight
<1>7. QueueTypeOK'
  BY <1>5 DEF MainShutdown, Put, IInv, TypeOK, QueueTypeOK
<1>8. DataRight'
  BY <1>6 DEF MainShutdown, Put, IInv, DataRight, TypeOK, QueueTypeOK, taskVars,
              waitVars
<1> QED BY <1>1, <1>2, <1>3, <1>7, <1>8 DEF IInv, TypeOK

(* The steps that change nothing but where the main thread is, and what it *)
(* alone looks at.                                                         *)
LEMMA MainOtherInv ==
  ASSUME IInv,
         MainSetNodes \/ MainJoin \/ MainVerdict \/ \E n \in Nodes : MainJoinWait(n)
  PROVE  IInv'
<1>1. main'.pc # "construct" /\ MainTypeOK'
  <2>1. CASE MainSetNodes
    BY <2>1, GoToType, Sizes DEF MainSetNodes, IInv, TypeOK, MainTypeOK
  <2>2. CASE MainJoin
    BY <2>2, GoToType, Sizes DEF MainJoin, IInv, TypeOK, MainTypeOK
  <2>3. CASE MainVerdict
    BY <2>3, GoToType, Sizes DEF MainVerdict, IInv, TypeOK, MainTypeOK
  <2>4. ASSUME NEW n \in Nodes, MainJoinWait(n)
        PROVE  main'.pc # "construct" /\ MainTypeOK'
    BY <2>4, NextNodeType DEF MainJoinWait, IInv, TypeOK, MainTypeOK
  <2> QED BY <2>1, <2>2, <2>3, <2>4
<1>2. UNCHANGED <<storeVars, taskVars, waitVars, queueVars>>
  BY DEF MainSetNodes, MainJoin, MainVerdict, MainJoinWait
<1>3. StoreTypeOK' /\ NoReport' /\ StoreDisciplined'
  BY <1>1, <1>2, StoreKept, DisciplineKept DEF waitVars
<1>4. WaitTypeOK' /\ TaskTypeOK' /\ QueueTypeOK'
  BY <1>2 DEF IInv, TypeOK, WaitTypeOK, TaskTypeOK, QueueTypeOK, taskVars,
              waitVars, queueVars
<1>5. DataRight'
  BY <1>2 DEF IInv, DataRight, taskVars, waitVars, queueVars
<1> QED BY <1>1, <1>3, <1>4, <1>5 DEF IInv, TypeOK

------------------------------------------------------------------------------
(* The steps of a task's thread.                                           *)

LEMMA TaskSendInv ==
  ASSUME IInv, NEW t \in Tasks, TaskSend(t)
  PROVE  IInv'
<1> DEFINE e == Wanted(t, sent[t])
           n == Owner(e)
<1>1. sent[t] \in Nat /\ sent[t] < NumRequests(t) /\ NumRequests(t) \in Nat
  BY RequestCount DEF TaskSend, IInv, TypeOK, TaskTypeOK
<1>2. /\ n \in Nodes
      /\ RequestFor(t, e) \in Request
      /\ RequestRight(n, RequestFor(t, e))
  BY <1>1, WantedIsElement, OwnerHasElement
<1>3. MainTypeOK' /\ StoreTypeOK' /\ NoReport' /\ WaitTypeOK'
  BY StoreKept DEF TaskSend, IInv, TypeOK, MainTypeOK, WaitTypeOK, mainVars, waitVars
<1>4. StoreDisciplined'
  BY DEF TaskSend, IInv, StoreDisciplined, NodeDisciplined, storeVars, checkerVars,
         mainVars, waitVars
<1>5. CASE TaskSpec[t].node \in nodes_mat
  <2>1. /\ Put(n, RequestFor(t, e))
        /\ sent' = [sent EXCEPT ![t] = @ + 1]
        /\ UNCHANGED <<task_pc, num_requests, mat, receive_queue, request>>
    BY <1>5 DEF TaskSend, waitVars
  <2>2. /\ data_store_queue[n] \in Seq(Request \cup {None})
        /\ QueueRight(n, data_store_queue[n])
    BY <1>2 DEF IInv, TypeOK, QueueTypeOK, DataRight
  <2> HIDE DEF e, n
  <2>3. Append(data_store_queue[n], RequestFor(t, e)) \in Seq(Request \cup {None})
    BY <1>2, <2>2, AppendProperties
  <2>4. QueueRight(n, Append(data_store_queue[n], RequestFor(t, e)))
    BY <1>2, <2>2, AppendRight
  <2>5. QueueTypeOK'
    BY <1>2, <2>1, <2>3 DEF Put, IInv, TypeOK, QueueTypeOK
  <2>6. TaskTypeOK'
    BY <1>1, <2>1 DEF IInv, TypeOK, TaskTypeOK, NumRequests, RequestsPerStep
  <2>7. DataRight'
    BY <1>2, <2>1, <2>4 DEF Put, IInv, DataRight, TypeOK, QueueTypeOK
  <2> QED BY <1>3, <1>4, <2>5, <2>6, <2>7 DEF IInv, TypeOK
<1>6. CASE TaskSpec[t].node \notin nodes_mat
  <2>1. /\ task_pc' = [task_pc EXCEPT ![t] = "done"]
        /\ UNCHANGED <<sent, num_requests, mat, queueVars, request>>
    BY <1>6 DEF TaskSend, waitVars, queueVars
  <2>2. QueueTypeOK' /\ TaskTypeOK' /\ DataRight'
    BY <2>1 DEF IInv, TypeOK, QueueTypeOK, TaskTypeOK, DataRight, queueVars
  <2> QED BY <1>3, <1>4, <2>2 DEF IInv, TypeOK
<1> QED BY <1>5, <1>6

LEMMA TaskReceiveInv ==
  ASSUME IInv, NEW t \in Tasks, TaskReceive(t)
  PROVE  IInv'
<1> DEFINE response == Head(receive_queue[t])
           place == <<response.selector, response.matrix_identifier[1],
                      response.matrix_identifier[2]>>
<1>1. MainTypeOK' /\ StoreTypeOK' /\ NoReport' /\ WaitTypeOK'
  BY StoreKept
  DEF TaskReceive, IInv, TypeOK, MainTypeOK, WaitTypeOK, mainVars, waitVars
<1>2. StoreDisciplined'
  BY DEF TaskReceive, IInv, StoreDisciplined, NodeDisciplined, storeVars,
         checkerVars, mainVars, waitVars
<1>3. /\ receive_queue[t] \in Seq(Response) /\ receive_queue[t] # <<>>
      /\ ResponsesRight(receive_queue[t])
  BY DEF TaskReceive, IInv, TypeOK, QueueTypeOK, DataRight
<1>4. /\ response \in Response
      /\ Tail(receive_queue[t]) \in Seq(Response)
      /\ response.result \in {None, place}
      /\ ResponsesRight(Tail(receive_queue[t]))
  BY <1>3, TailResponse DEF Place
<1>5. place \in Elements /\ response.result \in Elements \cup {None}
  BY <1>4 DEF Response, Elements
<1>6. /\ receive_queue' = [receive_queue EXCEPT ![t] = Tail(@)]
      /\ mat' = [mat EXCEPT ![t][place] = response.result]
      /\ num_requests' = [num_requests EXCEPT ![t] = @ - 1]
      /\ num_requests[t] > 0
      /\ UNCHANGED <<task_pc, sent, request, data_store_queue>>
  BY DEF TaskReceive, waitVars
<1> HIDE DEF place
<1>7. QueueTypeOK'
  BY <1>4, <1>6 DEF IInv, TypeOK, QueueTypeOK
<1>8. TaskTypeOK'
  <2>1. mat' \in [Tasks -> [Elements -> Elements \cup {None}]]
    BY <1>5, <1>6 DEF IInv, TypeOK, TaskTypeOK
  <2>2. num_requests' \in [Tasks -> Nat]
    BY <1>6 DEF IInv, TypeOK, TaskTypeOK
  <2> QED BY <1>6, <2>1, <2>2 DEF IInv, TypeOK, TaskTypeOK
<1>9. DataRight'
  <2>1. \A u \in Tasks : \A e \in Elements : mat'[u][e] \in {None, e}
    BY <1>4, <1>5, <1>6 DEF IInv, TypeOK, TaskTypeOK, DataRight
  <2>2. \A u \in Tasks : ResponsesRight(receive_queue'[u])
    BY <1>4, <1>6 DEF IInv, TypeOK, QueueTypeOK, DataRight
  <2> QED BY <1>6, <2>1, <2>2 DEF IInv, DataRight
<1> QED BY <1>1, <1>2, <1>7, <1>8, <1>9 DEF IInv, TypeOK

LEMMA TaskFinishInv ==
  ASSUME IInv, NEW t \in Tasks, TaskFinish(t)
  PROVE  IInv'
<1>1. StoreTypeOK' /\ NoReport'
  BY StoreKept DEF TaskFinish
<1>2. MainTypeOK' /\ WaitTypeOK' /\ TaskTypeOK' /\ QueueTypeOK'
  BY DEF TaskFinish, IInv, TypeOK, MainTypeOK, WaitTypeOK, TaskTypeOK, QueueTypeOK,
         waitVars, queueVars
<1>3. StoreDisciplined'
  BY DEF TaskFinish, IInv, StoreDisciplined, NodeDisciplined, storeVars,
         checkerVars, waitVars
<1>4. DataRight'
  BY DEF TaskFinish, IInv, DataRight, waitVars, queueVars
<1> QED BY <1>1, <1>2, <1>3, <1>4 DEF IInv, TypeOK

------------------------------------------------------------------------------
(* The steps of a node's wait thread.                                      *)

LEMMA ThreadKinds ==
  /\ Nodes \subseteq Threads /\ Tasks \subseteq Threads /\ Main \in Threads
  /\ \A n \in Nodes : n \notin Tasks \cup {Main}
BY ClusterAssumption

(* A step of the wait thread of n that keeps the discipline of its node    *)
(* and touches nothing of the others.                                      *)
LEMMA WaitDiscipline ==
  ASSUME IInv, NEW n \in Nodes, wait_pc[n] # "new", NodeDisciplined(n)',
         UNCHANGED <<main, banned_threads>>,
         \A th \in Threads \ {n} : call'[th] = call[th],
         \A m \in Nodes \ {n} :
           /\ wait_pc'[m] = wait_pc[m]
           /\ remaining_requests'[m] = remaining_requests[m]
           /\ node_threads'[m] = node_threads[m]
           /\ store_node'[m] = store_node[m]
           /\ store_threads'[m] = store_threads[m]
  PROVE  StoreDisciplined'
<1>1. ASSUME NEW m \in Nodes PROVE NodeDisciplined(m)'
  <2>1. CASE m = n
    BY <2>1
  <2>2. CASE m # n
    <3>1. NodeDisciplined(m)
      BY DEF IInv, StoreDisciplined
    <3>2. /\ call'[m] = call[m] /\ wait_pc'[m] = wait_pc[m]
          /\ remaining_requests'[m] = remaining_requests[m]
          /\ node_threads'[m] = node_threads[m]
          /\ store_node'[m] = store_node[m]
          /\ store_threads'[m] = store_threads[m]
      BY <2>2, ThreadKinds
    <3> QED BY <3>1, <3>2 DEF NodeDisciplined
  <2> QED BY <2>1, <2>2
<1>2. \A th \in Tasks \cup {Main} : call'[th] = Idle
  BY ThreadKinds DEF IInv, StoreDisciplined
<1>3. main'.pc = "construct" =>
        \A m \in Nodes : m >= main'.node => wait_pc'[m] = "new"
  BY DEF IInv, StoreDisciplined
<1> QED BY <1>1, <1>2, <1>3 DEF IInv, StoreDisciplined

(* What is known of a wait thread and its datastore.                       *)
LEMMA NodeFacts ==
  ASSUME IInv, NEW n \in Nodes
  PROVE  /\ n \in Threads /\ n # None
         /\ call \in [Threads -> Calls] /\ call[n] \in Calls
         /\ NodeDisciplined(n)
         /\ StoreTypes
         /\ MaxPending \in Nat \ {0}
<1>1. n \in Threads /\ n # None /\ MaxPending \in Nat \ {0}
  BY ThreadKinds, StoreAssumption
<1>2. StoreTypes
  BY StoreAssumption DEF IInv, TypeOK, StoreTypeOK, StoreTypes
<1>3. NodeDisciplined(n)
  BY DEF IInv, StoreDisciplined
<1> QED BY <1>1, <1>2, <1>3 DEF StoreTypes

LEMMA BeginRegisterInv ==
  ASSUME IInv, NEW n \in Nodes, wait_pc[n] = "register", BeginRegister(n, n, n),
         UNCHANGED <<wait_pc, main>>
  PROVE  StoreTypeOK' /\ NoReport' /\ StoreDisciplined'
<1>1. n \notin banned_threads
  BY ThreadKinds DEF IInv, StoreDisciplined
<1>2. SharedThreadErrors(n, n) = {}
  <2>1. \A m \in Nodes : node_threads[m] \subseteq {m}
    BY NodeFacts DEF NodeDisciplined
  <2> QED BY <2>1 DEF SharedThreadErrors
<1>3. /\ NoReport'
      /\ node_threads' = [node_threads EXCEPT ![n] = @ \cup {n}]
      /\ UNCHANGED banned_threads
  BY <1>1, <1>2 DEF BeginRegister, register_thread, IInv, NoReport
<1>4. /\ call' \in [Threads -> Calls]
      /\ call'[n].pc = "register" /\ call'[n].store = n /\ call'[n].node = n
      /\ \A u \in Threads \ {n} : call'[u] = call[u]
  BY NodeFacts, EnterCall DEF BeginRegister
<1>5. CheckerTypeOK'
  BY NodeFacts, RegisterTypes DEF BeginRegister, StoreTypes
<1>6. StoreTypeOK'
  BY <1>4, <1>5 DEF BeginRegister, IInv, TypeOK, StoreTypeOK
<1>7. NodeDisciplined(n)'
  BY <1>3, <1>4, NodeFacts
  DEF BeginRegister, NodeDisciplined, StoreTypes, CheckerTypeOK, Idle
<1>8. StoreDisciplined'
  BY <1>3, <1>4, <1>7, WaitDiscipline, NodeFacts
  DEF BeginRegister, StoreTypes, CheckerTypeOK
<1> QED BY <1>3, <1>6, <1>8

LEMMA FinishRegisterInv ==
  ASSUME IInv, NEW n \in Nodes, wait_pc[n] = "register", FinishRegister(n),
         UNCHANGED <<wait_pc, main>>
  PROVE  StoreTypeOK' /\ NoReport' /\ StoreDisciplined'
<1>1. call[n].store = n /\ call[n].node = n /\ store_node[n] \in {None, n}
        /\ call[n].pc = "register"
  BY NodeFacts DEF FinishRegister, NodeDisciplined, Idle
<1>2. /\ store_node' = [store_node EXCEPT ![n] = IF @ = None THEN n ELSE @]
      /\ store_threads' = [store_threads EXCEPT ![n] = @ \cup {n}]
      /\ UNCHANGED <<messages, banned_threads, node_threads, remaining_requests>>
      /\ Enter(n, n, n, "check")
  BY <1>1 DEF FinishRegister, checkerVars
<1>3. store_node'[n] = n /\ n \in store_threads'[n]
  BY <1>1, <1>2, NodeFacts DEF StoreTypes
<1>4. NoReport'
  BY <1>2 DEF IInv, NoReport
<1>5. /\ call' \in [Threads -> Calls]
      /\ call'[n].pc = "check" /\ call'[n].store = n /\ call'[n].node = n
      /\ \A u \in Threads \ {n} : call'[u] = call[u]
  BY <1>2, NodeFacts, EnterCall
<1>6. StoreTypeOK'
  <2>1. CheckerTypeOK'
    BY <1>2 DEF IInv, TypeOK, StoreTypeOK, CheckerTypeOK
  <2>2. store_node' \in [Nodes -> Nodes \cup {None}]
    BY <1>2, NodeFacts DEF StoreTypes
  <2>3. store_threads' \in [Nodes -> SUBSET Threads]
    BY <1>2, NodeFacts DEF StoreTypes
  <2>4. remaining_requests' \in [Nodes -> 0 .. MaxPending]
    BY <1>2 DEF IInv, TypeOK, StoreTypeOK
  <2> QED BY <1>5, <2>1, <2>2, <2>3, <2>4 DEF StoreTypeOK
<1>7. NodeDisciplined(n)'
  BY <1>1, <1>2, <1>3, <1>5, NodeFacts DEF NodeDisciplined, Idle
<1>8. StoreDisciplined'
  BY <1>2, <1>5, <1>7, WaitDiscipline, NodeFacts DEF StoreTypes
<1> QED BY <1>4, <1>6, <1>8

LEMMA CheckRegisterInv ==
  ASSUME IInv, NEW n \in Nodes, wait_pc[n] = "register", CheckRegister(n),
         wait_pc' = [wait_pc EXCEPT ![n] = "get"], UNCHANGED main
  PROVE  StoreTypeOK' /\ NoReport' /\ StoreDisciplined'
<1>1. /\ call[n].store = n /\ call[n].node = n /\ call[n].pc = "check"
      /\ store_node[n] = n /\ n \in store_threads[n]
  BY NodeFacts DEF CheckRegister, NodeDisciplined, Idle
<1>2. check_access(store_node[n], store_threads[n], n, n) = {}
  BY <1>1, NodeFacts DEF check_access
<1>3. /\ NoReport'
      /\ UNCHANGED <<messages, banned_threads, node_threads, store_node,
                     store_threads, remaining_requests>>
  BY <1>1, <1>2 DEF CheckRegister, IInv, NoReport
<1>4. /\ call' \in [Threads -> Calls] /\ call'[n] = Idle
      /\ \A u \in Threads \ {n} : call'[u] = call[u]
  BY NodeFacts, LeaveCall DEF CheckRegister, Leave
<1>5. StoreTypeOK'
  BY <1>3, <1>4 DEF IInv, TypeOK, StoreTypeOK, CheckerTypeOK
<1>6. wait_pc'[n] = "get"
  BY DEF IInv, TypeOK, WaitTypeOK
<1>7. NodeDisciplined(n)'
  BY <1>1, <1>3, <1>4, <1>6, NodeFacts DEF NodeDisciplined, Idle
<1>8. StoreDisciplined'
  BY <1>3, <1>4, <1>7, WaitDiscipline DEF IInv, TypeOK, WaitTypeOK
<1> QED BY <1>3, <1>5, <1>8

LEMMA WaitRegisterInv ==
  ASSUME IInv, NEW n \in Nodes, WaitRegister(n)
  PROVE  IInv'
<1>1. UNCHANGED <<mainVars, taskVars, request, queueVars>> /\ wait_pc[n] = "register"
  BY DEF WaitRegister
<1>2. StoreTypeOK' /\ NoReport' /\ StoreDisciplined'
  BY <1>1, BeginRegisterInv, FinishRegisterInv, CheckRegisterInv DEF WaitRegister, mainVars
<1>3. WaitTypeOK'
  BY DEF WaitRegister, IInv, TypeOK, WaitTypeOK
<1>4. MainTypeOK' /\ TaskTypeOK' /\ QueueTypeOK' /\ DataRight'
  BY <1>1 DEF IInv, TypeOK, MainTypeOK, TaskTypeOK, QueueTypeOK, DataRight, mainVars,
              taskVars, queueVars
<1> QED BY <1>2, <1>3, <1>4 DEF IInv, TypeOK

LEMMA WaitGetInv ==
  ASSUME IInv, NEW n \in Nodes, WaitGet(n)
  PROVE  IInv'
<1> DEFINE item == Head(data_store_queue[n])
           next == IF item = None THEN "poison" ELSE "process"
<1>1. /\ wait_pc[n] = "get"
      /\ data_store_queue[n] # <<>>
      /\ data_store_queue' = [data_store_queue EXCEPT ![n] = Tail(@)]
      /\ wait_pc' = [wait_pc EXCEPT ![n] = next]
      /\ request' = [request EXCEPT ![n] = item]
      /\ UNCHANGED <<storeVars, mainVars, taskVars, receive_queue>>
  BY DEF WaitGet
<1>2. /\ item \in Request \cup {None}
      /\ Tail(data_store_queue[n]) \in Seq(Request \cup {None})
      /\ item # None => RequestRight(n, item)
      /\ QueueRight(n, Tail(data_store_queue[n]))
  BY <1>1, TailRight DEF IInv, TypeOK, QueueTypeOK, DataRight
<1> HIDE DEF item
<1>3. StoreTypeOK' /\ NoReport'
  BY <1>1, StoreKept
<1>4. MainTypeOK' /\ TaskTypeOK'
  BY <1>1 DEF IInv, TypeOK, MainTypeOK, TaskTypeOK, mainVars, taskVars
<1>5. WaitTypeOK'
  BY <1>1, <1>2 DEF IInv, TypeOK, WaitTypeOK
<1>6. QueueTypeOK'
  BY <1>1, <1>2 DEF IInv, TypeOK, QueueTypeOK
<1>7. DataRight'
  BY <1>1, <1>2 DEF IInv, DataRight, TypeOK, QueueTypeOK, WaitTypeOK, taskVars
<1>8. wait_pc'[n] \in {"poison", "process"}
  BY <1>1 DEF IInv, TypeOK, WaitTypeOK
<1>9. NodeDisciplined(n)'
  BY <1>1, <1>8, NodeFacts DEF NodeDisciplined, storeVars, checkerVars
<1>10. StoreDisciplined'
  BY <1>1, <1>9, WaitDiscipline
  DEF IInv, TypeOK, WaitTypeOK, storeVars, checkerVars, mainVars
<1> QED BY <1>3, <1>4, <1>5, <1>6, <1>7, <1>10 DEF IInv, TypeOK

LEMMA WaitEndInv ==
  ASSUME IInv, NEW n \in Nodes, WaitEnd(n)
  PROVE  IInv'
<1>1. /\ wait_pc[n] = "poison"
      /\ data_store_queue' = [data_store_queue EXCEPT ![n] = Append(@, None)]
      /\ wait_pc' = [wait_pc EXCEPT ![n] = "ended"]
      /\ UNCHANGED <<storeVars, mainVars, taskVars, request, receive_queue>>
  BY DEF WaitEnd, Put
<1>2. /\ data_store_queue[n] \in Seq(Request \cup {None})
      /\ QueueRight(n, data_store_queue[n])
  BY DEF IInv, TypeOK, QueueTypeOK, DataRight
<1>3. Append(data_store_queue[n], None) \in Seq(Request \cup {None})
  BY <1>2, AppendProperties
<1>4. QueueRight(n, Append(data_store_queue[n], None))
  BY <1>2, AppendRight
<1>5. StoreTypeOK' /\ NoReport'
  BY <1>1, StoreKept
<1>6. MainTypeOK' /\ TaskTypeOK'
  BY <1>1 DEF IInv, TypeOK, MainTypeOK, TaskTypeOK, mainVars, taskVars
<1>7. WaitTypeOK' /\ QueueTypeOK'
  BY <1>1, <1>3 DEF IInv, TypeOK, WaitTypeOK, QueueTypeOK
<1>8. DataRight'
  BY <1>1, <1>4 DEF IInv, DataRight, TypeOK, QueueTypeOK, taskVars
<1>9. wait_pc'[n] = "ended"
  BY <1>1 DEF IInv, TypeOK, WaitTypeOK
<1>10. NodeDisciplined(n)'
  BY <1>1, <1>9, NodeFacts DEF NodeDisciplined, storeVars, checkerVars
<1>11. StoreDisciplined'
  BY <1>1, <1>10, WaitDiscipline
  DEF IInv, TypeOK, WaitTypeOK, storeVars, checkerVars, mainVars
<1> QED BY <1>5, <1>6, <1>7, <1>8, <1>11 DEF IInv, TypeOK

LEMMA WaitCheckInv ==
  ASSUME IInv, NEW n \in Nodes, WaitCheck(n)
  PROVE  IInv'
<1>1. wait_pc[n] = "process" /\ BeginGet(n, n, n)
        /\ UNCHANGED <<mainVars, taskVars, waitVars, queueVars>>
  BY DEF WaitCheck
<1>2. check_access(store_node[n], store_threads[n], n, n) = {}
  BY <1>1, NodeFacts DEF check_access, NodeDisciplined
<1>3. NoReport' /\ UNCHANGED <<messages, banned_threads, node_threads, store_node,
                               store_threads, remaining_requests>>
  BY <1>1, <1>2 DEF BeginGet, IInv, NoReport
<1>4. /\ call' \in [Threads -> Calls]
      /\ call'[n].pc = "acquire" /\ call'[n].store = n /\ call'[n].node = n
      /\ \A u \in Threads \ {n} : call'[u] = call[u]
  BY <1>1, NodeFacts, EnterCall DEF BeginGet
<1>5. StoreTypeOK'
  BY <1>3, <1>4 DEF IInv, TypeOK, StoreTypeOK, CheckerTypeOK
<1>6. NodeDisciplined(n)'
  BY <1>1, <1>3, <1>4, NodeFacts DEF BeginGet, NodeDisciplined, waitVars, Idle
<1>7. StoreDisciplined'
  BY <1>1, <1>3, <1>4, <1>6, WaitDiscipline DEF waitVars, mainVars
<1>8. MainTypeOK' /\ TaskTypeOK' /\ WaitTypeOK' /\ QueueTypeOK' /\ DataRight'
  BY <1>1 DEF IInv, TypeOK, MainTypeOK, TaskTypeOK, WaitTypeOK, QueueTypeOK,
              DataRight, mainVars, taskVars, waitVars, queueVars
<1> QED BY <1>3, <1>5, <1>7, <1>8 DEF IInv, TypeOK

(* A wait thread has one call at a time, so its semaphore has a unit left. *)
LEMMA WaitAcquireInv ==
  ASSUME IInv, NEW n \in Nodes, WaitAcquire(n)
  PROVE  IInv'
<1>1. wait_pc[n] = "process" /\ Acquire(n) /\ call[n].pc = "acquire"
        /\ UNCHANGED <<mainVars, taskVars, data_store_queue>>
  BY DEF WaitAcquire, Acquire
<1>2. call[n].store = n /\ call[n].node = n /\ remaining_requests[n] = MaxPending
        /\ remaining_requests[n] > 0
  BY <1>1, NodeFacts DEF NodeDisciplined, Idle
<1>3. UNCHANGED <<waitVars, receive_queue>>
  BY <1>2 DEF WaitAcquire
<1>4. /\ remaining_requests' = [remaining_requests EXCEPT ![n] = @ - 1]
      /\ Enter(n, n, n, "sleep")
      /\ UNCHANGED <<messages, banned_threads, node_threads, store_node,
                     store_threads>>
  BY <1>1, <1>2 DEF Acquire
<1>5. /\ call' \in [Threads -> Calls]
      /\ call'[n].pc = "sleep" /\ call'[n].store = n /\ call'[n].node = n
      /\ \A u \in Threads \ {n} : call'[u] = call[u]
  BY <1>4, NodeFacts, EnterCall
<1>6. MaxPending - 1 \in 0 .. MaxPending
  BY NodeFacts
<1>7. remaining_requests' \in [Nodes -> 0 .. MaxPending]
        /\ remaining_requests'[n] = MaxPending - 1
  BY <1>2, <1>4, <1>6 DEF IInv, TypeOK, StoreTypeOK
<1>8. StoreTypeOK' /\ NoReport'
  BY <1>4, <1>5, <1>7 DEF IInv, TypeOK, StoreTypeOK, CheckerTypeOK, NoReport
<1>9. NodeDisciplined(n)'
  BY <1>1, <1>3, <1>4, <1>5, <1>7, NodeFacts DEF NodeDisciplined, waitVars, Idle
<1>10. StoreDisciplined'
  BY <1>1, <1>3, <1>4, <1>5, <1>9, WaitDiscipline DEF waitVars, mainVars
<1>11. MainTypeOK' /\ TaskTypeOK' /\ WaitTypeOK' /\ QueueTypeOK' /\ DataRight'
  BY <1>1, <1>3 DEF IInv, TypeOK, MainTypeOK, TaskTypeOK, WaitTypeOK, QueueTypeOK,
                    DataRight, mainVars, taskVars, waitVars
<1> QED BY <1>8, <1>10, <1>11 DEF IInv, TypeOK

LEMMA WaitRespondInv ==
  ASSUME IInv, NEW n \in Nodes, WaitRespond(n)
  PROVE  IInv'
<1> DEFINE r == request[n]
           element == Stored(n, r.selector, r.node_identifier[1],
                             r.node_identifier[2])
           response == [selector |-> r.selector,
                        matrix_identifier |-> r.matrix_identifier,
                        result |-> element]
<1>1. /\ wait_pc[n] = "process" /\ Release(n) /\ Respond(n, element)
      /\ UNCHANGED <<mainVars, taskVars, data_store_queue>>
  BY DEF WaitRespond
<1>2. call[n].pc = "sleep" /\ call[n].store = n
        /\ remaining_requests[n] = MaxPending - 1
  BY <1>1, NodeFacts DEF Release, NodeDisciplined, Idle
<1>3. r # None /\ r \in Request /\ r.task \in Tasks /\ RequestRight(n, r)
  BY <1>1 DEF IInv, TypeOK, WaitTypeOK, DataRight, Request
<1>4. response \in Response /\ response.result \in {None, Place(response)}
  BY <1>3, ResponseRight
<1>5. /\ receive_queue' = [receive_queue EXCEPT ![r.task] = Append(@, response)]
      /\ wait_pc' = [wait_pc EXCEPT ![n] = "get"]
      /\ request' = [request EXCEPT ![n] = None]
  BY <1>1 DEF Respond
<1>6. /\ remaining_requests' = [remaining_requests EXCEPT ![n] = @ + 1]
      /\ Leave(n)
      /\ UNCHANGED <<checkerVars, store_node, store_threads>>
  BY <1>1, <1>2 DEF Release
<1> HIDE DEF response, r, element
<1>7. /\ Append(receive_queue[r.task], response) \in Seq(Response)
      /\ ResponsesRight(Append(receive_queue[r.task], response))
  <2>1. /\ receive_queue[r.task] \in Seq(Response)
        /\ ResponsesRight(receive_queue[r.task])
    BY <1>3 DEF IInv, TypeOK, QueueTypeOK, DataRight
  <2> QED BY <1>4, <2>1, AppendResponse
<1>8. /\ call' \in [Threads -> Calls] /\ call'[n] = Idle
      /\ \A u \in Threads \ {n} : call'[u] = call[u]
  BY <1>6, NodeFacts, LeaveCall DEF Leave
<1>9. MaxPending - 1 + 1 = MaxPending /\ MaxPending \in 0 .. MaxPending
  BY NodeFacts
<1>10. remaining_requests' \in [Nodes -> 0 .. MaxPending]
        /\ remaining_requests'[n] = MaxPending
  BY <1>2, <1>6, <1>9 DEF IInv, TypeOK, StoreTypeOK
<1>11. StoreTypeOK' /\ NoReport'
  BY <1>6, <1>8, <1>10
  DEF IInv, TypeOK, StoreTypeOK, CheckerTypeOK, NoReport, checkerVars
<1>12. WaitTypeOK'
  BY <1>5 DEF IInv, TypeOK, WaitTypeOK
<1>13. wait_pc'[n] = "get"
  BY <1>5 DEF IInv, TypeOK, WaitTypeOK
<1>14. NodeDisciplined(n)'
  BY <1>1, <1>6, <1>8, <1>10, <1>13, NodeFacts DEF NodeDisciplined, checkerVars, Idle
<1>15. StoreDisciplined'
  BY <1>1, <1>5, <1>6, <1>8, <1>14, WaitDiscipline
  DEF mainVars, checkerVars, IInv, TypeOK, WaitTypeOK, StoreTypeOK
<1>16. MainTypeOK' /\ TaskTypeOK' /\ QueueTypeOK'
  BY <1>1, <1>3, <1>5, <1>7
  DEF IInv, TypeOK, MainTypeOK, TaskTypeOK, QueueTypeOK, mainVars, taskVars
<1>17. DataRight'
  <2>1. \A t \in Tasks : ResponsesRight(receive_queue'[t])
    BY <1>3, <1>5, <1>7 DEF IInv, DataRight, TypeOK, QueueTypeOK
  <2>2. \A m \in Nodes : request'[m] # None => RequestRight(m, request'[m])
    BY <1>5 DEF IInv, DataRight, TypeOK, WaitTypeOK
  <2> QED BY <1>1, <2>1, <2>2 DEF IInv, DataRight, taskVars
<1> QED BY <1>11, <1>12, <1>15, <1>16, <1>17 DEF IInv, TypeOK

------------------------------------------------------------------------------
LEMMA StepInv == IInv /\ [Next]_vars => IInv'
<1> SUFFICES ASSUME IInv, [Next]_vars PROVE IInv'
  OBVIOUS
<1>1. CASE MainStep
  BY <1>1, MainConstructInv, MainStartInv, MainShutdownInv, MainOtherInv
  DEF MainStep
<1>2. ASSUME NEW t \in Tasks, TaskStep(t) PROVE IInv'
  BY <1>2, TaskSendInv, TaskReceiveInv, TaskFinishInv DEF TaskStep
<1>3. ASSUME NEW n \in Nodes, WaitStep(n) PROVE IInv'
  BY <1>3, WaitRegisterInv, WaitGetInv, WaitEndInv, WaitCheckInv, WaitAcquireInv,
     WaitRespondInv DEF WaitStep
<1>4. CASE UNCHANGED vars
  <2>1. StoreTypeOK' /\ NoReport'
    BY <1>4, StoreKept DEF vars
  <2>2. MainTypeOK' /\ TaskTypeOK' /\ WaitTypeOK' /\ QueueTypeOK' /\ DataRight'
    BY <1>4 DEF IInv, TypeOK, MainTypeOK, TaskTypeOK, WaitTypeOK, QueueTypeOK,
                DataRight, vars, mainVars, taskVars, waitVars, queueVars
  <2>3. StoreDisciplined'
    BY <1>4 DEF IInv, StoreDisciplined, NodeDisciplined, vars, storeVars,
                checkerVars, mainVars, waitVars
  <2> QED BY <2>1, <2>2, <2>3 DEF IInv, TypeOK
<1> QED BY <1>1, <1>2, <1>3, <1>4 DEF Next, Finished

LEMMA Invariance == Spec => []IInv
BY InitInv, StepInv, PTL DEF Spec

(* Every variable of the cluster keeps its type; in particular no task     *)
(* counts below zero the responses it waits for (node.py:113-121).         *)
THEOREM TypeCorrect == Spec => []TypeOK
<1>1. IInv => TypeOK
  BY DEF IInv
<1> QED BY <1>1, Invariance, PTL

(* For every grid, block size, queue bound and set of tasks: each request, *)
(* response and stored entry is about the element of its place, or None    *)
(* (node.py:96-121, 173-194, tester.py:116-139).                           *)
THEOREM DataNeverAstray == Spec => []DataRight
<1>1. IInv => DataRight
  BY DEF IInv
<1> QED BY <1>1, Invariance, PTL

(* The nodes of the cluster never give the checker a reason to report,     *)
(* however their threads interleave (checker.py:24-52, datastore.py:33-81).*)
THEOREM NeverReported == Spec => []NoReport
<1>1. IInv => NoReport
  BY DEF IInv
<1> QED BY <1>1, Invariance, PTL

(* Only the wait thread of a node enters its datastore, registered and     *)
(* with one request at a time, so at most one unit of the semaphore is     *)
(* ever taken (node.py:51-53, 158-194).                                    *)
THEOREM DisciplineHolds == Spec => []StoreDisciplined
<1>1. IInv => StoreDisciplined
  BY DEF IInv
<1> QED BY <1>1, Invariance, PTL

------------------------------------------------------------------------------
(* Why every task gets its block: the rest of the inductive invariant.     *)

(* A request that is task t's for element e.                               *)
IsFor(t, e, r) == r # None /\ r.task = t /\ Place(r) = e

OnItsWay(t, e) ==
  \/ mat[t][e] = e
  \/ \E n \in Nodes : \E j \in DOMAIN data_store_queue[n] :
       IsFor(t, e, data_store_queue[n][j])
  \/ \E n \in Nodes : IsFor(t, e, request[n])
  \/ \E j \in DOMAIN receive_queue[t] : Place(receive_queue[t][j]) = e

(* Every element a task has asked for is there or on its way to it.        *)
Covered ==
  \A t \in Tasks : \A s \in 0 .. sent[t] - 1 : OnItsWay(t, Wanted(t, s))

(* No response is None.                                                    *)
Answered ==
  \A t \in Tasks : \A j \in DOMAIN receive_queue[t] : receive_queue[t][j].result # None

QueuesBounded == \A n \in Nodes : Len(data_store_queue[n]) <= MaxPending

TasksPlace ==
  /\ IF main.pc \in {"construct", "set_nodes"}
     THEN \A t \in Tasks : task_pc[t] = "new"
     ELSE nodes_mat = Nodes
  /\ main.pc \notin {"construct", "set_nodes", "start"} =>
       \A t \in Tasks : task_pc[t] = "done"
  /\ \A t \in Tasks : task_pc[t] = "done" =>
       sent[t] = NumRequests(t) /\ num_requests[t] = 0

(* The main thread has put None into the queue of node n.                  *)
Told(n) ==
  \/ main.pc = "shutdown" /\ n < main.node
  \/ main.pc = "join_wait" /\ n <= main.node
  \/ main.pc \in {"verdict", "done"}

ShutPlace ==
  \A n \in Nodes :
    IF Told(n)
    THEN IF wait_pc[n] = "poison" THEN data_store_queue[n] = <<>>
         ELSE data_store_queue[n] = <<None>>
    ELSE /\ wait_pc[n] \notin {"poison", "ended"}
         /\ \A j \in DOMAIN data_store_queue[n] : data_store_queue[n][j] # None

Judged ==
  /\ num_correct = Cardinality({t \in Tasks : task_pc[t] = "done"})
  /\ verdict = IF main.pc = "done" THEN "passed" ELSE "running"

RunInv ==
  /\ Conservation /\ Answered /\ Covered /\ QueuesBounded /\ TasksPlace /\ ShutPlace
  /\ Judged

ClusterInv == IInv /\ RunInv

------------------------------------------------------------------------------
(* A task asks for every factor of its block.                              *)
LEMMA FactorWanted ==
  ASSUME NEW t \in Tasks, NEW e \in Factors(t)
  PROVE  e \in Elements /\ \E s \in 0 .. NumRequests(t) - 1 : Wanted(t, s) = e
<1> DEFINE per == RequestsPerStep(t)
           spec == TaskSpec[t]
<1>1. /\ spec.num_rows \in Nat \ {0} /\ spec.num_columns \in Nat \ {0}
      /\ spec.start_row \in Nat /\ spec.start_column \in Nat
      /\ spec.start_row + spec.num_rows <= MatrixSize
      /\ spec.start_column + spec.num_columns <= MatrixSize
  BY ClusterAssumption
<1>2. per = spec.num_rows + spec.num_columns /\ per \in Nat \ {0}
  BY RequestCount DEF RequestsPerStep
<1>3. ASSUME NEW k \in Index, NEW r \in 0 .. per - 1
      PROVE  /\ k * per + r \in 0 .. NumRequests(t) - 1
             /\ (k * per + r) \div per = k /\ (k * per + r) % per = r
  <2>1. k \in Nat /\ k < MatrixSize
    BY Sizes DEF Index
  <2> HIDE DEF per
  <2>2. k * per + r \in 0 .. MatrixSize * per - 1
    BY <1>2, <2>1, Sizes, RowMajor
  <2>3. (k * per + r) \div per = k /\ (k * per + r) % per = r
    BY <1>2, <2>1, DivUnique
  <2> QED BY <2>2, <2>3 DEF NumRequests, per
<1>4. CASE e \in {"A"} \X Rows(t) \X Index
  <2>1. PICK i \in Rows(t), k \in Index : e = <<"A", i, k>>
    BY <1>4
  <2> DEFINE r == i - spec.start_row
             s == k * per + r
  <2>2. r \in 0 .. per - 1 /\ r < spec.num_rows /\ spec.start_row + r = i
    BY <1>1, <1>2 DEF Rows
  <2>3. s \in 0 .. NumRequests(t) - 1 /\ s \div per = k /\ s % per = r
    BY <1>3, <2>2
  <2>4. i \in Index
    BY <1>1, Sizes DEF Rows, Index
  <2> HIDE DEF s, r
  <2>5. Wanted(t, s) = e
    BY <2>1, <2>2, <2>3 DEF Wanted
  <2> QED BY <2>1, <2>3, <2>4, <2>5 DEF Elements, Selectors
<1>5. CASE e \in {"B"} \X Index \X Columns(t)
  <2>1. PICK k \in Index, j \in Columns(t) : e = <<"B", k, j>>
    BY <1>5
  <2> DEFINE r == spec.num_rows + (j - spec.start_column)
             s == k * per + r
  <2>2. /\ r \in 0 .. per - 1 /\ ~(r < spec.num_rows)
        /\ spec.start_column + r - spec.num_rows = j
    BY <1>1, <1>2 DEF Columns
  <2>3. s \in 0 .. NumRequests(t) - 1 /\ s \div per = k /\ s % per = r
    BY <1>3, <2>2
  <2>4. j \in Index
    BY <1>1, Sizes DEF Columns, Index
  <2> HIDE DEF s, r
  <2>5. Wanted(t, s) = e
    BY <2>1, <2>2, <2>3 DEF Wanted
  <2> QED BY <2>1, <2>3, <2>4, <2>5 DEF Elements, Selectors
<1> QED BY <1>4, <1>5 DEF Factors

------------------------------------------------------------------------------
(* Counting requests.                                                      *)
LEMMA CountsFinite ==
  /\ \A t \in Tasks : /\ IsFiniteSet(Waiting(t)) /\ IsFiniteSet(Processed(t))
                      /\ Cardinality(Waiting(t)) \in Nat
                      /\ Cardinality(Processed(t)) \in Nat
  /\ IsFiniteSet(Nodes)
<1>1. GridSize * GridSize \in Nat
  BY Sizes
<1>2. IsFiniteSet(Nodes)
  <2>1. IsFiniteSet(0 .. GridSize * GridSize - 1)
    BY <1>1, FS_Interval
  <2> QED BY <2>1, ClusterAssumption
<1>3. IsFiniteSet(Nodes \X (1 .. MaxPending))
  <2>1. IsFiniteSet(1 .. MaxPending)
    BY FS_Interval, StoreAssumption
  <2> QED BY <1>2, <2>1, FS_Product
<1>4. ASSUME NEW t \in Tasks
      PROVE  IsFiniteSet(Waiting(t)) /\ IsFiniteSet(Processed(t))
  <2>1. Waiting(t) \subseteq Nodes \X (1 .. MaxPending) /\ Processed(t) \subseteq Nodes
    BY DEF Waiting, Processed
  <2> QED BY <1>2, <1>3, <2>1, FS_Subset
<1> QED BY <1>2, <1>4, FS_CardinalityType

(* A task that has received all it expects has nothing under way.          *)
LEMMA NothingLeft ==
  ASSUME ClusterInv, NEW t \in Tasks, sent[t] = NumRequests(t), num_requests[t] = 0
  PROVE  Waiting(t) = {} /\ Processed(t) = {} /\ receive_queue[t] = <<>>
<1>1. receive_queue[t] \in Seq(Response)
  BY DEF ClusterInv, IInv, TypeOK, QueueTypeOK
<1>2. 0 = NumRequests(t) - NumRequests(t) + Cardinality(Waiting(t))
            + Cardinality(Processed(t)) + Len(receive_queue[t])
  BY DEF ClusterInv, RunInv, Conservation
<1> DEFINE w == Cardinality(Waiting(t))
           p == Cardinality(Processed(t))
           l == Len(receive_queue[t])
           c == NumRequests(t)
<1>3. w \in Nat /\ p \in Nat /\ l \in Nat /\ c \in Nat
  BY <1>1, CountsFinite, LenProperties, RequestCount
<1>4. 0 = c - c + w + p + l
  BY <1>2
<1>5. w = 0 /\ p = 0 /\ l = 0
  <2> HIDE DEF w, p, l, c
  <2> QED BY <1>3, <1>4
<1> QED BY <1>1, <1>5, CountsFinite, FS_EmptySet, EmptySeq

LEMMA QueueIs ==
  ASSUME ClusterInv, NEW n \in Nodes
  PROVE  /\ data_store_queue[n] \in Seq(Request \cup {None})
         /\ Len(data_store_queue[n]) \in 0 .. MaxPending
         /\ DOMAIN data_store_queue[n] = 1 .. Len(data_store_queue[n])
         /\ \A j \in DOMAIN data_store_queue[n] : /\ j \in 1 .. MaxPending
                                                /\ data_store_queue[n][j] \in Request \cup {None}
<1>1. data_store_queue[n] \in Seq(Request \cup {None})
  BY DEF ClusterInv, IInv, TypeOK, QueueTypeOK
<1>2. Len(data_store_queue[n]) <= MaxPending
  BY DEF ClusterInv, RunInv, QueuesBounded
<1>3. /\ Len(data_store_queue[n]) \in Nat
      /\ DOMAIN data_store_queue[n] = 1 .. Len(data_store_queue[n])
      /\ \A j \in DOMAIN data_store_queue[n] : data_store_queue[n][j] \in Request \cup {None}
  BY <1>1, LenProperties, ElementOfSeq
<1> DEFINE l == Len(data_store_queue[n])
<1> HIDE DEF l
<1>4. l \in Nat /\ l <= MaxPending /\ DOMAIN data_store_queue[n] = 1 .. l
  BY <1>2, <1>3 DEF l
<1>5. l \in 0 .. MaxPending /\ \A j \in DOMAIN data_store_queue[n] : j \in 1 .. MaxPending
  BY <1>4, StoreAssumption
<1> QED BY <1>1, <1>3, <1>5 DEF l

(* With all tasks done, what is left in the queues is None.                *)
LEMMA OnlyNoneLeft ==
  ASSUME ClusterInv, \A t \in Tasks : task_pc[t] = "done", NEW n \in Nodes
  PROVE  /\ \A j \in DOMAIN data_store_queue[n] : data_store_queue[n][j] = None
         /\ wait_pc[n] # "process"
<1>1. \A t \in Tasks : Waiting(t) = {} /\ Processed(t) = {}
  BY NothingLeft DEF ClusterInv, RunInv, TasksPlace
<1>2. ASSUME NEW j \in DOMAIN data_store_queue[n], data_store_queue[n][j] # None
      PROVE  FALSE
  <2>1. data_store_queue[n][j] \in Request /\ j \in 1 .. MaxPending
    BY <1>2, QueueIs
  <2>2. data_store_queue[n][j].task \in Tasks
    BY <2>1 DEF Request
  <2>3. <<n, j>> \in Waiting(data_store_queue[n][j].task)
    BY <1>2, <2>1, <2>2 DEF Waiting
  <2> QED BY <1>1, <2>2, <2>3
<1>3. ASSUME wait_pc[n] = "process" PROVE FALSE
  <2>1. request[n] \in Request /\ request[n] # None
    BY <1>3 DEF ClusterInv, IInv, TypeOK, WaitTypeOK
  <2>2. request[n].task \in Tasks
    BY <2>1 DEF Request
  <2>3. n \in Processed(request[n].task)
    BY <2>1 DEF Processed
  <2> QED BY <1>1, <2>2, <2>3
<1> QED BY <1>2, <1>3

(* A task that has received all it expects has the right factors.          *)
LEMMA AllReceived ==
  ASSUME ClusterInv, NEW t \in Tasks, sent[t] = NumRequests(t), num_requests[t] = 0
  PROVE  ResultCorrect(t)
<1> SUFFICES ASSUME NEW e \in Factors(t) PROVE mat[t][e] = e
  BY DEF ResultCorrect
<1>1. Waiting(t) = {} /\ Processed(t) = {} /\ receive_queue[t] = <<>>
  BY NothingLeft
<1>2. PICK s \in 0 .. NumRequests(t) - 1 : Wanted(t, s) = e
  BY FactorWanted
<1>3. OnItsWay(t, e)
  BY <1>2 DEF ClusterInv, RunInv, Covered
<1>4. ASSUME NEW n \in Nodes, NEW j \in DOMAIN data_store_queue[n],
             IsFor(t, e, data_store_queue[n][j])
      PROVE  FALSE
  <2>1. <<n, j>> \in Waiting(t)
    BY <1>4, QueueIs DEF Waiting, IsFor
  <2> QED BY <1>1, <2>1
<1>5. ASSUME NEW n \in Nodes, IsFor(t, e, request[n]) PROVE FALSE
  BY <1>1, <1>5 DEF Processed, IsFor
<1>6. DOMAIN receive_queue[t] = {}
  BY <1>1
<1> QED BY <1>3, <1>4, <1>5, <1>6 DEF OnItsWay

LEMMA RunInvInit == Init => RunInv
<1> SUFFICES ASSUME Init PROVE RunInv
  OBVIOUS
<1>1. /\ main = [pc |-> "construct", node |-> 0]
      /\ task_pc = [t \in Tasks |-> "new"] /\ sent = [t \in Tasks |-> 0]
      /\ num_requests = [t \in Tasks |-> NumRequests(t)]
      /\ receive_queue = [t \in Tasks |-> <<>>]
      /\ wait_pc = [n \in Nodes |-> "new"] /\ request = [n \in Nodes |-> None]
      /\ data_store_queue = [n \in Nodes |-> <<>>]
      /\ num_correct = 0 /\ verdict = "running"
  BY DEF Init
<1>2. DOMAIN <<>> = {} /\ Len(<<>>) = 0 /\ Cardinality({}) = 0
  BY FS_EmptySet, EmptySeq
<1>3. Conservation
  <2>1. ASSUME NEW t \in Tasks PROVE Waiting(t) = {} /\ Processed(t) = {}
    BY <1>1, <1>2 DEF Waiting, Processed
  <2>2. ASSUME NEW t \in Tasks
        PROVE  num_requests[t] = NumRequests(t) - sent[t] + Cardinality(Waiting(t))
                                   + Cardinality(Processed(t)) + Len(receive_queue[t])
    <3>1. NumRequests(t) = NumRequests(t) - 0 + 0 + 0 + 0
      BY RequestCount
    <3> QED BY <1>1, <1>2, <2>1, <3>1
  <2> QED BY <2>2 DEF Conservation
<1>4. Answered /\ Covered /\ QueuesBounded
  BY <1>1, <1>2, StoreAssumption DEF Answered, Covered, QueuesBounded
<1>5. TasksPlace /\ ShutPlace
  BY <1>1, <1>2 DEF TasksPlace, ShutPlace, Told
<1>6. Judged
  <2>1. {t \in Tasks : task_pc[t] = "done"} = {}
    BY <1>1
  <2> QED BY <1>1, <1>2, <2>1 DEF Judged
<1> QED BY <1>3, <1>4, <1>5, <1>6 DEF RunInv

------------------------------------------------------------------------------
(* The steps that leave the data alone.                                    *)
dataVars == <<sent, num_requests, mat, receive_queue, request, data_store_queue>>

LEMMA DataKept ==
  ASSUME RunInv, UNCHANGED dataVars
  PROVE  Conservation' /\ Answered' /\ Covered' /\ QueuesBounded'
<1>1. \A t \in Tasks : Waiting(t)' = Waiting(t) /\ Processed(t)' = Processed(t)
  BY DEF dataVars, Waiting, Processed
<1>2. Conservation'
  BY <1>1 DEF RunInv, Conservation, dataVars
<1>3. Answered' /\ QueuesBounded'
  BY DEF RunInv, Answered, QueuesBounded, dataVars
<1>4. Covered'
  BY DEF RunInv, Covered, OnItsWay, dataVars
<1> QED BY <1>2, <1>3, <1>4

LEMMA MainConstructRun ==
  ASSUME ClusterInv, NEW n \in Nodes, MainConstruct(n)
  PROVE  RunInv'
<1>1. /\ main.pc = "construct" /\ main'.pc \in {"construct", "set_nodes"}
      /\ wait_pc' = [wait_pc EXCEPT ![n] = "register"]
      /\ UNCHANGED <<dataVars, task_pc, nodes_mat, num_correct, verdict>>
  BY DEF MainConstruct, At, NextNode, GoTo, taskVars, queueVars, dataVars
<1>2. TasksPlace' /\ Judged'
  BY <1>1 DEF ClusterInv, RunInv, TasksPlace, Judged
<1>3. ShutPlace'
  BY <1>1 DEF ClusterInv, IInv, TypeOK, WaitTypeOK, RunInv, ShutPlace, Told, dataVars
<1> QED BY <1>1, <1>2, <1>3, DataKept DEF ClusterInv, RunInv

LEMMA MainSetNodesRun ==
  ASSUME ClusterInv, MainSetNodes
  PROVE  RunInv'
<1>1. /\ main.pc = "set_nodes" /\ main'.pc = "start" /\ nodes_mat' = Nodes
      /\ UNCHANGED <<dataVars, task_pc, num_correct, verdict, wait_pc>>
  BY DEF MainSetNodes, At, GoTo, taskVars, waitVars, queueVars, dataVars
<1>2. TasksPlace' /\ Judged' /\ ShutPlace'
  BY <1>1 DEF ClusterInv, RunInv, TasksPlace, Judged, ShutPlace, Told, dataVars
<1> QED BY <1>1, <1>2, DataKept DEF ClusterInv, RunInv

LEMMA MainStartRun ==
  ASSUME ClusterInv, NEW t \in Tasks, MainStart(t)
  PROVE  RunInv'
<1>1. /\ main.pc = "start" /\ task_pc[t] = "new" /\ task_pc' = [task_pc EXCEPT ![t] = "run"]
      /\ UNCHANGED <<dataVars, main, nodes_mat, num_correct, verdict, wait_pc>>
  BY DEF MainStart, At, mainVars, waitVars, queueVars, dataVars
<1>2. \A u \in Tasks : task_pc'[u] = "done" <=> task_pc[u] = "done"
  BY <1>1 DEF ClusterInv, IInv, TypeOK, TaskTypeOK
<1>3. TasksPlace' /\ Judged' /\ ShutPlace'
  BY <1>1, <1>2 DEF ClusterInv, RunInv, TasksPlace, Judged, ShutPlace, Told, dataVars
<1> QED BY <1>1, <1>3, DataKept DEF ClusterInv, RunInv

LEMMA MainJoinRun ==
  ASSUME ClusterInv, MainJoin
  PROVE  RunInv'
<1>1. /\ main.pc = "start" /\ main' = [pc |-> "shutdown", node |-> 0]
      /\ \A t \in Tasks : task_pc[t] = "done"
      /\ UNCHANGED <<dataVars, task_pc, nodes_mat, num_correct, verdict, wait_pc>>
  BY DEF MainJoin, At, GoTo, taskVars, waitVars, queueVars, dataVars
<1>2. \A n \in Nodes : ~(n < 0)
  BY ClusterAssumption, Sizes
<1>3. TasksPlace' /\ Judged' /\ ShutPlace'
  BY <1>1, <1>2 DEF ClusterInv, RunInv, TasksPlace, Judged, ShutPlace, Told, dataVars
<1> QED BY <1>1, <1>3, DataKept DEF ClusterInv, RunInv

LEMMA MainJoinWaitRun ==
  ASSUME ClusterInv, NEW n \in Nodes, MainJoinWait(n)
  PROVE  RunInv'
<1>1. /\ main = [pc |-> "join_wait", node |-> n]
      /\ main' = IF n + 1 \in Nodes THEN [pc |-> "shutdown", node |-> n + 1]
                 ELSE [pc |-> "verdict", node |-> 0]
      /\ UNCHANGED <<dataVars, task_pc, nodes_mat, num_correct, verdict, wait_pc>>
  BY DEF MainJoinWait, At, NextNode, GoTo, taskVars, waitVars, queueVars, dataVars
<1>2. \A m \in Nodes : Told(m)' <=> Told(m)
  <2>1. GridSize * GridSize \in Nat
    BY Sizes
  <2> DEFINE N == GridSize * GridSize
  <2> HIDE DEF N
  <2>2. Nodes = 0 .. N - 1 /\ N \in Nat
    BY <2>1, ClusterAssumption DEF N
  <2> QED BY <1>1, <2>2 DEF Told
<1>3. ShutPlace'
  BY <1>1, <1>2 DEF ClusterInv, RunInv, ShutPlace, dataVars
<1>4. TasksPlace' /\ Judged'
  BY <1>1 DEF ClusterInv, RunInv, TasksPlace, Judged, dataVars
<1> QED BY <1>1, <1>3, <1>4, DataKept DEF ClusterInv, RunInv

LEMMA MainVerdictRun ==
  ASSUME ClusterInv, MainVerdict
  PROVE  RunInv' /\ verdict = "running" /\ verdict' = "passed"
         /\ \A t \in Tasks : task_pc[t] = "done"
<1>1. /\ main.pc = "verdict" /\ main'.pc = "done"
      /\ verdict' = IF messages = {} /\ num_correct = Cardinality(Tasks)
                    THEN "passed" ELSE "failed"
      /\ UNCHANGED <<dataVars, task_pc, nodes_mat, num_correct, wait_pc>>
  BY DEF MainVerdict, At, GoTo, taskVars, waitVars, queueVars, dataVars
<1>2. \A t \in Tasks : task_pc[t] = "done"
  BY <1>1 DEF ClusterInv, RunInv, TasksPlace
<1>3. messages = {} /\ num_correct = Cardinality(Tasks)
  <2>1. {t \in Tasks : task_pc[t] = "done"} = Tasks
    BY <1>2
  <2> QED BY <2>1 DEF ClusterInv, IInv, NoReport, RunInv, Judged
<1>4. TasksPlace' /\ Judged' /\ ShutPlace'
  BY <1>1, <1>2, <1>3
  DEF ClusterInv, RunInv, TasksPlace, Judged, ShutPlace, Told, dataVars
<1> QED BY <1>1, <1>2, <1>3, <1>4, DataKept DEF ClusterInv, RunInv, Judged

LEMMA TaskFinishRun ==
  ASSUME ClusterInv, NEW t \in Tasks, TaskFinish(t)
  PROVE  RunInv' /\ ResultCorrect(t)
<1>1. /\ task_pc[t] = "run" /\ sent[t] = NumRequests(t) /\ num_requests[t] = 0
      /\ task_pc' = [task_pc EXCEPT ![t] = "done"]
      /\ num_correct' = IF ResultCorrect(t) THEN num_correct + 1 ELSE num_correct
      /\ UNCHANGED <<dataVars, main, nodes_mat, verdict, wait_pc>>
  BY DEF TaskFinish, waitVars, queueVars, dataVars
<1>2. ResultCorrect(t)
  BY <1>1, AllReceived
<1> DEFINE Done == {u \in Tasks : task_pc[u] = "done"}
<1>3. {u \in Tasks : task_pc'[u] = "done"} = Done \cup {t} /\ t \notin Done
  BY <1>1 DEF ClusterInv, IInv, TypeOK, TaskTypeOK
<1>4. IsFiniteSet(Done) /\ num_correct = Cardinality(Done)
  BY ClusterAssumption, FS_Subset DEF ClusterInv, RunInv, Judged
<1>5. Judged'
  BY <1>1, <1>2, <1>3, <1>4, FS_AddElement DEF ClusterInv, RunInv, Judged
<1>6. TasksPlace'
  BY <1>1 DEF ClusterInv, IInv, TypeOK, TaskTypeOK, RunInv, TasksPlace, dataVars
<1>7. ShutPlace'
  BY <1>1 DEF ClusterInv, RunInv, ShutPlace, Told, dataVars
<1> QED BY <1>1, <1>2, <1>5, <1>6, <1>7, DataKept DEF ClusterInv, RunInv

(* The steps of a wait thread that call the checker and the datastore.     *)
LEMMA WaitQuietRun ==
  ASSUME ClusterInv, NEW n \in Nodes, WaitRegister(n) \/ WaitCheck(n) \/ WaitAcquire(n)
  PROVE  RunInv'
<1>1. /\ \/ wait_pc' = wait_pc
         \/ wait_pc[n] = "register" /\ wait_pc' = [wait_pc EXCEPT ![n] = "get"]
      /\ UNCHANGED <<dataVars, task_pc, main, nodes_mat, num_correct, verdict>>
  <2>1. CASE WaitRegister(n)
    BY <2>1 DEF WaitRegister, mainVars, taskVars, queueVars, dataVars
  <2>2. CASE WaitCheck(n)
    BY <2>2 DEF WaitCheck, mainVars, taskVars, waitVars, queueVars, dataVars
  <2>3. CASE WaitAcquire(n)
    <3>1. call[n].pc = "acquire"
      BY <2>3 DEF WaitAcquire, Acquire
    <3>2. remaining_requests[n] > 0
      BY <3>1, NodeFacts DEF ClusterInv, NodeDisciplined
    <3> QED BY <2>3, <3>2 DEF WaitAcquire, mainVars, taskVars, waitVars, dataVars
  <2> QED BY <2>1, <2>2, <2>3
<1>2. TasksPlace' /\ Judged'
  BY <1>1 DEF ClusterInv, RunInv, TasksPlace, Judged, dataVars
<1>3. ShutPlace'
  BY <1>1 DEF ClusterInv, IInv, TypeOK, WaitTypeOK, RunInv, ShutPlace, Told, dataVars
<1> QED BY <1>1, <1>2, <1>3, DataKept DEF ClusterInv, RunInv

------------------------------------------------------------------------------
(* The requests in the queues, when one is put or taken.                   *)
LEMMA PairsFinite ==
  \A W : W \subseteq Nodes \X (1 .. MaxPending) => IsFiniteSet(W)
<1>1. IsFiniteSet(1 .. MaxPending)
  BY FS_Interval, StoreAssumption
<1>2. IsFiniteSet(Nodes \X (1 .. MaxPending))
  BY <1>1, CountsFinite, FS_Product
<1> QED BY <1>2, FS_Subset

LEMMA SameCount ==
  ASSUME NEW S, NEW T, IsFiniteSet(S), NEW f \in [S -> T],
         \A a, b \in S : f[a] = f[b] => a = b, \A b \in T : \E a \in S : f[a] = b
  PROVE  Cardinality(T) = Cardinality(S)
<1>1. f \in Bijection(S, T)
  BY Fun_IsBij, Fun_IsInj, Fun_IsSurj
<1> QED BY <1>1, FS_Bijection, Fun_ExistsBij

LEMMA PutWaiting ==
  ASSUME ClusterInv, NEW n \in Nodes, NEW item \in Request \cup {None}, Put(n, item)
  PROVE  /\ QueuesBounded'
         /\ \A t \in Tasks :
              Cardinality(Waiting(t))' = IF item # None /\ item.task = t
                                         THEN Cardinality(Waiting(t)) + 1
                                         ELSE Cardinality(Waiting(t))
         /\ \A m \in Nodes : \A j \in DOMAIN data_store_queue[m] :
              j \in DOMAIN data_store_queue'[m] /\ data_store_queue'[m][j] = data_store_queue[m][j]
         /\ \E j \in DOMAIN data_store_queue'[n] : data_store_queue'[n][j] = item
         /\ data_store_queue' = [data_store_queue EXCEPT ![n] = Append(@, item)]
<1> DEFINE q == data_store_queue[n]
           l == Len(q)
<1>1. l < MaxPending /\ data_store_queue' = [data_store_queue EXCEPT ![n] = Append(q, item)]
  BY DEF Put
<1>2. /\ Len(Append(q, item)) = l + 1
      /\ \A j \in 1 .. l : Append(q, item)[j] = q[j]
      /\ Append(q, item)[l + 1] = item
      /\ DOMAIN Append(q, item) = 1 .. l + 1
      /\ l \in 0 .. MaxPending /\ DOMAIN q = 1 .. l
  BY QueueIs, AppendProperties, LenProperties
<1>3. /\ data_store_queue'[n] = Append(q, item)
      /\ \A m \in Nodes \ {n} : data_store_queue'[m] = data_store_queue[m]
  BY <1>1 DEF ClusterInv, IInv, TypeOK, QueueTypeOK
<1> HIDE DEF l
<1>4. QueuesBounded'
  <2>1. Len(data_store_queue'[n]) <= MaxPending
    BY <1>1, <1>2, <1>3, StoreAssumption
  <2> QED BY <1>3, <2>1 DEF QueuesBounded, ClusterInv, RunInv
<1>5. l + 1 \in 1 .. MaxPending /\ l + 1 \notin 1 .. l /\ 1 .. l + 1 = (1 .. l) \cup {l + 1}
  BY <1>1, <1>2, StoreAssumption
<1>6. \A m \in Nodes : \A j \in DOMAIN data_store_queue[m] :
        j \in DOMAIN data_store_queue'[m] /\ data_store_queue'[m][j] = data_store_queue[m][j]
  BY <1>2, <1>3, <1>5
<1>7. ASSUME NEW t \in Tasks
      PROVE  Cardinality(Waiting(t))' = IF item # None /\ item.task = t
                                        THEN Cardinality(Waiting(t)) + 1
                                        ELSE Cardinality(Waiting(t))
  <2>1. CASE item # None /\ item.task = t
    <3>1. Waiting(t)' = Waiting(t) \cup {<<n, l + 1>>}
      BY <1>2, <1>3, <1>5, <2>1 DEF Waiting
    <3>2. <<n, l + 1>> \notin Waiting(t)
      BY <1>2, <1>5 DEF Waiting
    <3> QED BY <2>1, <3>1, <3>2, CountsFinite, FS_AddElement
  <2>2. CASE ~(item # None /\ item.task = t)
    <3>1. Waiting(t)' = Waiting(t)
      BY <1>2, <1>3, <1>5, <2>2 DEF Waiting
    <3> QED BY <2>2, <3>1
  <2> QED BY <2>1, <2>2
<1>8. \E j \in DOMAIN data_store_queue'[n] : data_store_queue'[n][j] = item
  BY <1>2, <1>3, <1>5
<1> QED BY <1>1, <1>4, <1>6, <1>7, <1>8

LEMMA GetWaiting ==
  ASSUME ClusterInv, NEW n \in Nodes, data_store_queue[n] # <<>>,
         data_store_queue' = [data_store_queue EXCEPT ![n] = Tail(@)]
  PROVE  /\ QueuesBounded'
         /\ \A t \in Tasks :
              Cardinality(Waiting(t)) =
                IF Head(data_store_queue[n]) # None /\ Head(data_store_queue[n]).task = t
                THEN Cardinality(Waiting(t))' + 1 ELSE Cardinality(Waiting(t))'
         /\ \A t \in Tasks : Cardinality(Waiting(t))' \in Nat
         /\ \A m \in Nodes : \A j \in DOMAIN data_store_queue[m] :
              \/ m = n /\ data_store_queue[m][j] = Head(data_store_queue[n])
              \/ \E k \in DOMAIN data_store_queue'[m] :
                   data_store_queue'[m][k] = data_store_queue[m][j]
         /\ \A m \in Nodes : \A k \in DOMAIN data_store_queue'[m] :
              \E j \in DOMAIN data_store_queue[m] :
                data_store_queue'[m][k] = data_store_queue[m][j]
<1> DEFINE q == data_store_queue[n]
           l == Len(q)
           item == Head(q)
<1>1. /\ q \in Seq(Request \cup {None}) /\ l \in 0 .. MaxPending /\ DOMAIN q = 1 .. l
      /\ l # 0
  BY QueueIs, EmptySeq
<1>2. /\ Tail(q) \in Seq(Request \cup {None})
      /\ Len(Tail(q)) = l - 1 /\ DOMAIN Tail(q) = 1 .. l - 1
      /\ \A j \in 1 .. l - 1 : Tail(q)[j] = q[j + 1]
      /\ item = q[1]
  BY <1>1, HeadTailProperties, LenProperties
<1>3. /\ data_store_queue'[n] = Tail(q)
      /\ \A m \in Nodes \ {n} : data_store_queue'[m] = data_store_queue[m]
  BY DEF ClusterInv, IInv, TypeOK, QueueTypeOK
<1> HIDE DEF l, item
<1>4. l \in 1 .. MaxPending /\ MaxPending \in Nat
  BY <1>1, StoreAssumption
<1>5. QueuesBounded'
  <2>1. Len(data_store_queue'[n]) <= MaxPending
    BY <1>2, <1>3, <1>4
  <2> QED BY <1>3, <2>1 DEF QueuesBounded, ClusterInv, RunInv
<1>6. \A m \in Nodes : \A j \in DOMAIN data_store_queue[m] :
        \/ m = n /\ data_store_queue[m][j] = item
        \/ \E k \in DOMAIN data_store_queue'[m] :
             data_store_queue'[m][k] = data_store_queue[m][j]
  <2>1. ASSUME NEW j \in 1 .. l, j # 1
        PROVE  \E k \in DOMAIN Tail(q) : Tail(q)[k] = q[j]
    <3>1. j - 1 \in 1 .. l - 1 /\ (j - 1) + 1 = j
      BY <1>4, <2>1
    <3> QED BY <1>2, <3>1
  <2> QED BY <1>1, <1>2, <1>3, <2>1
<1>7. \A m \in Nodes : \A k \in DOMAIN data_store_queue'[m] :
        \E j \in DOMAIN data_store_queue[m] :
          data_store_queue'[m][k] = data_store_queue[m][j]
  <2>1. \A k \in 1 .. l - 1 : k + 1 \in 1 .. l
    BY <1>4
  <2> QED BY <1>1, <1>2, <1>3, <2>1
<1>8. ASSUME NEW t \in Tasks
      PROVE  /\ Cardinality(Waiting(t))' \in Nat
             /\ Cardinality(Waiting(t)) = IF item # None /\ item.task = t
                                          THEN Cardinality(Waiting(t))' + 1
                                          ELSE Cardinality(Waiting(t))'
  <2> DEFINE W == Waiting(t)
             V == Waiting(t)'
             f == [p \in V |-> IF p[1] = n THEN <<n, p[2] + 1>> ELSE p]
  <2>1. V \subseteq Nodes \X (1 .. MaxPending) /\ W \subseteq Nodes \X (1 .. MaxPending)
    BY DEF Waiting
  <2>2. \A p \in Nodes \X (1 .. MaxPending) :
          /\ p \in W <=> /\ p[2] \in DOMAIN data_store_queue[p[1]]
                         /\ data_store_queue[p[1]][p[2]] # None
                         /\ data_store_queue[p[1]][p[2]].task = t
          /\ p \in V <=> /\ p[2] \in DOMAIN data_store_queue'[p[1]]
                         /\ data_store_queue'[p[1]][p[2]] # None
                         /\ data_store_queue'[p[1]][p[2]].task = t
    BY DEF Waiting
  <2> HIDE DEF W, V
  <2>3. IsFiniteSet(V) /\ IsFiniteSet(W) /\ Cardinality(V) \in Nat
    BY <2>1, PairsFinite, FS_CardinalityType
  <2>4. \A p \in V : f[p] \in W \ {<<n, 1>>}
    <3>1. ASSUME NEW p \in V, p[1] = n PROVE <<n, p[2] + 1>> \in W \ {<<n, 1>>}
      <4>1. p[2] \in 1 .. l - 1
        BY <1>2, <1>3, <2>1, <2>2, <3>1
      <4>2. p[2] + 1 \in 1 .. l /\ p[2] + 1 \in 1 .. MaxPending /\ p[2] + 1 # 1
        BY <1>4, <4>1
      <4>3. q[p[2] + 1] = data_store_queue'[n][p[2]]
        BY <1>2, <1>3, <4>1
      <4> QED BY <1>1, <2>1, <2>2, <3>1, <4>2, <4>3
    <3>2. ASSUME NEW p \in V, p[1] # n PROVE p \in W \ {<<n, 1>>}
      BY <1>3, <2>1, <2>2, <3>2
    <3> QED BY <3>1, <3>2
  <2>5. \A a, b \in V : f[a] = f[b] => a = b
    <3>1. ASSUME NEW a \in V, NEW b \in V, f[a] = f[b] PROVE a = b
      <4>1. /\ a = <<a[1], a[2]>> /\ b = <<b[1], b[2]>> /\ a[2] \in Nat /\ b[2] \in Nat
        BY <2>1
      <4>2. f[a][1] = a[1] /\ f[b][1] = b[1]
        BY <4>1
      <4>3. CASE a[1] = n
        BY <3>1, <4>1, <4>2, <4>3
      <4>4. CASE a[1] # n
        BY <3>1, <4>1, <4>2, <4>4
      <4> QED BY <4>3, <4>4
    <3> QED BY <3>1
  <2>6. \A b \in W \ {<<n, 1>>} : \E a \in V : f[a] = b
    <3>1. ASSUME NEW b \in W, b # <<n, 1>>, b[1] = n PROVE \E a \in V : f[a] = b
      <4>1. b[2] \in 1 .. l /\ b = <<n, b[2]>> /\ b[2] # 1
        BY <1>1, <2>1, <2>2, <3>1
      <4>2. b[2] - 1 \in 1 .. l - 1 /\ b[2] - 1 \in 1 .. MaxPending /\ (b[2] - 1) + 1 = b[2]
        BY <1>4, <4>1
      <4>3. data_store_queue'[n][b[2] - 1] = q[b[2]]
        BY <1>2, <1>3, <4>2
      <4> DEFINE p == <<n, b[2] - 1>>
      <4>4. p \in Nodes \X (1 .. MaxPending) /\ p[1] = n /\ p[2] = b[2] - 1
        BY <4>2
      <4>5. q[b[2]] # None /\ q[b[2]].task = t
        BY <2>1, <2>2, <3>1
      <4>6. p \in V
        BY <1>2, <1>3, <2>2, <4>2, <4>3, <4>4, <4>5
      <4> QED BY <4>1, <4>2, <4>4, <4>6
    <3>2. ASSUME NEW b \in W, b[1] # n PROVE b \in V /\ f[b] = b
      BY <1>3, <2>1, <2>2, <3>2
    <3> QED BY <3>1, <3>2
  <2>7. Cardinality(W \ {<<n, 1>>}) = Cardinality(V)
    <3>1. f \in [V -> W \ {<<n, 1>>}]
      BY <2>4
    <3> HIDE DEF f
    <3> QED BY <2>3, <2>5, <2>6, <3>1, SameCount
  <2>8. <<n, 1>> \in W <=> item # None /\ item.task = t
    BY <1>1, <1>2, <1>4, <2>2
  <2>9. CASE <<n, 1>> \in W
    <3>1. Cardinality(W) = Cardinality(W \ {<<n, 1>>}) + 1
      <4>1. Cardinality(W \ {<<n, 1>>}) = Cardinality(W) - 1 /\ Cardinality(W) \in Nat
        BY <2>3, <2>9, FS_RemoveElement, FS_CardinalityType
      <4> DEFINE a == Cardinality(W)
                 b == Cardinality(W \ {<<n, 1>>})
      <4>2. b = a - 1 /\ a \in Nat
        BY <4>1
      <4> HIDE DEF a, b
      <4>3. a = b + 1
        BY <4>2
      <4> QED BY <4>3 DEF a, b
    <3> QED BY <2>3, <2>7, <2>8, <2>9, <3>1 DEF W, V
  <2>10. CASE <<n, 1>> \notin W
    <3>1. W \ {<<n, 1>>} = W
      BY <2>10
    <3> QED BY <2>3, <2>7, <2>8, <2>10, <3>1 DEF W, V
  <2> QED BY <2>9, <2>10
<1> QED BY <1>5, <1>6, <1>7, <1>8 DEF item

------------------------------------------------------------------------------
(* The steps of the data: from a task to a queue, to the wait thread, and  *)
(* back to the task.                                                       *)
LEMMA Balance ==
  ASSUME ClusterInv, NEW t \in Tasks
  PROVE  /\ num_requests[t] \in Nat /\ NumRequests(t) \in Nat /\ sent[t] \in Nat
         /\ Cardinality(Waiting(t)) \in Nat /\ Cardinality(Processed(t)) \in Nat
         /\ receive_queue[t] \in Seq(Response) /\ Len(receive_queue[t]) \in Nat
         /\ num_requests[t] = NumRequests(t) - sent[t] + Cardinality(Waiting(t))
                                + Cardinality(Processed(t)) + Len(receive_queue[t])
<1>1. receive_queue[t] \in Seq(Response)
  BY DEF ClusterInv, IInv, TypeOK, QueueTypeOK
<1>2. Len(receive_queue[t]) \in Nat
  BY <1>1, LenProperties
<1>3. num_requests[t] \in Nat /\ sent[t] \in Nat
  BY DEF ClusterInv, IInv, TypeOK, TaskTypeOK
<1>4. num_requests[t] = NumRequests(t) - sent[t] + Cardinality(Waiting(t))
                          + Cardinality(Processed(t)) + Len(receive_queue[t])
  BY DEF ClusterInv, RunInv, Conservation
<1> QED BY <1>1, <1>2, <1>3, <1>4, RequestCount, CountsFinite

(* None is put into a queue.                                               *)
LEMMA PutNoneKept ==
  ASSUME ClusterInv, NEW n \in Nodes, Put(n, None),
         UNCHANGED <<sent, num_requests, mat, receive_queue, request>>
  PROVE  Conservation' /\ Answered' /\ Covered' /\ QueuesBounded'
<1>1. /\ QueuesBounded'
      /\ \A t \in Tasks : Cardinality(Waiting(t))' = Cardinality(Waiting(t))
      /\ \A m \in Nodes : \A j \in DOMAIN data_store_queue[m] :
           j \in DOMAIN data_store_queue'[m] /\ data_store_queue'[m][j] = data_store_queue[m][j]
  BY PutWaiting
<1>2. Conservation'
  <2>1. \A t \in Tasks : Processed(t)' = Processed(t)
    BY DEF Processed
  <2> QED BY <1>1, <2>1 DEF ClusterInv, RunInv, Conservation
<1>3. Covered'
  <2>1. ASSUME NEW t \in Tasks, NEW e, OnItsWay(t, e) PROVE OnItsWay(t, e)'
    BY <1>1, <2>1 DEF OnItsWay, IsFor
  <2> QED BY <2>1 DEF ClusterInv, RunInv, Covered
<1>4. Answered'
  BY DEF ClusterInv, RunInv, Answered
<1> QED BY <1>1, <1>2, <1>3, <1>4

LEMMA MainShutdownRun ==
  ASSUME ClusterInv, NEW n \in Nodes, MainShutdown(n)
  PROVE  RunInv'
<1>1. /\ main = [pc |-> "shutdown", node |-> n] /\ main' = [pc |-> "join_wait", node |-> n]
      /\ Put(n, None)
      /\ UNCHANGED <<sent, num_requests, mat, receive_queue, request, task_pc, nodes_mat,
                     num_correct, verdict, wait_pc>>
  BY DEF MainShutdown, At, GoTo, taskVars, waitVars
<1>2. Conservation' /\ Answered' /\ Covered' /\ QueuesBounded'
  BY <1>1, PutNoneKept
<1>3. TasksPlace' /\ Judged'
  BY <1>1 DEF ClusterInv, RunInv, TasksPlace, Judged
<1>4. \A m \in Nodes : m \in Int
  BY ClusterAssumption, Sizes
<1>5. ~Told(n) /\ Told(n)' /\ \A m \in Nodes \ {n} : Told(m)' <=> Told(m)
  BY <1>1, <1>4 DEF Told
<1>6. data_store_queue[n] = <<>>
  <2>1. \A t \in Tasks : task_pc[t] = "done"
    BY <1>1 DEF ClusterInv, RunInv, TasksPlace
  <2>2. \A j \in DOMAIN data_store_queue[n] : data_store_queue[n][j] # None
    BY <1>5 DEF ClusterInv, RunInv, ShutPlace
  <2>3. DOMAIN data_store_queue[n] = {}
    BY <2>1, <2>2, OnlyNoneLeft
  <2> QED BY <2>3, QueueIs, EmptySeq
<1>7. /\ data_store_queue'[n] = <<None>>
      /\ \A m \in Nodes \ {n} : data_store_queue'[m] = data_store_queue[m]
  <2>1. data_store_queue' = [data_store_queue EXCEPT ![n] = Append(<<>>, None)]
    BY <1>1, <1>6 DEF Put
  <2> QED BY <2>1 DEF ClusterInv, IInv, TypeOK, QueueTypeOK
<1>8. ShutPlace'
  BY <1>1, <1>5, <1>7 DEF ClusterInv, RunInv, ShutPlace
<1> QED BY <1>2, <1>3, <1>8 DEF RunInv

LEMMA WaitEndRun ==
  ASSUME ClusterInv, NEW n \in Nodes, WaitEnd(n)
  PROVE  RunInv'
<1>1. /\ wait_pc[n] = "poison" /\ wait_pc' = [wait_pc EXCEPT ![n] = "ended"]
      /\ Put(n, None)
      /\ UNCHANGED <<sent, num_requests, mat, receive_queue, request, task_pc, main,
                     nodes_mat, num_correct, verdict>>
  BY DEF WaitEnd, mainVars, taskVars
<1>2. Conservation' /\ Answered' /\ Covered' /\ QueuesBounded'
  BY <1>1, PutNoneKept
<1>3. TasksPlace' /\ Judged'
  BY <1>1 DEF ClusterInv, RunInv, TasksPlace, Judged
<1>4. Told(n) /\ data_store_queue[n] = <<>>
  BY <1>1 DEF ClusterInv, RunInv, ShutPlace
<1>5. /\ data_store_queue'[n] = <<None>>
      /\ \A m \in Nodes \ {n} : data_store_queue'[m] = data_store_queue[m]
  <2>1. data_store_queue' = [data_store_queue EXCEPT ![n] = Append(<<>>, None)]
    BY <1>1, <1>4 DEF Put
  <2> QED BY <2>1 DEF ClusterInv, IInv, TypeOK, QueueTypeOK
<1>6. /\ wait_pc'[n] = "ended" /\ \A m \in Nodes \ {n} : wait_pc'[m] = wait_pc[m]
  BY <1>1 DEF ClusterInv, IInv, TypeOK, WaitTypeOK
<1>7. ShutPlace'
  BY <1>1, <1>4, <1>5, <1>6 DEF ClusterInv, RunInv, ShutPlace, Told
<1> QED BY <1>2, <1>3, <1>7 DEF RunInv

(* While a task runs, the main thread is still waiting for the tasks.      *)
LEMMA TaskRuns ==
  ASSUME ClusterInv, NEW t \in Tasks, task_pc[t] = "run"
  PROVE  nodes_mat = Nodes /\ \A n \in Nodes : ~Told(n)
BY DEF ClusterInv, RunInv, TasksPlace, Told

LEMMA TaskSendRun ==
  ASSUME ClusterInv, NEW t \in Tasks, TaskSend(t)
  PROVE  RunInv' /\ UNCHANGED <<task_pc, mat, verdict>>
<1> DEFINE e == Wanted(t, sent[t])
           n == Owner(e)
           r == RequestFor(t, e)
<1>1. /\ task_pc[t] = "run" /\ sent[t] \in Nat /\ sent[t] < NumRequests(t)
      /\ TaskSpec[t].node \in Nodes
  BY ClusterAssumption DEF TaskSend, ClusterInv, IInv, TypeOK, TaskTypeOK
<1>2. nodes_mat = Nodes /\ \A m \in Nodes : ~Told(m)
  BY <1>1, TaskRuns
<1>3. /\ Put(n, r) /\ sent' = [sent EXCEPT ![t] = @ + 1]
      /\ UNCHANGED <<num_requests, mat, receive_queue, request, task_pc, main, nodes_mat,
                     num_correct, verdict, wait_pc>>
  BY <1>1, <1>2 DEF TaskSend, mainVars, waitVars
<1>4. n \in Nodes /\ r \in Request /\ e \in Elements
  BY <1>1, WantedIsElement, OwnerHasElement, RequestCount
<1>5. r # None /\ r.task = t /\ Place(r) = e
  <2>1. r # None
    BY <1>4, NoneAssumption
  <2>2. e = <<e[1], e[2], e[3]>>
    BY <1>4 DEF Elements
  <2> HIDE DEF e
  <2> QED BY <2>1, <2>2 DEF RequestFor, Place
<1> HIDE DEF e, n, r
<1>6. /\ QueuesBounded'
      /\ \A u \in Tasks : Cardinality(Waiting(u))' = IF r # None /\ r.task = u
                                                     THEN Cardinality(Waiting(u)) + 1
                                                     ELSE Cardinality(Waiting(u))
      /\ \A m \in Nodes : \A j \in DOMAIN data_store_queue[m] :
           j \in DOMAIN data_store_queue'[m] /\ data_store_queue'[m][j] = data_store_queue[m][j]
      /\ \E j \in DOMAIN data_store_queue'[n] : data_store_queue'[n][j] = r
      /\ data_store_queue' = [data_store_queue EXCEPT ![n] = Append(@, r)]
  BY <1>3, <1>4, PutWaiting
<1>7. sent'[t] = sent[t] + 1 /\ \A u \in Tasks \ {t} : sent'[u] = sent[u]
  BY <1>3 DEF ClusterInv, IInv, TypeOK, TaskTypeOK
<1>8. Conservation'
  <2>1. \A u \in Tasks : Processed(u)' = Processed(u)
    BY <1>3 DEF Processed
  <2>2. ASSUME NEW u \in Tasks
        PROVE  num_requests'[u] = NumRequests(u) - sent'[u] + Cardinality(Waiting(u))'
                                    + Cardinality(Processed(u))' + Len(receive_queue'[u])
    <3> DEFINE w == Cardinality(Waiting(u))
               p == Cardinality(Processed(u))
               l == Len(receive_queue[u])
               c == NumRequests(u)
    <3>1. /\ num_requests[u] \in Nat /\ c \in Nat /\ sent[u] \in Nat /\ w \in Nat
          /\ p \in Nat /\ l \in Nat /\ num_requests[u] = c - sent[u] + w + p + l
      BY Balance
    <3> HIDE DEF w, p, l, c
    <3>2. c - sent[u] + w + p + l = c - (sent[u] + 1) + (w + 1) + p + l
      BY <3>1
    <3>3. CASE u = t
      BY <1>3, <1>5, <1>6, <1>7, <2>1, <3>1, <3>2, <3>3 DEF w, p, l, c
    <3>4. CASE u # t
      BY <1>3, <1>5, <1>6, <1>7, <2>1, <3>1, <3>4 DEF w, p, l, c
    <3> QED BY <3>3, <3>4
  <2> QED BY <2>2 DEF Conservation
<1>9. Covered'
  <2>1. ASSUME NEW u \in Tasks, NEW x, OnItsWay(u, x) PROVE OnItsWay(u, x)'
    BY <1>3, <1>6, <2>1 DEF OnItsWay, IsFor
  <2>2. ASSUME NEW x, x = e PROVE OnItsWay(t, x)'
    BY <1>4, <1>5, <1>6, <2>2 DEF OnItsWay, IsFor, Place
  <2>4. \A s \in 0 .. sent'[t] - 1 : s = sent[t] \/ s \in 0 .. sent[t] - 1
    BY <1>1, <1>7
  <2>5. \A s \in 0 .. sent'[t] - 1 : OnItsWay(t, Wanted(t, s))'
    <3>1. ASSUME NEW s \in 0 .. sent'[t] - 1 PROVE OnItsWay(t, Wanted(t, s))'
      <4>1. CASE s = sent[t]
        BY <2>2, <4>1 DEF e
      <4>2. CASE s \in 0 .. sent[t] - 1
        BY <2>1, <4>2 DEF ClusterInv, RunInv, Covered
      <4> QED BY <2>4, <4>1, <4>2
    <3> QED BY <3>1
  <2>6. ASSUME NEW u \in Tasks, u # t
        PROVE  \A s \in 0 .. sent'[u] - 1 : OnItsWay(u, Wanted(u, s))'
    BY <1>7, <2>1, <2>6 DEF ClusterInv, RunInv, Covered
  <2> QED BY <2>5, <2>6 DEF Covered
<1>10. Answered'
  BY <1>3 DEF ClusterInv, RunInv, Answered
<1>11. TasksPlace'
  <2>1. \A u \in Tasks : task_pc[u] = "done" => u # t
    BY <1>1
  <2> QED BY <1>2, <1>3, <1>7, <2>1 DEF ClusterInv, RunInv, TasksPlace
<1>12. Judged'
  BY <1>3 DEF ClusterInv, RunInv, Judged
<1>13. ShutPlace'
  <2>1. ASSUME NEW m \in Nodes, NEW j \in DOMAIN data_store_queue'[m]
        PROVE  data_store_queue'[m][j] # None
    <3>1. \A k \in DOMAIN data_store_queue[m] : data_store_queue[m][k] # None
      BY <1>2 DEF ClusterInv, RunInv, ShutPlace
    <3>2. CASE m # n
      BY <1>6, <2>1, <3>1, <3>2
    <3>3. CASE m = n
      <4>1. data_store_queue'[m] = Append(data_store_queue[m], r)
        BY <1>4, <1>6, <3>3 DEF ClusterInv, IInv, TypeOK, QueueTypeOK
      <4>2. data_store_queue[m] \in Seq(Request \cup {None})
        BY QueueIs
      <4>3. /\ DOMAIN Append(data_store_queue[m], r) = 1 .. Len(data_store_queue[m]) + 1
            /\ \A k \in 1 .. Len(data_store_queue[m]) :
                 Append(data_store_queue[m], r)[k] = data_store_queue[m][k]
            /\ Append(data_store_queue[m], r)[Len(data_store_queue[m]) + 1] = r
            /\ DOMAIN data_store_queue[m] = 1 .. Len(data_store_queue[m])
            /\ Len(data_store_queue[m]) \in Nat
        BY <1>4, <4>2, AppendProperties, LenProperties
      <4> DEFINE l == Len(data_store_queue[m])
      <4> HIDE DEF l
      <4>4. j \in 1 .. l \/ j = l + 1
        BY <2>1, <4>1, <4>3 DEF l
      <4> QED BY <1>5, <3>1, <4>1, <4>3, <4>4 DEF l
    <3> QED BY <3>2, <3>3
  <2>2. \A m \in Nodes : ~Told(m)'
    BY <1>2, <1>3 DEF Told
  <2> QED BY <1>2, <1>3, <2>1, <2>2 DEF ClusterInv, RunInv, ShutPlace
<1> QED BY <1>3, <1>6, <1>8, <1>9, <1>10, <1>11, <1>12, <1>13 DEF RunInv

LEMMA TaskReceiveRun ==
  ASSUME ClusterInv, NEW t \in Tasks, TaskReceive(t)
  PROVE  RunInv' /\ UNCHANGED <<task_pc, verdict>>
<1> DEFINE q == receive_queue[t]
           response == Head(q)
           place == <<response.selector, response.matrix_identifier[1],
                      response.matrix_identifier[2]>>
           l == Len(q)
<1>1. /\ task_pc[t] = "run" /\ num_requests[t] > 0 /\ q # <<>>
      /\ receive_queue' = [receive_queue EXCEPT ![t] = Tail(q)]
      /\ mat' = [mat EXCEPT ![t][place] = response.result]
      /\ num_requests' = [num_requests EXCEPT ![t] = @ - 1]
      /\ UNCHANGED <<sent, request, data_store_queue, task_pc, main, nodes_mat,
                     num_correct, verdict, wait_pc>>
  BY DEF TaskReceive, mainVars, waitVars
<1>2. q \in Seq(Response) /\ ResponsesRight(q)
  BY DEF ClusterInv, IInv, TypeOK, QueueTypeOK, DataRight
<1>3. /\ l \in Nat \ {0} /\ DOMAIN q = 1 .. l /\ response = q[1] /\ response \in Response
      /\ Len(Tail(q)) = l - 1 /\ DOMAIN Tail(q) = 1 .. l - 1
      /\ \A j \in 1 .. l - 1 : Tail(q)[j] = q[j + 1]
  BY <1>1, <1>2, HeadTailProperties, LenProperties, EmptySeq
<1> HIDE DEF l
<1>4. 1 \in DOMAIN q
  BY <1>3
<1>5. Place(response) = place /\ place \in Elements /\ response.result = place
  <2>1. Place(response) = place
    BY DEF Place
  <2>2. response.result \in {None, Place(response)} /\ response.result # None
    BY <1>2, <1>3, <1>4 DEF ResponsesRight, ClusterInv, RunInv, Answered
  <2>3. place \in Elements
    BY <1>3 DEF Response, Elements
  <2> QED BY <2>1, <2>2, <2>3
<1> HIDE DEF place, response
<1>6. /\ receive_queue'[t] = Tail(q) /\ num_requests'[t] = num_requests[t] - 1
      /\ \A u \in Tasks \ {t} : /\ receive_queue'[u] = receive_queue[u]
                                /\ num_requests'[u] = num_requests[u] /\ mat'[u] = mat[u]
  BY <1>1 DEF ClusterInv, IInv, TypeOK, TaskTypeOK, QueueTypeOK
<1>7. mat'[t][place] = place /\ \A e \in Elements \ {place} : mat'[t][e] = mat[t][e]
  BY <1>1, <1>5 DEF ClusterInv, IInv, TypeOK, TaskTypeOK
<1> HIDE DEF q
<1>8. Conservation'
  <2>1. \A u \in Tasks : Processed(u)' = Processed(u) /\ Waiting(u)' = Waiting(u)
    BY <1>1 DEF Processed, Waiting
  <2>2. ASSUME NEW u \in Tasks
        PROVE  num_requests'[u] = NumRequests(u) - sent'[u] + Cardinality(Waiting(u))'
                                    + Cardinality(Processed(u))' + Len(receive_queue'[u])
    <3> DEFINE w == Cardinality(Waiting(u))
               p == Cardinality(Processed(u))
               k == Len(receive_queue[u])
               c == NumRequests(u)
    <3>1. /\ num_requests[u] \in Nat /\ c \in Nat /\ sent[u] \in Nat /\ w \in Nat
          /\ p \in Nat /\ k \in Nat /\ num_requests[u] = c - sent[u] + w + p + k
      BY Balance
    <3>2. u = t => k = l
      BY DEF l, q
    <3> HIDE DEF w, p, k, c
    <3>3. CASE u = t
      <4>1. num_requests[u] - 1 = c - sent[u] + w + p + (l - 1)
        BY <3>1, <3>2, <3>3
      <4> QED BY <1>1, <1>3, <1>6, <2>1, <3>3, <4>1 DEF w, p, c
    <3>4. CASE u # t
      BY <1>1, <1>6, <2>1, <3>1, <3>4 DEF w, p, k, c
    <3> QED BY <3>3, <3>4
  <2> QED BY <2>2 DEF Conservation
<1>9. Covered'
  <2>1. ASSUME NEW u \in Tasks, NEW e \in Elements, OnItsWay(u, e) PROVE OnItsWay(u, e)'
    <3>1. CASE u # t
      BY <1>1, <1>6, <2>1, <3>1 DEF OnItsWay, IsFor
    <3>2. CASE u = t /\ mat[t][e] = e
      BY <1>5, <1>7, <3>2 DEF OnItsWay
    <3>3. ASSUME u = t, NEW j \in DOMAIN q, Place(q[j]) = e PROVE OnItsWay(u, e)'
      <4>1. CASE j = 1
        BY <1>3, <1>5, <1>7, <3>3, <4>1 DEF OnItsWay
      <4>2. CASE j # 1
        <5>1. j - 1 \in 1 .. l - 1 /\ (j - 1) + 1 = j
          BY <1>3, <3>3, <4>2
        <5>2. j - 1 \in DOMAIN receive_queue'[t] /\ receive_queue'[t][j - 1] = q[j]
          BY <1>3, <1>6, <5>1
        <5>3. \E k \in DOMAIN receive_queue'[t] : Place(receive_queue'[t][k]) = e
          BY <3>3, <5>2
        <5> QED BY <3>3, <5>3 DEF OnItsWay, Place
      <4> QED BY <4>1, <4>2
    <3>4. CASE \/ \E n \in Nodes : \E j \in DOMAIN data_store_queue[n] :
                    IsFor(u, e, data_store_queue[n][j])
               \/ \E n \in Nodes : IsFor(u, e, request[n])
      BY <1>1, <3>4 DEF OnItsWay
    <3> QED BY <2>1, <3>1, <3>2, <3>3, <3>4 DEF OnItsWay, q
  <2>2. \A u \in Tasks : \A s \in 0 .. sent[u] - 1 : Wanted(u, s) \in Elements
    <3>1. ASSUME NEW u \in Tasks, NEW s \in 0 .. sent[u] - 1 PROVE Wanted(u, s) \in Elements
      <4>1. sent[u] \in Nat /\ sent[u] <= NumRequests(u) /\ NumRequests(u) \in Nat
        BY RequestCount DEF ClusterInv, IInv, TypeOK, TaskTypeOK
      <4>2. s \in Nat /\ s < NumRequests(u)
        BY <4>1
      <4> QED BY <4>2, WantedIsElement
    <3> QED BY <3>1
  <2> QED BY <1>1, <2>1, <2>2 DEF ClusterInv, RunInv, Covered
<1>10. Answered'
  <2>1. \A j \in DOMAIN Tail(q) : \E k \in DOMAIN q : Tail(q)[j] = q[k]
    <3>1. \A j \in 1 .. l - 1 : j + 1 \in 1 .. l
      BY <1>3
    <3> QED BY <1>3, <3>1
  <2>2. \A k \in DOMAIN q : q[k].result # None
    BY DEF ClusterInv, RunInv, Answered, q
  <2>3. \A j \in DOMAIN receive_queue'[t] : receive_queue'[t][j].result # None
    BY <1>6, <2>1, <2>2
  <2>4. ASSUME NEW u \in Tasks, u # t
        PROVE  \A j \in DOMAIN receive_queue'[u] : receive_queue'[u][j].result # None
    BY <1>6, <2>4 DEF ClusterInv, RunInv, Answered
  <2> QED BY <2>3, <2>4 DEF Answered
<1>11. QueuesBounded' /\ Judged' /\ ShutPlace'
  BY <1>1 DEF ClusterInv, RunInv, QueuesBounded, Judged, ShutPlace, Told
<1>12. TasksPlace'
  BY <1>1, <1>6 DEF ClusterInv, RunInv, TasksPlace
<1> QED BY <1>1, <1>8, <1>9, <1>10, <1>11, <1>12 DEF RunInv

LEMMA WaitGetRun ==
  ASSUME ClusterInv, NEW n \in Nodes, WaitGet(n)
  PROVE  RunInv' /\ UNCHANGED <<task_pc, mat, verdict>>
<1> DEFINE item == Head(data_store_queue[n])
<1>1. /\ wait_pc[n] = "get" /\ data_store_queue[n] # <<>>
      /\ data_store_queue' = [data_store_queue EXCEPT ![n] = Tail(@)]
      /\ wait_pc' = [wait_pc EXCEPT ![n] = IF item = None THEN "poison" ELSE "process"]
      /\ request' = [request EXCEPT ![n] = item]
      /\ UNCHANGED <<sent, num_requests, mat, receive_queue, task_pc, main, nodes_mat,
                     num_correct, verdict>>
  BY DEF WaitGet, mainVars, taskVars
<1>2. /\ QueuesBounded'
      /\ \A t \in Tasks :
           Cardinality(Waiting(t)) =
             IF item # None /\ item.task = t
             THEN Cardinality(Waiting(t))' + 1 ELSE Cardinality(Waiting(t))'
      /\ \A t \in Tasks : Cardinality(Waiting(t))' \in Nat
      /\ \A m \in Nodes : \A j \in DOMAIN data_store_queue[m] :
           \/ m = n /\ data_store_queue[m][j] = item
           \/ \E k \in DOMAIN data_store_queue'[m] :
                data_store_queue'[m][k] = data_store_queue[m][j]
      /\ \A m \in Nodes : \A k \in DOMAIN data_store_queue'[m] :
           \E j \in DOMAIN data_store_queue[m] :
             data_store_queue'[m][k] = data_store_queue[m][j]
  BY <1>1, GetWaiting
<1>3. \E j \in DOMAIN data_store_queue[n] : data_store_queue[n][j] = item
  <2>1. 1 \in DOMAIN data_store_queue[n]
    BY <1>1, QueueIs, EmptySeq
  <2> QED BY <2>1
<1> HIDE DEF item
<1>4. /\ request[n] = None /\ request'[n] = item
      /\ \A m \in Nodes \ {n} : request'[m] = request[m]
      /\ wait_pc'[n] = IF item = None THEN "poison" ELSE "process"
      /\ \A m \in Nodes \ {n} : wait_pc'[m] = wait_pc[m]
      /\ data_store_queue'[n] = Tail(data_store_queue[n])
      /\ \A m \in Nodes \ {n} : data_store_queue'[m] = data_store_queue[m]
  BY <1>1 DEF ClusterInv, IInv, TypeOK, WaitTypeOK, QueueTypeOK
<1>5. Conservation'
  <2>1. ASSUME NEW t \in Tasks
        PROVE  num_requests'[t] = NumRequests(t) - sent'[t] + Cardinality(Waiting(t))'
                                    + Cardinality(Processed(t))' + Len(receive_queue'[t])
    <3> DEFINE w == Cardinality(Waiting(t))
               w1 == Cardinality(Waiting(t))'
               p == Cardinality(Processed(t))
               p1 == Cardinality(Processed(t))'
               l == Len(receive_queue[t])
               c == NumRequests(t)
    <3>1. /\ num_requests[t] \in Nat /\ c \in Nat /\ sent[t] \in Nat /\ w \in Nat
          /\ p \in Nat /\ l \in Nat /\ num_requests[t] = c - sent[t] + w + p + l
      BY Balance
    <3>2. w1 \in Nat /\ w = IF item # None /\ item.task = t THEN w1 + 1 ELSE w1
      BY <1>2
    <3>3. p1 = IF item # None /\ item.task = t THEN p + 1 ELSE p
      <4>1. CASE item # None /\ item.task = t
        <5>1. Processed(t)' = Processed(t) \cup {n} /\ n \notin Processed(t)
          BY <1>4, <4>1 DEF Processed
        <5> QED BY <4>1, <5>1, CountsFinite, FS_AddElement
      <4>2. CASE ~(item # None /\ item.task = t)
        <5>1. Processed(t)' = Processed(t)
          BY <1>4, <4>2 DEF Processed
        <5> QED BY <4>2, <5>1
      <4> QED BY <4>1, <4>2
    <3>4. num_requests'[t] = num_requests[t] /\ sent'[t] = sent[t]
          /\ Len(receive_queue'[t]) = l
      BY <1>1
    <3> HIDE DEF w, w1, p, p1, l, c
    <3>5. num_requests[t] = c - sent[t] + w1 + p1 + l
      BY <3>1, <3>2, <3>3
    <3> QED BY <3>4, <3>5 DEF w1, p1, c
  <2> QED BY <2>1 DEF Conservation
<1>6. Covered'
  <2>1. ASSUME NEW u \in Tasks, NEW e, OnItsWay(u, e) PROVE OnItsWay(u, e)'
    <3>1. ASSUME NEW m \in Nodes, NEW j \in DOMAIN data_store_queue[m],
                 IsFor(u, e, data_store_queue[m][j])
          PROVE  OnItsWay(u, e)'
      <4>1. CASE m = n /\ data_store_queue[m][j] = item
        BY <1>4, <3>1, <4>1 DEF OnItsWay, IsFor, Place
      <4>2. ASSUME NEW k \in DOMAIN data_store_queue'[m],
                   data_store_queue'[m][k] = data_store_queue[m][j]
            PROVE  OnItsWay(u, e)'
        BY <3>1, <4>2 DEF OnItsWay, IsFor, Place
      <4> QED BY <1>2, <3>1, <4>1, <4>2
    <3>2. ASSUME NEW m \in Nodes, IsFor(u, e, request[m]) PROVE OnItsWay(u, e)'
      <4>1. m # n
        BY <1>4, <3>2 DEF IsFor
      <4> QED BY <1>4, <3>2, <4>1 DEF OnItsWay, IsFor
    <3>3. CASE mat[u][e] = e \/ \E j \in DOMAIN receive_queue[u] : Place(receive_queue[u][j]) = e
      BY <1>1, <3>3 DEF OnItsWay
    <3> QED BY <2>1, <3>1, <3>2, <3>3 DEF OnItsWay
  <2> QED BY <1>1, <2>1 DEF ClusterInv, RunInv, Covered
<1>7. Answered' /\ TasksPlace' /\ Judged'
  BY <1>1 DEF ClusterInv, RunInv, Answered, TasksPlace, Judged
<1>8. ShutPlace'
  <2>1. \A m \in Nodes : Told(m)' <=> Told(m)
    BY <1>1 DEF Told
  <2>2. ASSUME NEW m \in Nodes, m # n
        PROVE  /\ wait_pc'[m] = wait_pc[m]
               /\ data_store_queue'[m] = data_store_queue[m]
    BY <1>4, <2>2
  <2>3. CASE Told(n)
    <3>1. data_store_queue[n] = <<None>>
      BY <1>1, <2>3 DEF ClusterInv, RunInv, ShutPlace
    <3>2. item = None /\ data_store_queue'[n] = <<>>
      BY <1>4, <3>1 DEF item
    <3> QED BY <1>4, <2>1, <2>2, <2>3, <3>2 DEF ClusterInv, RunInv, ShutPlace
  <2>4. CASE ~Told(n)
    <3>1. \A j \in DOMAIN data_store_queue[n] : data_store_queue[n][j] # None
      BY <2>4 DEF ClusterInv, RunInv, ShutPlace
    <3>2. item # None /\ \A j \in DOMAIN data_store_queue'[n] : data_store_queue'[n][j] # None
      BY <1>2, <1>3, <3>1
    <3>3. wait_pc'[n] = "process" /\ ~Told(n)'
      BY <1>4, <2>1, <2>4, <3>2
    <3>4. ASSUME NEW m \in Nodes, m # n
          PROVE  IF Told(m)'
                 THEN IF wait_pc'[m] = "poison" THEN data_store_queue'[m] = <<>>
                      ELSE data_store_queue'[m] = <<None>>
                 ELSE /\ wait_pc'[m] \notin {"poison", "ended"}
                      /\ \A j \in DOMAIN data_store_queue'[m] : data_store_queue'[m][j] # None
      BY <2>1, <2>2, <3>4 DEF ClusterInv, RunInv, ShutPlace
    <3> HIDE DEF Told
    <3> QED BY <3>2, <3>3, <3>4 DEF ShutPlace
  <2> QED BY <2>3, <2>4
<1> QED BY <1>1, <1>2, <1>5, <1>6, <1>7, <1>8 DEF RunInv

LEMMA WaitRespondRun ==
  ASSUME ClusterInv, NEW n \in Nodes, WaitRespond(n)
  PROVE  RunInv' /\ UNCHANGED <<task_pc, mat, verdict>>
<1> DEFINE r == request[n]
           t == r.task
           element == Stored(n, r.selector, r.node_identifier[1], r.node_identifier[2])
           response == [selector |-> r.selector,
                        matrix_identifier |-> r.matrix_identifier, result |-> element]
<1>1. /\ wait_pc[n] = "process"
      /\ receive_queue' = [receive_queue EXCEPT ![t] = Append(@, response)]
      /\ wait_pc' = [wait_pc EXCEPT ![n] = "get"]
      /\ request' = [request EXCEPT ![n] = None]
      /\ UNCHANGED <<sent, num_requests, mat, data_store_queue, task_pc, main, nodes_mat,
                     num_correct, verdict>>
  BY DEF WaitRespond, Respond, mainVars, taskVars
<1>2. r # None /\ r \in Request /\ RequestRight(n, r)
  BY <1>1 DEF ClusterInv, IInv, TypeOK, WaitTypeOK, DataRight
<1>3. t \in Tasks /\ Place(r) \in Elements
  BY <1>2 DEF Request, Place, Elements
<1>4. /\ response \in Response /\ response.result # None
      /\ Place(response) = Place(r)
  <2>1. response \in Response
    BY <1>2, ResponseRight
  <2>2. response.result = Place(r)
    BY <1>2 DEF RequestRight
  <2> QED BY <1>3, <2>1, <2>2, NoneAssumption DEF Place
<1> DEFINE q == receive_queue[t]
           l == Len(q)
<1>5. /\ l \in Nat /\ DOMAIN q = 1 .. l
      /\ Len(Append(q, response)) = l + 1 /\ DOMAIN Append(q, response) = 1 .. l + 1
      /\ \A j \in 1 .. l : Append(q, response)[j] = q[j]
      /\ Append(q, response)[l + 1] = response
  <2>1. q \in Seq(Response)
    BY <1>3 DEF ClusterInv, IInv, TypeOK, QueueTypeOK
  <2> QED BY <1>4, <2>1, AppendProperties, LenProperties
<1>6. /\ receive_queue'[t] = Append(q, response)
      /\ \A u \in Tasks \ {t} : receive_queue'[u] = receive_queue[u]
      /\ request'[n] = None /\ \A m \in Nodes \ {n} : request'[m] = request[m]
      /\ wait_pc'[n] = "get" /\ \A m \in Nodes \ {n} : wait_pc'[m] = wait_pc[m]
  BY <1>1, <1>3 DEF ClusterInv, IInv, TypeOK, WaitTypeOK, QueueTypeOK
<1> HIDE DEF response, l
<1>7. /\ \A j \in DOMAIN q : j \in DOMAIN receive_queue'[t] /\ receive_queue'[t][j] = q[j]
      /\ \E j \in DOMAIN receive_queue'[t] : receive_queue'[t][j] = response
      /\ \A j \in DOMAIN receive_queue'[t] :
           receive_queue'[t][j] = response \/ (j \in DOMAIN q /\ receive_queue'[t][j] = q[j])
  <2>1. l + 1 \in 1 .. l + 1 /\ \A j \in 1 .. l + 1 : j = l + 1 \/ j \in 1 .. l
    BY <1>5
  <2>2. \A j \in 1 .. l : j \in 1 .. l + 1
    BY <1>5
  <2> QED BY <1>5, <1>6, <2>1, <2>2
<1>8. Conservation'
  <2>1. ASSUME NEW u \in Tasks
        PROVE  num_requests'[u] = NumRequests(u) - sent'[u] + Cardinality(Waiting(u))'
                                    + Cardinality(Processed(u))' + Len(receive_queue'[u])
    <3> DEFINE w == Cardinality(Waiting(u))
               p == Cardinality(Processed(u))
               p1 == Cardinality(Processed(u))'
               k == Len(receive_queue[u])
               k1 == Len(receive_queue'[u])
               c == NumRequests(u)
    <3>1. /\ num_requests[u] \in Nat /\ c \in Nat /\ sent[u] \in Nat /\ w \in Nat
          /\ p \in Nat /\ k \in Nat /\ num_requests[u] = c - sent[u] + w + p + k
      BY Balance
    <3>2. Waiting(u)' = Waiting(u)
      BY <1>1 DEF Waiting
    <3>3. IF u = t THEN p1 = p - 1 /\ k1 = k + 1 ELSE p1 = p /\ k1 = k
      <4>1. CASE u = t
        <5>1. n \in Processed(u) /\ Processed(u)' = Processed(u) \ {n}
          BY <1>2, <1>6, <4>1 DEF Processed
        <5>2. p1 = p - 1
          BY <5>1, CountsFinite, FS_RemoveElement
        <5> QED BY <1>5, <1>6, <4>1, <5>2 DEF l
      <4>2. CASE u # t
        <5>1. Processed(u)' = Processed(u)
          BY <1>2, <1>6, <4>2 DEF Processed
        <5> QED BY <1>6, <4>2, <5>1
      <4> QED BY <4>1, <4>2
    <3>4. num_requests'[u] = num_requests[u] /\ sent'[u] = sent[u]
      BY <1>1
    <3> HIDE DEF w, p, p1, k, k1, c
    <3>5. num_requests[u] = c - sent[u] + w + p1 + k1
      <4>1. CASE u = t
        BY <3>1, <3>3, <4>1
      <4>2. CASE u # t
        BY <3>1, <3>3, <4>2
      <4> QED BY <4>1, <4>2
    <3> QED BY <3>2, <3>4, <3>5 DEF w, p1, k1, c
  <2> QED BY <2>1 DEF Conservation
<1>9. Covered'
  <2>1. ASSUME NEW u \in Tasks, NEW e, OnItsWay(u, e) PROVE OnItsWay(u, e)'
    <3>1. ASSUME NEW m \in Nodes, IsFor(u, e, request[m]) PROVE OnItsWay(u, e)'
      <4>1. CASE m = n
        <5>1. u = t /\ Place(response) = e
          BY <1>4, <3>1, <4>1 DEF IsFor
        <5>2. \E j \in DOMAIN receive_queue'[u] : Place(receive_queue'[u][j]) = e
          BY <1>7, <5>1
        <5> QED BY <5>2 DEF OnItsWay, Place
      <4>2. CASE m # n
        BY <1>6, <3>1, <4>2 DEF OnItsWay, IsFor
      <4> QED BY <4>1, <4>2
    <3>2. ASSUME NEW j \in DOMAIN receive_queue[u], Place(receive_queue[u][j]) = e
          PROVE  OnItsWay(u, e)'
      <4>1. j \in DOMAIN receive_queue'[u] /\ receive_queue'[u][j] = receive_queue[u][j]
        BY <1>6, <1>7, <3>2
      <4>2. \E k \in DOMAIN receive_queue'[u] : Place(receive_queue'[u][k]) = e
        BY <3>2, <4>1
      <4> QED BY <4>2 DEF OnItsWay, Place
    <3>3. CASE \/ mat[u][e] = e
               \/ \E m \in Nodes : \E j \in DOMAIN data_store_queue[m] :
                    IsFor(u, e, data_store_queue[m][j])
      BY <1>1, <3>3 DEF OnItsWay
    <3> QED BY <2>1, <3>1, <3>2, <3>3 DEF OnItsWay
  <2> QED BY <1>1, <2>1 DEF ClusterInv, RunInv, Covered
<1>10. Answered'
  <2>1. \A k \in DOMAIN q : q[k].result # None
    BY <1>3 DEF ClusterInv, RunInv, Answered
  <2>2. \A j \in DOMAIN receive_queue'[t] : receive_queue'[t][j].result # None
    BY <1>4, <1>7, <2>1
  <2>3. ASSUME NEW u \in Tasks, u # t
        PROVE  \A j \in DOMAIN receive_queue'[u] : receive_queue'[u][j].result # None
    BY <1>6, <2>3 DEF ClusterInv, RunInv, Answered
  <2> HIDE DEF t
  <2>4. \A u \in Tasks : \A j \in DOMAIN receive_queue'[u] : receive_queue'[u][j].result # None
    BY <2>2, <2>3
  <2> QED BY <2>4 DEF Answered
<1>11. QueuesBounded' /\ TasksPlace' /\ Judged'
  BY <1>1 DEF ClusterInv, RunInv, QueuesBounded, TasksPlace, Judged
<1>12. ShutPlace'
  BY <1>1, <1>6 DEF ClusterInv, RunInv, ShutPlace, Told
<1> QED BY <1>1, <1>8, <1>9, <1>10, <1>11, <1>12 DEF RunInv

LEMMA ClusterInvStep == ClusterInv /\ [Next]_vars => ClusterInv'
<1> SUFFICES ASSUME ClusterInv, [Next]_vars PROVE ClusterInv'
  OBVIOUS
<1>1. IInv'
  BY StepInv DEF ClusterInv
<1>2. CASE MainStep
  <2>1. RunInv'
    BY <1>2, MainConstructRun, MainSetNodesRun, MainStartRun, MainJoinRun, MainShutdownRun,
       MainJoinWaitRun, MainVerdictRun DEF MainStep
  <2> QED BY <1>1, <2>1 DEF ClusterInv
<1>3. ASSUME NEW t \in Tasks, TaskStep(t) PROVE ClusterInv'
  BY <1>1, <1>3, TaskSendRun, TaskReceiveRun, TaskFinishRun DEF TaskStep, ClusterInv
<1>4. ASSUME NEW n \in Nodes, WaitStep(n) PROVE ClusterInv'
  BY <1>1, <1>4, WaitQuietRun, WaitGetRun, WaitEndRun, WaitRespondRun
  DEF WaitStep, ClusterInv
<1>5. CASE UNCHANGED vars
  <2>1. UNCHANGED <<dataVars, task_pc, wait_pc, main, nodes_mat, num_correct, verdict>>
    BY <1>5 DEF vars, dataVars, mainVars, taskVars, waitVars, queueVars
  <2>2. TasksPlace' /\ Judged' /\ ShutPlace'
    BY <2>1 DEF ClusterInv, RunInv, TasksPlace, Judged, ShutPlace, Told, dataVars
  <2> QED BY <1>1, <2>1, <2>2, DataKept DEF ClusterInv, RunInv
<1> QED BY <1>2, <1>3, <1>4, <1>5 DEF Next, Finished

LEMMA ClusterInvAlways == Spec => []ClusterInv
<1>1. Init => ClusterInv
  BY InitInv, RunInvInit DEF ClusterInv
<1> QED BY <1>1, ClusterInvStep, PTL DEF Spec

(* For any number of nodes, tasks and queue entries: no request and no     *)
(* response of a task is lost or doubled (node.py:96-121, 158-194).        *)
THEOREM NothingLostOrDoubled == Spec => []Conservation
<1>1. ClusterInv => Conservation
  BY DEF ClusterInv, RunInv
<1> QED BY <1>1, ClusterInvAlways, PTL

(* Every task that ends has the right block, though it only counts the     *)
(* responses (node.py:113-121).                                            *)
THEOREM BlocksAlwaysRight == Spec => []BlocksRight
<1>1. ClusterInv => BlocksRight
  BY AllReceived DEF ClusterInv, RunInv, TasksPlace, BlocksRight
<1> QED BY <1>1, ClusterInvAlways, PTL

(* A wait thread that returns leaves its None in the queue and nothing     *)
(* else, and no task that might still send (node.py:158-171, 200-204).     *)
THEOREM ShutdownLeavesNothing == Spec => []ShutdownClean
<1>1. ASSUME ClusterInv, NEW n \in Nodes, wait_pc[n] \in {"poison", "ended"}
      PROVE  /\ \A t \in Tasks : task_pc[t] = "done"
             /\ data_store_queue[n] = IF wait_pc[n] = "ended" THEN <<None>> ELSE <<>>
  <2>1. Told(n)
    BY <1>1 DEF ClusterInv, RunInv, ShutPlace
  <2>2. \A t \in Tasks : task_pc[t] = "done"
    BY <1>1, <2>1 DEF ClusterInv, RunInv, TasksPlace, Told
  <2> QED BY <1>1, <2>1, <2>2 DEF ClusterInv, RunInv, ShutPlace
<1>2. ClusterInv => ShutdownClean
  BY <1>1 DEF ShutdownClean
<1> QED BY <1>2, ClusterInvAlways, PTL

(* Every step of the cluster delivers one right block, judges the test a   *)
(* success when all are delivered, or is invisible to whoever submitted    *)
(* the tasks (tester.py:98-207): what KeepsPromise says but for liveness.  *)
THEOREM StepsOfTestRun ==
  Spec => Promise!TestInit /\ [][Promise!TestNext]_(Promise!testVars)
<1>1. Init => Promise!TestInit
  <2> SUFFICES ASSUME Init PROVE Promise!TestInit
    OBVIOUS
  <2>1. verdict = "running" /\ \A t \in Tasks : task_pc[t] # "done"
    BY DEF Init
  <2> QED BY <2>1 DEF Promise!TestInit
<1>2. ClusterInv /\ BlocksRight /\ BlocksRight' /\ [Next]_vars
        => [Promise!TestNext]_(Promise!testVars)
  <2> DEFINE block == [t \in Tasks |->
                         IF task_pc[t] # "done" THEN "none"
                         ELSE IF ResultCorrect(t) THEN "right" ELSE "wrong"]
             Undisturbed == verdict' = verdict
                            /\ \A t \in Tasks : task_pc'[t] = "done" <=> task_pc[t] = "done"
  <2> SUFFICES ASSUME ClusterInv, BlocksRight, BlocksRight', [Next]_vars
               PROVE  [Promise!TestNext]_(Promise!testVars)
    OBVIOUS
  <2>1. block = [t \in Tasks |-> IF task_pc[t] # "done" THEN "none" ELSE "right"]
    BY DEF BlocksRight
  <2>2. block' = [t \in Tasks |-> IF task_pc'[t] # "done" THEN "none" ELSE "right"]
    BY DEF BlocksRight
  <2>3. ASSUME Undisturbed PROVE [Promise!TestNext]_(Promise!testVars)
    <3>1. block' = block
      BY <2>1, <2>2, <2>3
    <3> QED BY <2>3, <3>1 DEF Promise!testVars
  <2>4. CASE MainVerdict
    <3>1. verdict = "running" /\ verdict' = "passed" /\ \A t \in Tasks : task_pc[t] = "done"
      BY <2>4, MainVerdictRun
    <3>2. \A t \in Tasks : block[t] = "right"
      BY <2>1, <3>1
    <3>3. task_pc' = task_pc
      BY <2>4 DEF MainVerdict, taskVars
    <3>4. block' = block
      BY <2>1, <2>2, <3>3
    <3>5. Promise!Judge
      BY <3>1, <3>2, <3>4 DEF Promise!Judge
    <3> QED BY <3>5 DEF Promise!TestNext
  <2>5. ASSUME NEW t \in Tasks, TaskFinish(t) PROVE [Promise!TestNext]_(Promise!testVars)
    <3>1. /\ task_pc[t] = "run" /\ task_pc' = [task_pc EXCEPT ![t] = "done"]
          /\ verdict' = verdict
      BY <2>5 DEF TaskFinish
    <3>2. /\ task_pc'[t] = "done" /\ \A u \in Tasks \ {t} : task_pc'[u] = task_pc[u]
      BY <3>1 DEF ClusterInv, IInv, TypeOK, TaskTypeOK
    <3>3. block[t] = "none" /\ block' = [block EXCEPT ![t] = "right"]
      <4> HIDE DEF block
      <4>1. block[t] = "none"
        BY <2>1, <3>1
      <4>2. \A u \in Tasks : block'[u] = IF u = t THEN "right" ELSE block[u]
        BY <2>1, <2>2, <3>2
      <4> QED BY <2>1, <2>2, <4>1, <4>2
    <3>4. Promise!Deliver(t)
      BY <3>1, <3>3 DEF Promise!Deliver
    <3> QED BY <3>4 DEF Promise!TestNext
  <2>6. ASSUME NEW t \in Tasks, MainStart(t) PROVE Undisturbed
    BY <2>6 DEF MainStart, mainVars, ClusterInv, IInv, TypeOK, TaskTypeOK
  <2>7. CASE MainSetNodes \/ MainJoin \/ \E n \in Nodes : \/ MainConstruct(n) \/ MainShutdown(n)
                                                         \/ MainJoinWait(n)
    <3>1. UNCHANGED <<task_pc, verdict>>
      BY <2>7 DEF MainSetNodes, MainJoin, MainConstruct, MainShutdown, MainJoinWait, taskVars
    <3> QED BY <2>3, <3>1
  <2>8. ASSUME NEW t \in Tasks, TaskSend(t) \/ TaskReceive(t) PROVE Undisturbed
    BY <2>8, TaskSendRun, TaskReceiveRun
  <2>9. ASSUME NEW n \in Nodes, WaitStep(n) PROVE Undisturbed
    BY <2>9 DEF WaitStep, WaitRegister, WaitGet, WaitEnd, WaitCheck, WaitAcquire, WaitRespond,
                mainVars, taskVars
  <2>10. CASE UNCHANGED vars
    BY <2>3, <2>10 DEF vars, mainVars, taskVars
  <2> QED BY <2>3, <2>4, <2>5, <2>6, <2>7, <2>8, <2>9, <2>10
          DEF Next, MainStep, TaskStep, Finished
<1> QED BY <1>1, <1>2, ClusterInvAlways, BlocksAlwaysRight, PTL DEF Spec

------------------------------------------------------------------------------
(* Why some thread can always go on.                                       *)

(* The main thread starts every loop at node 0, and has constructed the    *)
(* nodes it has passed.                                                    *)
MainPlace ==
  /\ main.pc \in {"set_nodes", "start", "verdict"} => main.node = 0
  /\ \A n \in Nodes : wait_pc[n] = "new" => main.pc = "construct" /\ n >= main.node

LEMMA MainPlaceInit == Init => MainPlace
<1>1. \A n \in Nodes : n >= 0
  BY ClusterAssumption, Sizes
<1> QED BY <1>1 DEF Init, MainPlace

LEMMA MainPlaceStep ==
  ASSUME ClusterInv, MainPlace, [Next]_vars
  PROVE  MainPlace'
<1> DEFINE WaitOn == \A m \in Nodes : wait_pc'[m] = "new" => wait_pc[m] = "new"
<1>1. ASSUME WaitOn, UNCHANGED main PROVE MainPlace'
  BY <1>1 DEF MainPlace
<1>2. ASSUME NEW n \in Nodes, MainConstruct(n) PROVE MainPlace'
  <2>1. /\ main.pc = "construct" /\ main.node = n
        /\ wait_pc' = [wait_pc EXCEPT ![n] = "register"]
        /\ IF n + 1 \in Nodes THEN main'.pc = "construct" /\ main'.node = n + 1
           ELSE main'.pc = "set_nodes" /\ main'.node = 0
    BY <1>2 DEF MainConstruct, At, NextNode, GoTo
  <2>2. ASSUME NEW m \in Nodes, wait_pc'[m] = "new" PROVE m >= n /\ m # n
    BY <2>1, <2>2 DEF MainPlace, ClusterInv, IInv, TypeOK, WaitTypeOK
  <2>3. \A m \in Nodes : m >= n /\ m # n => n + 1 \in Nodes /\ m >= n + 1
    <3> DEFINE N == GridSize * GridSize
    <3>1. N \in Nat /\ Nodes = 0 .. N - 1
      BY Sizes, ClusterAssumption
    <3> HIDE DEF N
    <3> QED BY <3>1
  <2> QED BY <2>1, <2>2, <2>3 DEF MainPlace
<1>3. ASSUME NEW n \in Nodes, MainShutdown(n) \/ MainJoinWait(n) PROVE MainPlace'
  <2>1. UNCHANGED wait_pc /\ main.pc # "construct"
    BY <1>3 DEF MainShutdown, MainJoinWait, At, waitVars
  <2>2. main'.pc \in {"set_nodes", "start", "verdict"} => main'.node = 0
    BY <1>3 DEF MainShutdown, MainJoinWait, NextNode, GoTo
  <2> QED BY <2>1, <2>2 DEF MainPlace
<1>4. CASE MainSetNodes \/ MainJoin \/ MainVerdict
  <2>1. UNCHANGED wait_pc /\ main.pc # "construct" /\ main'.node = 0
    BY <1>4 DEF MainSetNodes, MainJoin, MainVerdict, At, GoTo, waitVars
  <2> QED BY <2>1 DEF MainPlace
<1>5. ASSUME NEW t \in Tasks, MainStart(t) \/ TaskStep(t) PROVE MainPlace'
  <2>1. UNCHANGED <<wait_pc, main>>
    BY <1>5 DEF MainStart, TaskStep, TaskSend, TaskReceive, TaskFinish, mainVars, waitVars
  <2> QED BY <1>1, <2>1
<1>6. ASSUME NEW n \in Nodes, WaitStep(n) PROVE MainPlace'
  <2>1. UNCHANGED main
    BY <1>6 DEF WaitStep, WaitRegister, WaitGet, WaitEnd, WaitCheck, WaitAcquire, WaitRespond,
                mainVars
  <2>2. WaitOn
    BY <1>6 DEF WaitStep, WaitRegister, WaitGet, WaitEnd, WaitCheck, WaitAcquire, WaitRespond,
                Respond, waitVars, ClusterInv, IInv, TypeOK, WaitTypeOK
  <2> QED BY <1>1, <2>1, <2>2
<1>7. CASE UNCHANGED vars
  BY <1>1, <1>7 DEF vars, mainVars, waitVars
<1> QED BY <1>2, <1>3, <1>4, <1>5, <1>6, <1>7 DEF Next, MainStep, Finished

LEMMA PlaceAlways == Spec => [](ClusterInv /\ MainPlace)
<1>1. Init => ClusterInv /\ MainPlace
  BY InitInv, RunInvInit, MainPlaceInit DEF ClusterInv
<1>2. ClusterInv /\ MainPlace /\ [Next]_vars => (ClusterInv /\ MainPlace)'
  BY ClusterInvStep, MainPlaceStep
<1> QED BY <1>1, <1>2, PTL DEF Spec

(* A wait thread that cannot go on waits for a request, or is not running. *)
LEMMA WaitStuck ==
  ASSUME ClusterInv, NEW n \in Nodes, ~WaitCanStep(n)
  PROVE  \/ wait_pc[n] \in {"new", "ended"}
         \/ wait_pc[n] = "get" /\ data_store_queue[n] = <<>>
<1>1. wait_pc[n] \in {"new", "register", "get", "process", "poison", "ended"}
  BY DEF ClusterInv, IInv, TypeOK, WaitTypeOK
<1>2. call[n].pc \in {"idle", "register", "check", "acquire", "sleep"}
  BY NodeFacts DEF ClusterInv, Calls, Idle
<1>3. /\ call[n].pc \in {"register", "check"} => wait_pc[n] = "register"
      /\ call[n].pc \in {"acquire", "sleep"} => wait_pc[n] = "process"
  BY NodeFacts DEF ClusterInv, NodeDisciplined
<1>4. wait_pc[n] = "poison" => Len(data_store_queue[n]) < MaxPending
  <2>1. wait_pc[n] = "poison" => data_store_queue[n] = <<>>
    BY DEF ClusterInv, RunInv, ShutPlace
  <2> QED BY <2>1, EmptySeq, StoreAssumption
<1> QED BY <1>1, <1>2, <1>3, <1>4 DEF WaitCanStep

(* While tasks run and no wait thread can go on, no request is under way.  *)
LEMMA TasksCanStep ==
  ASSUME ClusterInv, MainPlace, main.pc = "start", \A n \in Nodes : ~WaitCanStep(n),
         NEW t \in Tasks, task_pc[t] = "run"
  PROVE  TaskCanStep(t)
<1>1. \A n \in Nodes : wait_pc[n] = "get" /\ data_store_queue[n] = <<>> /\ request[n] = None
  <2>1. ASSUME NEW n \in Nodes PROVE wait_pc[n] = "get" /\ data_store_queue[n] = <<>>
    <3>1. wait_pc[n] # "new"
      BY DEF MainPlace
    <3>2. wait_pc[n] # "ended"
      BY DEF ClusterInv, RunInv, ShutPlace, Told
    <3> QED BY <3>1, <3>2, WaitStuck
  <2> QED BY <2>1 DEF ClusterInv, IInv, TypeOK, WaitTypeOK
<1>2. CASE sent[t] < NumRequests(t)
  <2>1. Owner(Wanted(t, sent[t])) \in Nodes
    BY <1>2, WantedIsElement, OwnerHasElement DEF ClusterInv, IInv, TypeOK, TaskTypeOK
  <2>2. Len(data_store_queue[Owner(Wanted(t, sent[t]))]) < MaxPending
    BY <1>1, <2>1, EmptySeq, StoreAssumption
  <2> QED BY <1>2, <2>2 DEF TaskCanStep
<1>3. CASE ~(sent[t] < NumRequests(t))
  <2>1. Waiting(t) = {} /\ Processed(t) = {}
    BY <1>1 DEF Waiting, Processed
  <2>2. Cardinality(Waiting(t)) = 0 /\ Cardinality(Processed(t)) = 0
    BY <2>1, FS_EmptySet
  <2>3. sent[t] <= NumRequests(t)
    BY DEF ClusterInv, IInv, TypeOK, TaskTypeOK
  <2> DEFINE c == NumRequests(t)
             w == Cardinality(Waiting(t))
             p == Cardinality(Processed(t))
             l == Len(receive_queue[t])
  <2>4. /\ num_requests[t] \in Nat /\ c \in Nat /\ sent[t] \in Nat /\ l \in Nat
        /\ num_requests[t] = c - sent[t] + w + p + l
    BY Balance
  <2>5. num_requests[t] = l
    <3> HIDE DEF c, w, p, l
    <3>1. w = 0 /\ p = 0
      BY <2>2 DEF w, p
    <3>2. sent[t] = c
      BY <1>3, <2>3, <2>4 DEF c
    <3> QED BY <2>4, <3>1, <3>2
  <2>6. num_requests[t] = 0 \/ receive_queue[t] # <<>>
    BY <2>5, EmptySeq
  <2> QED BY <1>3, <2>6 DEF TaskCanStep
<1> QED BY <1>2, <1>3

LEMMA SomeoneCanStep == ClusterInv /\ MainPlace => NobodyStuck
<1> SUFFICES ASSUME ClusterInv, MainPlace, main.pc # "done", \A n \in Nodes : ~WaitCanStep(n),
                    \A t \in Tasks : ~TaskCanStep(t)
             PROVE  MainCanStep
  BY DEF NobodyStuck
<1> DEFINE n == main.node
<1>1. /\ main \in [pc : {"construct", "set_nodes", "start", "shutdown", "join_wait",
                         "verdict", "done"},
                   node : Nodes]
      /\ main = [pc |-> main.pc, node |-> main.node] /\ n \in Nodes
  BY DEF ClusterInv, IInv, TypeOK, MainTypeOK
<1>2. CASE main.pc = "construct"
  BY <1>2 DEF MainCanStep
<1>3. CASE main.pc \in {"set_nodes", "verdict"}
  BY <1>1, <1>3 DEF MainCanStep, MainPlace, At
<1>4. CASE main.pc = "start"
  <2>1. \A t \in Tasks : task_pc[t] # "run"
    BY <1>4, TasksCanStep
  <2>2. \A t \in Tasks : task_pc[t] \in {"new", "done"}
    BY <2>1 DEF ClusterInv, IInv, TypeOK, TaskTypeOK
  <2>3. At("start", 0)
    BY <1>1, <1>4 DEF MainPlace, At
  <2> QED BY <2>2, <2>3 DEF MainCanStep
<1>5. CASE main.pc = "shutdown"
  <2>1. ~Told(n)
    BY <1>1, <1>5, ClusterAssumption, Sizes DEF Told
  <2>2. \A t \in Tasks : task_pc[t] = "done"
    BY <1>5 DEF ClusterInv, RunInv, TasksPlace
  <2>3. \A j \in DOMAIN data_store_queue[n] : data_store_queue[n][j] # None
    BY <1>1, <2>1 DEF ClusterInv, RunInv, ShutPlace
  <2>4. DOMAIN data_store_queue[n] = {}
    BY <1>1, <2>2, <2>3, OnlyNoneLeft
  <2>5. data_store_queue[n] = <<>>
    BY <1>1, <2>4, QueueIs, EmptySeq
  <2> QED BY <1>5, <2>5, EmptySeq, StoreAssumption DEF MainCanStep
<1>6. CASE main.pc = "join_wait"
  <2>1. Told(n)
    BY <1>1, <1>6, ClusterAssumption, Sizes DEF Told
  <2>2. wait_pc[n] # "new"
    BY <1>1, <1>6 DEF MainPlace
  <2>3. wait_pc[n] = "get" => data_store_queue[n] = <<None>>
    BY <1>1, <2>1 DEF ClusterInv, RunInv, ShutPlace
  <2>4. <<None>> # <<>>
    OBVIOUS
  <2>5. wait_pc[n] = "ended"
    BY <1>1, <2>2, <2>3, <2>4, WaitStuck
  <2> QED BY <1>6, <2>5 DEF MainCanStep
<1> QED BY <1>1, <1>2, <1>3, <1>4, <1>5, <1>6

(* For any number of nodes, tasks and queue entries: until the test is     *)
(* over some thread can take a step, so the bounded queues, the joins and  *)
(* the None put back never lock all threads (node.py:95-121, 146-171).     *)
THEOREM NobodyEverStuck == Spec => []NobodyStuck
BY PlaceAlways, SomeoneCanStep, PTL

------------------------------------------------------------------------------
(* Why the test ends: every step leaves less to do.                        *)

WorkIsCounted ==
  work \in [Tasks \cup {Main} -> Nat] /\ answering \in [Nodes -> Nat]

LEMMA NodeCount ==
  /\ GridSize * GridSize \in Nat \ {0}
  /\ Nodes = 0 .. GridSize * GridSize - 1
<1>1. GridSize * GridSize \in Nat \ {0}
  BY Sizes, Z3
<1> QED BY <1>1, ClusterAssumption

LEMMA MainLeftCounted ==
  ASSUME ClusterInv
  PROVE  MainLeft \in Nat
<1> DEFINE N == GridSize * GridSize
<1>1. N \in Nat \ {0} /\ main.node \in 0 .. N - 1
  BY NodeCount DEF ClusterInv, IInv, TypeOK, MainTypeOK
<1>2. main.pc \in {"construct", "set_nodes", "start", "shutdown", "join_wait", "verdict", "done"}
  BY DEF ClusterInv, IInv, TypeOK, MainTypeOK
<1> HIDE DEF N
<1> QED BY <1>1, <1>2 DEF MainLeft, N

LEMMA TaskLeftCounted ==
  ASSUME ClusterInv, NEW t \in Tasks
  PROVE  TaskLeft(t) \in Nat
<1> DEFINE c == NumRequests(t)
           w == Cardinality(Waiting(t))
           p == Cardinality(Processed(t))
           l == Len(receive_queue[t])
           s == sent[t]
           r == num_requests[t]
<1>1. r \in Nat /\ c \in Nat /\ s \in Nat /\ w \in Nat /\ p \in Nat /\ l \in Nat
      /\ r = c - s + w + p + l
  BY Balance
<1>2. s <= c /\ task_pc[t] \in {"new", "run", "done"}
  BY DEF ClusterInv, IInv, TypeOK, TaskTypeOK
<1>3. (c - s) + (r - l) + r \in Nat
  <2> HIDE DEF c, s, w, p, l, r
  <2> QED BY <1>1, <1>2
<1> HIDE DEF c, s, r, l
<1> QED BY <1>2, <1>3 DEF TaskLeft, c, s, r, l

LEMMA WaitLeftCounted == \A n \in Nodes : WaitLeft(n) \in Nat
BY DEF WaitLeft

LEMMA MainIsNoTask == Main \notin Tasks
BY ClusterAssumption

LEMMA WorkCounted == ClusterInv => WorkIsCounted
<1> SUFFICES ASSUME ClusterInv PROVE WorkIsCounted
  OBVIOUS
<1> USE DEF work, answering
<1> QED BY MainLeftCounted, TaskLeftCounted, WaitLeftCounted DEF WorkIsCounted

(* One thread has less to do, and no other has more.                       *)
LEMMA OneLess ==
  ASSUME NEW S, NEW f \in [S -> Nat], NEW g \in [S -> Nat], NEW x \in S, f[x] < g[x],
         \A y \in S \ {x} : f[y] = g[y]
  PROVE  Less(f, g)
BY DEF Less

LEMMA MainWorks ==
  ASSUME ClusterInv, WorkIsCounted, WorkIsCounted', MainLeft' < MainLeft,
         UNCHANGED <<task_pc, sent, num_requests, receive_queue>>
  PROVE  Less(work', work)
<1>1. \A t \in Tasks : TaskLeft(t)' = TaskLeft(t)
  BY DEF TaskLeft
<1>2. /\ work \in [Tasks \cup {Main} -> Nat] /\ work' \in [Tasks \cup {Main} -> Nat]
      /\ work'[Main] < work[Main]
      /\ \A y \in Tasks : work'[y] = work[y]
  BY <1>1, MainIsNoTask DEF WorkIsCounted, work
<1> QED BY <1>2, OneLess

LEMMA TaskWorks ==
  ASSUME ClusterInv, WorkIsCounted, WorkIsCounted', NEW t \in Tasks, TaskLeft(t)' < TaskLeft(t),
         UNCHANGED main,
         \A u \in Tasks \ {t} : /\ task_pc'[u] = task_pc[u] /\ sent'[u] = sent[u]
                                /\ num_requests'[u] = num_requests[u]
                                /\ receive_queue'[u] = receive_queue[u]
  PROVE  Less(work', work)
<1>1. \A u \in Tasks \ {t} : TaskLeft(u)' = TaskLeft(u)
  BY DEF TaskLeft
<1>2. MainLeft' = MainLeft
  BY DEF MainLeft
<1>3. /\ work \in [Tasks \cup {Main} -> Nat] /\ work' \in [Tasks \cup {Main} -> Nat]
      /\ work'[t] < work[t]
      /\ \A y \in (Tasks \cup {Main}) \ {t} : work'[y] = work[y]
  BY <1>1, <1>2, MainIsNoTask DEF WorkIsCounted, work
<1> QED BY <1>3, OneLess

LEMMA NodeAnswers ==
  ASSUME ClusterInv, WorkIsCounted, WorkIsCounted', NEW n \in Nodes, WaitLeft(n)' < WaitLeft(n),
         UNCHANGED <<main, task_pc, sent, num_requests, receive_queue>>,
         \A m \in Nodes \ {n} : wait_pc'[m] = wait_pc[m] /\ call'[m] = call[m]
  PROVE  work' = work /\ Less(answering', answering)
<1>1. work' = work
  BY DEF work, MainLeft, TaskLeft
<1>2. \A m \in Nodes \ {n} : WaitLeft(m)' = WaitLeft(m)
  BY DEF WaitLeft
<1>3. /\ answering \in [Nodes -> Nat] /\ answering' \in [Nodes -> Nat]
      /\ answering'[n] < answering[n]
      /\ \A y \in Nodes \ {n} : answering'[y] = answering[y]
  BY <1>2 DEF WorkIsCounted, answering
<1> QED BY <1>1, <1>3, OneLess

LEMMA MainStepsOn ==
  ASSUME ClusterInv, WorkIsCounted, WorkIsCounted',
         \/ \E n \in Nodes : MainConstruct(n) \/ MainShutdown(n) \/ MainJoinWait(n)
         \/ MainSetNodes \/ MainJoin \/ MainVerdict
  PROVE  Less(work', work)
<1> DEFINE N == GridSize * GridSize
<1>1. N \in Nat \ {0} /\ Nodes = 0 .. N - 1 /\ main.node \in 0 .. N - 1
  BY NodeCount DEF ClusterInv, IInv, TypeOK, MainTypeOK
<1>2. UNCHANGED <<task_pc, sent, num_requests, receive_queue>>
  BY DEF MainConstruct, MainShutdown, MainJoinWait, MainSetNodes, MainJoin, MainVerdict,
         taskVars, queueVars
<1> HIDE DEF N
<1>3. ASSUME NEW n \in Nodes, MainConstruct(n) PROVE MainLeft' < MainLeft
  <2>1. /\ main.pc = "construct" /\ main.node = n
        /\ \/ main'.pc = "construct" /\ main'.node = n + 1
           \/ main'.pc = "set_nodes"
    BY <1>3 DEF MainConstruct, At, NextNode, GoTo
  <2> QED BY <1>1, <2>1 DEF MainLeft, N
<1>4. ASSUME NEW n \in Nodes, MainShutdown(n) PROVE MainLeft' < MainLeft
  <2>1. main.pc = "shutdown" /\ main.node = n /\ main'.pc = "join_wait" /\ main'.node = n
    BY <1>4 DEF MainShutdown, At, GoTo
  <2> QED BY <1>1, <2>1 DEF MainLeft, N
<1>5. ASSUME NEW n \in Nodes, MainJoinWait(n) PROVE MainLeft' < MainLeft
  <2>1. /\ main.pc = "join_wait" /\ main.node = n
        /\ \/ main'.pc = "shutdown" /\ main'.node = n + 1
           \/ main'.pc = "verdict"
    BY <1>5 DEF MainJoinWait, At, NextNode, GoTo
  <2> QED BY <1>1, <2>1 DEF MainLeft, N
<1>6. ASSUME MainSetNodes \/ MainJoin \/ MainVerdict PROVE MainLeft' < MainLeft
  <2>1. \/ main.pc = "set_nodes" /\ main'.pc = "start"
        \/ main.pc = "start" /\ main'.pc = "shutdown" /\ main'.node = 0
        \/ main.pc = "verdict" /\ main'.pc = "done"
    BY <1>6 DEF MainSetNodes, MainJoin, MainVerdict, At, GoTo
  <2> QED BY <1>1, <2>1 DEF MainLeft, N
<1> QED BY <1>2, <1>3, <1>4, <1>5, <1>6, MainWorks

LEMMA TaskStepsOn ==
  ASSUME ClusterInv, WorkIsCounted, WorkIsCounted', NEW t \in Tasks,
         MainStart(t) \/ TaskStep(t)
  PROVE  Less(work', work)
<1> DEFINE c == NumRequests(t)
           q == receive_queue[t]
           l == Len(q)
           s == sent[t]
           r == num_requests[t]
<1>1. r \in Nat /\ c \in Nat /\ s \in Nat /\ l \in Nat /\ q \in Seq(Response)
  BY Balance
<1> DEFINE Others == \A u \in Tasks \ {t} : /\ task_pc'[u] = task_pc[u] /\ sent'[u] = sent[u]
                                            /\ num_requests'[u] = num_requests[u]
                                            /\ receive_queue'[u] = receive_queue[u]
<1>2. CASE MainStart(t)
  <2>1. /\ task_pc[t] = "new" /\ task_pc' = [task_pc EXCEPT ![t] = "run"]
        /\ UNCHANGED <<main, sent, num_requests, receive_queue>>
    BY <1>2 DEF MainStart, mainVars, queueVars
  <2>2. task_pc'[t] = "run" /\ Others
    BY <2>1 DEF ClusterInv, IInv, TypeOK, TaskTypeOK
  <2>3. TaskLeft(t)' < TaskLeft(t)
    <3> HIDE DEF c, l, s, r
    <3>1. c - s + (r - l) + r + 1 < c - s + (r - l) + r + 2
      BY <1>1
    <3> QED BY <2>1, <2>2, <3>1 DEF TaskLeft, c, l, s, r
  <2> QED BY <2>1, <2>2, <2>3, TaskWorks
<1>3. CASE TaskSend(t)
  <2>1. /\ task_pc[t] = "run" /\ sent' = [sent EXCEPT ![t] = @ + 1]
        /\ UNCHANGED <<main, task_pc, num_requests, receive_queue>>
    <3>1. TaskSpec[t].node \in nodes_mat /\ task_pc[t] = "run"
      BY <1>3, TaskRuns, ClusterAssumption DEF TaskSend
    <3> QED BY <1>3, <3>1 DEF TaskSend, mainVars
  <2>2. sent'[t] = sent[t] + 1 /\ Others
    BY <2>1 DEF ClusterInv, IInv, TypeOK, TaskTypeOK
  <2>3. TaskLeft(t)' < TaskLeft(t)
    <3> HIDE DEF c, l, s, r
    <3>1. c - (s + 1) + (r - l) + r + 1 < c - s + (r - l) + r + 1
      BY <1>1
    <3> QED BY <2>1, <2>2, <3>1 DEF TaskLeft, c, l, s, r
  <2> QED BY <2>1, <2>2, <2>3, TaskWorks
<1>4. CASE TaskReceive(t)
  <2>1. /\ task_pc[t] = "run" /\ q # <<>>
        /\ receive_queue' = [receive_queue EXCEPT ![t] = Tail(@)]
        /\ num_requests' = [num_requests EXCEPT ![t] = @ - 1]
        /\ UNCHANGED <<main, task_pc, sent>>
    BY <1>4 DEF TaskReceive, mainVars
  <2>2. receive_queue'[t] = Tail(q) /\ num_requests'[t] = num_requests[t] - 1 /\ Others
    BY <2>1 DEF ClusterInv, IInv, TypeOK, TaskTypeOK, QueueTypeOK
  <2>3. Len(Tail(q)) = l - 1
    BY <1>1, <2>1, HeadTailProperties
  <2>4. TaskLeft(t)' < TaskLeft(t)
    <3> HIDE DEF c, l, s, r
    <3>1. c - s + ((r - 1) - (l - 1)) + (r - 1) + 1 < c - s + (r - l) + r + 1
      BY <1>1
    <3> QED BY <2>1, <2>2, <2>3, <3>1 DEF TaskLeft, c, l, s, r
  <2> QED BY <2>1, <2>2, <2>4, TaskWorks
<1>5. CASE TaskFinish(t)
  <2>1. /\ task_pc[t] = "run" /\ task_pc' = [task_pc EXCEPT ![t] = "done"]
        /\ UNCHANGED <<main, sent, num_requests, receive_queue>>
    BY <1>5 DEF TaskFinish, queueVars
  <2>2. task_pc'[t] = "done" /\ Others
    BY <2>1 DEF ClusterInv, IInv, TypeOK, TaskTypeOK
  <2>3. TaskLeft(t)' < TaskLeft(t)
    <3> HIDE DEF c, l, s, r
    <3>1. c - s + (r - l) + r + 0 < c - s + (r - l) + r + 1
      BY <1>1
    <3> QED BY <2>1, <2>2, <3>1 DEF TaskLeft, c, l, s, r
  <2> QED BY <2>1, <2>2, <2>3, TaskWorks
<1> QED BY <1>2, <1>3, <1>4, <1>5 DEF TaskStep

LEMMA RespondStepOn ==
  ASSUME ClusterInv, WorkIsCounted, WorkIsCounted', NEW n \in Nodes, WaitRespond(n)
  PROVE  Less(work', work)
<1>1. wait_pc[n] = "process" /\ UNCHANGED <<main, task_pc, sent, num_requests>>
  BY DEF WaitRespond, mainVars, taskVars
<1>2. request[n] # None /\ request[n] \in Request /\ RequestRight(n, request[n])
  BY <1>1 DEF ClusterInv, IInv, TypeOK, WaitTypeOK, DataRight
<1>3. PICK t \in Tasks : t = request[n].task
  BY <1>2 DEF Request
<1> DEFINE q == receive_queue[t]
           c == NumRequests(t)
           l == Len(q)
           s == sent[t]
           r == num_requests[t]
<1>4. r \in Nat /\ c \in Nat /\ s \in Nat /\ l \in Nat /\ q \in Seq(Response)
  BY Balance
<1>5. PICK response \in Response :
        receive_queue' = [receive_queue EXCEPT ![t] = Append(q, response)]
  BY <1>2, <1>3, ResponseRight DEF WaitRespond, Respond
<1>6. Len(Append(q, response)) = l + 1
  BY <1>4, AppendProperties
<1>7. /\ receive_queue'[t] = Append(q, response)
      /\ \A u \in Tasks \ {t} : receive_queue'[u] = receive_queue[u]
  BY <1>5 DEF ClusterInv, IInv, TypeOK, QueueTypeOK
<1>8. TaskLeft(t)' < TaskLeft(t)
  <2>1. task_pc[t] \in {"new", "run", "done"}
    BY DEF ClusterInv, IInv, TypeOK, TaskTypeOK
  <2> HIDE DEF c, l, s, r
  <2>2. \A k \in {0, 1, 2} : c - s + (r - (l + 1)) + r + k < c - s + (r - l) + r + k
    BY <1>4
  <2> QED BY <1>1, <1>6, <1>7, <2>1, <2>2 DEF TaskLeft, c, l, s, r
<1> QED BY <1>1, <1>7, <1>8, TaskWorks

(* The other steps of a wait thread bring it nearer to its next answer.    *)
LEMMA WaitStepsOn ==
  ASSUME ClusterInv, WorkIsCounted, WorkIsCounted', NEW n \in Nodes,
         \/ WaitRegister(n) \/ WaitGet(n) \/ WaitEnd(n)
         \/ WaitCheck(n) \/ WaitAcquire(n)
  PROVE  work' = work /\ Less(answering', answering)
<1> DEFINE Elsewhere == \A m \in Threads \ {n} : call'[m] = call[m]
<1> USE NodeFacts DEF ClusterInv
<1>1. UNCHANGED <<main, task_pc, sent, num_requests, receive_queue>>
  <2>1. CASE WaitAcquire(n)
    <3>1. call[n].pc = "acquire"
      BY <2>1 DEF WaitAcquire, Acquire
    <3>2. remaining_requests[n] > 0
      BY <3>1 DEF NodeDisciplined
    <3> QED BY <2>1, <3>2 DEF WaitAcquire, mainVars, taskVars
  <2> QED BY <2>1 DEF WaitRegister, WaitGet, WaitEnd, WaitCheck, mainVars, taskVars, queueVars
<1>2. \A m \in Nodes \ {n} : m \in Threads \ {n}
  BY ThreadKinds
<1>3. ASSUME WaitLeft(n)' < WaitLeft(n), Elsewhere,
             \A m \in Nodes \ {n} : wait_pc'[m] = wait_pc[m]
      PROVE  work' = work /\ Less(answering', answering)
  BY <1>1, <1>2, <1>3, NodeAnswers
<1>4. wait_pc \in [Nodes -> {"new", "register", "get", "process", "poison", "ended"}]
  BY DEF IInv, TypeOK, WaitTypeOK
<1>5. CASE WaitRegister(n) /\ BeginRegister(n, n, n)
  <2>1. /\ wait_pc[n] = "register" /\ call[n].pc = "idle"
        /\ Enter(n, n, n, "register")
    BY <1>5 DEF WaitRegister, BeginRegister, Idle
  <2>2. wait_pc' = wait_pc
    BY <1>5, <2>1 DEF WaitRegister, CheckRegister
  <2>3. call'[n].pc = "register" /\ Elsewhere
    BY <2>1, EnterCall
  <2> QED BY <1>3, <2>1, <2>2, <2>3 DEF WaitLeft
<1>6. CASE WaitRegister(n) /\ FinishRegister(n)
  <2>1. wait_pc[n] = "register" /\ call[n].pc = "register"
    BY <1>6 DEF WaitRegister, FinishRegister
  <2>2. Enter(n, n, n, "check")
    BY <1>6, <2>1 DEF FinishRegister, NodeDisciplined, Idle
  <2>3. wait_pc' = wait_pc
    BY <1>6, <2>1 DEF WaitRegister, CheckRegister
  <2>4. call'[n].pc = "check" /\ Elsewhere
    BY <2>2, EnterCall
  <2> QED BY <1>3, <2>1, <2>3, <2>4 DEF WaitLeft
<1>6a. CASE WaitRegister(n) /\ CheckRegister(n)
  <2>1. /\ wait_pc[n] = "register" /\ call[n].pc = "check" /\ Leave(n)
    BY <1>6a DEF WaitRegister, CheckRegister
  <2>2. wait_pc' = [wait_pc EXCEPT ![n] = "get"]
    BY <1>6a, <2>1 DEF WaitRegister, BeginRegister, FinishRegister, Idle
  <2>3. Elsewhere
    BY <2>1, LeaveCall
  <2> QED BY <1>3, <1>4, <2>1, <2>2, <2>3 DEF WaitLeft
<1>7. CASE WaitGet(n)
  <2>1. /\ wait_pc[n] = "get" /\ UNCHANGED call
        /\ \/ wait_pc' = [wait_pc EXCEPT ![n] = "poison"]
           \/ wait_pc' = [wait_pc EXCEPT ![n] = "process"]
    BY <1>7 DEF WaitGet, storeVars
  <2>2. call[n].pc = "idle"
    BY <2>1 DEF NodeDisciplined, Calls, Idle
  <2> QED BY <1>3, <1>4, <2>1, <2>2 DEF WaitLeft
<1>8. CASE WaitEnd(n)
  <2>1. /\ wait_pc[n] = "poison" /\ UNCHANGED call
        /\ wait_pc' = [wait_pc EXCEPT ![n] = "ended"]
    BY <1>8 DEF WaitEnd, storeVars
  <2> QED BY <1>3, <1>4, <2>1 DEF WaitLeft
<1>9. CASE WaitCheck(n)
  <2>1. /\ wait_pc[n] = "process" /\ wait_pc' = wait_pc /\ call[n].pc = "idle"
        /\ Enter(n, n, n, "acquire")
    BY <1>9 DEF WaitCheck, BeginGet, Idle, waitVars
  <2>2. call'[n].pc = "acquire" /\ Elsewhere
    BY <2>1, EnterCall
  <2> QED BY <1>3, <2>1, <2>2 DEF WaitLeft
<1>10. CASE WaitAcquire(n)
  <2>1. wait_pc[n] = "process" /\ call[n].pc = "acquire"
    BY <1>10 DEF WaitAcquire, Acquire
  <2>2. call[n].store = n /\ call[n].node = n /\ remaining_requests[n] > 0
    BY <2>1 DEF NodeDisciplined, Idle
  <2>3. wait_pc' = wait_pc /\ Enter(n, n, n, "sleep")
    BY <1>10, <2>2 DEF WaitAcquire, Acquire, waitVars
  <2>4. call'[n].pc = "sleep" /\ Elsewhere
    BY <2>3, EnterCall
  <2> QED BY <1>3, <2>1, <2>3, <2>4 DEF WaitLeft
<1> QED BY <1>5, <1>6, <1>6a, <1>7, <1>8, <1>9, <1>10 DEF WaitRegister

(* For any number of nodes, tasks and queue entries: the work that is left *)
(* is counted in natural numbers, and every step of any thread leaves less *)
(* of it, or as much and a wait thread nearer to its next answer; so there *)
(* is no infinite run of steps, whatever the schedule (node.py:95-121,     *)
(* 158-194).                                                               *)
THEOREM EveryStepTellsOff == Spec => []WorkIsCounted /\ EveryStepCounts
<1>1. /\ ClusterInv /\ WorkIsCounted /\ WorkIsCounted' /\ [Next]_vars
      => [Less(work', work) \/ (work' = work /\ Less(answering', answering))]_vars
  <2> SUFFICES ASSUME ClusterInv, WorkIsCounted, WorkIsCounted', Next
               PROVE  \/ Less(work', work) \/ (work' = work /\ Less(answering', answering))
                      \/ UNCHANGED vars
    OBVIOUS
  <2>1. CASE MainStep
    BY <2>1, MainStepsOn, TaskStepsOn DEF MainStep
  <2>2. ASSUME NEW t \in Tasks, TaskStep(t) PROVE Less(work', work)
    BY <2>2, TaskStepsOn
  <2>3. ASSUME NEW n \in Nodes, WaitStep(n)
        PROVE  Less(work', work) \/ (work' = work /\ Less(answering', answering))
    BY <2>3, RespondStepOn, WaitStepsOn DEF WaitStep
  <2> QED BY <2>1, <2>2, <2>3 DEF Next, Finished
<1>2. ClusterInv => WorkIsCounted
  BY WorkCounted
<1> QED BY <1>1, <1>2, ClusterInvAlways, PTL DEF Spec, EveryStepCounts
==============================================================================
