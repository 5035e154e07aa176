--------------------------- MODULE DataStoreProofs ---------------------------
(***************************************************************************)
(* Theorems about DataStore, for every number of nodes and threads and     *)
(* every use they make of the datastores: its types, the exactness of the  *)
(* semaphores, and that no thread is past the check of a datastore it has  *)
(* no right to without a report.                                           *)
(***************************************************************************)
EXTENDS DataStore, FiniteSetTheorems, TLAPS

(* The type invariant, except that the semaphores are any naturals: their  *)
(* bound follows from SemaphoreExact.                                      *)
StoreTypes ==
  /\ CheckerTypeOK
  /\ store_node \in [Nodes -> Nodes \cup {None}]
  /\ store_threads \in [Nodes -> SUBSET Threads]
  /\ remaining_requests \in [Nodes -> Nat]
  /\ call \in [Threads -> Calls]

(* What a call is, once a thread is inside it.                             *)
LEMMA InsideCall ==
  ASSUME NEW c \in Calls, c.pc # "idle"
  PROVE  c.store \in Nodes /\ c.node \in Nodes
BY DEF Calls, Idle

LEMMA EnterCall ==
  ASSUME call \in [Threads -> Calls], NEW th \in Threads,
         NEW s \in Nodes, NEW node \in Nodes,
         NEW pc \in {"register", "check", "acquire", "sleep"}, Enter(th, s, node, pc)
  PROVE  /\ call' \in [Threads -> Calls]
         /\ call'[th].pc = pc /\ call'[th].store = s /\ call'[th].node = node
         /\ \A u \in Threads \ {th} : call'[u] = call[u]
<1>1. [pc |-> pc, store |-> s, node |-> node] \in Calls
  BY DEF Calls
<1> QED BY <1>1 DEF Enter

LEMMA LeaveCall ==
  ASSUME call \in [Threads -> Calls], NEW th \in Threads, Leave(th)
  PROVE  /\ call' \in [Threads -> Calls]
         /\ call'[th].pc = "idle"
         /\ \A u \in Threads \ {th} : call'[u] = call[u]
<1>1. Idle \in Calls /\ Idle.pc = "idle"
  BY DEF Calls, Idle
<1> QED BY <1>1 DEF Leave

LEMMA CheckReports ==
  ASSUME NEW holder, NEW regs, NEW th, NEW node
  PROVE  check_access(holder, regs, th, node) \subseteq Reports
BY DEF check_access, Reports

LEMMA RegisterTypes ==
  ASSUME CheckerTypeOK, NEW th \in Threads, NEW node \in Nodes,
         register_thread(th, node)
  PROVE  CheckerTypeOK'
<1>1. SharedThreadErrors(th, node) \subseteq Reports /\ "banned thread" \in Reports
  BY DEF SharedThreadErrors, Reports
<1>2. messages' \subseteq Reports'
  BY <1>1 DEF register_thread, CheckerTypeOK, Reports
<1>3. node_threads' \in [Nodes -> SUBSET Threads]
  BY DEF register_thread, CheckerTypeOK
<1> QED BY <1>2, <1>3 DEF register_thread, CheckerTypeOK

LEMMA StoreTypesInit == StoreInit => StoreTypes
BY StoreAssumption
DEF StoreInit, CheckerInit, StoreTypes, CheckerTypeOK, Calls

LEMMA StoreTypesStep == StoreTypes /\ [StoreNext]_storeVars => StoreTypes'
<1> SUFFICES ASSUME StoreTypes, [StoreNext]_storeVars PROVE StoreTypes'
  OBVIOUS
<1>1. ASSUME NEW th \in Threads, NEW s \in Nodes, NEW node \in Nodes,
             BeginRegister(th, s, node)
      PROVE  StoreTypes'
  <2>1. call' \in [Threads -> Calls]
    BY <1>1, EnterCall DEF BeginRegister, StoreTypes
  <2>2. CheckerTypeOK'
    BY <1>1, RegisterTypes DEF BeginRegister, StoreTypes
  <2> QED BY <1>1, <2>1, <2>2 DEF BeginRegister, StoreTypes
<1>2. ASSUME NEW th \in Threads, NEW s \in Nodes, NEW node \in Nodes,
             BeginGet(th, s, node)
      PROVE  StoreTypes'
  <2>1. call' \in [Threads -> Calls]
    BY <1>2, EnterCall DEF BeginGet, StoreTypes
  <2>2. CheckerTypeOK'
    BY <1>2, CheckReports DEF BeginGet, StoreTypes, CheckerTypeOK, Reports
  <2> QED BY <1>2, <2>1, <2>2 DEF BeginGet, StoreTypes
<1>3. ASSUME NEW th \in Threads, FinishRegister(th)
      PROVE  StoreTypes'
  <2>1. call[th].store \in Nodes /\ call[th].node \in Nodes
    BY <1>3, InsideCall DEF FinishRegister, StoreTypes
  <2>2. call' \in [Threads -> Calls]
    BY <1>3, <2>1, EnterCall DEF FinishRegister, StoreTypes
  <2>3. CheckerTypeOK'
    BY <1>3 DEF FinishRegister, checkerVars, StoreTypes, CheckerTypeOK, Reports
  <2>4. store_node' \in [Nodes -> Nodes \cup {None}]
    BY <1>3, <2>1 DEF FinishRegister, StoreTypes
  <2>5. store_threads' \in [Nodes -> SUBSET Threads]
    BY <1>3, <2>1 DEF FinishRegister, StoreTypes
  <2> QED BY <1>3, <2>2, <2>3, <2>4, <2>5 DEF FinishRegister, StoreTypes
<1>3a. ASSUME NEW th \in Threads, CheckRegister(th)
      PROVE  StoreTypes'
  <2>1. call' \in [Threads -> Calls]
    BY <1>3a, LeaveCall DEF CheckRegister, StoreTypes
  <2>2. CheckerTypeOK'
    BY <1>3a, CheckReports DEF CheckRegister, StoreTypes, CheckerTypeOK, Reports
  <2> QED BY <1>3a, <2>1, <2>2 DEF CheckRegister, StoreTypes
<1>4. ASSUME NEW th \in Threads, Acquire(th)
      PROVE  StoreTypes'
  <2>1. call[th].store \in Nodes /\ call[th].node \in Nodes
    BY <1>4, InsideCall DEF Acquire, StoreTypes
  <2>2. remaining_requests' \in [Nodes -> Nat]
    <3>1. CASE remaining_requests[call[th].store] > 0
      <4>1. remaining_requests[call[th].store] - 1 \in Nat
        BY <2>1, <3>1 DEF StoreTypes
      <4> QED BY <1>4, <3>1, <4>1 DEF Acquire, StoreTypes
    <3>2. CASE ~(remaining_requests[call[th].store] > 0)
      BY <1>4, <3>2 DEF Acquire, StoreTypes
    <3> QED BY <3>1, <3>2
  <2>3. call' \in [Threads -> Calls]
    BY <1>4, <2>1, EnterCall, LeaveCall DEF Acquire, StoreTypes
  <2>4. CheckerTypeOK'
    BY <1>4 DEF Acquire, StoreTypes, CheckerTypeOK, Reports
  <2> QED BY <1>4, <2>2, <2>3, <2>4 DEF Acquire, StoreTypes
<1>5. ASSUME NEW th \in Threads, Release(th)
      PROVE  StoreTypes'
  <2>1. call[th].store \in Nodes
    BY <1>5, InsideCall DEF Release, StoreTypes
  <2>2. call' \in [Threads -> Calls]
    BY <1>5, LeaveCall DEF Release, StoreTypes
  <2> QED BY <1>5, <2>1, <2>2 DEF Release, StoreTypes, CheckerTypeOK, checkerVars
<1>6. ASSUME NEW th \in Threads, BanUnstarted(th)
      PROVE  StoreTypes'
  BY <1>6 DEF BanUnstarted, add_banned_thread, StoreTypes, CheckerTypeOK
<1>7. CASE UNCHANGED storeVars
  BY <1>7 DEF storeVars, checkerVars, StoreTypes, CheckerTypeOK
<1> QED BY <1>1, <1>2, <1>3, <1>3a, <1>4, <1>5, <1>6, <1>7 DEF StoreNext

------------------------------------------------------------------------------
(* The units of the semaphores.                                            *)

LEMMA SleepingFinite ==
  ASSUME NEW s \in Nodes
  PROVE  IsFiniteSet(Sleeping(s)) /\ IsFiniteSet(Sleeping(s)')
         /\ Cardinality(Sleeping(s)) \in Nat
<1>1. Sleeping(s) \subseteq Threads /\ Sleeping(s)' \subseteq Threads
  BY DEF Sleeping
<1> QED BY <1>1, StoreAssumption, FS_Subset, FS_CardinalityType

LEMMA ExactInit == StoreInit => SemaphoreExact
<1> SUFFICES ASSUME StoreInit, NEW s \in Nodes
             PROVE  remaining_requests[s] + Cardinality(Sleeping(s)) = MaxPending
  BY DEF SemaphoreExact
<1>1. Sleeping(s) = {}
  BY DEF StoreInit, Sleeping, Idle
<1> QED BY <1>1, FS_EmptySet, StoreAssumption DEF StoreInit

LEMMA ExactStep ==
  StoreTypes /\ SemaphoreExact /\ [StoreNext]_storeVars => SemaphoreExact'
<1> SUFFICES ASSUME StoreTypes, SemaphoreExact, [StoreNext]_storeVars,
                    NEW s \in Nodes
             PROVE  remaining_requests'[s] + Cardinality(Sleeping(s)') = MaxPending
  BY DEF SemaphoreExact
<1>1. remaining_requests[s] + Cardinality(Sleeping(s)) = MaxPending
  BY DEF SemaphoreExact
<1>2. ASSUME Sleeping(s)' = Sleeping(s),
             remaining_requests'[s] = remaining_requests[s]
      PROVE  remaining_requests'[s] + Cardinality(Sleeping(s)') = MaxPending
  BY <1>1, <1>2
<1>3. ASSUME NEW th \in Threads, NEW t \in Nodes, NEW node \in Nodes,
             BeginRegister(th, t, node) \/ BeginGet(th, t, node)
      PROVE  remaining_requests'[s] + Cardinality(Sleeping(s)') = MaxPending
  <2>1. PICK pc \in {"register", "acquire"} : Enter(th, t, node, pc)
    BY <1>3 DEF BeginRegister, BeginGet
  <2>2. Sleeping(s)' = Sleeping(s)
    BY <1>3, <2>1, EnterCall
    DEF StoreTypes, Sleeping, BeginRegister, BeginGet, Idle
  <2> QED BY <1>2, <1>3, <2>2 DEF BeginRegister, BeginGet
<1>4. ASSUME NEW th \in Threads, FinishRegister(th) \/ CheckRegister(th)
      PROVE  remaining_requests'[s] + Cardinality(Sleeping(s)') = MaxPending
  <2>1. call[th].store \in Nodes /\ call[th].node \in Nodes
    BY <1>4, InsideCall DEF FinishRegister, CheckRegister, StoreTypes
  <2>2. Sleeping(s)' = Sleeping(s)
    BY <1>4, <2>1, EnterCall, LeaveCall
    DEF StoreTypes, Sleeping, FinishRegister, CheckRegister
  <2> QED BY <1>2, <1>4, <2>2 DEF FinishRegister, CheckRegister
<1>5. ASSUME NEW th \in Threads, Acquire(th)
      PROVE  remaining_requests'[s] + Cardinality(Sleeping(s)') = MaxPending
  <2>1. call[th].store \in Nodes /\ call[th].node \in Nodes
    BY <1>5, InsideCall DEF Acquire, StoreTypes
  <2>2. CASE remaining_requests[call[th].store] > 0 /\ call[th].store = s
    <3>1. th \notin Sleeping(s) /\ Sleeping(s)' = Sleeping(s) \cup {th}
      BY <1>5, <2>1, <2>2, EnterCall DEF StoreTypes, Sleeping, Acquire
    <3>2. Cardinality(Sleeping(s)') = Cardinality(Sleeping(s)) + 1
      BY <3>1, SleepingFinite, FS_AddElement
    <3>3. remaining_requests'[s] = remaining_requests[s] - 1
      BY <1>5, <2>2 DEF Acquire, StoreTypes
    <3> QED BY <1>1, <3>2, <3>3, SleepingFinite DEF StoreTypes
  <2>3. CASE ~(remaining_requests[call[th].store] > 0 /\ call[th].store = s)
    <3>1. Sleeping(s)' = Sleeping(s)
      <4>1. CASE remaining_requests[call[th].store] > 0
        <5>1. Enter(th, call[th].store, call[th].node, "sleep")
          BY <1>5, <4>1 DEF Acquire
        <5>2. th \notin Sleeping(s) /\ th \notin Sleeping(s)'
          BY <1>5, <2>1, <2>3, <4>1, <5>1, EnterCall
          DEF StoreTypes, Sleeping, Acquire
        <5> QED BY <2>1, <5>1, <5>2, EnterCall DEF StoreTypes, Sleeping
      <4>2. CASE ~(remaining_requests[call[th].store] > 0)
        BY <1>5, <4>2, LeaveCall DEF StoreTypes, Sleeping, Acquire
      <4> QED BY <4>1, <4>2
    <3>2. remaining_requests'[s] = remaining_requests[s]
      BY <1>5, <2>1, <2>3 DEF Acquire, StoreTypes
    <3> QED BY <1>2, <3>1, <3>2
  <2> QED BY <2>2, <2>3
<1>6. ASSUME NEW th \in Threads, Release(th)
      PROVE  remaining_requests'[s] + Cardinality(Sleeping(s)') = MaxPending
  <2>1. call[th].store \in Nodes
    BY <1>6, InsideCall DEF Release, StoreTypes
  <2>2. CASE call[th].store = s
    <3>1. th \in Sleeping(s) /\ Sleeping(s)' = Sleeping(s) \ {th}
      BY <1>6, <2>2, LeaveCall DEF StoreTypes, Sleeping, Release
    <3>2. Cardinality(Sleeping(s)') = Cardinality(Sleeping(s)) - 1
      BY <3>1, SleepingFinite, FS_RemoveElement
    <3>3. remaining_requests'[s] = remaining_requests[s] + 1
      BY <1>6, <2>2 DEF Release, StoreTypes
    <3> QED BY <1>1, <3>2, <3>3, SleepingFinite DEF StoreTypes
  <2>3. CASE call[th].store # s
    <3>1. Sleeping(s)' = Sleeping(s)
      BY <1>6, <2>3, LeaveCall DEF StoreTypes, Sleeping, Release
    <3>2. remaining_requests'[s] = remaining_requests[s]
      BY <1>6, <2>1, <2>3 DEF Release, StoreTypes
    <3> QED BY <1>2, <3>1, <3>2
  <2> QED BY <2>2, <2>3
<1>7. CASE UNCHANGED <<call, remaining_requests>>
  BY <1>2, <1>7 DEF Sleeping
<1> QED BY <1>3, <1>4, <1>5, <1>6, <1>7 DEF StoreNext, BanUnstarted, storeVars

(* No path through a datastore loses or invents a unit of its semaphore:   *)
(* the free units and the calls asleep always make MaxPending              *)
(* (datastore.py:54-64).                                                   *)
THEOREM SemaphoresExact == StoreSpec => []SemaphoreExact
<1>1. StoreInit => StoreTypes /\ SemaphoreExact
  BY StoreTypesInit, ExactInit
<1>2. StoreTypes /\ SemaphoreExact /\ [StoreNext]_storeVars
        => (StoreTypes /\ SemaphoreExact)'
  BY StoreTypesStep, ExactStep
<1> QED BY <1>1, <1>2, PTL DEF StoreSpec

(* The types of the datastores and the checker; a semaphore never exceeds  *)
(* its initial value because its units are accounted for.                  *)
THEOREM StoreTypeCorrect == StoreSpec => []StoreTypeOK
<1>1. StoreInit => StoreTypes /\ SemaphoreExact
  BY StoreTypesInit, ExactInit
<1>2. StoreTypes /\ SemaphoreExact /\ [StoreNext]_storeVars
        => (StoreTypes /\ SemaphoreExact)'
  BY StoreTypesStep, ExactStep
<1>3. StoreTypes /\ SemaphoreExact => StoreTypeOK
  <2> SUFFICES ASSUME StoreTypes, SemaphoreExact
               PROVE  remaining_requests \in [Nodes -> 0 .. MaxPending]
    BY DEF StoreTypes, StoreTypeOK
  <2>1. \A s \in Nodes : remaining_requests[s] \in 0 .. MaxPending
    BY SleepingFinite, StoreAssumption DEF SemaphoreExact, StoreTypes
  <2> QED BY <2>1 DEF StoreTypes
<1> QED BY <1>1, <1>2, <1>3, PTL DEF StoreSpec

------------------------------------------------------------------------------
(* Who may read.                                                           *)

(* A right of access is never lost: a datastore keeps its owner, and its   *)
(* registered threads only grow.                                           *)
LEMMA EntitlementLasts ==
  ASSUME StoreTypes, [StoreNext]_storeVars,
         NEW th \in Threads, NEW s \in Nodes, NEW node \in Nodes,
         Entitled(th, s, node)
  PROVE  Entitled(th, s, node)'
<1>1. ASSUME NEW u \in Threads, FinishRegister(u)
      PROVE  Entitled(th, s, node)'
  <2>1. call[u].store \in Nodes
    BY <1>1, InsideCall DEF FinishRegister, StoreTypes
  <2>2. store_node'[s] = node
    BY <1>1, <2>1, StoreAssumption DEF FinishRegister, Entitled, StoreTypes
  <2>3. th \in store_threads'[s]
    BY <1>1, <2>1 DEF FinishRegister, Entitled, StoreTypes
  <2> QED BY <2>2, <2>3 DEF Entitled
<1>2. CASE UNCHANGED <<store_node, store_threads>>
  BY <1>2 DEF Entitled
<1> QED BY <1>1, <1>2 DEF StoreNext, BeginRegister, CheckRegister, BeginGet, Acquire,
                          Release, BanUnstarted, storeVars

(* The checker's list of reports is never emptied.                         *)
LEMMA MessagesLast == [StoreNext]_storeVars => messages \subseteq messages'
BY DEF StoreNext, BeginRegister, BeginGet, FinishRegister, CheckRegister, Acquire,
       Release, BanUnstarted, register_thread, add_banned_thread, checkerVars, storeVars

LEMMA StrayInit == StoreInit => StrayAccessReported
BY DEF StoreInit, StrayAccessReported, Idle

LEMMA StrayStep ==
  StoreTypes /\ StrayAccessReported /\ [StoreNext]_storeVars
    => StrayAccessReported'
<1> SUFFICES ASSUME StoreTypes, StrayAccessReported, [StoreNext]_storeVars,
                    NEW th \in Threads,
                    call'[th].pc \in {"acquire", "sleep"},
                    ~Entitled(th, call[th].store, call[th].node)'
             PROVE  messages' # {}
  BY DEF StrayAccessReported
<1>1. ASSUME call[th].pc \in {"acquire", "sleep"},
             call'[th].store = call[th].store, call'[th].node = call[th].node
      PROVE  messages' # {}
  <2>1. call[th].store \in Nodes /\ call[th].node \in Nodes
    BY <1>1, InsideCall DEF StoreTypes
  <2>2. ~Entitled(th, call[th].store, call[th].node)
    BY <1>1, <2>1, EntitlementLasts DEF Entitled
  <2> QED BY <1>1, <2>2, MessagesLast DEF StrayAccessReported
<1>2. ASSUME NEW u \in Threads, NEW s \in Nodes, NEW node \in Nodes,
             BeginRegister(u, s, node)
      PROVE  messages' # {}
  BY <1>1, <1>2, EnterCall DEF BeginRegister, StoreTypes
<1>3. ASSUME NEW u \in Threads, NEW s \in Nodes, NEW node \in Nodes,
             BeginGet(u, s, node)
      PROVE  messages' # {}
  <2>1. CASE th # u
    BY <1>1, <1>3, <2>1, EnterCall DEF BeginGet, StoreTypes
  <2>2. CASE th = u
    <3>1. call'[th].store = s /\ call'[th].node = node
      BY <1>3, <2>2, EnterCall DEF BeginGet, StoreTypes
    <3>2. ~(node = store_node[s] /\ th \in store_threads[s])
      BY <1>3, <3>1 DEF BeginGet, Entitled
    <3>3. check_access(store_node[s], store_threads[s], th, node) # {}
      BY <3>2 DEF check_access
    <3> QED BY <1>3, <2>2, <3>3 DEF BeginGet
  <2> QED BY <2>1, <2>2
<1>4. ASSUME NEW u \in Threads, FinishRegister(u) \/ CheckRegister(u) \/ Release(u)
      PROVE  messages' # {}
  <2>1. CASE FinishRegister(u)
    <3>1. call[u].store \in Nodes /\ call[u].node \in Nodes
      BY <2>1, InsideCall DEF FinishRegister, StoreTypes
    <3> QED BY <1>1, <2>1, <3>1, EnterCall DEF FinishRegister, StoreTypes
  <2>2. CASE CheckRegister(u) \/ Release(u)
    BY <1>1, <2>2, LeaveCall DEF CheckRegister, Release, StoreTypes
  <2> QED BY <1>4, <2>1, <2>2
<1>5. ASSUME NEW u \in Threads, Acquire(u)
      PROVE  messages' # {}
  <2>1. call[u].store \in Nodes /\ call[u].node \in Nodes
    BY <1>5, InsideCall DEF Acquire, StoreTypes
  <2> QED BY <1>1, <1>5, <2>1, EnterCall, LeaveCall DEF Acquire, StoreTypes
<1>6. CASE UNCHANGED call
  BY <1>1, <1>6
<1> QED BY <1>2, <1>3, <1>4, <1>5, <1>6 DEF StoreNext, BanUnstarted, storeVars

(* Whoever calls the datastores, and however the calls interleave: a       *)
(* thread past the check of a datastore it is not entitled to read has     *)
(* been reported (datastore.py:54-64).                                     *)
THEOREM StrayAccess == StoreSpec => []StrayAccessReported
<1>1. StoreInit => StoreTypes /\ StrayAccessReported
  BY StoreTypesInit, StrayInit
<1>2. StoreTypes /\ StrayAccessReported /\ [StoreNext]_storeVars
        => (StoreTypes /\ StrayAccessReported)'
  BY StoreTypesStep, StrayStep
<1> QED BY <1>1, <1>2, PTL DEF StoreSpec

------------------------------------------------------------------------------
(* Who may register.                                                       *)

(* While nobody is reported, a thread inside register_thread is one the    *)
(* checker knows as its node's, and none of the tester's; when its check   *)
(* comes, the datastore has it.                                            *)
HalfRegistered ==
  messages = {} =>
    \A th \in Threads : call[th].pc \in {"register", "check"} =>
      /\ th \in node_threads[call[th].node] /\ th \notin banned_threads
      /\ call[th].pc = "check" => th \in store_threads[call[th].store]

CleanInv == SilenceMeansClean /\ HalfRegistered

LEMMA CleanInit == StoreInit => CleanInv
BY DEF StoreInit, CheckerInit, CleanInv, SilenceMeansClean, HalfRegistered, Idle

LEMMA CleanStep == StoreTypes /\ CleanInv /\ [StoreNext]_storeVars => CleanInv'
<1> SUFFICES ASSUME StoreTypes, CleanInv, [StoreNext]_storeVars, messages' = {}
             PROVE  CleanInv'
  BY DEF CleanInv, SilenceMeansClean, HalfRegistered
<1>1. messages = {}
  BY MessagesLast
<1>2. \A s \in Nodes :
        /\ store_threads[s] \cap banned_threads = {}
        /\ \A n \in Nodes \ {s} : node_threads[s] \cap node_threads[n] = {}
        /\ \A th \in store_threads[s] \ Unchecked(s) :
             store_node[s] # None /\ th \in node_threads[store_node[s]]
  BY <1>1 DEF CleanInv, SilenceMeansClean
<1>3. \A th \in Threads : call[th].pc \in {"register", "check"} =>
        /\ th \in node_threads[call[th].node] /\ th \notin banned_threads
        /\ call[th].pc = "check" => th \in store_threads[call[th].store]
  BY <1>1 DEF CleanInv, HalfRegistered
<1>4. ASSUME NEW th \in Threads, NEW s \in Nodes, NEW node \in Nodes,
             BeginRegister(th, s, node)
      PROVE  CleanInv'
  <2>1. /\ th \notin banned_threads /\ UNCHANGED <<banned_threads, store_node, store_threads>>
        /\ \A n \in Nodes \ {node} : th \notin node_threads[n]
        /\ node_threads' = [node_threads EXCEPT ![node] = @ \cup {th}]
    BY <1>1, <1>4 DEF BeginRegister, register_thread, SharedThreadErrors
  <2>2. \A n \in Nodes : node_threads'[n] = IF n = node THEN node_threads[n] \cup {th}
                                            ELSE node_threads[n]
    BY <2>1 DEF StoreTypes, CheckerTypeOK
  <2>3. /\ \A u \in Threads : /\ u # th => call'[u] = call[u]
                              /\ u = th => call'[u].node = node /\ call'[u].pc = "register"
        /\ call[th].pc = "idle"
    BY <1>4, EnterCall DEF BeginRegister, StoreTypes, Idle
  <2>4. SilenceMeansClean'
    <3>1. ASSUME NEW t \in Nodes, NEW n \in Nodes \ {t}
          PROVE  node_threads'[t] \cap node_threads'[n] = {}
      BY <1>2, <2>1, <2>2
    <3>2. ASSUME NEW t \in Nodes, NEW u \in store_threads[t] \ Unchecked(t)'
          PROVE  store_node[t] # None /\ u \in node_threads'[store_node[t]]
      <4>1. u \notin Unchecked(t)
        BY <2>3, <3>2 DEF Unchecked
      <4>2. store_node[t] # None /\ u \in node_threads[store_node[t]]
        BY <1>2, <4>1
      <4>3. store_node[t] \in Nodes
        BY <4>2 DEF StoreTypes
      <4> QED BY <2>2, <4>2, <4>3
    <3> QED BY <1>2, <2>1, <3>1, <3>2 DEF SilenceMeansClean
  <2>5. HalfRegistered'
    <3>1. ASSUME NEW u \in Threads, call'[u].pc \in {"register", "check"}
          PROVE  /\ u \in node_threads'[call'[u].node] /\ u \notin banned_threads
                 /\ call'[u].pc = "check" => u \in store_threads[call'[u].store]
      <4>1. CASE u = th
        BY <2>1, <2>2, <2>3, <4>1
      <4>2. CASE u # th
        <5>1. call'[u] = call[u] /\ call[u].node \in Nodes
          BY <2>3, <3>1, <4>2, InsideCall DEF StoreTypes
        <5> QED BY <1>3, <2>2, <3>1, <5>1
      <4> QED BY <4>1, <4>2
    <3> QED BY <2>1, <3>1 DEF HalfRegistered
  <2> QED BY <2>4, <2>5 DEF CleanInv
<1>5. ASSUME UNCHANGED <<banned_threads, node_threads, store_node, store_threads>>,
             NEW th \in Threads, call[th].pc # "check",
             call'[th].pc \notin {"register", "check"},
             \A u \in Threads \ {th} : call'[u] = call[u]
      PROVE  CleanInv'
  <2>1. \A t \in Nodes : Unchecked(t)' = Unchecked(t)
    BY <1>5 DEF Unchecked
  <2>2. \A u \in Threads : call'[u].pc \in {"register", "check"} => call'[u] = call[u]
    BY <1>5
  <2>3. SilenceMeansClean'
    BY <1>2, <1>5, <2>1 DEF SilenceMeansClean
  <2>4. HalfRegistered'
    BY <1>3, <1>5, <2>2 DEF HalfRegistered
  <2> QED BY <2>3, <2>4 DEF CleanInv
<1>6. ASSUME NEW th \in Threads, NEW s \in Nodes, NEW node \in Nodes,
             BeginGet(th, s, node)
      PROVE  CleanInv'
  <2>1. /\ call[th].pc = "idle" /\ call'[th].pc = "acquire"
        /\ \A u \in Threads \ {th} : call'[u] = call[u]
    BY <1>6, EnterCall DEF BeginGet, StoreTypes, Idle
  <2> QED BY <1>5, <1>6, <2>1 DEF BeginGet
<1>7. ASSUME NEW th \in Threads, Acquire(th) \/ Release(th)
      PROVE  CleanInv'
  <2>1. UNCHANGED <<banned_threads, node_threads, store_node, store_threads>>
    BY <1>7 DEF Acquire, Release, checkerVars
  <2>2. call[th].store \in Nodes /\ call[th].node \in Nodes
    BY <1>7, InsideCall DEF Acquire, Release, StoreTypes
  <2>3. /\ call[th].pc \in {"acquire", "sleep"} /\ call'[th].pc \in {"sleep", "idle"}
        /\ \A u \in Threads \ {th} : call'[u] = call[u]
    BY <1>7, <2>2, EnterCall, LeaveCall DEF Acquire, Release, StoreTypes
  <2> QED BY <1>5, <2>1, <2>3
<1>8. ASSUME NEW th \in Threads, FinishRegister(th)
      PROVE  CleanInv'
  <2> DEFINE s == call[th].store
             node == call[th].node
  <2>1. s \in Nodes /\ node \in Nodes /\ call[th].pc = "register"
    BY <1>8, InsideCall DEF FinishRegister, StoreTypes
  <2>2. th \in node_threads[node] /\ th \notin banned_threads
    BY <1>3, <2>1
  <2>3. UNCHANGED <<banned_threads, node_threads>>
    BY <1>8 DEF FinishRegister, checkerVars
  <2>4. \A t \in Nodes :
          /\ t # s => store_node'[t] = store_node[t] /\ store_threads'[t] = store_threads[t]
          /\ t = s => /\ store_node'[t] = IF store_node[s] = None THEN node ELSE store_node[s]
                      /\ store_threads'[t] = store_threads[s] \cup {th}
    BY <1>8, <2>1 DEF FinishRegister, StoreTypes
  <2>5. /\ call'[th].pc = "check" /\ call'[th].store = s /\ call'[th].node = node
        /\ \A u \in Threads \ {th} : call'[u] = call[u]
    BY <1>8, <2>1, EnterCall DEF FinishRegister, StoreTypes
  <2> HIDE DEF s, node
  <2>6. ASSUME NEW t \in Nodes, NEW u \in store_threads'[t] \ Unchecked(t)'
        PROVE  store_node'[t] # None /\ u \in node_threads[store_node'[t]]
    <3>1. u # th \/ t # s
      BY <2>5, <2>6 DEF Unchecked
    <3>2. u \in store_threads[t]
      BY <2>4, <2>6, <3>1
    <3>3. u \notin Unchecked(t)
      BY <2>1, <2>5, <2>6 DEF Unchecked
    <3>4. store_node[t] # None /\ u \in node_threads[store_node[t]]
      BY <1>2, <3>2, <3>3
    <3> QED BY <2>4, <3>4
  <2>7. \A t \in Nodes : store_threads'[t] \cap banned_threads = {}
    BY <1>2, <2>2, <2>4
  <2>8. SilenceMeansClean'
    BY <1>2, <2>3, <2>6, <2>7 DEF SilenceMeansClean
  <2>9. HalfRegistered'
    <3>1. ASSUME NEW u \in Threads, call'[u].pc \in {"register", "check"}
          PROVE  /\ u \in node_threads[call'[u].node] /\ u \notin banned_threads
                 /\ call'[u].pc = "check" => u \in store_threads'[call'[u].store]
      <4>1. CASE u = th
        BY <2>1, <2>2, <2>4, <2>5, <4>1
      <4>2. CASE u # th
        <5>1. call'[u] = call[u] /\ call[u].store \in Nodes
          BY <2>5, <3>1, <4>2, InsideCall DEF StoreTypes
        <5> QED BY <1>3, <2>4, <3>1, <5>1
      <4> QED BY <4>1, <4>2
    <3> QED BY <2>3, <3>1 DEF HalfRegistered
  <2> QED BY <2>8, <2>9 DEF CleanInv
<1>9. ASSUME NEW th \in Threads, CheckRegister(th)
      PROVE  CleanInv'
  <2> DEFINE s == call[th].store
             node == call[th].node
  <2>1. s \in Nodes /\ node \in Nodes /\ call[th].pc = "check"
    BY <1>9, InsideCall DEF CheckRegister, StoreTypes
  <2>2. UNCHANGED <<banned_threads, node_threads, store_node, store_threads>>
    BY <1>9 DEF CheckRegister
  <2>3. check_access(store_node[s], store_threads[s], th, node) = {}
    BY <1>9 DEF CheckRegister
  <2>4. store_node[s] # None /\ store_node[s] = node
    BY <2>3 DEF check_access
  <2>5. th \in node_threads[node]
    BY <1>3, <2>1
  <2>6. /\ call'[th].pc = "idle"
        /\ \A u \in Threads \ {th} : call'[u] = call[u]
    BY <1>9, LeaveCall DEF CheckRegister, StoreTypes
  <2>7. ASSUME NEW t \in Nodes, NEW u \in store_threads[t] \ Unchecked(t)'
        PROVE  store_node[t] # None /\ u \in node_threads[store_node[t]]
    <3>1. CASE u = th /\ t = s
      BY <2>4, <2>5, <3>1
    <3>2. CASE u # th \/ t # s
      BY <1>2, <2>6, <2>7, <3>2 DEF Unchecked
    <3> QED BY <3>1, <3>2
  <2>8. SilenceMeansClean'
    BY <1>2, <2>2, <2>7 DEF SilenceMeansClean
  <2>9. \A u \in Threads : call'[u].pc \in {"register", "check"} => call'[u] = call[u]
    BY <2>6
  <2>10. HalfRegistered'
    BY <1>3, <2>2, <2>9 DEF HalfRegistered
  <2> QED BY <2>8, <2>10 DEF CleanInv
<1>10. ASSUME NEW th \in Threads, BanUnstarted(th)
      PROVE  CleanInv'
  <2>1. /\ banned_threads' = banned_threads \cup {th}
        /\ UNCHANGED <<node_threads, store_node, store_threads, call>>
        /\ \A n \in Nodes : th \notin store_threads[n]
        /\ call[th].pc = "idle"
    BY <1>10 DEF BanUnstarted, add_banned_thread, Idle
  <2>2. SilenceMeansClean'
    BY <1>2, <2>1 DEF SilenceMeansClean, Unchecked
  <2>3. HalfRegistered'
    BY <1>3, <2>1 DEF HalfRegistered
  <2> QED BY <2>2, <2>3 DEF CleanInv
<1>11. CASE UNCHANGED storeVars
  BY <1>11 DEF storeVars, checkerVars, CleanInv, SilenceMeansClean, HalfRegistered,
               Unchecked
<1> QED BY <1>4, <1>6, <1>7, <1>8, <1>9, <1>10, <1>11 DEF StoreNext

(* As long as the checker has heard nothing, no thread is registered by    *)
(* two nodes or by the tester, and every datastore holds only threads of   *)
(* its owner, but for those whose check is still to come, for any threads  *)
(* that register in any order (checker.py:24-47, datastore.py:67-81).      *)
THEOREM SilenceIsClean == StoreSpec => []SilenceMeansClean
<1>1. StoreInit => StoreTypes /\ CleanInv
  BY StoreTypesInit, CleanInit
<1>2. StoreTypes /\ CleanInv /\ [StoreNext]_storeVars => (StoreTypes /\ CleanInv)'
  BY StoreTypesStep, CleanStep
<1>3. CleanInv => SilenceMeansClean
  BY DEF CleanInv
<1> QED BY <1>1, <1>2, <1>3, PTL DEF StoreSpec
==============================================================================
