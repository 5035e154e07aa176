------------------------------ MODULE DataStore ------------------------------
(***************************************************************************)
(* The datastores of the cluster (Tema1/skel/tema/datastore.py), one per   *)
(* node, with the Checker they report to.  A call of register_thread or of *)
(* get_element_from_a / get_element_from_b takes several steps: other      *)
(* threads run between the critical sections, and while the call sleeps    *)
(* holding one unit of the semaphore remaining_requests.                   *)
(*                                                                         *)
(* StoreNext lets every thread call every datastore in the name of every   *)
(* node, right or wrong; module Cluster composes the same actions with the *)
(* nodes that are supposed to use them properly.                           *)
(***************************************************************************)
EXTENDS Checker, Naturals, FiniteSets

CONSTANTS
  MaxPending,  (* max_pending_requests: the semaphore's initial value      *)
  None         (* Python's None                                            *)

ASSUME StoreAssumption ==
  /\ MaxPending \in Nat \ {0}
  /\ None \notin Nodes
  /\ IsFiniteSet(Threads)

VARIABLES
  store_node,          (* node of a datastore: its registered owner        *)
  store_threads,       (* node_threads of a datastore                      *)
  remaining_requests,  (* the semaphore of a datastore                     *)
  call                 (* thread -> the call it is executing               *)

storeVars == <<checkerVars, store_node, store_threads, remaining_requests, call>>

(* A thread is idle (not inside the datastore), between the checker's and  *)
(* the datastore's own registration, registered but not yet checked, about *)
(* to acquire, or asleep holding the semaphore.  store: whose datastore;   *)
(* node: the node it passed.                                               *)
Idle == [pc |-> "idle", store |-> None, node |-> None]

Calls == {Idle} \cup [pc : {"register", "check", "acquire", "sleep"},
                      store : Nodes, node : Nodes]

StoreTypeOK ==
  /\ CheckerTypeOK
  /\ store_node \in [Nodes -> Nodes \cup {None}]
  /\ store_threads \in [Nodes -> SUBSET Threads]
  /\ remaining_requests \in [Nodes -> 0 .. MaxPending]
  /\ call \in [Threads -> Calls]

StoreInit ==
  /\ CheckerInit
  /\ store_node = [s \in Nodes |-> None]
  /\ store_threads = [s \in Nodes |-> {}]
  /\ remaining_requests = [s \in Nodes |-> MaxPending]
  /\ call = [th \in Threads |-> Idle]

------------------------------------------------------------------------------
(* Mutant: the thread of the caller is not looked at.                      *)
check_access_of_node(holder, regs, th, node) ==
  IF holder = None THEN {"unregistered datastore"}
  ELSE IF node # holder THEN {"wrong node"} ELSE {}

(* What __check_access reports when th passes node to a datastore held by  *)
(* holder whose registered threads are regs: the first test that fails.    *)
check_access(holder, regs, th, node) ==
  IF holder = None THEN {"unregistered datastore"}
  ELSE IF node # holder THEN {"wrong node"}
  ELSE IF th \notin regs THEN {"wrong thread"}
  ELSE {}

Enter(th, s, node, pc) ==
  call' = [call EXCEPT ![th] = [pc |-> pc, store |-> s, node |-> node]]

Leave(th) == call' = [call EXCEPT ![th] = Idle]

(* register_thread: first the checker; then the datastore itself, under    *)
(* node_lock; then __check_access, which takes the lock again.             *)
BeginRegister(th, s, node) ==
  /\ call[th] = Idle
  /\ register_thread(th, node)
  /\ Enter(th, s, node, "register")
  /\ UNCHANGED <<store_node, store_threads, remaining_requests>>

FinishRegister(th) ==
  LET s == call[th].store
      node == call[th].node
  IN  /\ call[th].pc = "register"
      /\ store_node' = [store_node EXCEPT ![s] = IF @ = None THEN node ELSE @]
      /\ store_threads' = [store_threads EXCEPT ![s] = @ \cup {th}]
      /\ Enter(th, s, node, "check")
      /\ UNCHANGED <<checkerVars, remaining_requests>>

(* The thread stays registered whatever the check reports.                 *)
CheckRegister(th) ==
  LET s == call[th].store
  IN  /\ call[th].pc = "check"
      /\ messages' = messages \cup
           check_access(store_node[s], store_threads[s], th, call[th].node)
      /\ Leave(th)
      /\ UNCHANGED <<banned_threads, node_threads, store_node, store_threads,
                     remaining_requests>>

(* __get_element up to the semaphore: an illegal access is reported, and   *)
(* goes on all the same.                                                   *)
BeginGet(th, s, node) ==
  /\ call[th] = Idle
  /\ messages' = messages \cup
       check_access(store_node[s], store_threads[s], th, node)
  /\ Enter(th, s, node, "acquire")
  /\ UNCHANGED <<banned_threads, node_threads, store_node, store_threads,
                 remaining_requests>>

(* acquire(False): the call sleeps with the semaphore, or it reports and   *)
(* returns no element.                                                     *)
Acquire(th) ==
  LET s == call[th].store
  IN  /\ call[th].pc = "acquire"
      /\ IF remaining_requests[s] > 0
         THEN /\ remaining_requests' = [remaining_requests EXCEPT ![s] = @ - 1]
              /\ Enter(th, s, call[th].node, "sleep")
              /\ UNCHANGED messages
         ELSE /\ messages' = messages \cup {"too many requests"}
              /\ Leave(th)
              /\ UNCHANGED remaining_requests
      /\ UNCHANGED <<banned_threads, node_threads, store_node, store_threads>>

(* Mutant: a path that returns without the release.                        *)
ReleaseForgotten(th) ==
  /\ call[th].pc = "sleep"
  /\ Leave(th)
  /\ UNCHANGED <<checkerVars, store_node, store_threads, remaining_requests>>

(* The end of the sleep: release, and return the element.                  *)
Release(th) ==
  /\ call[th].pc = "sleep"
  /\ remaining_requests' = [remaining_requests EXCEPT ![call[th].store] = @ + 1]
  /\ Leave(th)
  /\ UNCHANGED <<checkerVars, store_node, store_threads>>

(* The tester bans a thread before it starts it.                           *)
BanUnstarted(th) ==
  /\ call[th] = Idle
  /\ \A n \in Nodes : th \notin node_threads[n] /\ th \notin store_threads[n]
  /\ add_banned_thread(th)
  /\ UNCHANGED <<store_node, store_threads, remaining_requests, call>>

StoreNext ==
  \E th \in Threads :
    \/ \E s, node \in Nodes : BeginRegister(th, s, node) \/ BeginGet(th, s, node)
    \/ FinishRegister(th) \/ CheckRegister(th)
    \/ Acquire(th) \/ Release(th)
    \/ BanUnstarted(th)

StoreSpec == StoreInit /\ [][StoreNext]_storeVars
------------------------------------------------------------------------------
Sleeping(s) == {th \in Threads : call[th].pc = "sleep" /\ call[th].store = s}

(* The units of a datastore's semaphore are exactly the free ones plus one *)
(* per call asleep in __get_element: no path loses or invents a unit, so   *)
(* never more than MaxPending calls are in flight.                         *)
SemaphoreExact ==
  \A s \in Nodes :
    remaining_requests[s] + Cardinality(Sleeping(s)) = MaxPending

Entitled(th, s, node) == node = store_node[s] /\ th \in store_threads[s]

(* __check_access never stops a call, so the report is the only defence: a *)
(* thread that is past the check of a datastore it has no right to has     *)
(* been reported to the checker, whoever registered in the meantime        *)
(* (datastore.py:54-64).                                                   *)
StrayAccessReported ==
  \A th \in Threads :
    /\ call[th].pc \in {"acquire", "sleep"}
    /\ ~Entitled(th, call[th].store, call[th].node)
    => messages # {}

(* Registered under the lock, and not yet checked (datastore.py:79-81).    *)
Unchecked(s) == {th \in Threads : call[th].pc = "check" /\ call[th].store = s}

(* A silent checker means clean registrations: no thread belongs to two    *)
(* nodes, no thread of the tester reached a datastore, and every datastore *)
(* has only threads its own node registered, but for those between the two *)
(* lock sections of register_thread, whose check is still to come: there   *)
(* another node's thread is in the set, with no report yet                 *)
(* (checker.py:24-47, datastore.py:67-81).                                 *)
SilenceMeansClean ==
  messages = {} =>
    \A s \in Nodes :
      /\ store_threads[s] \cap banned_threads = {}
      /\ \A n \in Nodes \ {s} : node_threads[s] \cap node_threads[n] = {}
      /\ \A th \in store_threads[s] \ Unchecked(s) :
           store_node[s] # None /\ th \in node_threads[store_node[s]]
==============================================================================
