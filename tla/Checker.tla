------------------------------- MODULE Checker -------------------------------
(***************************************************************************)
(* The Checker of the cluster simulation (Tema1/skel/tema/checker.py): it  *)
(* records which threads the nodes registered, and collects one report per *)
(* illegal use of a thread or of a datastore.  A test passes only when it  *)
(* ends with no report, so of a report only its kind is kept and of the    *)
(* list of reports only which kinds occurred.                              *)
(*                                                                         *)
(* Each of the three locks of the class protects one field and is held     *)
(* for one method body, so a method is one action.                         *)
(***************************************************************************)
CONSTANTS
  Nodes,     (* the nodes of the cluster                                   *)
  Threads    (* every thread of the process: main, tasks and wait threads  *)

VARIABLES
  banned_threads,  (* threads of the tester, which no node may register    *)
  node_threads,    (* node -> the threads that node registered             *)
  messages         (* the kinds of report made so far                      *)

checkerVars == <<banned_threads, node_threads, messages>>

(* The reports of checker.py (the first two) and of datastore.py.          *)
Reports == {"banned thread", "shared thread", "unregistered datastore",
            "wrong node", "wrong thread", "too many requests"}

CheckerTypeOK ==
  /\ banned_threads \subseteq Threads
  /\ node_threads \in [Nodes -> SUBSET Threads]
  /\ messages \subseteq Reports

CheckerInit ==
  /\ banned_threads = {}
  /\ node_threads = [n \in Nodes |-> {}]
  /\ messages = {}

(* Mutant: threads of several nodes go unnoticed.                          *)
NoSharedThreadErrors(th, node) == {}

(* The error a thread causes by registering while another node has it.     *)
SharedThreadErrors(th, node) ==
  IF \E n \in Nodes \ {node} : th \in node_threads[n]
  THEN {"shared thread"} ELSE {}

register_thread(th, node) ==
  /\ \/ /\ th \in banned_threads
        /\ messages' = messages \cup {"banned thread"}
        /\ UNCHANGED node_threads
     \/ /\ th \notin banned_threads
        /\ messages' = messages \cup SharedThreadErrors(th, node)
        /\ node_threads' = [node_threads EXCEPT ![node] = @ \cup {th}]
  /\ UNCHANGED banned_threads

add_banned_thread(th) ==
  /\ banned_threads' = banned_threads \cup {th}
  /\ UNCHANGED <<node_threads, messages>>
==============================================================================
