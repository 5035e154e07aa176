------------------------------- MODULE TestRun -------------------------------
(***************************************************************************)
(* What Tester.start_test (Tema1/skel/tema/tester.py) promises whoever     *)
(* submits the tasks, whatever the cluster does behind it: every task      *)
(* delivers its block of the product once, the right one; then, when all   *)
(* have, the test is judged, and judged a success.                         *)
(***************************************************************************)
CONSTANT Tasks

VARIABLES
  block,   (* what task t has delivered: nothing yet, a right block, or a  *)
           (* wrong one, which no step of this specification allows        *)
  verdict  (* "running" until start_test has judged the test               *)

testVars == <<block, verdict>>

TestInit ==
  /\ block = [t \in Tasks |-> "none"]
  /\ verdict = "running"

Deliver(t) ==
  /\ block[t] = "none"
  /\ block' = [block EXCEPT ![t] = "right"]
  /\ UNCHANGED verdict

Judge ==
  /\ verdict = "running"
  /\ \A t \in Tasks : block[t] = "right"
  /\ verdict' = "passed"
  /\ UNCHANGED block

TestNext == Judge \/ \E t \in Tasks : Deliver(t)

TestSpec == TestInit /\ [][TestNext]_testVars /\ WF_testVars(TestNext)
==============================================================================
