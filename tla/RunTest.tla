------------------------------- MODULE RunTest -------------------------------
(***************************************************************************)
(* Tester.run_test and its watchdog (Tema1/skel/tema/tester.py): the main  *)
(* thread has a test generated, runs start_test Times times and reports, a *)
(* Timer thread reports and kills the process if its interval passes       *)
(* first.  Whoever takes finished_output_lock first writes the one result  *)
(* line.                                                                   *)
(*                                                                         *)
(* What start_test does is the business of module Cluster; here a run of   *)
(* it passes, fails or, as a node under test might make it, never returns; *)
(* or it raises, if the test is not one for a square grid.                 *)
(***************************************************************************)
EXTENDS TestGenerator, Sequences

CONSTANT Times  (* the parameter times: how often the test is run          *)

ASSUME TimesAssumption == Times \in Nat \ {0}

VARIABLES
  main,             (* the step of run_test                                *)
  runs,             (* how many calls of start_test have returned          *)
  passed_tests,     (* how many of them passed                             *)
  timer,            (* the step of the Timer thread                        *)
  label,            (* the kind of line timer_fn has decided on            *)
  lock,             (* holder of finished_output_lock                      *)
  finished_output,  (* a result line is written                            *)
  out_file,         (* the result lines                                    *)
  exited            (* os._exit has ended the process                      *)

runVars == <<main, runs, passed_tests, timer, label, lock, finished_output,
             out_file, exited>>

Line == [label : {"Finished", "Timeout"}, passed : 0 .. Times]

RunTypeOK ==
  /\ gen \in {"open", "read", "draw", "generate", "tasks", "ready", "exit",
             "raised"}
  /\ k \in Nat
  /\ assigned \subseteq Nat \X Nat
  /\ main \in {"generate", "run", "lock", "write", "ended"}
  /\ runs \in 0 .. Times
  /\ passed_tests \in 0 .. runs
  /\ timer \in {"off", "wait", "lock", "test", "write", "ended"}
  /\ label \in {"Finished", "Timeout"}
  /\ lock \in {"free", "main", "timer"}
  /\ finished_output \in BOOLEAN
  /\ out_file \in Seq(Line)
  /\ exited \in BOOLEAN

RunInit ==
  /\ GenInit
  /\ main = "generate" /\ runs = 0 /\ passed_tests = 0
  /\ timer = "off" /\ label = "Finished"
  /\ lock = "free" /\ finished_output = FALSE /\ out_file = <<>>
  /\ exited = FALSE

------------------------------------------------------------------------------
(* A file that is wrong ends the process, an exception the main thread.    *)
GenerationFails ==
  /\ main = "generate" /\ gen \in {"exit", "raised"}
  /\ main' = "ended" /\ exited' = (gen = "exit")
  /\ UNCHANGED <<runs, passed_tests, timer, label, lock, finished_output, out_file>>

(* t.start()                                                               *)
StartTimer ==
  /\ main = "generate" /\ gen = "ready"
  /\ main' = "run" /\ timer' = "wait"
  /\ UNCHANGED <<runs, passed_tests, label, lock, finished_output, out_file, exited>>

(* get_stored_block_dim divides by the side of the grid, and start_test    *)
(* takes nodes[index] for each task.                                       *)
Raises == n = 0 \/ \E node \in assigned : node[1] * n + node[2] >= n * n

(* The exception ends the main thread, but not the timer.                  *)
StartTestRaises ==
  /\ main = "run" /\ Raises /\ runs < Times
  /\ main' = "ended"
  /\ UNCHANGED <<runs, passed_tests, timer, label, lock, finished_output,
                 out_file, exited>>

(* Mutant: one run too many.                                               *)
OneRunMore ==
  /\ main = "run" /\ runs <= Times /\ ~Raises
  /\ runs' = runs + 1
  /\ passed_tests' \in {passed_tests, passed_tests + 1}
  /\ UNCHANGED <<main, timer, label, lock, finished_output, out_file, exited>>

(* The end of one start_test; a test that passed is counted without a lock.*)
EndOfRun ==
  /\ main = "run" /\ runs < Times /\ ~Raises
  /\ runs' = runs + 1
  /\ passed_tests' \in {passed_tests, passed_tests + 1}
  /\ UNCHANGED <<main, timer, label, lock, finished_output, out_file, exited>>

(* t.cancel() stops a timer that waits, not one that is in timer_fn.       *)
Cancel ==
  /\ main = "run" /\ runs = Times
  /\ main' = "lock"
  /\ timer' = IF timer = "wait" THEN "ended" ELSE timer
  /\ UNCHANGED <<runs, passed_tests, label, lock, finished_output, out_file,
                 exited>>

(* with finished_output_lock: if not finished_output.                      *)
MainLock ==
  /\ main = "lock" /\ lock = "free"
  /\ IF finished_output
     THEN main' = "ended" /\ UNCHANGED lock
     ELSE main' = "write" /\ lock' = "main"
  /\ UNCHANGED <<runs, passed_tests, timer, label, finished_output, out_file,
                 exited>>

MainWrite ==
  /\ main = "write"
  /\ out_file' = Append(out_file, [label |-> "Finished", passed |-> passed_tests])
  /\ finished_output' = TRUE
  /\ lock' = "free"
  /\ main' = "ended"
  /\ UNCHANGED <<runs, passed_tests, timer, label, exited>>

(* The interval may pass at any time.                                      *)
TimerFire ==
  /\ timer = "wait"
  /\ timer' = "lock"
  /\ UNCHANGED <<main, runs, passed_tests, label, lock, finished_output,
                 out_file, exited>>

(* Mutant: timer_fn does not look whether a result is written.             *)
TimerLockUnchecked ==
  /\ timer = "lock" /\ lock = "free"
  /\ timer' = "test" /\ lock' = "timer"
  /\ UNCHANGED <<main, runs, passed_tests, label, finished_output, out_file,
                 exited>>

TimerLock ==
  /\ timer = "lock" /\ lock = "free"
  /\ IF finished_output
     THEN timer' = "ended" /\ UNCHANGED lock
     ELSE timer' = "test" /\ lock' = "timer"
  /\ UNCHANGED <<main, runs, passed_tests, label, finished_output, out_file,
                 exited>>

(* Mutant: the comparison off by one.                                      *)
TimerTestOffByOne ==
  /\ timer = "test"
  /\ label' = IF passed_tests + 1 >= Times THEN "Finished" ELSE "Timeout"
  /\ timer' = "write"
  /\ UNCHANGED <<main, runs, passed_tests, lock, finished_output, out_file,
                 exited>>

(* timer_fn reads passed_tests twice: to choose the label ...              *)
TimerTest ==
  /\ timer = "test"
  /\ label' = IF passed_tests = Times THEN "Finished" ELSE "Timeout"
  /\ timer' = "write"
  /\ UNCHANGED <<main, runs, passed_tests, lock, finished_output, out_file,
                 exited>>

(* Mutant: no os._exit.                                                    *)
TimerWriteOnly ==
  /\ timer = "write"
  /\ out_file' = Append(out_file, [label |-> label, passed |-> passed_tests])
  /\ finished_output' = TRUE
  /\ timer' = "ended" /\ lock' = "free"
  /\ UNCHANGED <<main, runs, passed_tests, label, exited>>

(* ... and to print it; it kills the process before it leaves the lock.    *)
TimerWrite ==
  /\ timer = "write"
  /\ out_file' = Append(out_file, [label |-> label, passed |-> passed_tests])
  /\ finished_output' = TRUE
  /\ exited' = TRUE
  /\ UNCHANGED <<main, runs, passed_tests, timer, label, lock>>

Over == exited \/ (main = "ended" /\ timer \in {"off", "ended"})

TimerThread == ~exited /\ (TimerFire \/ TimerLock \/ TimerTest \/ TimerWrite)

(* The main thread, but for a start_test that may not return.              *)
MainOn ==
  /\ ~exited
  /\ \/ GenerationFails \/ StartTimer \/ StartTestRaises
     \/ Cancel \/ MainLock \/ MainWrite

Generating == ~exited /\ main = "generate"

RunNext ==
  \/ /\ Generating /\ (GenerateOn \/ ReadLine)
     /\ UNCHANGED runVars
  \/ /\ MainOn \/ (~exited /\ EndOfRun) \/ TimerThread
     /\ UNCHANGED genVars
  \/ Over /\ UNCHANGED <<genVars, runVars>>

(* The threads are scheduled fairly, a file ends, and the interval passes  *)
(* some day; only start_test is not known to return.                       *)
RunFairness ==
  /\ WF_genVars(Generating /\ GenerateOn)
  /\ WF_runVars(MainOn)
  /\ WF_runVars(TimerThread)

RunSpec == RunInit /\ [][RunNext]_<<genVars, runVars>> /\ RunFairness
------------------------------------------------------------------------------
(* However the two threads race, and be it that start_test raises, once    *)
(* the timer is started the output file gets one result line, and the      *)
(* process never ends without it (tester.py:66-94, 154, 287).              *)
OneResult ==
  /\ Len(out_file) <= 1
  /\ Over /\ timer # "off" => Len(out_file) = 1

(* A Finished line tells the outcome of the whole series: it is written    *)
(* after the last run has returned, or all Times runs have passed.         *)
FinishedIsFinal ==
  \A r \in DOMAIN out_file :
    out_file[r].label = "Finished" =>
      runs = Times /\ out_file[r].passed = passed_tests

(* The watchdog works: even when start_test never returns, a result line   *)
(* is written and the process ends.                                        *)
AlwaysEnds == <>Over
==============================================================================
