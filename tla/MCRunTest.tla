------------------------------ MODULE MCRunTest ------------------------------
(* Model checking of RunTest: the values a test file may give its          *)
(* parameters; num_nodes need be no square, and blocks may be too small.   *)
EXTENDS RunTest, TLC

MCFileValues ==
  "num_nodes" :> {0, 1, 4, 5} @@ "num_tasks" :> {0, 3, 5} @@
  "stored_block_size" :> {Text, 0, 3, 4} @@
  "test_name" :> {Text} @@ "timeout" :> {1}
==============================================================================
