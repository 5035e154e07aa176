------------------------------ MODULE MCCluster ------------------------------
(* Model checking of Cluster with two tasks of one element of the product  *)
(* each: one on the diagonal, and one off it, where a row and a column     *)
(* cannot be swapped unseen; they are sent to two different nodes.         *)
EXTENDS Cluster, TLC

CONSTANTS t1, t2

MCNodes == 0 .. GridSize * GridSize - 1
MCThreads == MCNodes \cup Tasks \cup {Main}

Block(node, row, column, rows, columns) ==
  [node |-> node, start_row |-> row, start_column |-> column,
   num_rows |-> rows, num_columns |-> columns]

MCTaskSpec == t1 :> Block(0, 0, 1, 1, 1) @@ t2 :> Block(3, 1, 0, 1, 1)
==============================================================================
