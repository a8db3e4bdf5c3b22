------------------------------ MODULE Partitions -------------------------------
(***************************************************************************)
(* The division of the rows of the training matrix among workers           *)
(* (internal/model/sgd.go, MakePartitions).  Both trainers use it: Train   *)
(* gives one partition to each goroutine, TrainDistributed one to each     *)
(* node.  Rows are numbered from 0, as the slice X is.                     *)
(***************************************************************************)
EXTENDS Integers

(***************************************************************************)
(* Fault: the last partition does not absorb the remainder of n / k.       *)
(***************************************************************************)
MakePartitions_DropRemainder(n, k) ==
  LET size == n \div k
  IN  [i \in 0..k-1 |-> [start |-> i * size, end |-> (i + 1) * size]]

(***************************************************************************)
(* k contiguous half-open ranges [start, end) over 0..n-1, each of n / k   *)
(* rows but for the last, which ends at n.                                 *)
(***************************************************************************)
MakePartitions(n, k) ==
  LET size == n \div k
  IN  [i \in 0..k-1 |-> [start |-> i * size,
                         end   |-> IF i = k - 1 THEN n ELSE (i + 1) * size]]

(***************************************************************************)
(* The rows of a partition: X[p.start:p.end].                              *)
(***************************************************************************)
RowsOf(p) == p.start .. (p.end - 1)

================================================================================
