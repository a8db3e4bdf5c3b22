-------------------------- MODULE Partitions_proofs ----------------------------
(***************************************************************************)
(* MakePartitions tiles the rows 0 .. n-1, for every number of rows n and  *)
(* every number of workers k: the partitions are disjoint, and each row is *)
(* in one of them.                                                         *)
(***************************************************************************)
EXTENDS Partitions, TLAPS

(***************************************************************************)
(* The common size n / k of the partitions; k of them fit in n rows.       *)
(***************************************************************************)
LEMMA SizeBounds ==
  ASSUME NEW n \in Nat, NEW k \in Nat \ {0}
  PROVE  /\ n \div k \in Nat
         /\ k * (n \div k) <= n
         /\ n < k * (n \div k) + k
  OBVIOUS

(***************************************************************************)
(* Multiples of s keep the order of their factors.                         *)
(***************************************************************************)
LEMMA MultiplesOrdered ==
  ASSUME NEW a \in Nat, NEW b \in Nat, NEW s \in Nat, a <= b
  PROVE  a * s <= b * s
  OBVIOUS

(***************************************************************************)
(* Every partition lies within 0 .. n-1.                                   *)
(***************************************************************************)
THEOREM PartitionsWithinRows ==
  ASSUME NEW n \in Nat, NEW k \in Nat \ {0}, NEW i \in 0 .. k-1
  PROVE  RowsOf(MakePartitions(n, k)[i]) \subseteq 0 .. n-1
<1> DEFINE size == n \div k
<1>1. size \in Nat /\ k * size <= n
  BY SizeBounds
<1>2. (i + 1) * size <= k * size
  BY <1>1, MultiplesOrdered
<1>3. i * size \in Nat /\ (i + 1) * size \in Nat
  BY <1>1
<1>4. MakePartitions(n, k)[i].start = i * size
  BY DEF MakePartitions
<1>5. MakePartitions(n, k)[i].end = IF i = k - 1 THEN n ELSE (i + 1) * size
  BY DEF MakePartitions
<1> HIDE DEF size
<1>6. MakePartitions(n, k)[i].end \in Nat /\ MakePartitions(n, k)[i].end <= n
  BY <1>1, <1>2, <1>3, <1>5
<1> QED
  BY <1>3, <1>4, <1>6 DEF RowsOf

(***************************************************************************)
(* No row is given to two workers (sgd.go, MakePartitions).                *)
(***************************************************************************)
THEOREM PartitionsDisjoint ==
  ASSUME NEW n \in Nat, NEW k \in Nat \ {0},
         NEW i \in 0 .. k-1, NEW j \in 0 .. k-1, i # j
  PROVE  RowsOf(MakePartitions(n, k)[i]) \cap RowsOf(MakePartitions(n, k)[j]) = {}
<1> DEFINE size == n \div k
           P(x) == MakePartitions(n, k)[x]
<1>1. ASSUME NEW a \in 0 .. k-1, NEW b \in 0 .. k-1, a < b
      PROVE  P(a).end <= P(b).start /\ P(a).end \in Int /\ P(b).start \in Int
  <2>1. P(a).end = (a + 1) * size /\ P(b).start = b * size
    BY <1>1 DEF MakePartitions
  <2>2. size \in Nat
    BY SizeBounds
  <2>3. (a + 1) * size <= b * size
    BY <1>1, <2>2, MultiplesOrdered
  <2> QED
    BY <2>1, <2>2, <2>3
<1>2. CASE i < j
  BY <1>1, <1>2 DEF RowsOf
<1>3. CASE j < i
  BY <1>1, <1>3 DEF RowsOf
<1> QED
  BY <1>2, <1>3

(***************************************************************************)
(* Every row is given to some worker: the last partition has the remainder *)
(* of n / k (sgd.go:333).                                                  *)
(***************************************************************************)
THEOREM PartitionsCover ==
  ASSUME NEW n \in Nat, NEW k \in Nat \ {0}, NEW r \in 0 .. n-1
  PROVE  \E i \in 0 .. k-1 : r \in RowsOf(MakePartitions(n, k)[i])
<1> DEFINE size == n \div k
<1>1. size \in Nat
  BY SizeBounds
<1>2. CASE (k - 1) * size <= r
  <2>0. k - 1 \in 0 .. k-1
    OBVIOUS
  <2>1. MakePartitions(n, k)[k - 1].start = (k - 1) * size
    BY <2>0 DEF MakePartitions
  <2>2. MakePartitions(n, k)[k - 1].end = n
    BY <2>0 DEF MakePartitions
  <2>3. (k - 1) * size \in Nat
    BY <1>1
  <2> HIDE DEF size
  <2>4. r \in RowsOf(MakePartitions(n, k)[k - 1])
    BY <1>2, <2>1, <2>2, <2>3 DEF RowsOf
  <2> QED
    BY <2>0, <2>4
<1>3. CASE r < (k - 1) * size
  <2>1. size > 0
    BY <1>1, <1>3
  <2>2. PICK i \in Nat : i * size <= r /\ r < (i + 1) * size
    <3>1. /\ r \div size \in Nat
          /\ size * (r \div size) <= r
          /\ r < size * (r \div size) + size
      BY <1>1, <2>1, SizeBounds
    <3>2. (r \div size) * size <= r /\ r < (r \div size + 1) * size
      BY <1>1, <3>1
    <3> QED
      BY <3>1, <3>2
  <2>3. i < k - 1
    <3>1. CASE k - 1 <= i
      <4>1. (k - 1) * size <= i * size
        BY <1>1, <3>1, MultiplesOrdered
      <4> QED
        BY <1>1, <1>3, <2>2, <4>1
    <3> QED
      BY <3>1
  <2>4. MakePartitions(n, k)[i].start = i * size
    BY <2>3 DEF MakePartitions
  <2>5. MakePartitions(n, k)[i].end = (i + 1) * size
    BY <2>3 DEF MakePartitions
  <2>6. i * size \in Nat /\ (i + 1) * size \in Nat
    BY <1>1
  <2> HIDE DEF size
  <2>7. r \in RowsOf(MakePartitions(n, k)[i])
    BY <2>2, <2>4, <2>5, <2>6 DEF RowsOf
  <2> QED
    BY <2>3, <2>7
<1> QED
  BY <1>1, <1>2, <1>3

================================================================================
