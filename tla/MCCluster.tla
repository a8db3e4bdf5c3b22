------------------------------- MODULE MCCluster -------------------------------
(***************************************************************************)
(* Cluster for TLC.  As in MCParallelSGD, a theta is the number of         *)
(* gradient-descent steps that lead to it, or -1 after a wrong one.        *)
(***************************************************************************)
EXTENDS Cluster

MCTheta == -1 .. Epochs

MCUpdate(t, grad, n) ==
  IF t \in 0 .. Epochs-1 /\ grad = [r \in Rows |-> <<t>>] /\ n = N THEN t + 1 ELSE -1

================================================================================
