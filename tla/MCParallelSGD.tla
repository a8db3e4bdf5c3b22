----------------------------- MODULE MCParallelSGD -----------------------------
(***************************************************************************)
(* ParallelSGD for TLC.  A theta is the number of gradient-descent steps   *)
(* that lead to it, or -1 if some update on the way was not along the full *)
(* gradient.                                                               *)
(***************************************************************************)
EXTENDS ParallelSGD

MCTheta == -1 .. Epochs

MCUpdate(t, grad, n) ==
  IF t \in 0 .. Epochs-1 /\ grad = [r \in Rows |-> <<t>>] /\ n = N THEN t + 1 ELSE -1

================================================================================
