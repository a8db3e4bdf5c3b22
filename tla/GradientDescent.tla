---------------------------- MODULE GradientDescent ----------------------------
(***************************************************************************)
(* What both trainers promise: batch gradient descent.  Every epoch makes  *)
(* one step of theta, along the gradient of all the training rows, each    *)
(* row counted once and evaluated at the theta the epoch began with; the   *)
(* model that training returns holds the theta of the last epoch.          *)
(*                                                                         *)
(* A gradient is abstracted to the multiset of the terms it sums: it maps  *)
(* each row to the sequence of the thetas at which the row's term          *)
(* err_i * x_i was evaluated, so that a missing, a repeated and a stale    *)
(* term all show.  Update stands for theta - lr * gradient / n.            *)
(***************************************************************************)
EXTENDS Integers, Sequences

CONSTANTS
  N,             \* rows of the training matrix
  Epochs,        \* number of epochs
  Zero,          \* the initial theta
  Update(_,_,_)  \* theta, accumulated gradient, rows counted |-> new theta

VARIABLES
  trajectory,    \* theta_0, theta_1, ...: one per completed epoch
  result         \* <<>> until training returns a model, then <<weights>>

gdVars == <<trajectory, result>>

FullGradient(t) == [r \in 0 .. N-1 |-> <<t>>]

Descend(t) == IF N = 0 THEN t ELSE Update(t, FullGradient(t), N)

Current == trajectory[Len(trajectory)]

Init == trajectory = <<Zero>> /\ result = <<>>

Epoch == /\ Len(trajectory) <= Epochs
         /\ trajectory' = Append(trajectory, Descend(Current))
         /\ UNCHANGED result

Return == /\ Len(trajectory) = Epochs + 1
          /\ result = <<>>
          /\ result' = <<Current>>
          /\ UNCHANGED trajectory

Next == Epoch \/ Return

Spec == Init /\ [][Next]_gdVars

FairSpec == Spec /\ WF_gdVars(Next)

================================================================================
