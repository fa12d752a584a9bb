--------------------------- MODULE FederatedLearning ---------------------------
(***************************************************************************)
(* The coordinator of federated learning in the ML inference service: edge *)
(* nodes submit weights, a round averages those of all nodes it knows by   *)
(* the size of their data.  Accuracies are counted in thousandths, an      *)
(* average is a fraction, and the weights, which are averaged the same     *)
(* way, are left out.                                                      *)
(***************************************************************************)
EXTENDS Integers, Sequences, FiniteSetsExt

CONSTANTS
  Nodes,       \* edge nodes
  Accuracies,  \* accuracies a node may report, in thousandths
  Sizes,       \* sizes of a node's data, what it may report included
  MaxRounds    \* bound on the rounds

ASSUME FederatedAssumption ==
  /\ IsFiniteSet(Nodes)
  /\ Accuracies \subseteq Int /\ Sizes \subseteq Int /\ MaxRounds \in Nat

VARIABLES
  nodes,   \* what each node submitted last
  history  \* round_history: the global accuracy of each round, a fraction

federatedVars == <<nodes, history>>

\* CONVERGENCE_WINDOW, and CONVERGENCE_ACCURACY_DELTA in thousandths
ConvergenceWindow == 3
AccuracyDelta == 1

NoNode == [accuracy |-> 0, size |-> 0, status |-> "unknown"]

Known == {n \in Nodes : nodes[n].status # "unknown"}

-----------------------------------------------------------------------------

\* submit_local_update takes the place of the node's last update.
SubmitUpdate(n, acc, size) ==
  /\ size > 0
  /\ acc \in 0..1000
  /\ nodes' = [nodes EXCEPT ![n] = [accuracy |-> acc, size |-> size, status |-> "syncing"]]
  /\ UNCHANGED history

\* train_local_linear_model: two samples at least, and two labels; what it
\* returns is submitted in the same request.
TrainAndSubmit(n, acc, samples, labels) ==
  /\ samples >= 2 /\ labels >= 2
  /\ SubmitUpdate(n, acc, samples)

\* np.average with the sizes of the data as weights
Average(ns) ==
  <<MapThenSumSet(LAMBDA n : nodes[n].size * nodes[n].accuracy, ns),
    MapThenSumSet(LAMBDA n : nodes[n].size, ns)>>

\* aggregate_round averages every node known, those that sent nothing since the
\* last round included; without any node it fails at a division by zero.
AggregateRound(minNodes) ==
  /\ Known # {}
  /\ Cardinality(Known) >= minNodes
  /\ Len(history) < MaxRounds
  /\ history' = Append(history, Average(Known))
  /\ nodes' = [n \in Nodes |-> IF n \in Known THEN [nodes[n] EXCEPT !.status = "idle"] ELSE nodes[n]]

\* The state of the coordinator is in memory only.
RestartCoordinator ==
  /\ nodes' = [n \in Nodes |-> NoNode]
  /\ history' = <<>>

\* convergence_status: a difference of fractions <<p, q>> and <<r, s>> is
\* (r * q - p * s) / (q * s).
LaterMinus(p, r) == r[1] * p[2] - p[1] * r[2]
AsGood(p, r) == LaterMinus(p, r) \in -(AccuracyDelta * p[2] * r[2])+1..(AccuracyDelta * p[2] * r[2])-1

InWindow == {i \in 2..Len(history) : i > Len(history) - ConvergenceWindow + 1}

ConvergenceStatus ==
  IF Len(history) < 2 THEN "converging"
  ELSE IF \A i \in InWindow : LaterMinus(history[i - 1], history[i]) < 0 THEN "diverging"
  ELSE IF \A i \in InWindow : AsGood(history[i - 1], history[i]) THEN "converged"
  ELSE "converging"

FederatedInit ==
  /\ nodes = [n \in Nodes |-> NoNode]
  /\ history = <<>>

FederatedNext ==
  \/ \E n \in Nodes, acc \in Accuracies, size \in Sizes : SubmitUpdate(n, acc, size)
  \/ \E n \in Nodes, acc \in Accuracies, samples \in Sizes, labels \in 1..2 :
       TrainAndSubmit(n, acc, samples, labels)
  \/ \E m \in 0..Cardinality(Nodes) : AggregateRound(m)
  \/ RestartCoordinator

FederatedSpec == FederatedInit /\ [][FederatedNext]_federatedVars

-----------------------------------------------------------------------------
(* Properties *)

\* The state of the coordinator has its types.
FederatedTypeOK ==
  /\ nodes \in [Nodes -> [accuracy : Accuracies, size : Sizes, status : {"syncing", "idle"}]
                           \union {NoNode}]
  /\ Len(history) <= MaxRounds
  /\ \A i \in DOMAIN history : history[i] \in Nat \X (Nat \ {0})
  /\ ConvergenceStatus \in {"converging", "converged", "diverging"}

=============================================================================
