---------------------------- MODULE MCPredictions ----------------------------
EXTENDS Predictions

Bar(low, high, close) == [low |-> low, high |-> high, close |-> close]

\* From a close of 4 the second bar goes through the stop and the target; from
\* its own close of 3 the first bar reaches the target, and it is an anomaly.
Shapes == {Bar(4, 4, 4), Bar(2, 5, 3)}
Quiet  == {Bar(4, 4, 4)}
=============================================================================
