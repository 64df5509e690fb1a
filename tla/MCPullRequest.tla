---------------------------- MODULE MCPullRequest ----------------------------
(* A small instance of PullRequest for TLC: one pull request with two heads *)
(* and one on a branch that shares the second, two workers.                 *)
EXTENDS PullRequest

CONSTANTS p1, p2, c1, c2

MCPushes == p1 :> <<c1, c2>> @@ p2 :> <<c2>>
=============================================================================
