---------------------------- MODULE MCApproval ----------------------------
(* Two approvers and the one who started the build, all served by one      *)
(* process, while the pass may run in that process or in another.          *)
EXTENDS Approval, TLC
CONSTANTS ann, bob, eve, s1, s2

EitherApprover == Permutations({ann, bob})
AllAtOne == [u \in User |-> s1]
=============================================================================
