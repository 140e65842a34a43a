---------------------------- MODULE MCLocalState ----------------------------
(* Instances of LocalState for TLC. *)
EXTENDS LocalState, TLC

CONSTANTS p1, p2

V(numbers, pre) == [v |-> FALSE, numbers |-> numbers, pre |-> pre]
Release(n) == V(<<0, n, 0>>, <<>>)

\* A release candidate and the release.
MCReleases == <<V(<<0, 2, 0>>, <<1>>), Release(2)>>

\* Nothing, a nag that an update settles, one that it does not, a version too high.
MCPolicies ==
  {[min |-> Missing, recommended |-> Missing],
   [min |-> Missing, recommended |-> Release(2)],
   [min |-> Release(1), recommended |-> Release(3)],
   [min |-> Release(3), recommended |-> Release(3)]}

\* The processes are interchangeable.
Symmetry == Permutations(Procs)

\* Versions with tags, with a "v", with too few numbers, none.
MCBounds ==
  {V(n, pre) : n \in {<<0, 1, 9>>, <<0, 2, 0>>, <<0, 2, 1>>, <<0, 2>>}, pre \in {<<>>, <<1>>, <<3>>}}
  \cup {[Release(2) EXCEPT !.v = TRUE], Missing}
=============================================================================
