---------------------------- MODULE MCImagePoller ----------------------------
(* An image whose registry gets newer tags twice, among them a prerelease and
   tags outside the "minor" policy, while others push two tags by hand.  Two applications
   are deployed from the clone, under one RepoURL or under two. *)
EXTENDS ImagePoller

Release(a, b, c) == <<a, b, c, FALSE>>
Tag100 == Release(1, 0, 0)
TwoReleases ==
  << {Tag100},
     {Tag100, Release(1, 0, 2), <<1, 0, 3, TRUE>>, Release(1, 1, 0)},
     {Tag100, Release(1, 0, 2), Release(1, 0, 3), Release(1, 1, 0), Release(1, 1, 1)} >>
ByHand == {Release(1, 1, 0), Release(1, 0, 1)}
OneURL == [u \in {"plain"} |-> 2]
WithAndWithoutCredentials == [u \in {"plain", "withCredentials"} |-> 1]
=============================================================================
