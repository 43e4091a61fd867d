------------------------- MODULE MCRequestContext -------------------------
(* Instances of RequestContext for TLC. *)
EXTENDS RequestContext, TLC

CONSTANTS c1, c2, c3, i1, i2

OneCall == {c1}
TwoCalls == {c1, c2}
ThreeCalls == {c1, c2, c3}
OneId == {i1}
TwoIds == {i1, i2}

CallSymmetry == Permutations(Calls) \cup Permutations(Ids)
=============================================================================
