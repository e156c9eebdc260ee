------------------------ MODULE MCSocialPostPublisher ------------------------
(* Model values and symmetry for checking SocialPostPublisher with TLC.     *)
EXTENDS SocialPostPublisher, TLC

CONSTANTS w1, w2

MCSymmetry == Permutations({w1, w2})
MCTwo == {w1, w2}
=============================================================================
