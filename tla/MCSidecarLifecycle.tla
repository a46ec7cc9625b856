------------------------- MODULE MCSidecarLifecycle -------------------------
(* Two loops, so that one is launched while the other tidies up.           *)
EXTENDS SidecarLifecycle, TLC

CONSTANTS first, second

MCLoop == {first, second}

Alike == Permutations(MCLoop)

=============================================================================
