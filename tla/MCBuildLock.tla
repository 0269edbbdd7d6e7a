---------------------------- MODULE MCBuildLock ----------------------------
(* Instances of BuildLock for TLC. *)
EXTENDS BuildLock, TLC

CONSTANTS build1, build2, watch

OfOneDigit == {<<1>>, <<2>>, <<3>>, <<4>>}
(* One of them is what the second leaves of the third when it is written over it. *)
OfUnequalLength == {<<1>>, <<2>>, <<1, 0>>, <<2, 0>>}

(* All commands take the lock alike, and no liveness is checked. *)
ProcessSymmetry == Permutations(Process)
=============================================================================
