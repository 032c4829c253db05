----------------------------- MODULE MCVerifiers ----------------------------
(* Two nonces, two measurement indices of which one is 35, two devices.      *)
EXTENDS Verifiers, TLC

CONSTANTS n1, n2, v1, v2, d1, d2

MCNonces == {n1, n2}
MCValues == {v1, v2}
MCSubmodules == {d1, d2}
MCIndices == {34, 35}

\* Nonces and names of devices are only compared.
MCSymmetry == Permutations(MCNonces) \cup Permutations(MCSubmodules)
=============================================================================
