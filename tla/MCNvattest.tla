----------------------------- MODULE MCNvattest -----------------------------
(* Instances of Nvattest for TLC. *)
EXTENDS Nvattest, TLC

\* Nonces are only compared.
NonceSymmetry == Permutations(Nonces)

\* An application that changes its HTTP options is not followed any further:
\* they discard nothing, and NothingOutdated is not about them.
DefaultHttpOptions == pc = "application" => m_default_http_options = 0
=============================================================================
