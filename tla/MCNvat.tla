------------------------------- MODULE MCNvat -------------------------------
(* Instances of Nvat for TLC. *)
EXTENDS Nvat

\* No step depends on the code of the last call, but for a crash.
WithoutCode == <<binding, heap, var, rc = "crash">>
=============================================================================
