---------------------------- MODULE MCHttpClient ----------------------------
(* Instances of HttpClient for TLC. *)
EXTENDS HttpClient

CONSTANTS bundle, fallback
MCProbePaths == <<fallback>>
MCRetries == {-1, 0, 2}
=============================================================================
