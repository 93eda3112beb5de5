---------------------- MODULE MCDiagnosticSessions ----------------------
(* The session manager on a small instance. *)
EXTENDS DiagnosticSessions, TLC

CONSTANTS s1, s2, a1, a2
MCSessions == {s1, s2}
MCAgents == {a1, a2}

\* IDs are opaque, so states that differ in the choice of IDs are alike.
Opaque == Permutations(MCSessions) \cup Permutations(MCAgents)
=============================================================================
