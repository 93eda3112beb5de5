--------------------------- MODULE MCRemoteProbe ---------------------------
(* Remote diagnostics on small instances. *)
EXTENDS RemoteProbe

CONSTANTS n1, n2, a1, c1, p1, p2
MCSessions == {1, 2}
OneNode == {n1}
TwoNodes == {n1, n2}
OneAgent == {a1}
OneCreator == {c1}
OnePoll == {p1}
TwoPolls == {p1, p2}
NoClear == {}
FirstSession == {1}
Manual == {FALSE}
Either == BOOLEAN
NoNode == {}
ClearAll == {OneNode}
=============================================================================
