--------------------------- MODULE MCStopBoundary ---------------------------
(* Two requests with a tool retry, two stops, and a prompt of three chunks.  *)
EXTENDS StopBoundary

CONSTANTS q1, q2

MCRequests == {q1, q2}
MCPaths == {"batch", "stream"}
=============================================================================
