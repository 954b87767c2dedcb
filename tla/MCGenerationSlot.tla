-------------------------- MODULE MCGenerationSlot --------------------------
(* Requests, keepwarms and a control job competing for the generation slot. *)
EXTENDS GenerationSlot, TLC
CONSTANTS r1, r2, k1, c1
Nobody == {}
OneRequest == {r1}
TwoRequests == {r1, r2}
OneKeepwarm == {k1}
OneControl == {c1}
=============================================================================
