----------------------------- MODULE MCSsdCache ------------------------------
(***************************************************************************)
(* Instances of SsdCache: a conversation whose second turn comes in two    *)
(* forms, and another one with a request that is too short to be saved.    *)
(***************************************************************************)
EXTENDS SsdCache

MCPrompts == {[sess |-> "a", ids |-> <<1, 2>>, full |-> TRUE],
              [sess |-> "a", ids |-> <<1, 2, 3, 1>>, full |-> FALSE],
              [sess |-> "a", ids |-> <<1, 2, 2, 1>>, full |-> TRUE],
              [sess |-> "b", ids |-> <<1, 3>>, full |-> TRUE],
              [sess |-> "b", ids |-> <<3>>, full |-> FALSE]}
MCAnswer == <<3>>
\* Rank 0 has more of the layers: the same bytes hold fewer tokens.  Tuned down,
\* its cap does not even hold the longest artifact.
MCEnvCap == [r \in {0, 1} |-> IF r = 0 THEN 5 ELSE 8]
=============================================================================
