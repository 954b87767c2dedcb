------------------------- MODULE MCPrefillAdmission --------------------------
(* Instances of PrefillAdmission: prefills around the threshold, memories    *)
(* around the budget of 20 units, three parked slots of which two may tie.   *)
EXTENDS PrefillAdmission

MCPrefills == [total: {3}, new: {3}, cache: BOOLEAN]
              \cup [total: {4, 6}, new: {4}, cache: {TRUE}]
              \cup [total: {6}, new: {6}, cache: BOOLEAN]
              \cup [total: {4}, new: {4}, cache: {FALSE}]
MCLayouts ==
  [base: {2, 6}, garbage: {0, 2}, live: {0, 3},
   parked: {<<a, b, c>>: a \in {0, 3}, b \in {1, 2}, c \in {0, 1, 3, 5}}]
=============================================================================
