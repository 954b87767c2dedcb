---------------------------- MODULE MCRestartLoop ----------------------------
(* Instances of RestartLoop: small budgets, and where a stop may come.      *)
EXTENDS RestartLoop

\* While a cluster runs or has just ended, or while the loop waits for orphaned
\* memory: wherever the loop looks at the stop file before it launches again.
MCStopPlaces == {"wait", "over", "topWait", "endWait"}

\* Also while the loop sleeps before its next lap.
MCBackoffToo == MCStopPlaces \cup {"sleep"}
=============================================================================
