---------------------------- MODULE MCOpChannel ----------------------------
(* Instances of OpChannel for TLC. *)
EXTENDS OpChannel, TLC

CONSTANTS r1, r2, k1, s1, v1, h1, h2, x1

MCNone == {}
MCTwoRequests == {r1, r2}
MCKeepwarm == {k1}
MCSsdAdmins == {s1}
MCSavers == {v1}
MCLoopAdmins == {h1, h2}
MCStoppers == {x1}
MCBothFail == {0, 1}

\* Some of the actors have nothing to do from the start: either those that
\* run requests and what may meet them, or the handlers on the event loop.
MCInit ==
  /\ \E absent \in {LoopAdmins \cup SsdAdmins,
                    Requests \cup Keepwarms \cup Savers}:
       pc = [a \in Actors |-> IF a \in absent THEN "done" ELSE "idle"]
  /\ turn = NoOne
  /\ plan = [a \in Actors |-> <<>>]
  /\ mirror = Waiting("size")
  /\ steps = 0
  /\ log = [r \in {0, 1} |-> <<>>]
  /\ stopping = FALSE
MCEither == MCInit /\ [][Next]_vars
=============================================================================
