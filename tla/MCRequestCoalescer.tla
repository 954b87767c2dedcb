------------------------ MODULE MCRequestCoalescer ------------------------
(* Two requests with one fingerprint and one with another. *)
EXTENDS RequestCoalescer, TLC
CONSTANTS a1, a2, b1, ka, kb
MCRequests == {a1, a2, b1}
MCKeys     == {ka, kb}
MCKeyOf    == (a1 :> ka) @@ (a2 :> ka) @@ (b1 :> kb)
MCStoppable == {b1}
MCLeaver    == {a1}
=============================================================================
