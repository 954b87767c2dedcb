--------------------------- MODULE ReplicatedOps ---------------------------
(***************************************************************************)
(* What the broadcast channel of the two ranks promises: transactions take *)
(* turns, every operation of a turn changes the same state on both ranks,  *)
(* and neither rank ever gets more than one operation ahead of the other.  *)
(* The two replicas are the sequences of changes that the ranks applied.   *)
(***************************************************************************)
EXTENDS Naturals, Sequences

CONSTANTS Actors,   \* whoever broadcasts on rank 0
          Ops,      \* kinds of operations
          NoOne

VARIABLES turn,     \* whose transaction is open, NoOne outside transactions
          log       \* per rank: the changes it applied, oldest first

vars == <<turn, log>>

Ranks == {0, 1}
Change == Actors \X Ops

Init == turn = NoOne /\ log = [r \in Ranks |-> <<>>]

Open(a) == turn = NoOne /\ turn' = a /\ UNCHANGED log

\* The first rank to apply an operation of the open transaction.
Lead(r) ==
  /\ turn # NoOne
  /\ log[0] = log[1]
  /\ \E op \in Ops: log' = [log EXCEPT ![r] = Append(@, <<turn, op>>)]
  /\ UNCHANGED turn

\* The other rank catches up with the operation it has not applied yet.
Follow(r) ==
  /\ \E c \in Change:
       /\ log[1 - r] = Append(log[r], c)
       /\ log' = [log EXCEPT ![r] = Append(@, c)]
  /\ UNCHANGED turn

Close == turn # NoOne /\ turn' = NoOne /\ UNCHANGED log

Next == \/ \E a \in Actors: Open(a)
        \/ \E r \in Ranks: Lead(r) \/ Follow(r)
        \/ Close

Spec == Init /\ [][Next]_vars
=============================================================================
