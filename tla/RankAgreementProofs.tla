------------------------- MODULE RankAgreementProofs -------------------------
(***************************************************************************)
(* What keeps the two ranks together: that they run the same operations    *)
(* (OpChannel) and prefill on the same tokens (SsdCache).                  *)
(*                                                                         *)
(* The first part is what the op mutex achieves, for any number of         *)
(* requests, keepwarms and control jobs: when everybody who broadcasts     *)
(* takes it, rank 1 never confuses operations, both ranks change their     *)
(* state in the same order, and the channel implements ReplicatedOps.  A   *)
(* generation that fails on one rank stops the channel, but does not make  *)
(* the ranks disagree.                                                     *)
(*                                                                         *)
(* The second part does without that: whoever takes the mutex and whoever  *)
(* does not, the worker and the event loop run one transaction each, and   *)
(* the shutdown and the handlers of the event loop rely on it (Basics).    *)
(*                                                                         *)
(* The third part is the SSD tier: each rank loads and saves on its own,   *)
(* and yet what they prefill on is the same start of the prompt.           *)
(* Only faults, and prunes to the ranks' caps, set the two apart.          *)
(***************************************************************************)
EXTENDS OpChannel, SsdCache, SequenceTheorems, WellFoundedInduction, TLAPS

\* Everybody who broadcasts takes the mutex.
EverybodyLocks == Unlocked = {}

LockedOps == Ops \ {"shutdown"}

Types ==
  /\ turn \in Locked \cup {NoOne}
  /\ pc \in [Actors -> InJob \cup {"idle", "queued", "active", "checked", "done"}]
  /\ plan \in [Actors -> Seq(LockedOps)]
  /\ mirror \in [at: InOp \cup {"gone", "wedged"}, from: Actors \cup {NoOne},
                 op: Ops]
  /\ steps \in 0..MaxSteps
  /\ log \in [{0, 1} -> Seq(Actors \X Ops)]
  /\ stopping = FALSE

\* The mutex is held exactly by the thread that is in a transaction.
Mutex == \A a \in Actors: pc[a] \in InJob <=> turn = a

\* A transaction has an operation left until it closes, and the last one of a
\* request is the barrier.
Planned ==
  \A a \in Actors:
    pc[a] \in InOp =>
      /\ plan[a] # <<>>
      /\ a \in Requests => plan[a][Len(plan[a])] = "barrier"

\* Where rank 1 can be, given where the holder of the mutex is, and which rank
\* has applied the current operation.
AtSize ==
  \/ turn = NoOne /\ log[0] = log[1]
  \/ turn # NoOne /\ pc[turn] \in {"size", "close"} /\ log[0] = log[1]
  \/ turn # NoOne /\ pc[turn] = "local" /\ log[1] = Extend(log[0], turn, Op(turn))
  \/ turn # NoOne /\ pc[turn] = "step" /\ log[0] = log[1] /\ 1 \in OneSided

AtBody ==
  /\ turn # NoOne /\ pc[turn] = "body" /\ log[0] = log[1]
  /\ mirror.from = turn /\ mirror.op = Op(turn)

AtStep ==
  /\ turn # NoOne /\ log[0] = log[1] /\ mirror.from = turn
  /\ \/ pc[turn] = "step" /\ mirror.op = Op(turn)
     \/ pc[turn] = "size" /\ 0 \in OneSided

AtLocal ==
  \/ /\ turn # NoOne /\ pc[turn] = "local" /\ log[0] = log[1]
     /\ mirror.from = turn /\ mirror.op = Op(turn)
  \/ /\ turn # NoOne => pc[turn] \in {"size", "close"}
     /\ mirror.from \in Actors
     /\ log[0] = Extend(log[1], mirror.from, mirror.op)
     /\ turn \in Requests /\ pc[turn] = "close" => mirror.op = "barrier"

Wedged == turn # NoOne /\ pc[turn] \in Words /\ log[0] = log[1] /\ OneSided # {}

InStep ==
  /\ mirror.at = "size"   => AtSize
  /\ mirror.at = "body"   => AtBody
  /\ mirror.at = "step"   => AtStep
  /\ mirror.at = "local"  => AtLocal
  /\ mirror.at = "wedged" => Wedged
  /\ mirror.at # "gone"

\* Another step is sent only below the bound.
Counted == \A a \in Actors: pc[a] = "step" => steps < MaxSteps

IInv == Types /\ Mutex /\ Planned /\ Counted /\ InStep

-----------------------------------------------------------------------------

LEMMA ShortRuns ==
  /\ \A op \in LockedOps: <<op>> \in Seq(LockedOps) /\ <<op>> # <<>>
  /\ \A op1, op2 \in LockedOps: <<op1, op2>> \in Seq(LockedOps)
  /\ <<>> \in Seq(LockedOps)
OBVIOUS

\* Every plan of a locked thread is a non-empty run of operations other than
\* shutdown, and a request's ends with the barrier.
LEMMA PlansAreRuns ==
  ASSUME EverybodyLocks, NEW a \in Actors, NEW p \in Plans(a)
  PROVE  /\ p \in Seq(LockedOps)
         /\ p # <<>>
         /\ a \in Requests => p[Len(p)] = "barrier"
<1>1. {"touch", "ping", "prewarm", "ssd", "request", "reset", "barrier"} \subseteq LockedOps
  BY DEF LockedOps, Ops
<1>2. CASE a \in Requests
  <2>1. p \in RequestPlans
    BY <1>2, KindsAssumption DEF Plans, EverybodyLocks, Unlocked
  <2>2. PICK start \in Starts, retry \in Retries, end \in Ends:
          p = start \o <<"request">> \o retry \o end \o <<"barrier">>
    BY <2>1 DEF RequestPlans
  <2>3. start \in Seq(LockedOps) /\ end \in Seq(LockedOps)
    BY <1>1, ShortRuns DEF Starts, Ends
  <2>4. retry \in Seq(LockedOps)
    BY <1>1, ShortRuns DEF Retries
  <2>5. PICK body \in Seq(LockedOps): p = body \o <<"barrier">>
    <3>1. start \o <<"request">> \o retry \o end \in Seq(LockedOps)
      BY <1>1, <2>3, <2>4, ShortRuns
    <3> QED
      BY <2>2, <3>1
  <2> QED
    BY <1>1, <1>2, <2>5
<1>3. CASE a \notin Requests
  <2>1. a \in Keepwarms \cup SsdAdmins \cup Savers
    BY <1>3 DEF EverybodyLocks, Actors, Locked
  <2>2. p \in {<<"touch">>, <<"ping">>, <<"prewarm">>, <<"ssd">>}
    BY <1>3, <2>1 DEF Plans, EverybodyLocks, Unlocked
  <2> QED
    BY <1>1, <1>3, <2>2, ShortRuns
<1> QED
  BY <1>2, <1>3

\* A sequence of length zero is empty.
LEMMA EmptyByLen ==
  ASSUME NEW S, NEW s \in Seq(S), s # <<>>
  PROVE  Len(s) \in Nat \ {0}
BY EmptySeq

LEMMA ExtendType ==
  ASSUME NEW s \in Seq(Actors \X Ops), NEW a \in Actors, NEW op \in Ops
  PROVE  Extend(s, a, op) \in Seq(Actors \X Ops)
BY DEF Extend

LEMMA InitIInv ==
  ASSUME Init
  PROVE  IInv
<1>1. Types
  BY StepsAssumption DEF Init, Types, Waiting, Ops, InOp, Words, LockedOps
<1>2. Mutex
  BY ActorsAssumption DEF Init, Mutex, InJob, InOp, Words
<1>3. Planned /\ Counted
  BY DEF Init, Planned, Counted, InOp, Words
<1>4. InStep
  BY DEF Init, InStep, Waiting, AtSize
<1> QED
  BY <1>1, <1>2, <1>3, <1>4 DEF IInv

\* A step that leaves alone rank 1, the logs, the mutex and its holder keeps
\* the two ranks in step.
LEMMA Aside ==
  ASSUME IInv, UNCHANGED <<turn, mirror, log>>,
         turn # NoOne => pc'[turn] = pc[turn] /\ plan'[turn] = plan[turn]
  PROVE  InStep'
<1>1. turn # NoOne => Op(turn)' = Op(turn)
  BY DEF Op
<1>2. InStep
  BY DEF IInv
<1>3. mirror.at = "size" => AtSize'
  BY <1>1, <1>2 DEF InStep, AtSize, Extend
<1>4. mirror.at = "body" => AtBody'
  BY <1>1, <1>2 DEF InStep, AtBody
<1>5. mirror.at = "step" => AtStep'
  BY <1>1, <1>2 DEF InStep, AtStep
<1>6. mirror.at = "local" => AtLocal'
  <2>1. Extend(log[1], mirror.from, mirror.op)' = Extend(log[1], mirror.from, mirror.op)
    BY DEF Extend
  <2>2. SUFFICES ASSUME mirror.at = "local" PROVE AtLocal'
    OBVIOUS
  <2>3. AtLocal
    BY <1>2, <2>2 DEF InStep
  <2> QED
    BY <1>1, <2>1, <2>3, ActorsAssumption DEF AtLocal, Actors, Locked
<1>7. mirror.at = "wedged" => Wedged'
  BY <1>2 DEF InStep, Wedged
<1> QED
  BY <1>2, <1>3, <1>4, <1>5, <1>6, <1>7 DEF InStep

-----------------------------------------------------------------------------
(***************************************************************************)
(* The actions before a transaction.                                       *)
(***************************************************************************)

\* A thread that is not in a transaction and does not enter one.
LEMMA Outside ==
  ASSUME IInv, NEW a \in Actors, NEW to, pc[a] \notin InJob,
         to \in {"queued", "active", "checked", "done"},
         Goto(a, to), UNCHANGED <<turn, plan, mirror, steps, log, stopping>>
  PROVE  IInv'
<1>1. Types'
  BY DEF IInv, Types, Goto
<1>2. to \notin InJob
  BY DEF InJob, InOp, Words
<1>3. Mutex'
  BY <1>2 DEF IInv, Types, Mutex, Goto
<1>4. Planned' /\ Counted'
  BY <1>2 DEF IInv, Types, Planned, Counted, Goto, InJob, InOp, Words
<1>5. turn # NoOne => turn \in Actors
  BY DEF IInv, Types, Actors
<1>6. turn # NoOne => pc'[turn] = pc[turn] /\ plan'[turn] = plan[turn]
  BY <1>5 DEF IInv, Types, Mutex, Goto
<1>7. InStep'
  BY <1>6, Aside
<1> QED
  BY <1>1, <1>3, <1>4, <1>7 DEF IInv

LEMMA TakeIInv ==
  ASSUME EverybodyLocks, IInv, NEW a \in Locked, TakeTurn(a)
  PROVE  IInv'
<1>1. PICK p \in Plans(a): plan' = [plan EXCEPT ![a] = p]
  BY DEF TakeTurn, Enter
<1>2. /\ a \in Actors /\ a # NoOne /\ turn = NoOne /\ turn' = a
      /\ pc' = [pc EXCEPT ![a] = "size"]
      /\ UNCHANGED <<mirror, steps, log, stopping>>
  BY ActorsAssumption DEF TakeTurn, Enter, Goto, Actors
<1>3. p \in Seq(LockedOps) /\ p # <<>> /\ (a \in Requests => p[Len(p)] = "barrier")
  BY <1>2, PlansAreRuns
<1>4. Types'
  BY <1>1, <1>2, <1>3 DEF IInv, Types, InJob, InOp, Words
<1>5. Mutex'
  BY <1>2, ActorsAssumption DEF IInv, Types, Mutex, InJob, InOp, Words
<1>6. Planned' /\ Counted'
  BY <1>1, <1>2, <1>3 DEF IInv, Types, Planned, Counted
<1>7. InStep'
  <2>1. pc'[a] = "size"
    BY <1>2 DEF IInv, Types
  <2>2. mirror.at \in {"size", "local"}
    BY <1>2 DEF IInv, Types, InStep, AtBody, AtStep, Wedged, InOp, Words
  <2>3. CASE mirror.at = "size"
    BY <1>2, <2>1, <2>3 DEF IInv, InStep, AtSize
  <2>4. CASE mirror.at = "local"
    <3>1. Extend(log[1], mirror.from, mirror.op)' = Extend(log[1], mirror.from, mirror.op)
      BY <1>2 DEF Extend
    <3>2. AtLocal'
      BY <1>2, <2>1, <2>4, <3>1 DEF IInv, InStep, AtLocal
    <3> QED
      BY <1>2, <2>4, <3>2 DEF InStep
  <2> QED
    BY <2>2, <2>3, <2>4
<1> QED
  BY <1>4, <1>5, <1>6, <1>7 DEF IInv

(***************************************************************************)
(* The words.                                                              *)
(***************************************************************************)

\* Who is in a transaction holds the mutex, and has an operation to send.
LEMMA Holder ==
  ASSUME IInv, NEW a \in Actors, pc[a] \in InJob
  PROVE  /\ turn = a /\ a # NoOne
         /\ plan[a] \in Seq(LockedOps)
         /\ pc[a] \in InOp => /\ plan[a] # <<>>
                              /\ Op(a) \in LockedOps
                              /\ Tail(plan[a]) \in Seq(LockedOps)
<1>1. turn = a /\ a # NoOne
  BY ActorsAssumption DEF IInv, Mutex
<1>2. plan[a] \in Seq(LockedOps)
  BY DEF IInv, Types
<1>3. pc[a] \in InOp => plan[a] # <<>>
  BY DEF IInv, Planned
<1> QED
  BY <1>1, <1>2, <1>3 DEF Op

LEMMA SendSizeIInv ==
  ASSUME IInv, NEW a \in Actors, SendSize(a)
  PROVE  IInv'
<1>1. /\ pc[a] = "size" /\ mirror.at = "size"
      /\ mirror' = [at |-> "body", from |-> a, op |-> Op(a)]
      /\ pc' = [pc EXCEPT ![a] = "body"]
      /\ UNCHANGED <<turn, plan, steps, log, stopping>>
  BY DEF SendSize, Meets, Goto
<1>2. /\ turn = a /\ a # NoOne /\ Op(a) \in Ops /\ plan[a] # <<>>
  BY <1>1, Holder DEF InJob, InOp, Words, LockedOps
<1>3. Types'
  BY <1>1, <1>2 DEF IInv, Types, InJob, InOp, Words
<1>4. Mutex'
  BY <1>1 DEF IInv, Types, Mutex, InJob, InOp, Words
<1>5. Planned' /\ Counted'
  BY <1>1 DEF IInv, Types, Planned, Counted, InOp, Words
<1>6. log[0] = log[1]
  BY <1>1, <1>2 DEF IInv, InStep, AtSize
<1>7. Op(turn)' = Op(turn)
  BY <1>1 DEF Op
<1>8. AtBody'
  BY <1>1, <1>2, <1>6, <1>7 DEF IInv, Types, AtBody
<1>9. InStep'
  BY <1>1, <1>8 DEF InStep
<1> QED
  BY <1>3, <1>4, <1>5, <1>9 DEF IInv

LEMMA SendBodyIInv ==
  ASSUME IInv, NEW a \in Actors, SendBody(a)
  PROVE  IInv'
<1>1. Op(a) \in LockedOps /\ turn = a /\ a # NoOne
  BY Holder DEF SendBody, InJob, InOp, Words
<1>2. PICK next \in {"step", "local"}:
        /\ pc[a] = "body" /\ mirror.at = "body"
        /\ mirror' = [mirror EXCEPT !.at = next]
        /\ pc' = [pc EXCEPT ![a] = next]
        /\ steps' = 0
        /\ UNCHANGED <<turn, plan, log, stopping>>
  BY <1>1 DEF SendBody, Meets, Goto, LockedOps
<1>3. /\ mirror'.at = next /\ mirror'.from = mirror.from /\ mirror'.op = mirror.op
      /\ pc'[a] = next
  BY <1>2 DEF IInv, Types
<1>4. Types'
  <2>1. mirror' \in [at: InOp \cup {"gone", "wedged"}, from: Actors \cup {NoOne}, op: Ops]
    BY <1>2 DEF IInv, Types, InOp, Words
  <2>2. pc' \in [Actors -> InJob \cup {"idle", "queued", "active", "checked", "done"}]
    BY <1>2 DEF IInv, Types, InJob, InOp, Words
  <2> QED
    BY <1>2, <2>1, <2>2, StepsAssumption DEF IInv, Types
<1>5. Mutex'
  BY <1>2 DEF IInv, Types, Mutex, InJob, InOp, Words
<1>6. Planned' /\ Counted'
  BY <1>2, StepsAssumption DEF IInv, Types, Planned, Counted, InOp, Words
<1>7. mirror.from = turn /\ mirror.op = Op(turn) /\ log[0] = log[1]
  BY <1>2 DEF IInv, InStep, AtBody
<1>8. Op(turn)' = Op(turn)
  BY <1>2 DEF Op
<1>9. next = "step" => AtStep'
  BY <1>1, <1>2, <1>3, <1>7, <1>8 DEF AtStep
<1>10. next = "local" => AtLocal'
  BY <1>1, <1>2, <1>3, <1>7, <1>8 DEF AtLocal
<1>11. InStep'
  BY <1>3, <1>9, <1>10 DEF InStep
<1> QED
  BY <1>4, <1>5, <1>6, <1>11 DEF IInv

LEMMA SendStepIInv ==
  ASSUME IInv, NEW a \in Actors, SendStep(a)
  PROVE  IInv'
<1>1. Op(a) \in LockedOps /\ turn = a /\ a # NoOne
  BY Holder DEF SendStep, InJob, InOp, Words
<1>2. /\ pc[a] = "step" /\ mirror.at = "step"
      /\ UNCHANGED <<turn, plan, log, stopping>>
  BY DEF SendStep, Meets
<1>3. PICK next \in {"step", "local"}:
        /\ mirror' = [mirror EXCEPT !.at = next]
        /\ pc' = [pc EXCEPT ![a] = next]
  <2>1. pc = [pc EXCEPT ![a] = "step"] /\ mirror = [mirror EXCEPT !.at = "step"]
    BY <1>2 DEF IInv, Types
  <2> QED
    BY <2>1 DEF SendStep, Goto
<1>4. /\ mirror'.at = next /\ mirror'.from = mirror.from /\ mirror'.op = mirror.op
      /\ pc'[a] = next
  BY <1>3 DEF IInv, Types
<1>5. steps' \in 0..MaxSteps /\ (next = "step" => steps' < MaxSteps)
  <2>1. steps < MaxSteps /\ steps' = steps + 1 /\ steps \in 0..MaxSteps
    BY <1>2 DEF SendStep, IInv, Types, Counted
  <2>2. next = "step" => steps' # MaxSteps
    <3>1. SUFFICES ASSUME next = "step" PROVE pc'[a] # "local"
      BY <1>2 DEF SendStep, Goto, IInv, Types
    <3> QED
      BY <1>4, <3>1
  <2> QED
    BY <2>1, <2>2, StepsAssumption
<1>6. Types'
  <2>1. mirror' \in [at: InOp \cup {"gone", "wedged"}, from: Actors \cup {NoOne}, op: Ops]
    BY <1>3 DEF IInv, Types, InOp, Words
  <2>2. pc' \in [Actors -> InJob \cup {"idle", "queued", "active", "checked", "done"}]
    BY <1>3 DEF IInv, Types, InJob, InOp, Words
  <2> QED
    BY <1>2, <1>5, <2>1, <2>2 DEF IInv, Types
<1>7. Mutex'
  BY <1>2, <1>3 DEF IInv, Types, Mutex, InJob, InOp, Words
<1>8. Planned' /\ Counted'
  <2>1. Planned'
    BY <1>2, <1>3 DEF IInv, Types, Planned, InOp, Words
  <2>2. \A b \in Actors: b # a => pc[b] # "step"
    BY <1>1 DEF IInv, Mutex, InJob, InOp, Words
  <2>3. \A b \in Actors: b # a => pc'[b] # "step"
    BY <1>3, <2>2 DEF IInv, Types
  <2> QED
    BY <1>4, <1>5, <2>1, <2>3 DEF Counted
<1>9. mirror.from = turn /\ mirror.op = Op(turn) /\ log[0] = log[1]
  BY <1>1, <1>2 DEF IInv, InStep, AtStep
<1>10. Op(turn)' = Op(turn)
  BY <1>2 DEF Op
<1>11. next = "step" => AtStep'
  BY <1>1, <1>2, <1>4, <1>9, <1>10 DEF AtStep
<1>12. next = "local" => AtLocal'
  BY <1>1, <1>2, <1>4, <1>9, <1>10 DEF AtLocal
<1>13. InStep'
  BY <1>4, <1>11, <1>12 DEF InStep
<1> QED
  BY <1>6, <1>7, <1>8, <1>13 DEF IInv

\* Only a generation that failed on one rank leads to a shredded word.
LEMMA ShredIInv ==
  ASSUME IInv, NEW a \in Actors, Shred(a)
  PROVE  IInv'
<1>1. /\ pc[a] \in Words /\ mirror.at \in Words /\ ~Meets(a)
      /\ mirror' = [at |-> "wedged", from |-> NoOne, op |-> "barrier"]
      /\ UNCHANGED <<turn, pc, plan, steps, log, stopping>>
  BY DEF Shred, Waiting
<1>2. turn = a /\ a # NoOne
  BY <1>1, Holder DEF InJob, InOp
<1>3. Types'
  BY <1>1 DEF IInv, Types, Ops
<1>4. Mutex' /\ Planned' /\ Counted'
  BY <1>1 DEF IInv, Mutex, Planned, Counted
<1>5. Wedged
  <2>1. CASE mirror.at = "size"
    BY <1>1, <1>2, <2>1 DEF IInv, InStep, AtSize, Wedged, Meets, Words
  <2>2. CASE mirror.at = "body"
    BY <1>1, <1>2, <2>2 DEF IInv, InStep, AtBody, Wedged, Meets, Words
  <2>3. CASE mirror.at = "step"
    BY <1>1, <1>2, <2>3 DEF IInv, InStep, AtStep, Wedged, Meets, Words
  <2> QED
    BY <1>1, <2>1, <2>2, <2>3 DEF Words
<1>6. Wedged'
  BY <1>1, <1>5 DEF Wedged
<1>7. InStep'
  BY <1>1, <1>6 DEF InStep
<1> QED
  BY <1>3, <1>4, <1>7 DEF IInv

(***************************************************************************)
(* The halves of the two ranks, the release, and the failures.             *)
(***************************************************************************)

LEMMA LocalIInv ==
  ASSUME IInv, NEW a \in Actors, Local(a)
  PROVE  IInv'
<1> DEFINE to == IF Len(plan[a]) = 1 THEN "close" ELSE "size"
<1>1. /\ pc[a] = "local"
      /\ log' = [log EXCEPT ![0] = Extend(@, a, Op(a))]
      /\ plan' = [plan EXCEPT ![a] = Tail(@)]
      /\ pc' = [pc EXCEPT ![a] = to]
      /\ UNCHANGED <<turn, mirror, steps, stopping>>
  BY DEF Local, Goto
<1>2. /\ turn = a /\ a # NoOne /\ plan[a] # <<>> /\ Op(a) \in Ops
      /\ plan[a] \in Seq(LockedOps) /\ Tail(plan[a]) \in Seq(LockedOps)
  BY <1>1, Holder DEF InJob, InOp, LockedOps
<1>3. log[0] \in Seq(Actors \X Ops) /\ Extend(log[0], a, Op(a)) \in Seq(Actors \X Ops)
  BY <1>2, ExtendType DEF IInv, Types
<1>4. log'[0] = Extend(log[0], a, Op(a)) /\ log'[1] = log[1]
  BY <1>1 DEF IInv, Types
<1>5. pc'[a] = to /\ to \in {"close", "size"}
  BY <1>1 DEF IInv, Types
<1>6. Types'
  <2>1. log' \in [{0, 1} -> Seq(Actors \X Ops)]
    BY <1>1, <1>3 DEF IInv, Types
  <2>2. plan' \in [Actors -> Seq(LockedOps)]
    BY <1>1, <1>2 DEF IInv, Types
  <2>3. pc' \in [Actors -> InJob \cup {"idle", "queued", "active", "checked", "done"}]
    BY <1>1 DEF IInv, Types, InJob, InOp, Words
  <2> QED
    BY <1>1, <2>1, <2>2, <2>3 DEF IInv, Types
<1>7. Mutex'
  BY <1>1 DEF IInv, Types, Mutex, InJob, InOp, Words
<1>13. Counted'
  BY <1>1 DEF IInv, Types, Counted
<1>8. Planned'
  <2>1. SUFFICES ASSUME NEW b \in Actors, pc'[b] \in InOp
                 PROVE  /\ plan'[b] # <<>>
                        /\ b \in Requests => plan'[b][Len(plan'[b])] = "barrier"
    BY DEF Planned
  <2>2. CASE b # a
    BY <1>1, <2>1, <2>2 DEF IInv, Types, Planned
  <2>3. CASE b = a
    <3>1. Len(plan[a]) # 1 /\ plan'[a] = Tail(plan[a])
      BY <1>1, <1>5, <2>1, <2>3 DEF IInv, Types, InOp, Words
    <3>2. Len(plan[a]) \in Nat /\ Len(plan[a]) > 1
      <4>1. Len(plan[a]) \in Nat \ {0}
        BY <1>2, EmptyByLen
      <4>2. \A n \in Nat \ {0}: n # 1 => n \in Nat /\ n > 1
        OBVIOUS
      <4> QED
        BY <3>1, <4>1, <4>2, Zenon
    <3>3. /\ Tail(plan[a]) # <<>>
          /\ Tail(plan[a])[Len(Tail(plan[a]))] = plan[a][Len(plan[a])]
      <4>1. /\ Len(Tail(plan[a])) = Len(plan[a]) - 1
            /\ \A i \in 1..Len(Tail(plan[a])): Tail(plan[a])[i] = plan[a][i + 1]
        BY <1>2, HeadTailProperties
      <4>2. Len(Tail(plan[a])) \in 1..Len(Tail(plan[a]))
        BY <3>2, <4>1
      <4>3. Tail(plan[a]) # <<>>
        <5>1. Len(<<>>) = 0
          OBVIOUS
        <5>2. \A n \in Nat: n > 1 => n - 1 # 0
          OBVIOUS
        <5>3. Len(Tail(plan[a])) # 0
          BY <3>2, <4>1, <5>2, Zenon
        <5> QED
          BY <5>1, <5>3, Zenon
      <4> QED
        BY <3>2, <4>1, <4>2, <4>3
    <3> QED
      BY <1>1, <2>3, <3>1, <3>3 DEF IInv, Planned, InOp
  <2> QED
    BY <2>2, <2>3
<1>9. mirror.at \in {"size", "local"}
  BY <1>1, <1>2 DEF IInv, Types, InStep, AtBody, AtStep, Wedged, InOp, Words
<1>10. mirror.at = "size" => AtSize'
  <2>1. mirror.at = "size" => log[1] = Extend(log[0], a, Op(a))
    BY <1>1, <1>2 DEF IInv, InStep, AtSize
  <2> QED
    BY <1>1, <1>2, <1>4, <1>5, <2>1 DEF AtSize
<1>11. mirror.at = "local" => AtLocal'
  <2>1. SUFFICES ASSUME mirror.at = "local" PROVE AtLocal'
    OBVIOUS
  <2>2. log[0] = log[1] /\ mirror.from = a /\ mirror.op = Op(a)
    BY <1>1, <1>2, <2>1 DEF IInv, InStep, AtLocal
  <2>3. log'[0] = Extend(log'[1], mirror'.from, mirror'.op)
    BY <1>1, <1>4, <2>2
  <2>4. a \in Requests /\ pc'[a] = "close" => mirror'.op = "barrier"
    BY <1>1, <1>2, <1>5, <2>2 DEF IInv, Planned, Op, InOp
  <2> QED
    BY <1>1, <1>2, <1>5, <2>2, <2>3, <2>4 DEF AtLocal, Extend
<1>12. InStep'
  BY <1>1, <1>9, <1>10, <1>11 DEF InStep
<1> QED
  BY <1>6, <1>7, <1>8, <1>12, <1>13 DEF IInv

LEMMA MirrorLocalIInv ==
  ASSUME IInv, MirrorLocal
  PROVE  IInv'
<1>1. /\ mirror.at = "local"
      /\ log' = [log EXCEPT ![1] = Extend(@, mirror.from, mirror.op)]
      /\ mirror' = [at |-> "size", from |-> NoOne, op |-> "barrier"]
      /\ UNCHANGED <<turn, pc, plan, steps, stopping>>
  BY DEF MirrorLocal, Waiting
<1>2. AtLocal
  BY <1>1 DEF IInv, InStep
<1>3. mirror.from \in Actors /\ mirror.op \in Ops
  BY <1>2 DEF IInv, Types, AtLocal, Actors
<1>4. /\ log'[1] = Extend(log[1], mirror.from, mirror.op) /\ log'[0] = log[0]
      /\ log' \in [{0, 1} -> Seq(Actors \X Ops)]
  <2>1. log[1] \in Seq(Actors \X Ops)
    BY DEF IInv, Types
  <2>2. Extend(log[1], mirror.from, mirror.op) \in Seq(Actors \X Ops)
    BY <1>3, <2>1, ExtendType
  <2> QED
    BY <1>1, <2>2 DEF IInv, Types
<1>5. Types'
  BY <1>1, <1>4 DEF IInv, Types, Ops, InOp, Words
<1>6. Mutex' /\ Planned' /\ Counted'
  BY <1>1 DEF IInv, Mutex, Planned, Counted
<1>7. Extend(log[0], turn, Op(turn))' = Extend(log[0], turn, Op(turn))
  BY <1>1, <1>4 DEF Extend, Op
<1>8. AtSize'
  BY <1>1, <1>2, <1>4, <1>7 DEF AtLocal, AtSize
<1>9. InStep'
  BY <1>1, <1>8 DEF InStep
<1> QED
  BY <1>5, <1>6, <1>9 DEF IInv

LEMMA CloseIInv ==
  ASSUME IInv, NEW a \in Actors, Close(a)
  PROVE  IInv'
<1>1. pc[a] = "close" /\ turn = a /\ a # NoOne /\ stopping = FALSE
  BY Holder DEF Close, InJob, IInv, Types
<1>2. /\ turn' = NoOne /\ pc' = [pc EXCEPT ![a] = "done"]
      /\ UNCHANGED <<plan, mirror, steps, log, stopping>>
  BY <1>1 DEF Close, Goto
<1>3. Types'
  BY <1>2 DEF IInv, Types
<1>4. Mutex'
  BY <1>1, <1>2, ActorsAssumption DEF IInv, Types, Mutex, InJob, InOp, Words
<1>5. Planned' /\ Counted'
  BY <1>2 DEF IInv, Types, Planned, Counted, InOp, Words
<1>6. mirror.at \in {"size", "local"}
  BY <1>1 DEF IInv, Types, InStep, AtBody, AtStep, Wedged, InOp, Words
<1>7. mirror.at = "size" => AtSize'
  BY <1>1, <1>2 DEF IInv, InStep, AtSize
<1>8. mirror.at = "local" => AtLocal'
  <2>1. Extend(log[1], mirror.from, mirror.op)' = Extend(log[1], mirror.from, mirror.op)
    BY <1>2 DEF Extend
  <2> QED
    BY <1>1, <1>2, <2>1, ActorsAssumption DEF IInv, InStep, AtLocal, Actors, Locked
<1>9. InStep'
  BY <1>2, <1>6, <1>7, <1>8 DEF InStep
<1> QED
  BY <1>3, <1>4, <1>5, <1>9 DEF IInv

LEMMA LeaderFailsIInv ==
  ASSUME IInv, NEW a \in Actors, LeaderFails(a)
  PROVE  IInv'
<1>1. /\ 0 \in OneSided /\ pc[a] = "step"
      /\ plan' = [plan EXCEPT ![a] = <<"barrier">>]
      /\ pc' = [pc EXCEPT ![a] = "size"]
      /\ UNCHANGED <<turn, mirror, steps, log, stopping>>
  BY DEF LeaderFails, Goto
<1>2. turn = a /\ a # NoOne
  BY <1>1, Holder DEF InJob, InOp, Words
<1>3. /\ <<"barrier">> \in Seq(LockedOps) /\ <<"barrier">> # <<>>
      /\ <<"barrier">>[Len(<<"barrier">>)] = "barrier"
  BY ShortRuns DEF LockedOps, Ops
<1>4. Types'
  BY <1>1, <1>3 DEF IInv, Types, InJob, InOp, Words
<1>5. Mutex'
  BY <1>1 DEF IInv, Types, Mutex, InJob, InOp, Words
<1>6. Planned' /\ Counted'
  BY <1>1, <1>3 DEF IInv, Types, Planned, Counted
<1>7. pc'[a] = "size"
  BY <1>1 DEF IInv, Types
<1>8. mirror.at \in {"size", "step", "wedged"}
  BY <1>1, <1>2 DEF IInv, Types, InStep, AtBody, AtLocal, InOp, Words
<1>9. mirror.at = "size" => AtSize'
  BY <1>1, <1>2, <1>7 DEF IInv, InStep, AtSize
<1>10. mirror.at = "step" => AtStep'
  BY <1>1, <1>2, <1>7 DEF IInv, InStep, AtStep
<1>11. mirror.at = "wedged" => Wedged'
  BY <1>1, <1>2, <1>7 DEF IInv, InStep, Wedged, Words
<1>12. InStep'
  BY <1>1, <1>8, <1>9, <1>10, <1>11 DEF InStep
<1> QED
  BY <1>4, <1>5, <1>6, <1>12 DEF IInv

LEMMA MirrorFailsIInv ==
  ASSUME IInv, MirrorFails
  PROVE  IInv'
<1>1. /\ 1 \in OneSided /\ mirror.at = "step"
      /\ mirror' = [at |-> "size", from |-> NoOne, op |-> "barrier"]
      /\ UNCHANGED <<turn, pc, plan, steps, log, stopping>>
  BY DEF MirrorFails, Waiting
<1>2. Types'
  BY <1>1 DEF IInv, Types, Ops, InOp, Words
<1>3. Mutex' /\ Planned' /\ Counted'
  BY <1>1 DEF IInv, Mutex, Planned, Counted
<1>4. AtSize'
  BY <1>1 DEF IInv, InStep, AtStep, AtSize
<1>5. InStep'
  BY <1>1, <1>4 DEF InStep
<1> QED
  BY <1>2, <1>3, <1>5 DEF IInv

-----------------------------------------------------------------------------

LEMMA NextIInv ==
  ASSUME EverybodyLocks, IInv, [Next]_vars
  PROVE  IInv'
<1>1. LoopAdmins = {} /\ Janitors = {} /\ Stoppers = {} /\ Actors = Locked
  BY DEF EverybodyLocks, Unlocked, Actors
<1>2. ASSUME NEW r \in Requests, Queue(r) \/ Publish(r)
      PROVE  IInv'
  BY <1>2, Outside DEF Queue, Publish, InJob, InOp, Words, Actors, Locked
<1>3. ASSUME NEW a \in Actors, Check(a) \/ GiveUp(a)
      PROVE  IInv'
  BY <1>3, Outside DEF Check, GiveUp, InJob, InOp, Words
<1>4. ASSUME NEW a \in Locked, TakeTurn(a)
      PROVE  IInv'
  BY <1>4, TakeIInv
<1>5. ASSUME NEW a \in Actors, Work(a) \/ Shred(a)
      PROVE  IInv'
  BY <1>5, SendSizeIInv, SendBodyIInv, SendStepIInv, ShredIInv, LocalIInv,
     CloseIInv DEF Work, Send
<1>6. ASSUME NEW r \in Requests, LeaderFails(r)
      PROVE  IInv'
  BY <1>6, LeaderFailsIInv DEF Actors, Locked
<1>7. CASE MirrorLocal
  BY <1>7, MirrorLocalIInv
<1>8. CASE MirrorFails
  BY <1>8, MirrorFailsIInv
<1>9. CASE UNCHANGED vars
  <2>1. InStep'
    BY <1>9, Aside DEF vars
  <2> QED
    BY <1>9, <2>1 DEF vars, IInv, Types, Mutex, Planned, Counted
<1> QED
  BY <1>1, <1>2, <1>3, <1>4, <1>5, <1>6, <1>7, <1>8, <1>9 DEF Next

\* The inductive invariant: where rank 1 is follows from where the holder of
\* the mutex is, and no rank is more than one change ahead.
THEOREM Invariance ==
  ASSUME EverybodyLocks
  PROVE  Spec => []IInv
<1>1. Init => IInv
  BY InitIInv
<1>2. IInv /\ [Next]_vars => IInv'
  BY NextIInv
<1> QED
  BY <1>1, <1>2, PTL DEF Spec

\* If everybody who broadcasts held the mutex for the whole transaction and no
\* rank failed alone, rank 1 would never take a word for another one.
THEOREM NoWordIsShredded ==
  ASSUME EverybodyLocks, OneSided = {}
  PROVE  Spec => []NeverShredded
<1>1. IInv => NeverShredded
  BY DEF IInv, InStep, Wedged, NeverShredded
<1> QED
  BY <1>1, Invariance, PTL

\* At rest both ranks have applied the same changes in the same order, even if
\* generations fail on one of them: then the channel is stuck, not at rest.
THEOREM RanksAgree ==
  ASSUME EverybodyLocks
  PROVE  Spec => []AgreeAtRest
<1>1. IInv => AgreeAtRest
  <2>1. SUFFICES ASSUME IInv, \A a \in Actors: pc[a] \notin InJob, mirror.at = "size"
                 PROVE  log[0] = log[1]
    BY DEF AgreeAtRest
  <2>2. turn = NoOne
    BY <2>1 DEF IInv, Types, Mutex, Actors
  <2> QED
    BY <2>1, <2>2 DEF IInv, InStep, AtSize
<1> QED
  BY <1>1, Invariance, PTL

\* A request that is past its barrier has rank 1 with it.
THEOREM BarrierWorks ==
  ASSUME EverybodyLocks
  PROVE  Spec => []BarrierAgrees
<1>1. IInv => BarrierAgrees
  <2>1. SUFFICES ASSUME IInv, NEW r \in Requests, pc[r] = "close"
                 PROVE  log[0] = log[1]
    BY DEF BarrierAgrees
  <2>2. turn = r /\ r # NoOne
    BY <2>1, ActorsAssumption DEF IInv, Mutex, InJob, Actors, Locked
  <2>3. mirror.at \in {"size", "local"}
    BY <2>1, <2>2 DEF IInv, Types, InStep, AtBody, AtStep, Wedged, InOp, Words
  <2>4. CASE mirror.at = "size"
    BY <2>1, <2>2, <2>4 DEF IInv, InStep, AtSize
  <2>5. CASE mirror.at = "local"
    BY <2>1, <2>2, <2>5 DEF IInv, InStep, AtLocal, Extend, Changing
  <2> QED
    BY <2>3, <2>4, <2>5
<1> QED
  BY <1>1, Invariance, PTL

-----------------------------------------------------------------------------
(***************************************************************************)
(* Refinement.                                                             *)
(***************************************************************************)

LEMMA ExtendIsChange ==
  ASSUME NEW s, NEW a \in Actors, NEW op \in Ops
  PROVE  \/ op \notin Changing /\ Extend(s, a, op) = s
         \/ op \in Changing /\ Extend(s, a, op) = Append(s, <<a, op>>)
BY DEF Extend

LEMMA StepRefines ==
  ASSUME EverybodyLocks, IInv, [Next]_vars
  PROVE  [Replicated!Next]_(Replicated!vars)
<1>1. CASE UNCHANGED <<turn, log>>
  BY <1>1 DEF Replicated!vars
<1>2. ASSUME NEW a \in Locked, TakeTurn(a)
      PROVE  Replicated!Next
  <2>1. Replicated!Open(a)
    BY <1>2 DEF TakeTurn, Replicated!Open
  <2> QED
    BY <2>1 DEF Replicated!Next, Actors
<1>3. ASSUME NEW a \in Actors, Close(a)
      PROVE  Replicated!Next
  <2>1. turn = a /\ a # NoOne
    BY <1>3, Holder DEF Close, InJob
  <2>2. Replicated!Close
    BY <1>3, <2>1 DEF Close, Replicated!Close
  <2> QED
    BY <2>2 DEF Replicated!Next
<1>4. ASSUME NEW a \in Actors, Local(a)
      PROVE  [Replicated!Next]_(Replicated!vars)
  <2>1. turn = a /\ a # NoOne /\ Op(a) \in Ops /\ pc[a] = "local"
    BY <1>4, Holder DEF Local, InJob, InOp, LockedOps
  <2>2. log' = [log EXCEPT ![0] = Extend(log[0], a, Op(a))] /\ UNCHANGED turn
    BY <1>4 DEF Local
  <2>3. CASE Op(a) \notin Changing
    <3>1. log' = log
      BY <2>2, <2>3 DEF Extend, IInv, Types
    <3> QED
      BY <2>2, <3>1 DEF Replicated!vars
  <2>4. CASE Op(a) \in Changing
    <3>1. log' = [log EXCEPT ![0] = Append(log[0], <<a, Op(a)>>)]
      BY <2>2, <2>4 DEF Extend
    <3>2. mirror.at \in {"size", "local"}
      BY <2>1 DEF IInv, Types, InStep, AtBody, AtStep, Wedged, InOp, Words
    <3>3. CASE mirror.at = "size"
      <4>1. log[1] = Append(log[0], <<a, Op(a)>>)
        BY <2>1, <2>4, <3>3 DEF IInv, InStep, AtSize, Extend
      <4>2. <<a, Op(a)>> \in Replicated!Change
        BY <2>1 DEF Replicated!Change
      <4>3. \E c \in Replicated!Change:
              /\ log[1] = Append(log[0], c)
              /\ log' = [log EXCEPT ![0] = Append(log[0], c)]
        BY <3>1, <4>1, <4>2
      <4>4. Replicated!Follow(0)
        BY <2>2, <4>3, 1 - 0 = 1, Zenon DEF Replicated!Follow
      <4> QED
        BY <4>4 DEF Replicated!Next, Replicated!Ranks
    <3>4. CASE mirror.at = "local"
      <4>1. log[0] = log[1]
        BY <2>1, <3>4 DEF IInv, InStep, AtLocal
      <4>2. log' = [log EXCEPT ![0] = Append(log[0], <<turn, Op(a)>>)]
        BY <2>1, <3>1
      <4>3. Replicated!Lead(0)
        BY <2>1, <2>2, <4>1, <4>2 DEF Replicated!Lead
      <4> QED
        BY <4>3 DEF Replicated!Next, Replicated!Ranks
    <3> QED
      BY <3>2, <3>3, <3>4
  <2> QED
    BY <2>3, <2>4
<1>5. ASSUME MirrorLocal
      PROVE  [Replicated!Next]_(Replicated!vars)
  <2>1. AtLocal
    BY <1>5 DEF MirrorLocal, IInv, InStep
  <2>2. mirror.from \in Actors /\ mirror.op \in Ops
    BY <2>1 DEF IInv, Types, AtLocal, Actors
  <2>3. log' = [log EXCEPT ![1] = Extend(log[1], mirror.from, mirror.op)] /\ UNCHANGED turn
    BY <1>5 DEF MirrorLocal
  <2>4. CASE mirror.op \notin Changing
    <3>1. log' = log
      BY <2>3, <2>4 DEF Extend, IInv, Types
    <3> QED
      BY <2>3, <3>1 DEF Replicated!vars
  <2>5. CASE mirror.op \in Changing
    <3>1. log' = [log EXCEPT ![1] = Append(log[1], <<mirror.from, mirror.op>>)]
      BY <2>3, <2>5 DEF Extend
    <3>2. CASE turn # NoOne /\ mirror.from = turn /\ log[0] = log[1]
      <4>1. Replicated!Lead(1)
        BY <2>2, <2>3, <3>1, <3>2 DEF Replicated!Lead
      <4> QED
        BY <4>1 DEF Replicated!Next, Replicated!Ranks
    <3>3. CASE log[0] = Extend(log[1], mirror.from, mirror.op)
      <4>1. log[0] = Append(log[1], <<mirror.from, mirror.op>>)
        BY <2>5, <3>3 DEF Extend
      <4>2. <<mirror.from, mirror.op>> \in Replicated!Change
        BY <2>2 DEF Replicated!Change
      <4>3. \E c \in Replicated!Change:
              /\ log[0] = Append(log[1], c)
              /\ log' = [log EXCEPT ![1] = Append(log[1], c)]
        BY <3>1, <4>1, <4>2
      <4>4. Replicated!Follow(1)
        BY <2>3, <4>3, 1 - 1 = 0, Zenon DEF Replicated!Follow
      <4> QED
        BY <4>4 DEF Replicated!Next, Replicated!Ranks
    <3> QED
      BY <2>1, <3>2, <3>3 DEF AtLocal
  <2> QED
    BY <2>4, <2>5
<1> QED
  <2>1. LoopAdmins = {} /\ Janitors = {} /\ Stoppers = {}
    BY DEF EverybodyLocks, Unlocked
  <2>2. ASSUME NEW r \in Requests, Queue(r) \/ Publish(r) \/ LeaderFails(r)
        PROVE  UNCHANGED <<turn, log>>
    BY <2>2 DEF Queue, Publish, LeaderFails
  <2>3. ASSUME NEW a \in Actors, \/ Check(a) \/ GiveUp(a) \/ Send(a) \/ Shred(a)
        PROVE  UNCHANGED <<turn, log>>
    BY <2>3 DEF Check, GiveUp, Send, SendSize, SendBody, SendStep, Shred
  <2>4. CASE MirrorFails
    BY <1>1, <2>4 DEF MirrorFails
  <2>5. CASE UNCHANGED vars
    BY <1>1, <2>5 DEF vars
  <2> QED
    BY <1>1, <1>2, <1>3, <1>4, <1>5, <2>1, <2>2, <2>3, <2>4, <2>5
       DEF Next, Work, Actors

\* With everybody behind the mutex the channel implements one sequence of
\* operations in unmixed turns that both ranks apply.
THEOREM ChannelRefines ==
  ASSUME EverybodyLocks
  PROVE  Spec => ChannelReplicates
<1>1. Init => Replicated!Init
  BY DEF Init, Replicated!Init, Replicated!Ranks
<1>2. IInv /\ [Next]_vars => [Replicated!Next]_(Replicated!vars)
  BY StepRefines
<1> QED
  BY <1>1, <1>2, Invariance, PTL DEF Spec, ChannelReplicates, Replicated!Spec

-----------------------------------------------------------------------------
(***************************************************************************)
(* Without the hypothesis: some broadcast without the mutex.  What is left *)
(* to keep them apart are the event loop and the single worker.            *)
(***************************************************************************)

Threads == Requests \cup Keepwarms \cup Savers

\* Who is in an operation has one to send, ...
Laden == \A a \in Actors: pc[a] \in InOp => plan[a] # <<>>

\* ... of the usual ones or, alone, the shutdown.
Runs ==
  \A a \in Actors:
    \/ plan[a] \in Seq(LockedOps)
    \/ plan[a] = <<"shutdown">> /\ a \in Requests \cup Stoppers

Bounded == mirror.at = "step" => steps < MaxSteps

\* One job of the worker at a time, one handler of the event loop.
OneJob == \A a, b \in OnWorker: pc[a] \in InJob /\ pc[b] \in InJob => a = b
OneHandler == \A a, b \in OnLoop: pc[a] \in InJob /\ pc[b] \in InJob => a = b

\* Whose shutdown word is out has stopped rank 1.
Sent ==
  \A a \in Actors:
    plan[a] = <<"shutdown">> /\ pc[a] \in {"step", "local"} => mirror.at = "gone"

\* Until then no request can become active behind the handler's back.
Cleared ==
  \A x \in Stoppers:
    pc[x] \in InJob /\ mirror.at # "gone" => \A r \in Requests: ~Active(r)

\* Rank 1 knows whose operation it is in.
Named == mirror.at \in {"body", "step", "local"} => mirror.from \in Actors

\* Only requests generate.
Asking ==
  /\ \A a \in Actors \ Requests: plan[a] \in Seq(Ops \ {"request"})
  /\ mirror.at \in {"body", "step"} /\ mirror.op = "request" =>
       mirror.from \in Requests

Basics ==
  /\ TypeOK /\ Laden /\ Runs /\ Named /\ Asking /\ Bounded
  /\ OneJob /\ OneHandler /\ Sent /\ Cleared

\* Rank 1 is in the operation that its sender is in, unless the sender is a
\* thread whose generation has failed.
Heard ==
  mirror.at \in {"body", "step"} =>
    /\ mirror.from \in Actors
    /\ \/ pc[mirror.from] = mirror.at
       \/ mirror.from \in Threads /\ pc[mirror.from] \in Words

\* A handler in the middle of an operation has rank 1 with it.
Met ==
  mirror.at # "wedged" =>
    \A a \in Actors \ Threads:
      pc[a] \in {"body", "step"} => mirror.from = a /\ mirror.at = pc[a]

\* The thread whose words were in the way is stuck among them.
Blamed == mirror.at = "wedged" => \E a \in Threads: pc[a] \in Words

Apart == Heard /\ Met /\ Blamed

\* An actor has the plans of its roles; only a stopper has the shutdown, and
\* only a request generates.
LEMMA PlanTypes ==
  ASSUME NEW a \in Actors, NEW p \in Plans(a)
  PROVE  /\ p # <<>>
         /\ \/ p \in Seq(LockedOps)
            \/ p = <<"shutdown">> /\ a \in Stoppers
         /\ a \notin Requests => p \in Seq(Ops \ {"request"})
<1> DEFINE Others == {"touch", "ping", "prewarm", "ssd", "reset", "tuning"}
<1>1. Others \cup {"request", "barrier"} \subseteq LockedOps
  BY DEF LockedOps, Ops
<1>2. CASE a \in Requests /\ p \in RequestPlans
  <2>1. PICK start \in Starts, retry \in Retries, end \in Ends:
          p = start \o <<"request">> \o retry \o end \o <<"barrier">>
    BY <1>2 DEF RequestPlans
  <2>2. start \in Seq(LockedOps) /\ end \in Seq(LockedOps)
    BY <1>1, ShortRuns DEF Starts, Ends
  <2>3. retry \in Seq(LockedOps)
    BY <1>1, ShortRuns DEF Retries
  <2>4. PICK body \in Seq(LockedOps): p = body \o <<"barrier">>
    <3>1. start \o <<"request">> \o retry \o end \in Seq(LockedOps)
      BY <1>1, <2>2, <2>3, ShortRuns
    <3> QED
      BY <2>1, <3>1
  <2> QED
    BY <1>1, <1>2, <2>4
<1>3. CASE ~(a \in Requests /\ p \in RequestPlans)
  <2>1. \/ \E op \in Others: p = <<op>>
        \/ p = <<"reset", "tuning">>
        \/ p = <<"shutdown">> /\ a \in Stoppers
    BY <1>3 DEF Plans
  <2>2. ASSUME NEW op \in Others
        PROVE  /\ <<op>> \in Seq(LockedOps) /\ <<op>> # <<>>
               /\ <<op>> \in Seq(Ops \ {"request"})
    BY <1>1 DEF Ops
  <2>3. /\ <<"reset", "tuning">> # <<>>
        /\ <<"reset", "tuning">> \in Seq(LockedOps)
        /\ <<"reset", "tuning">> \in Seq(Ops \ {"request"})
    BY <1>1 DEF Ops
  <2>4. <<"shutdown">> # <<>> /\ <<"shutdown">> \in Seq(Ops \ {"request"})
    BY DEF Ops
  <2> QED
    BY <2>1, <2>2, <2>3, <2>4
<1> QED
  BY <1>2, <1>3

LEMMA RunsTyped ==
  ASSUME Runs, NEW a \in Actors
  PROVE  /\ plan[a] \in Seq(Ops)
         /\ plan[a] # <<>> =>
              /\ Op(a) \in Ops
              /\ Op(a) = "shutdown" => plan[a] = <<"shutdown">>
              /\ plan[a] = <<"shutdown">> => Op(a) = "shutdown" /\ Tail(plan[a]) = <<>>
              /\ Tail(plan[a]) \in Seq(LockedOps)
<1>1. CASE plan[a] \in Seq(LockedOps)
  <2>1. Seq(LockedOps) \subseteq Seq(Ops)
    BY SeqMonotonic DEF LockedOps
  <2>2. ASSUME plan[a] # <<>>
        PROVE  Op(a) \in LockedOps /\ Tail(plan[a]) \in Seq(LockedOps)
    BY <1>1, <2>2 DEF Op
  <2>3. plan[a] = <<"shutdown">> => Op(a) = "shutdown"
    BY DEF Op
  <2> QED
    BY <1>1, <2>1, <2>2, <2>3 DEF LockedOps
<1>2. CASE plan[a] = <<"shutdown">>
  <2>1. Head(<<"shutdown">>) = "shutdown" /\ Tail(<<"shutdown">>) = <<>>
    OBVIOUS
  <2>2. "shutdown" \in Ops /\ <<"shutdown">> \in Seq(Ops)
    BY DEF Ops
  <2> QED
    BY <1>2, <2>1, <2>2, ShortRuns DEF Op
<1> QED
  BY <1>1, <1>2 DEF Runs

LEMMA InitBasics ==
  ASSUME Init
  PROVE  Basics /\ Apart
<1>1. \A a \in Actors: pc[a] = "idle" /\ plan[a] = <<>>
  BY DEF Init
<1>2. mirror.at = "size" /\ "idle" \notin InJob
  BY DEF Init, Waiting, InJob, InOp, Words
<1>3. TypeOK
  <2>1. plan \in [Actors -> Seq(Ops)] /\ log \in [{0, 1} -> Seq(Actors \X Ops)]
    BY DEF Init
  <2>2. mirror \in [at: InOp \cup {"gone", "wedged"}, from: Actors \cup {NoOne},
                   op: Ops]
    BY DEF Init, Waiting, Ops, InOp, Words
  <2>3. steps \in 0..MaxSteps
    BY StepsAssumption DEF Init
  <2>4. pc \in [Actors -> InJob \cup {"idle", "queued", "active", "checked", "done"}]
    BY DEF Init
  <2> QED
    BY <2>1, <2>2, <2>3, <2>4 DEF Init, TypeOK
<1>4. Laden /\ Runs /\ Named /\ Asking /\ Bounded /\ Sent
  <2>1. <<>> \in Seq(Ops \ {"request"})
    OBVIOUS
  <2> QED
    BY <1>1, <1>2, <2>1, ShortRuns
       DEF Laden, Runs, Named, Asking, Bounded, Sent, InJob, InOp, Words
<1>5. OneJob /\ OneHandler /\ Cleared
  BY <1>1, <1>2
     DEF OneJob, OneHandler, Cleared, OnWorker, OnLoop, Actors, Locked, Unlocked
<1>6. Apart
  BY <1>1, <1>2 DEF Apart, Heard, Met, Blamed
<1> QED
  BY <1>3, <1>4, <1>5, <1>6 DEF Basics

\* The roles are sets of actors, and handlers are not threads' jobs.
LEMMA Roles ==
  /\ OnLoop \subseteq Actors /\ OnWorker \subseteq Actors
  /\ Threads \subseteq Actors /\ Requests \subseteq Actors
  /\ Stoppers \subseteq OnLoop /\ Stoppers \subseteq Actors
  /\ Requests \cap Stoppers = {}
  /\ Requests \subseteq OnWorker
BY KindsAssumption
   DEF OnLoop, OnWorker, Threads, Actors, Locked, Unlocked

\* A step of one actor that does not enter a transaction keeps jobs and
\* handlers apart.
LEMMA StillAlone ==
  ASSUME Basics, NEW a \in Actors, NEW to, pc' = [pc EXCEPT ![a] = to],
         to \in InJob => pc[a] \in InJob
  PROVE  OneJob' /\ OneHandler'
<1>1. \A b \in Actors: pc'[b] \in InJob => pc[b] \in InJob
  BY DEF Basics, TypeOK
<1> QED
  BY <1>1, Roles DEF Basics, OneJob, OneHandler

\* A step of one actor that neither lets a stopper in nor makes a request
\* active keeps the stopper's check valid.
LEMMA StillCleared ==
  ASSUME Basics, NEW a \in Actors, NEW to, pc' = [pc EXCEPT ![a] = to],
         a \in Stoppers /\ to \in InJob => pc[a] \in InJob,
         \A b \in Actors: b # a => plan'[b] = plan[b],
         mirror'.at # "gone" => mirror.at # "gone",
         mirror'.at # "gone" /\ a \in Requests /\ Active(a)' => Active(a)
  PROVE  Cleared'
<1>1. \A b \in Actors: b # a => pc'[b] = pc[b]
  BY DEF Basics, TypeOK
<1>2. pc'[a] = to
  BY DEF Basics, TypeOK
<1>3. SUFFICES ASSUME NEW x \in Stoppers, pc'[x] \in InJob, mirror'.at # "gone",
                      NEW r \in Requests
               PROVE  ~Active(r)'
  BY DEF Cleared
<1>4. pc[x] \in InJob
  BY <1>1, <1>2, <1>3, Roles
<1>5. ~Active(r)
  BY <1>3, <1>4 DEF Basics, Cleared
<1>6. CASE r = a
  BY <1>3, <1>5, <1>6
<1>7. CASE r # a
  <2>1. pc'[r] = pc[r] /\ plan'[r] = plan[r]
    BY <1>1, <1>7, Roles
  <2> QED
    BY <1>5, <2>1 DEF Active, InTransaction
<1> QED
  BY <1>6, <1>7

\* What is said of the plans stays when one actor drops or replaces its own.
LEMMA StillRuns ==
  ASSUME Basics, NEW a \in Actors, NEW p, plan' = [plan EXCEPT ![a] = p],
         \/ p \in Seq(LockedOps)
         \/ p = <<"shutdown">> /\ a \in Requests \cup Stoppers,
         a \notin Requests => p \in Seq(Ops \ {"request"})
  PROVE  /\ Runs' /\ plan' \in [Actors -> Seq(Ops)]
         /\ \A b \in Actors \ Requests: plan'[b] \in Seq(Ops \ {"request"})
         /\ plan'[a] = p
<1>1. p \in Seq(Ops)
  <2>1. Seq(LockedOps) \subseteq Seq(Ops)
    BY SeqMonotonic DEF LockedOps
  <2>2. <<"shutdown">> \in Seq(Ops)
    BY DEF Ops
  <2> QED
    BY <2>1, <2>2
<1>2. plan'[a] = p /\ \A b \in Actors: b # a => plan'[b] = plan[b]
  BY DEF Basics, TypeOK
<1>3. Runs'
  BY <1>2 DEF Basics, Runs
<1>4. plan' \in [Actors -> Seq(Ops)]
  BY <1>1 DEF Basics, TypeOK
<1>5. \A b \in Actors \ Requests: plan'[b] \in Seq(Ops \ {"request"})
  BY <1>2 DEF Basics, Asking
<1> QED
  BY <1>2, <1>3, <1>4, <1>5

\* Before and after a transaction.
LEMMA OutsideBasics ==
  ASSUME Basics, NEW a \in Actors, NEW to, pc[a] \notin InJob,
         to \in {"queued", "active", "checked", "done"},
         to = "active" => LoopFree,
         Goto(a, to), UNCHANGED <<turn, plan, mirror, steps, log>>,
         stopping' \in BOOLEAN
  PROVE  Basics' /\ (Apart => Apart')
<1>1. to \notin InJob /\ Words \subseteq InOp /\ InOp \subseteq InJob
  BY DEF InJob, InOp, Words
<1>2. /\ pc' = [pc EXCEPT ![a] = to] /\ pc'[a] = to
      /\ \A b \in Actors: b # a => pc'[b] = pc[b]
  BY DEF Goto, Basics, TypeOK
<1>3. TypeOK'
  <2>1. pc' \in [Actors -> InJob \cup {"idle", "queued", "active", "checked", "done"}]
    BY <1>2 DEF Basics, TypeOK
  <2> QED
    BY <2>1 DEF Basics, TypeOK
<1>4. Laden' /\ Runs' /\ Named' /\ Asking' /\ Bounded'
  BY <1>1, <1>2 DEF Basics, Laden, Runs, Named, Asking, Bounded
<1>5. OneJob' /\ OneHandler'
  BY <1>1, <1>2, StillAlone
<1>6. Sent'
  <2>1. {"step", "local"} \subseteq InJob
    BY DEF InJob, InOp, Words
  <2> QED
    BY <1>1, <1>2, <2>1 DEF Basics, Sent
<1>7. Cleared'
  <2>1. CASE to = "active"
    <3>1. \A x \in Stoppers: pc'[x] \notin InJob
      BY <1>1, <1>2, <2>1, Roles DEF LoopFree
    <3> QED
      BY <3>1 DEF Cleared
  <2>2. CASE to # "active"
    <3>1. ~Active(a)'
      BY <1>1, <1>2, <2>2 DEF Active, InTransaction
    <3> QED
      BY <1>1, <1>2, <3>1, StillCleared
  <2> QED
    BY <2>1, <2>2
<1>8. Apart => Apart'
  <2>1. \A b \in Actors: pc[b] \in Words => pc'[b] = pc[b]
    BY <1>1, <1>2
  <2>2. \A b \in Actors: pc'[b] \in {"body", "step"} => pc'[b] = pc[b]
    BY <1>1, <1>2 DEF InJob, InOp, Words
  <2>3. ASSUME Heard PROVE Heard'
    <3>1. mirror.at \in {"body", "step"} => mirror.at \in Words
      BY DEF Words
    <3> QED
      BY <2>1, <2>3, <3>1 DEF Heard
  <2>4. ASSUME Met PROVE Met'
    BY <2>2, <2>4 DEF Met
  <2>5. ASSUME Blamed PROVE Blamed'
    BY <2>1, <2>5, Roles DEF Blamed
  <2> QED
    BY <2>3, <2>4, <2>5 DEF Apart
<1> QED
  BY <1>3, <1>4, <1>5, <1>6, <1>7, <1>8 DEF Basics

\* Into a transaction, with or without the mutex.
LEMMA EnterBasics ==
  ASSUME Basics, NEW a \in Actors, pc[a] \notin InJob, Enter(a),
         a \in OnWorker => WorkerFree, a \in OnLoop => LoopFree,
         a \in Requests => pc[a] = "active",
         a \in Stoppers => \A r \in Requests: ~Active(r),
         UNCHANGED <<mirror, steps, log>>,
         turn' \in Locked \cup {NoOne}, stopping' \in BOOLEAN
  PROVE  Basics' /\ (Apart => Apart')
<1>1. PICK p \in Plans(a): plan' = [plan EXCEPT ![a] = p]
  BY DEF Enter
<1>2. /\ p # <<>>
      /\ \/ p \in Seq(LockedOps)
         \/ p = <<"shutdown">> /\ a \in Stoppers
      /\ a \notin Requests => p \in Seq(Ops \ {"request"})
  BY PlanTypes
<1>3. /\ Runs' /\ plan' \in [Actors -> Seq(Ops)]
      /\ \A b \in Actors \ Requests: plan'[b] \in Seq(Ops \ {"request"})
      /\ plan'[a] = p
  BY <1>1, <1>2, StillRuns
<1>4. /\ pc'[a] = "size" /\ \A b \in Actors: b # a => pc'[b] = pc[b]
      /\ \A b \in Actors: b # a => plan'[b] = plan[b]
  BY <1>1 DEF Enter, Goto, Basics, TypeOK
<1>5. "size" \in InJob /\ Words \subseteq InJob
  BY DEF InJob, InOp, Words
<1>6. TypeOK'
  <2>1. pc' \in [Actors -> InJob \cup {"idle", "queued", "active", "checked", "done"}]
    BY <1>5 DEF Enter, Goto, Basics, TypeOK
  <2> QED
    BY <1>3, <2>1 DEF Basics, TypeOK
<1>7. Laden' /\ Named' /\ Asking' /\ Bounded'
  BY <1>2, <1>3, <1>4 DEF Basics, Laden, Named, Asking, Bounded
<1>8. OneJob' /\ OneHandler'
  <2>1. \A b \in OnWorker: a \in OnWorker /\ pc'[b] \in InJob => b = a
    BY <1>4, Roles DEF WorkerFree
  <2>2. \A b \in OnLoop: a \in OnLoop /\ pc'[b] \in InJob => b = a
    BY <1>4, Roles DEF LoopFree
  <2> QED
    BY <1>4, <2>1, <2>2, Roles DEF Basics, OneJob, OneHandler
<1>9. Sent'
  BY <1>4 DEF Basics, Sent
<1>10. Cleared'
  <2>1. CASE a \in Stoppers
    <3>1. SUFFICES ASSUME NEW r \in Requests PROVE ~Active(r)'
      BY DEF Cleared
    <3>2. r # a /\ r \in Actors
      BY <2>1, Roles
    <3> QED
      BY <1>4, <2>1, <3>2 DEF Active, InTransaction
  <2>2. CASE a \notin Stoppers
    <3>1. a \in Requests => Active(a)
      BY DEF Active
    <3>2. pc' = [pc EXCEPT ![a] = "size"]
      BY DEF Enter, Goto
    <3> QED
      BY <1>4, <2>2, <3>1, <3>2, StillCleared
  <2> QED
    BY <2>1, <2>2
<1>11. Apart => Apart'
  <2>1. \A b \in Actors: pc[b] \in Words => pc'[b] = pc[b]
    BY <1>4, <1>5
  <2>2. \A b \in Actors: pc'[b] \in {"body", "step"} => pc'[b] = pc[b] /\ b # a
    BY <1>4
  <2>3. ASSUME Heard PROVE Heard'
    <3>1. mirror.at \in {"body", "step"} => mirror.at \in Words
      BY DEF Words
    <3> QED
      BY <2>1, <2>3, <3>1 DEF Heard
  <2>4. ASSUME Met PROVE Met'
    BY <2>2, <2>4 DEF Met
  <2>5. ASSUME Blamed PROVE Blamed'
    BY <2>1, <2>5, Roles DEF Blamed
  <2> QED
    BY <2>3, <2>4, <2>5 DEF Apart
<1> QED
  BY <1>3, <1>6, <1>7, <1>8, <1>9, <1>10, <1>11 DEF Basics

\* Who is in an operation has one to send.
LEMMA Sender ==
  ASSUME Basics, NEW a \in Actors, pc[a] \in InOp
  PROVE  /\ plan[a] # <<>> /\ Op(a) \in Ops
         /\ Op(a) = "shutdown" =>
              plan[a] = <<"shutdown">> /\ a \in Requests \cup Stoppers
         /\ plan[a] = <<"shutdown">> => Op(a) = "shutdown" /\ Tail(plan[a]) = <<>>
         /\ Tail(plan[a]) \in Seq(LockedOps)
         /\ a \notin Requests =>
              Op(a) # "request" /\ Tail(plan[a]) \in Seq(Ops \ {"request"})
<1>1. plan[a] # <<>> /\ Runs
  BY DEF Basics, Laden
<1>2. a \notin Requests => plan[a] \in Seq(Ops \ {"request"})
  BY DEF Basics, Asking
<1>3. a \notin Requests =>
        Op(a) # "request" /\ Tail(plan[a]) \in Seq(Ops \ {"request"})
  BY <1>1, <1>2 DEF Op
<1>4. plan[a] = <<"shutdown">> => a \in Requests \cup Stoppers
  <2>1. "shutdown" \notin LockedOps
    BY DEF LockedOps
  <2>2. CASE plan[a] \in Seq(LockedOps)
    <3>1. Op(a) \in LockedOps
      BY <1>1, <2>2 DEF Op
    <3> QED
      BY <1>1, <2>1, <3>1, RunsTyped
  <2> QED
    BY <1>1, <2>2 DEF Runs
<1> QED
  BY <1>1, <1>3, <1>4, RunsTyped

\* A word that rank 1 takes as it is meant.
LEMMA WordBasics ==
  ASSUME Basics, NEW a \in Actors, NEW to \in {"body", "step", "local"},
         pc[a] \in Words, Meets(a), pc' = [pc EXCEPT ![a] = to],
         mirror' \in [at: {to, "gone"}, from: {a}, op: Ops],
         mirror'.op = "request" => a \in Requests,
         Op(a) = "shutdown" => to = "body" \/ mirror'.at = "gone",
         mirror'.at = "gone" => Op(a) = "shutdown" /\ to = "local",
         steps' \in 0..MaxSteps, to = "step" => steps' < MaxSteps,
         UNCHANGED <<turn, plan, log, stopping>>
  PROVE  Basics' /\ (Apart => Apart')
<1>1. /\ Words \subseteq InOp /\ InOp \subseteq InJob /\ to \in InOp
      /\ mirror.at \in Words /\ mirror.at # "gone" /\ mirror.at # "wedged"
  BY DEF InJob, InOp, Words, Meets
<1>2. pc'[a] = to /\ \A b \in Actors: b # a => pc'[b] = pc[b]
  BY DEF Basics, TypeOK
<1>3. mirror'.at \in {to, "gone"} /\ mirror'.from = a
  OBVIOUS
<1>4. TypeOK'
  <2>1. mirror' \in [at: InOp \cup {"gone", "wedged"}, from: Actors \cup {NoOne},
                     op: Ops]
    BY <1>1
  <2>2. pc' \in [Actors -> InJob \cup {"idle", "queued", "active", "checked", "done"}]
    BY <1>1 DEF Basics, TypeOK
  <2> QED
    BY <2>1, <2>2 DEF Basics, TypeOK
<1>5. Laden' /\ Runs'
  BY <1>1, <1>2 DEF Basics, Laden, Runs
<1>6. Named' /\ Asking' /\ Bounded'
  BY <1>3 DEF Basics, Named, Asking, Bounded
<1>7. OneJob' /\ OneHandler'
  BY <1>1, StillAlone
<1>8. Sent'
  <2>1. SUFFICES ASSUME NEW b \in Actors, plan[b] = <<"shutdown">>,
                        pc'[b] \in {"step", "local"}
                 PROVE  mirror'.at = "gone"
    BY DEF Sent
  <2>2. b = a
    BY <1>1, <1>2, <2>1 DEF Basics, Sent
  <2>3. Op(a) = "shutdown"
    BY <1>1, <2>1, <2>2, Sender
  <2>4. to # "body"
    BY <1>2, <2>1, <2>2
  <2> QED
    BY <2>3, <2>4
<1>9. Cleared'
  <2>1. a \in Requests /\ Active(a)' => Active(a)
    BY <1>1, <1>2 DEF Active, InTransaction
  <2>2. /\ a \in Stoppers /\ to \in InJob => pc[a] \in InJob
        /\ \A b \in Actors: b # a => plan'[b] = plan[b]
        /\ mirror'.at # "gone" => mirror.at # "gone"
    BY <1>1
  <2> QED
    BY <2>1, <2>2, StillCleared
<1>10. Apart => Apart'
  <2>1. Heard'
    BY <1>2, <1>3 DEF Heard
  <2>2. ASSUME Met PROVE Met'
    <3>1. SUFFICES ASSUME NEW b \in Actors \ Threads, pc'[b] \in {"body", "step"}
                   PROVE  mirror'.from = b /\ mirror'.at = pc'[b]
      BY DEF Met
    <3>2. b = a
      <4>1. SUFFICES ASSUME b # a PROVE FALSE
        OBVIOUS
      <4>2. pc[b] \in {"body", "step"}
        BY <1>2, <3>1, <4>1
      <4>3. mirror.from = b /\ mirror.at = pc[b]
        BY <1>1, <2>2, <4>2 DEF Met
      <4> QED
        BY <4>1, <4>2, <4>3 DEF Meets
    <3> QED
      BY <1>2, <1>3, <3>1, <3>2
  <2>3. Blamed'
    BY <1>3 DEF Blamed
  <2> QED
    BY <2>1, <2>2, <2>3 DEF Apart
<1> QED
  BY <1>4, <1>5, <1>6, <1>7, <1>8, <1>9, <1>10 DEF Basics

LEMMA SendBasics ==
  ASSUME Basics, NEW a \in Actors, Send(a)
  PROVE  Basics' /\ (Apart => Apart')
<1>1. pc[a] \in Words /\ Meets(a) /\ Words \subseteq InOp
  BY DEF Send, SendSize, SendBody, SendStep, Words, InOp
<1>2. mirror.at = pc[a] /\ (pc[a] # "size" => mirror.from = a)
  BY <1>1 DEF Meets
<1>3. a \notin Requests => Op(a) # "request"
  BY <1>1, Sender
<1>4. CASE SendSize(a)
  <2>1. /\ pc' = [pc EXCEPT ![a] = "body"]
        /\ mirror' = [at |-> "body", from |-> a, op |-> Op(a)]
        /\ steps' = steps /\ UNCHANGED <<turn, plan, log, stopping>>
    BY <1>4 DEF SendSize, Goto
  <2>2. mirror' \in [at: {"body", "gone"}, from: {a}, op: Ops]
    BY <1>1, <2>1, Sender
  <2>3. steps' \in 0..MaxSteps /\ mirror'.at = "body"
    BY <2>1 DEF Basics, TypeOK
  <2>4. mirror'.op = "request" => a \in Requests
    BY <1>3, <2>1
  <2> QED
    BY <1>1, <2>1, <2>2, <2>3, <2>4, WordBasics
<1>5. ASSUME pc[a] # "size", mirror.at \in {"body", "step"}
      PROVE  mirror.op = "request" => a \in Requests
  BY <1>2, <1>5 DEF Basics, Asking
<1>6. CASE SendBody(a)
  <2>1. /\ pc[a] = "body" /\ mirror.at = "body" /\ mirror.from = a
        /\ steps' = 0 /\ UNCHANGED <<turn, plan, log, stopping>>
    BY <1>2, <1>6 DEF SendBody
  <2>2. PICK to \in {"step", "local"}:
          /\ to = "step" <=> Op(a) \in Stepped
          /\ pc' = [pc EXCEPT ![a] = to]
          /\ mirror' = [mirror EXCEPT !.at =
                          IF Op(a) = "shutdown" THEN "gone" ELSE to]
    BY <1>6 DEF SendBody, Goto
  <2>3. /\ mirror' \in [at: {to, "gone"}, from: {a}, op: Ops]
        /\ mirror'.op = mirror.op
        /\ mirror'.at = IF Op(a) = "shutdown" THEN "gone" ELSE to
    BY <2>1, <2>2 DEF Basics, TypeOK
  <2>4. /\ Op(a) = "shutdown" => mirror'.at = "gone" /\ to = "local"
        /\ mirror'.at = "gone" => Op(a) = "shutdown"
    BY <2>2, <2>3 DEF Stepped
  <2>5. steps' \in 0..MaxSteps /\ steps' < MaxSteps
    BY <2>1, StepsAssumption
  <2>6. mirror'.op = "request" => a \in Requests
    BY <1>5, <2>1, <2>3
  <2> QED
    BY <1>1, <2>1, <2>2, <2>3, <2>4, <2>5, <2>6, WordBasics
<1>7. CASE SendStep(a)
  <2>1. /\ pc[a] = "step" /\ mirror.at = "step" /\ mirror.from = a
        /\ steps' = steps + 1 /\ UNCHANGED <<turn, plan, log, stopping>>
    BY <1>2, <1>7 DEF SendStep
  <2>2. PICK last \in BOOLEAN:
          /\ steps' = MaxSteps => last
          /\ IF last
             THEN Goto(a, "local") /\ mirror' = [mirror EXCEPT !.at = "local"]
             ELSE UNCHANGED <<pc, mirror>>
    BY <1>7 DEF SendStep
  <2>3. PICK to \in {"step", "local"}:
          /\ to = "step" => steps' # MaxSteps
          /\ pc' = [pc EXCEPT ![a] = to]
          /\ mirror' = [mirror EXCEPT !.at = to]
    <3>1. pc = [pc EXCEPT ![a] = "step"] /\ mirror = [mirror EXCEPT !.at = "step"]
      BY <2>1 DEF Basics, TypeOK
    <3> QED
      BY <2>2, <3>1 DEF Goto
  <2>4. /\ mirror' \in [at: {to, "gone"}, from: {a}, op: Ops]
        /\ mirror'.op = mirror.op /\ mirror'.at = to
    BY <2>1, <2>3 DEF Basics, TypeOK
  <2>5. Op(a) # "shutdown"
    <3>1. mirror.at # "gone"
      BY <2>1
    <3> QED
      BY <1>1, <2>1, <3>1, Sender DEF Basics, Sent
  <2>6. steps' \in 0..MaxSteps /\ (to = "step" => steps' < MaxSteps)
    BY <2>1, <2>3, StepsAssumption DEF Basics, TypeOK, Bounded
  <2>7. mirror'.op = "request" => a \in Requests
    BY <1>5, <2>1, <2>4
  <2> QED
    BY <1>1, <2>1, <2>3, <2>4, <2>5, <2>6, <2>7, WordBasics
<1> QED
  BY <1>4, <1>6, <1>7 DEF Send

\* Rank 1 is wedged: by a thread, which is stuck, or by a handler that found
\* rank 1 in the operation of a thread.
LEMMA ShredBasics ==
  ASSUME Basics, NEW a \in Actors, Shred(a)
  PROVE  Basics' /\ (Janitors = {} /\ Apart => Apart')
<1>1. /\ pc[a] \in Words /\ mirror.at \in Words /\ ~Meets(a)
      /\ mirror' = [at |-> "wedged", from |-> NoOne, op |-> "barrier"]
      /\ UNCHANGED <<turn, pc, plan, steps, log, stopping>>
  BY DEF Shred, Waiting
<1>2. TypeOK'
  BY <1>1 DEF Basics, TypeOK, Ops
<1>3. Laden' /\ Runs' /\ Named' /\ Asking' /\ Bounded' /\ OneJob' /\ OneHandler'
  BY <1>1 
     DEF Basics, Laden, Runs, Named, Asking, Bounded, OneJob, OneHandler
<1>4. mirror.at # "gone"
  BY <1>1 DEF Words
<1>5. Sent' /\ Cleared'
  <2>1. \A r \in Requests: Active(r)' = Active(r)
    BY <1>1 DEF Active, InTransaction
  <2> QED
    BY <1>1, <1>4, <2>1 DEF Basics, Sent, Cleared
<1>6. ASSUME Janitors = {}, Apart
      PROVE  Apart'
  <2>1. Heard' /\ Met'
    BY <1>1 DEF Heard, Met
  <2>2. \E b \in Threads: pc[b] \in Words
    <3>1. SUFFICES ASSUME a \notin Threads
                   PROVE  \E b \in Threads: pc[b] \in Words
      BY <1>1
    <3>2. a \in OnLoop
      BY <1>6, <3>1 DEF Threads, OnLoop, Actors, Locked, Unlocked
    <3>3. mirror.at # "wedged"
      BY <1>1 DEF Words
    <3>4. pc[a] = "size" /\ mirror.at \in {"body", "step"}
      BY <1>1, <1>6, <3>1, <3>3 DEF Apart, Met, Meets, Words
    <3>5. \/ pc[mirror.from] = mirror.at /\ mirror.from \in Actors
          \/ mirror.from \in Threads /\ pc[mirror.from] \in Words
      BY <1>6, <3>4 DEF Apart, Heard
    <3>6. CASE pc[mirror.from] = mirror.at /\ mirror.from \in Actors \ Threads
      <4>1. mirror.from \in OnLoop
        BY <1>6, <3>6 DEF Threads, OnLoop, Actors, Locked, Unlocked
      <4>2. pc[a] \in InJob /\ pc[mirror.from] \in InJob
        BY <3>4, <3>6 DEF InJob, InOp, Words
      <4>3. a = mirror.from
        BY <3>2, <4>1, <4>2 DEF Basics, OneHandler
      <4> QED
        BY <3>4, <3>6, <4>3
    <3> QED
      BY <1>1, <3>5, <3>6
  <2>3. Blamed'
    BY <1>1, <2>2 DEF Blamed
  <2> QED
    BY <2>1, <2>3 DEF Apart
<1> QED
  BY <1>2, <1>3, <1>5, <1>6 DEF Basics

\* Rank 0 goes on by itself to another place, with another plan.
Solo(a, to, p) ==
  /\ to \in {"size", "close", "done"} /\ pc' = [pc EXCEPT ![a] = to]
  /\ pc[a] \in {"step", "local", "close"}
  /\ pc[a] = "step" => a \in Threads /\ to = "size"
  /\ plan' = [plan EXCEPT ![a] = p]
  /\ to = "size" => p # <<>>
  /\ \/ p \in Seq(LockedOps)
     \/ p = <<"shutdown">> /\ a \in Requests \cup Stoppers
  /\ a \notin Requests => p \in Seq(Ops \ {"request"})
  /\ mirror.at # "gone" /\ a \in Requests /\ Active(a)' => Active(a)
  /\ turn' \in Locked \cup {NoOne} /\ log' \in [{0, 1} -> Seq(Actors \X Ops)]
  /\ mirror' = mirror /\ steps' = steps /\ stopping' = stopping

LEMMA AloneBasics ==
  ASSUME Basics, NEW a \in Actors, NEW to, NEW p, Solo(a, to, p)
  PROVE  Basics' /\ (Apart => Apart')
<1> USE DEF Solo
<1>1. /\ Runs' /\ plan' \in [Actors -> Seq(Ops)]
      /\ \A b \in Actors \ Requests: plan'[b] \in Seq(Ops \ {"request"})
      /\ plan'[a] = p
  BY StillRuns
<1>2. /\ pc'[a] = to /\ \A b \in Actors: b # a => pc'[b] = pc[b]
      /\ \A b \in Actors: b # a => plan'[b] = plan[b]
  BY DEF Basics, TypeOK
<1>3. Words \subseteq InOp /\ InOp \subseteq InJob /\ {"size", "close"} \subseteq InJob
      /\ "done" \notin InJob /\ "close" \notin InOp /\ pc[a] \in InJob
  BY DEF InJob, InOp, Words
<1>4. TypeOK'
  <2>1. pc' \in [Actors -> InJob \cup {"idle", "queued", "active", "checked", "done"}]
    BY <1>3 DEF Basics, TypeOK
  <2> QED
    BY <1>1, <2>1 DEF Basics, TypeOK
<1>5. Laden'
  <2>1. to \in InOp => p # <<>>
    BY <1>3
  <2> QED
    BY <1>1, <1>2, <2>1 DEF Basics, Laden
<1>6. Named' /\ Asking' /\ Bounded'
  BY <1>1 DEF Basics, Named, Asking, Bounded
<1>7. OneJob' /\ OneHandler'
  BY <1>3, StillAlone
<1>8. Sent'
  BY <1>2 DEF Basics, Sent
<1>9. Cleared'
  BY <1>2, <1>3, StillCleared
<1>10. Apart => Apart'
  <2>1. ASSUME Heard PROVE Heard'
    <3>1. SUFFICES ASSUME mirror.at \in {"body", "step"}
                   PROVE  /\ mirror.from \in Actors
                          /\ \/ pc'[mirror.from] = mirror.at
                             \/ mirror.from \in Threads /\ pc'[mirror.from] \in Words
      BY DEF Heard
    <3>2. CASE mirror.from = a
      <4>1. pc[a] = "step"
        BY <2>1, <3>1, <3>2 DEF Heard, Words
      <4> QED
        BY <1>2, <3>2, <4>1 DEF Words
    <3>3. CASE mirror.from # a
      BY <1>2, <2>1, <3>1, <3>3 DEF Heard
    <3> QED
      BY <3>2, <3>3
  <2>2. ASSUME Met PROVE Met'
    <3>1. \A b \in Actors: pc'[b] \in {"body", "step"} => pc'[b] = pc[b]
      BY <1>2
    <3> QED
      BY <2>2, <3>1 DEF Met
  <2>3. ASSUME Blamed PROVE Blamed'
    <3>1. \A b \in Threads: pc[b] \in Words => pc'[b] \in Words
      BY <1>2, Roles DEF Words
    <3> QED
      BY <2>3, <3>1 DEF Blamed
  <2> QED
    BY <2>1, <2>2, <2>3 DEF Apart
<1> QED
  BY <1>1, <1>4, <1>5, <1>6, <1>7, <1>8, <1>9, <1>10 DEF Basics

\* Whoever is past its last word of the shutdown has stopped rank 1.
LEMMA WasActive ==
  ASSUME Basics, NEW a \in Actors, pc[a] \in {"step", "local"}, mirror.at # "gone"
  PROVE  Active(a)
BY DEF Basics, Sent, Active, InTransaction, InJob, InOp, Words

LEMMA LocalBasics ==
  ASSUME Basics, NEW a \in Actors, Local(a)
  PROVE  Basics' /\ (Apart => Apart')
<1>1. /\ pc[a] = "local" /\ pc[a] \in InOp
      /\ log' = [log EXCEPT ![0] = Extend(log[0], a, Op(a))]
      /\ plan' = [plan EXCEPT ![a] = Tail(plan[a])]
      /\ UNCHANGED <<turn, mirror, steps, stopping>>
  BY DEF Local, InOp
<1>2. PICK to \in {"size", "close"}:
        pc' = [pc EXCEPT ![a] = to] /\ (to = "size" => Len(plan[a]) # 1)
  BY DEF Local, Goto
<1>3. /\ plan[a] # <<>> /\ Op(a) \in Ops /\ Tail(plan[a]) \in Seq(LockedOps)
      /\ a \notin Requests => Tail(plan[a]) \in Seq(Ops \ {"request"})
  BY <1>1, Sender
<1>4. to = "size" => Tail(plan[a]) # <<>>
  <2>1. plan[a] \in Seq(Ops)
    BY DEF Basics, TypeOK
  <2>2. Len(Tail(plan[a])) = Len(plan[a]) - 1 /\ Len(plan[a]) \in Nat
    BY <1>3, <2>1, HeadTailProperties, LenProperties
  <2>3. Len(<<>>) = 0 /\ \A n \in Nat: n - 1 = 0 => n = 1
    OBVIOUS
  <2> QED
    BY <1>2, <2>2, <2>3, Zenon
<1>5. log' \in [{0, 1} -> Seq(Actors \X Ops)]
  BY <1>1, <1>3, ExtendType DEF Basics, TypeOK
<1>6. mirror.at # "gone" => Active(a)
  BY <1>1, WasActive
<1>7. turn' \in Locked \cup {NoOne}
  BY <1>1 DEF Basics, TypeOK
<1>8. Solo(a, to, Tail(plan[a]))
  BY <1>1, <1>2, <1>3, <1>4, <1>5, <1>6, <1>7 DEF Solo
<1> QED
  BY <1>8, AloneBasics

LEMMA CloseBasics ==
  ASSUME Basics, NEW a \in Actors, Close(a)
  PROVE  Basics' /\ (Apart => Apart')
<1>1. pc[a] = "close" /\ UNCHANGED <<mirror, steps, log, stopping>>
  BY DEF Close
<1>2. turn' \in Locked \cup {NoOne}
  BY DEF Close, Basics, TypeOK
<1>3. log' \in [{0, 1} -> Seq(Actors \X Ops)]
  BY <1>1 DEF Basics, TypeOK
<1>4. CASE a \in Requests /\ stopping /\ turn = a
  <2>1. pc' = [pc EXCEPT ![a] = "size"] /\ plan' = [plan EXCEPT ![a] = <<"shutdown">>]
    BY <1>4 DEF Close, Goto
  <2>2. ~Active(a)'
    <3>1. pc'[a] = "size" /\ plan'[a] = <<"shutdown">>
      BY <2>1 DEF Basics, TypeOK
    <3> QED
      BY <3>1 DEF Active, InTransaction
  <2>3. <<"shutdown">> # <<>>
    OBVIOUS
  <2>4. Solo(a, "size", <<"shutdown">>)
    BY <1>1, <1>2, <1>3, <1>4, <2>1, <2>2, <2>3 DEF Solo
  <2> QED
    BY <2>4, AloneBasics
<1>5. CASE ~(a \in Requests /\ stopping /\ turn = a)
  <2>1. pc' = [pc EXCEPT ![a] = "done"] /\ plan' = plan
    BY <1>5 DEF Close, Goto
  <2>2. plan' = [plan EXCEPT ![a] = plan[a]]
    BY <2>1 DEF Basics, TypeOK
  <2>3. ~Active(a)'
    <3>1. pc'[a] = "done"
      BY <2>1 DEF Basics, TypeOK
    <3> QED
      BY <3>1 DEF Active, InTransaction, InJob, InOp, Words
  <2>4. /\ \/ plan[a] \in Seq(LockedOps)
           \/ plan[a] = <<"shutdown">> /\ a \in Requests \cup Stoppers
        /\ a \notin Requests => plan[a] \in Seq(Ops \ {"request"})
    BY DEF Basics, Runs, Asking
  <2>5. Solo(a, "done", plan[a])
    BY <1>1, <1>2, <1>3, <2>1, <2>2, <2>3, <2>4 DEF Solo
  <2> QED
    BY <2>5, AloneBasics
<1> QED
  BY <1>4, <1>5

LEMMA LeaderFailsBasics ==
  ASSUME Basics, NEW a \in Requests, LeaderFails(a)
  PROVE  Basics' /\ (Apart => Apart')
<1>1. /\ pc[a] = "step" /\ a \in Actors /\ a \in Threads
      /\ plan' = [plan EXCEPT ![a] = <<"barrier">>]
      /\ pc' = [pc EXCEPT ![a] = "size"]
      /\ UNCHANGED <<turn, mirror, steps, log, stopping>>
  BY Roles DEF LeaderFails, Goto, Threads
<1>2. <<"barrier">> \in Seq(LockedOps) /\ <<"barrier">> # <<>>
  BY ShortRuns DEF LockedOps, Ops
<1>3. mirror.at # "gone" => Active(a)
  BY <1>1, WasActive
<1>4. turn' \in Locked \cup {NoOne} /\ log' \in [{0, 1} -> Seq(Actors \X Ops)]
  BY <1>1 DEF Basics, TypeOK
<1>5. Solo(a, "size", <<"barrier">>)
  BY <1>1, <1>2, <1>3, <1>4 DEF Solo
<1> QED
  BY <1>1, <1>5, AloneBasics

\* Rank 1 finishes or fails.
LEMMA MirrorBasics ==
  ASSUME Basics, MirrorLocal \/ MirrorFails
  PROVE  Basics' /\ (Apart => Apart')
<1>1. /\ mirror.at \in {"local", "step"}
      /\ mirror.at = "step" => mirror.op = "request"
      /\ mirror' = [at |-> "size", from |-> NoOne, op |-> "barrier"]
      /\ UNCHANGED <<turn, pc, plan, steps, stopping>>
  BY DEF MirrorLocal, MirrorFails, Waiting
<1>2. log' \in [{0, 1} -> Seq(Actors \X Ops)]
  <2>1. CASE MirrorLocal
    <3>1. log' = [log EXCEPT ![1] = Extend(log[1], mirror.from, mirror.op)]
      BY <2>1 DEF MirrorLocal
    <3>2. mirror.from \in Actors /\ mirror.op \in Ops
      BY <2>1 DEF MirrorLocal, Basics, TypeOK, Named
    <3> QED
      BY <3>1, <3>2, ExtendType DEF Basics, TypeOK
  <2>2. CASE MirrorFails
    BY <2>2 DEF MirrorFails, Basics, TypeOK
  <2> QED
    BY <2>1, <2>2
<1>3. TypeOK'
  BY <1>1, <1>2 DEF Basics, TypeOK, Ops, InOp, Words
<1>4. /\ Laden' /\ Runs' /\ Named' /\ Asking' /\ Bounded'
      /\ OneJob' /\ OneHandler'
  BY <1>1
     DEF Basics, Laden, Runs, Named, Asking, Bounded, OneJob, OneHandler
<1>5. Sent' /\ Cleared'
  <2>1. \A r \in Requests: Active(r)' = Active(r)
    BY <1>1 DEF Active, InTransaction
  <2> QED
    BY <1>1, <2>1 DEF Basics, Sent, Cleared
<1>6. Apart => Apart'
  <2>1. Heard' /\ Blamed'
    BY <1>1 DEF Heard, Blamed
  <2>2. ASSUME Met PROVE Met'
    <3>1. SUFFICES ASSUME NEW b \in Actors \ Threads, pc[b] \in {"body", "step"}
                   PROVE  FALSE
      BY <1>1 DEF Met
    <3>2. mirror.from = b /\ mirror.at = "step"
      BY <1>1, <2>2, <3>1 DEF Met
    <3>3. b \in Requests
      BY <1>1, <3>2 DEF Basics, Asking
    <3> QED
      BY <3>1, <3>3 DEF Threads
  <2> QED
    BY <2>1, <2>2 DEF Apart
<1> QED
  BY <1>3, <1>4, <1>5, <1>6 DEF Basics

LEMMA NextBasics ==
  ASSUME Basics, [Next]_vars
  PROVE  Basics' /\ (Janitors = {} /\ Apart => Apart')
<1>1. "idle" \notin InJob /\ "queued" \notin InJob /\ "active" \notin InJob
      /\ "checked" \notin InJob
  BY DEF InJob, InOp, Words
<1>2. turn \in Locked \cup {NoOne} /\ stopping \in BOOLEAN
  BY DEF Basics, TypeOK
<1>3. ASSUME NEW r \in Requests, Queue(r) \/ Publish(r)
      PROVE  Basics' /\ (Apart => Apart')
  <2>1. r \in Actors
    BY Roles
  <2>2. CASE Queue(r)
    BY <1>1, <1>2, <2>1, <2>2, OutsideBasics DEF Queue
  <2>3. CASE Publish(r)
    BY <1>1, <1>2, <2>1, <2>3, OutsideBasics DEF Publish
  <2> QED
    BY <1>3, <2>2, <2>3
<1>4. ASSUME NEW a \in Actors, Check(a) \/ GiveUp(a)
      PROVE  Basics' /\ (Apart => Apart')
  <2>1. CASE Check(a)
    BY <1>1, <1>2, <2>1, OutsideBasics DEF Check
  <2>2. CASE GiveUp(a)
    BY <1>1, <1>2, <2>2, OutsideBasics DEF GiveUp
  <2> QED
    BY <1>4, <2>1, <2>2
<1>5. ASSUME NEW a \in Locked, TakeTurn(a)
      PROVE  Basics' /\ (Apart => Apart')
  <2>1. a \in Actors /\ a \notin Stoppers
    BY KindsAssumption DEF Actors, Unlocked
  <2>2. /\ pc[a] \notin InJob /\ Enter(a) /\ turn' = a
        /\ a \in OnWorker => WorkerFree
        /\ a \in OnLoop => LoopFree
        /\ a \in Requests => pc[a] = "active"
        /\ UNCHANGED <<mirror, steps, log, stopping>>
    BY <1>1, <1>5 DEF TakeTurn
  <2> QED
    BY <1>2, <2>1, <2>2, EnterBasics
<1>6. ASSUME NEW a \in LoopAdmins \cup Janitors, Barge(a)
      PROVE  Basics' /\ (Apart => Apart')
  <2>1. a \in Actors /\ a \notin OnWorker /\ a \notin Requests /\ a \notin Stoppers
    BY KindsAssumption DEF Actors, OnWorker, Locked, Unlocked
  <2>2. /\ pc[a] \notin InJob /\ Enter(a)
        /\ a \in OnLoop => LoopFree
        /\ UNCHANGED <<turn, mirror, steps, log, stopping>>
    BY <1>1, <1>6 DEF Barge
  <2> QED
    BY <1>2, <2>1, <2>2, EnterBasics
<1>7. ASSUME NEW a \in Stoppers, Shutdown(a)
      PROVE  Basics' /\ (Apart => Apart')
  <2>1. a \in Actors /\ a \notin OnWorker /\ a \notin Requests
    BY KindsAssumption DEF Actors, OnWorker, Locked, Unlocked
  <2>2. /\ pc[a] \notin InJob /\ LoopFree /\ stopping' \in BOOLEAN
        /\ UNCHANGED <<turn, mirror, steps, log>>
    BY <1>1, <1>7 DEF Shutdown
  <2>3. CASE \E r \in Requests: Active(r)
    <3>1. Goto(a, "done") /\ UNCHANGED plan
      BY <1>7, <2>3 DEF Shutdown
    <3> QED
      BY <2>1, <2>2, <3>1, OutsideBasics
  <2>4. CASE ~\E r \in Requests: Active(r)
    <3>1. Enter(a)
      BY <1>7, <2>4 DEF Shutdown
    <3> QED
      BY <1>2, <2>1, <2>2, <2>4, <3>1, EnterBasics
  <2> QED
    BY <2>3, <2>4
<1>8. ASSUME NEW a \in Actors, Work(a) \/ Shred(a)
      PROVE  Basics' /\ (Janitors = {} /\ Apart => Apart')
  BY <1>8, SendBasics, LocalBasics, CloseBasics, ShredBasics DEF Work
<1>9. CASE UNCHANGED vars
  <2>1. \A r \in Requests: Active(r)' = Active(r)
    BY <1>9 DEF vars, Active, InTransaction
  <2>2. Basics'
    BY <1>9, <2>1
       DEF vars, Basics, TypeOK, Laden, Runs, Named, Asking, Bounded, OneJob,
           OneHandler, Sent, Cleared
  <2>3. Apart => Apart'
    BY <1>9 DEF vars, Apart, Heard, Met, Blamed
  <2> QED
    BY <2>2, <2>3
<1> QED
  <2>1. ASSUME NEW r \in Requests, LeaderFails(r)
        PROVE  Basics' /\ (Apart => Apart')
    BY <2>1, LeaderFailsBasics
  <2>2. \A a \in Locked: a \in Actors
    BY DEF Actors
  <2> QED
    BY <1>3, <1>4, <1>5, <1>6, <1>7, <1>8, <1>9, <2>1, <2>2, MirrorBasics
       DEF Next

\* Whoever takes the mutex and whoever does not: who is in a transaction has an
\* operation of its role to send, and the event loop and the worker run one
\* transaction at a time.
THEOREM BasicsHold == Spec => []Basics
<1>1. Init => Basics
  BY InitBasics
<1>2. Basics /\ [Next]_vars => Basics'
  BY NextBasics
<1> QED
  BY <1>1, <1>2, PTL DEF Spec

\* Every variable keeps its type.
THEOREM TypeCorrect == Spec => []TypeOK
<1>1. Basics => TypeOK
  BY DEF Basics
<1> QED
  BY <1>1, BasicsHold, PTL

\* The event loop keeps the handlers apart, those that take the mutex and those
\* that do not: when rank 1 is wedged, one of the other threads is stuck with a
\* word that rank 1 did not expect, or was in the way of a handler's.  The
\* janitor, a thread that does not take the mutex, is left out.
THEOREM HandlersKeptApart ==
  ASSUME Janitors = {}
  PROVE  Spec => []LoopKeepsApart
<1>1. Init => Basics /\ Apart
  BY InitBasics
<1>2. Basics /\ Apart /\ [Next]_vars => Basics' /\ Apart'
  BY NextBasics
<1>3. Apart => LoopKeepsApart
  BY DEF Apart, Blamed, LoopKeepsApart, Threads, InJob, InOp
<1> QED
  BY <1>1, <1>2, <1>3, PTL DEF Spec

\* The shutdown word is broadcast without the mutex and yet meets no request:
\* a handler sends it only when none is active and keeps the event loop busy,
\* a request only as the last job of the worker.
THEOREM ShutdownIsSafe == Spec => ShutdownMeetsNoRequest
<1>1. ASSUME Basics, [Next]_vars, mirror.at # "gone", mirror'.at = "gone",
             NEW r \in Requests
      PROVE  ~InTransaction(r)
  <2>1. mirror' # Waiting("wedged") /\ mirror' # Waiting("size")
    BY <1>1 DEF Waiting
  <2>2. PICK a \in Actors: SendBody(a)
    <3>1. \A a \in Actors: ~SendSize(a) /\ ~Shred(a)
      BY <1>1, <2>1 DEF SendSize, Shred
    <3>2. ~MirrorLocal /\ ~MirrorFails
      BY <1>1 DEF MirrorLocal, MirrorFails, Waiting
    <3>3. \A a \in Actors: ~SendStep(a)
      <4>1. ASSUME NEW a \in Actors, SendStep(a) PROVE FALSE
        <5>1. mirror' \in {mirror, [mirror EXCEPT !.at = "local"]}
          BY <4>1 DEF SendStep
        <5> QED
          BY <1>1, <5>1 DEF Basics, TypeOK
      <4> QED
        BY <4>1
    <3>4. mirror' # mirror
      BY <1>1
    <3> QED
      BY <1>1, <3>1, <3>2, <3>3, <3>4
         DEF Next, Queue, Publish, LeaderFails, Check, TakeTurn, GiveUp, Barge,
             Shutdown, Work, Send, Local, Close, vars, Actors
  <2>3. pc[a] = "body" /\ pc[a] \in InOp /\ pc[a] \in InJob
    BY <2>2 DEF SendBody, InOp, InJob, Words
  <2>4. Op(a) = "shutdown"
    <3>1. SUFFICES ASSUME Op(a) # "shutdown" PROVE FALSE
      OBVIOUS
    <3>2. \/ mirror' = [mirror EXCEPT !.at = "step"]
          \/ mirror' = [mirror EXCEPT !.at = "local"]
      BY <2>2, <3>1 DEF SendBody
    <3> QED
      BY <1>1, <3>2 DEF Basics, TypeOK
  <2>5. plan[a] = <<"shutdown">> /\ a \in Requests \cup Stoppers
    BY <1>1, <2>3, <2>4, Sender
  <2>6. CASE a \in Stoppers
    BY <1>1, <2>3, <2>6 DEF Basics, Cleared, Active
  <2>7. CASE a \in Requests
    <3>1. r # a => pc[r] \notin InJob
      BY <1>1, <2>3, <2>7, Roles DEF Basics, OneJob
    <3> QED
      BY <2>5, <3>1 DEF InTransaction
  <2> QED
    BY <2>5, <2>6, <2>7
<1>2. Basics /\ [Next]_vars =>
        [mirror.at # "gone" /\ mirror'.at = "gone" =>
           \A r \in Requests: ~InTransaction(r)]_vars
  BY <1>1
<1> QED
  BY <1>2, BasicsHold, PTL DEF Spec, ShutdownMeetsNoRequest

-----------------------------------------------------------------------------
(* The SSD tier.  TierInv says of each rank alone that its live cache is    *)
(* what its key says and that its artifacts are what they name (NodeOK),    *)
(* of the request that a rank which has prepared it has the start of the    *)
(* prompt in memory, and of an agreed vote that both have the same length.  *)

LEMMA LeastExists ==
  ASSUME NEW S, S \subseteq Nat, S # {}
  PROVE  \E i \in S: \A j \in S: i <= j
<1>1. PICK i \in S: \A j \in S: ~(<<j, i>> \in OpToRel(<, Nat))
  BY NatLessThanWellFounded, WFMin
<1>2. \A j \in S: i <= j
  <2>1. SUFFICES ASSUME NEW j \in S, j < i PROVE FALSE
    OBVIOUS
  <2>2. <<j, i>> \in OpToRel(<, Nat)
    BY <2>1 DEF OpToRel
  <2> QED
    BY <1>1, <2>2
<1> QED
  BY <1>2

\* Two sequences share what Common counts.
LEMMA CommonIs ==
  ASSUME NEW S, NEW a \in Seq(S), NEW b \in Seq(S)
  PROVE  /\ Common(a, b) \in 0 .. Smaller(Len(a), Len(b))
         /\ \A i \in 1 .. Common(a, b): a[i] = b[i]
<1> DEFINE m == Smaller(Len(a), Len(b))
           Shared(n) == /\ \A i \in 1 .. n: a[i] = b[i]
                        /\ n < m => a[n + 1] # b[n + 1]
           D == {i \in 1 .. m: a[i] # b[i]}
<1>1. m \in Nat
  BY DEF Smaller
<1>2. \E n \in 0 .. m: Shared(n)
  <2> HIDE DEF m
  <2>1. CASE D = {}
    <3>1. \A i \in 1 .. m: a[i] = b[i]
      BY <2>1
    <3>2. m \in 0 .. m /\ Shared(m)
      BY <1>1, <3>1
    <3> QED
      BY <3>2
  <2>2. CASE D # {}
    <3>1. PICK i \in D: \A j \in D: i <= j
      <4>1. D \subseteq Nat
        BY <1>1
      <4> HIDE DEF D
      <4> QED
        BY <2>2, <4>1, LeastExists
    <3>2. i - 1 \in 0 .. m /\ \A k \in 1 .. i - 1: k \in 1 .. m /\ k \notin D
      BY <1>1, <3>1
    <3>3. Shared(i - 1)
      BY <3>1, <3>2
    <3> QED
      BY <3>2, <3>3
  <2> QED
    BY <2>1, <2>2
<1>3. Common(a, b) \in 0 .. m /\ Shared(Common(a, b))
  BY <1>2 DEF Common
<1> QED
  BY <1>3

LEMMA TakeIs ==
  ASSUME NEW S, NEW s \in Seq(S), NEW n \in Int
  PROVE  /\ Take(s, n) \in Seq(S)
         /\ Len(Take(s, n)) = IF n <= 0 THEN 0 ELSE Smaller(n, Len(s))
         /\ \A i \in 1 .. Len(Take(s, n)): Take(s, n)[i] = s[i]
<1> DEFINE k == Smaller(n, Len(s))
<1>1. k \in Int /\ k <= Len(s) /\ k <= n /\ (k = n \/ k = Len(s))
  BY DEF Smaller
<1>2. \A i \in 1 .. k: s[i] \in S
  BY <1>1
<1> HIDE DEF k
<1>3. /\ SubSeq(s, 1, k) \in Seq(S)
      /\ Len(SubSeq(s, 1, k)) = IF 1 <= k THEN k - 1 + 1 ELSE 0
      /\ \A i \in 1 .. k - 1 + 1: SubSeq(s, 1, k)[i] = s[1 + i - 1]
  BY <1>1, <1>2, SubSeqProperties
<1>4. Len(s) \in Nat
  OBVIOUS
<1>5. Take(s, n) = SubSeq(s, 1, k)
  BY DEF Take, k
<1>6. Len(Take(s, n)) = IF n <= 0 THEN 0 ELSE k
  BY <1>1, <1>3, <1>4, <1>5
<1>7. \A i \in 1 .. Len(Take(s, n)): Take(s, n)[i] = s[i]
  BY <1>1, <1>3, <1>4, <1>5
<1> QED
  BY <1>3, <1>5, <1>6, <1>7 DEF k


\* What Newest does to the sessions of an order: the last is s, the others
\* stay.
LEMMA NewestIs ==
  ASSUME NEW S, NEW seq \in Seq(S), NEW s \in S
  PROVE  /\ Newest(seq, s) \in Seq(S) /\ Len(Newest(seq, s)) > 0
         /\ Newest(seq, s)[Len(Newest(seq, s))] = s
         /\ Listed(Newest(seq, s)) = Listed(seq) \cup {s}
<1>0. Len(seq) \in Nat /\ DOMAIN seq = 1 .. Len(seq)
      /\ \A i \in 1 .. Len(seq): seq[i] \in S
  OBVIOUS
<1>1. CASE s \notin Listed(seq)
  <2>1. Newest(seq, s) = Append(seq, s)
    BY <1>1 DEF Newest
  <2> DEFINE t == Append(seq, s)
  <2>2. /\ t \in Seq(S) /\ Len(t) = Len(seq) + 1 /\ t[Len(seq) + 1] = s
        /\ \A i \in 1 .. Len(seq): t[i] = seq[i]
    OBVIOUS
  <2> HIDE DEF t
  <2>3. Listed(t) = Listed(seq) \cup {s}
    <3>1. DOMAIN t = 1 .. (Len(seq) + 1)
      BY <2>2
    <3> QED
      BY <1>0, <2>2, <3>1 DEF Listed
  <2> QED
    BY <1>0, <2>1, <2>2, <2>3 DEF t
<1>2. CASE s \in Listed(seq)
  <2> DEFINE k == CHOOSE i \in DOMAIN seq: seq[i] = s
             u == SubSeq(seq, 1, k - 1)
             v == SubSeq(seq, k + 1, Len(seq))
             t == u \o v \o <<s>>
  <2>1. k \in 1 .. Len(seq) /\ seq[k] = s
    BY <1>0, <1>2 DEF Listed
  <2>2. Newest(seq, s) = t
    BY <1>2 DEF Newest
  <2> HIDE DEF k
  <2>3. /\ \A j \in 1 .. k - 1: seq[j] \in S
        /\ \A j \in k + 1 .. Len(seq): seq[j] \in S
    BY <1>0, <2>1
  <2>4. /\ u \in Seq(S) /\ Len(u) = k - 1
        /\ \A j \in 1 .. k - 1: u[j] = seq[j]
    BY <1>0, <2>1, <2>3, SubSeqProperties
  <2>5. /\ v \in Seq(S) /\ Len(v) = Len(seq) - k
        /\ \A j \in 1 .. Len(seq) - k: v[j] = seq[k + j]
    <3>1. /\ v \in Seq(S)
          /\ Len(v) = IF k + 1 <= Len(seq) THEN Len(seq) - (k + 1) + 1 ELSE 0
          /\ \A j \in 1 .. Len(seq) - (k + 1) + 1: v[j] = seq[(k + 1) + j - 1]
      BY <1>0, <2>1, <2>3, SubSeqProperties
    <3>2. \A j \in 1 .. Len(seq) - k: (k + 1) + j - 1 = k + j
      BY <1>0, <2>1
    <3>3. Len(seq) - (k + 1) + 1 = Len(seq) - k /\ k <= Len(seq) /\ k \in Nat
      BY <1>0, <2>1
    <3> HIDE DEF v
    <3>4. Len(v) = Len(seq) - k
      <4>0. \A l \in Nat: \A j \in 1 .. l: j + 1 <= l \/ j = l
        BY ONLY TRUE
      <4>1. k + 1 <= Len(seq) \/ k = Len(seq)
        BY ONLY <1>0, <2>1, <4>0
      <4>2. CASE k = Len(seq)
        <5>1. ~(k + 1 <= Len(seq)) /\ Len(seq) - k = 0
          BY ONLY <1>0, <4>2
        <5> QED
          BY ONLY <3>1, <5>1
      <4>3. CASE k + 1 <= Len(seq)
        BY ONLY <3>1, <3>3, <4>3
      <4> QED
        BY <4>1, <4>2, <4>3
    <3> QED
      BY <3>1, <3>2, <3>3, <3>4
  <2> HIDE DEF u, v
  <2>6. /\ u \o v \in Seq(S) /\ Len(u \o v) = Len(seq) - 1
        /\ \A j \in 1 .. k - 1: (u \o v)[j] = seq[j]
        /\ \A j \in k .. Len(seq) - 1: (u \o v)[j] = seq[j + 1]
    <3>1. /\ u \o v \in Seq(S) /\ Len(u \o v) = Len(u) + Len(v)
          /\ \A j \in 1 .. Len(u) + Len(v):
               (u \o v)[j] = IF j <= Len(u) THEN u[j] ELSE v[j - Len(u)]
      BY <2>4, <2>5, ConcatProperties
    <3> DEFINE w == u \o v
    <3>2. \A j \in 1 .. Len(seq) - 1:
            w[j] = IF j <= k - 1 THEN u[j] ELSE v[j - (k - 1)]
      <4>1. Len(u) + Len(v) = Len(seq) - 1
        BY <1>0, <2>1, <2>4, <2>5
      <4> QED
        BY <2>4, <3>1, <4>1
    <3>3. w \in Seq(S) /\ Len(w) = Len(seq) - 1
      BY <1>0, <2>1, <2>4, <2>5, <3>1
    <3> HIDE DEF w
    <3>4. \A j \in 1 .. k - 1: w[j] = seq[j]
      BY <1>0, <2>1, <2>4, <3>2
    <3>5. \A j \in k .. Len(seq) - 1: w[j] = seq[j + 1]
      <4> SUFFICES ASSUME NEW j \in k .. Len(seq) - 1 PROVE w[j] = seq[j + 1]
        OBVIOUS
      <4>1. /\ j \in 1 .. Len(seq) - 1 /\ ~(j <= k - 1)
            /\ j - (k - 1) \in 1 .. Len(seq) - k
            /\ k + (j - (k - 1)) = j + 1
        BY <1>0, <2>1
      <4>2. w[j] = v[j - (k - 1)]
        BY <3>2, <4>1
      <4> QED
        BY <2>5, <4>1, <4>2
    <3> QED
      BY <3>3, <3>4, <3>5 DEF w
  <2>7. /\ t \in Seq(S) /\ Len(t) = Len(seq) /\ t[Len(seq)] = s
        /\ \A j \in 1 .. k - 1: t[j] = seq[j]
        /\ \A j \in k .. Len(seq) - 1: t[j] = seq[j + 1]
    <3> DEFINE w == u \o v
    <3>1. /\ w \in Seq(S) /\ Len(w) = Len(seq) - 1
          /\ \A j \in 1 .. k - 1: w[j] = seq[j]
          /\ \A j \in k .. Len(seq) - 1: w[j] = seq[j + 1]
      BY <2>6
    <3>2. t = w \o <<s>>
      OBVIOUS
    <3> HIDE DEF w, t
    <3>3. /\ t \in Seq(S) /\ Len(t) = Len(w) + 1 /\ t[Len(w) + 1] = s
          /\ \A j \in 1 .. Len(w): t[j] = w[j]
      BY <3>1, <3>2
    <3> QED
      BY <1>0, <2>1, <3>1, <3>3
  <2> HIDE DEF t
  <2>8. DOMAIN t = 1 .. Len(seq)
    BY <2>7
  <2>9. Listed(t) = Listed(seq) \cup {s}
    <3>1. ASSUME NEW x \in Listed(t) PROVE x \in Listed(seq)
      <4>1. PICK j \in 1 .. Len(seq): x = t[j]
        BY <2>8 DEF Listed
      <4>2. \/ x = seq[j] \/ x = seq[k]
            \/ x = seq[j + 1] /\ j + 1 \in 1 .. Len(seq)
        BY <1>0, <2>1, <2>7, <4>1
      <4> QED
        BY <1>0, <2>1, <4>2 DEF Listed
    <3>2. ASSUME NEW x \in Listed(seq) PROVE x \in Listed(t)
      <4>1. PICK j \in 1 .. Len(seq): x = seq[j]
        BY <1>0 DEF Listed
      <4>2. CASE j < k
        BY <1>0, <2>1, <2>7, <2>8, <4>1, <4>2 DEF Listed
      <4>3. CASE j = k
        BY <1>0, <2>1, <2>7, <2>8, <4>1, <4>3 DEF Listed
      <4>4. CASE j > k
        <5>1. j - 1 \in k .. Len(seq) - 1 /\ j - 1 \in 1 .. Len(seq)
          BY <1>0, <2>1, <4>4
        <5>2. t[j - 1] = x
          BY <2>7, <4>1, <5>1
        <5> QED
          BY <2>8, <5>1, <5>2 DEF Listed
      <4> QED
        BY <1>0, <2>1, <4>2, <4>3, <4>4
    <3> QED
      BY <1>2, <3>1, <3>2
  <2> QED
    BY <1>0, <2>1, <2>2, <2>7, <2>9
<1> QED
  BY <1>1, <1>2

-----------------------------------------------------------------------------
(* What the directories take.                                               *)

\* Total is the sum, as far as the proofs need it: of nothing and of one.
Sums(size, f) ==
  f = [T \in SUBSET DOMAIN size |->
         IF T = {} THEN 0
         ELSE LET s == CHOOSE s \in T: TRUE IN size[s] + f[T \ {s}]]

LEMMA TotalIs ==
  ASSUME NEW size, \E f: Sums(size, f)
  PROVE  \E f: Sums(size, f) /\ Total(size) = f[DOMAIN size]
<1> DEFINE f == CHOOSE g: Sums(size, g)
<1>1. Sums(size, f)
  OBVIOUS
<1>2. Total(size) = f[DOMAIN size]
  BY DEF Total, Sums
<1> QED
  BY <1>1, <1>2

LEMMA TotalEmpty ==
  ASSUME NEW size, DOMAIN size = {}
  PROVE  Total(size) = 0
<1> DEFINE g == [T \in SUBSET {} |-> 0]
<1>1. g = [T \in SUBSET DOMAIN size |->
             IF T = {} THEN 0
             ELSE LET s == CHOOSE s \in T: TRUE IN size[s] + g[T \ {s}]]
  OBVIOUS
<1>2. Sums(size, g)
  BY <1>1 DEF Sums
<1>3. PICK f: Sums(size, f) /\ Total(size) = f[DOMAIN size]
  <2>1. \E f: Sums(size, f)
    BY <1>2
  <2> QED
    BY <2>1, TotalIs
<1>4. \A T \in SUBSET DOMAIN size: T = {} => f[T] = 0
  BY <1>3 DEF Sums
<1> QED
  BY <1>3, <1>4

LEMMA TotalOne ==
  ASSUME NEW size, NEW x, DOMAIN size = {x}, size[x] \in Nat
  PROVE  Total(size) = size[x]
<1> DEFINE g == [T \in SUBSET {x} |-> IF T = {} THEN 0 ELSE size[x]]
           h == [T \in SUBSET DOMAIN size |->
                   IF T = {} THEN 0
                   ELSE LET s == CHOOSE s \in T: TRUE IN size[s] + g[T \ {s}]]
<1>1. \A T \in SUBSET {x}: T = {} \/ T = {x}
  OBVIOUS
<1>2. (CHOOSE s \in {x}: TRUE) = x
  OBVIOUS
<1>3. g[{}] = 0 /\ {x} \ {x} = {}
  OBVIOUS
<1>4. \A T \in SUBSET {x}: g[T] = h[T]
  <2> SUFFICES ASSUME NEW T \in SUBSET {x} PROVE g[T] = h[T]
    OBVIOUS
  <2>1. CASE T = {}
    BY <2>1
  <2>2. CASE T = {x}
    <3>1. h[T] = size[x] + g[{x} \ {x}]
      BY <1>2, <2>2
    <3>2. g[T] = size[x]
      BY <2>2
    <3> HIDE DEF g, h
    <3> QED
      BY <1>3, <3>1, <3>2
  <2> QED
    BY <1>1, <2>1, <2>2
<1>5. g = h
  BY <1>4
<1>6. Sums(size, g)
  BY <1>5 DEF Sums
<1> HIDE DEF g, h
<1>7. PICK f: Sums(size, f) /\ Total(size) = f[DOMAIN size]
  <2>1. \E f: Sums(size, f)
    BY <1>6
  <2> QED
    BY <2>1, TotalIs
<1>8. f[{}] = 0
  BY <1>7 DEF Sums
<1>9. f[{x}] = size[x] + f[{x} \ {x}]
  <2>1. f = [T \in SUBSET {x} |->
               IF T = {} THEN 0
               ELSE LET s == CHOOSE s \in T: TRUE IN size[s] + f[T \ {s}]]
    BY <1>7 DEF Sums
  <2>2. f[{x}] = LET s == CHOOSE s \in {x}: TRUE IN size[s] + f[{x} \ {s}]
    BY ONLY <2>1
  <2> QED
    BY <1>2, <2>2
<1> QED
  BY <1>3, <1>7, <1>8, <1>9
-----------------------------------------------------------------------------
(* Nodes.                                                                   *)

Nodes == [live: {None} \cup Slots, anchor: [Sessions -> Seq(Nat)],
          cold: BOOLEAN, art: [Sessions -> Artifacts],
          junk: [Sessions -> 0 .. MaxJunk], order: Seq(Sessions), cap: Nat]

\* A key names what the live cache holds, an artifact all that it holds, and
\* a directory that takes any place has one in the order.
Keyed(slot) ==
  /\ slot.ids = <<>> => slot.kv = <<>>
  /\ \A i \in 1 .. Smaller(Len(slot.ids), Len(slot.kv)):
       slot.ids[i] = slot.kv[i]
Sound(n) ==
  /\ n.live # None => Keyed(n.live)
  /\ \A s \in Sessions:
       /\ n.art[s].ids = n.art[s].kv
       /\ Size(n, s) > 0 => s \in Listed(n.order)
NodeOK(n) == n \in Nodes /\ Sound(n)

LEMMA NodesAre ==
  ASSUME NEW n \in Nodes
  PROVE  /\ n.live \in {None} \cup Slots
         /\ n.anchor \in [Sessions -> Seq(Nat)] /\ n.cold \in BOOLEAN
         /\ n.art \in [Sessions -> Artifacts]
         /\ n.junk \in [Sessions -> 0 .. MaxJunk]
         /\ n.order \in Seq(Sessions) /\ n.cap \in Nat
         /\ \A s \in Sessions:
              /\ n.art[s].ids \in Seq(Nat) /\ n.art[s].kv \in Seq(Nat)
              /\ n.junk[s] \in Nat /\ n.junk[s] <= MaxJunk
              /\ Len(n.art[s].kv) \in Nat /\ Size(n, s) \in Nat
<1>0. MaxJunk \in Nat
  BY SsdAssumption DEF SsdAssumption
<1>1. /\ n.live \in {None} \cup Slots
      /\ n.anchor \in [Sessions -> Seq(Nat)] /\ n.cold \in BOOLEAN
      /\ n.art \in [Sessions -> Artifacts]
      /\ n.junk \in [Sessions -> 0 .. MaxJunk]
      /\ n.order \in Seq(Sessions) /\ n.cap \in Nat
  BY DEF Nodes
<1>2. ASSUME NEW s \in Sessions
      PROVE  /\ n.art[s].ids \in Seq(Nat) /\ n.art[s].kv \in Seq(Nat)
             /\ n.junk[s] \in Nat /\ n.junk[s] <= MaxJunk
  <2>1. n.art[s] \in Artifacts /\ n.junk[s] \in 0 .. MaxJunk
    BY <1>1
  <2> QED
    BY <1>0, <2>1 DEF Artifacts
<1>3. ASSUME NEW s \in Sessions
      PROVE  Len(n.art[s].kv) \in Nat /\ Size(n, s) \in Nat
  <2>1. Len(n.art[s].kv) \in Nat
    BY <1>2
  <2> QED
    BY <1>2, <2>1 DEF Size
<1> QED
  BY <1>1, <1>2, <1>3

\* What a kept directory takes counts as before.
LEMMA UsageSame ==
  ASSUME NEW n, NEW m, NEW kept, \A s \in kept: Size(m, s) = Size(n, s)
  PROVE  Usage(m, kept) = Usage(n, kept)
<1>1. [s \in kept |-> Size(m, s)] = [s \in kept |-> Size(n, s)]
  OBVIOUS
<1> QED
  BY <1>1 DEF Usage

LEMMA UsageNone ==
  ASSUME NEW n
  PROVE  Usage(n, {}) = 0
BY TotalEmpty DEF Usage

LEMMA UsageOne ==
  ASSUME NEW n, NEW s, Size(n, s) \in Nat
  PROVE  Usage(n, {s}) = Size(n, s)
<1> DEFINE size == [t \in {s} |-> Size(n, t)]
<1>1. DOMAIN size = {s} /\ size[s] = Size(n, s)
  OBVIOUS
<1> HIDE DEF size
<1>2. Total(size) = size[s]
  BY <1>1, TotalOne
<1> QED
  BY <1>1, <1>2 DEF Usage, size

\* The sessions of a part of an order.
LEMMA PartIs ==
  ASSUME NEW S, NEW seq \in Seq(S), NEW k \in 0 .. Len(seq)
  PROVE  LET part == SubSeq(seq, k + 1, Len(seq))
         IN  /\ part \in Seq(S) /\ Listed(part) \subseteq Listed(seq)
             /\ k = Len(seq) => Listed(part) = {}
             /\ k < Len(seq) => seq[Len(seq)] \in Listed(part)
             /\ k = Len(seq) - 1 => Listed(part) = {seq[Len(seq)]}
<1> DEFINE part == SubSeq(seq, k + 1, Len(seq))
<1>0. Len(seq) \in Nat /\ DOMAIN seq = 1 .. Len(seq) /\ k \in Nat
      /\ k <= Len(seq)
  OBVIOUS
<1>1. \A j \in k + 1 .. Len(seq): seq[j] \in S
  BY <1>0
<1>2. /\ part \in Seq(S)
      /\ Len(part) = IF k + 1 <= Len(seq) THEN Len(seq) - (k + 1) + 1 ELSE 0
      /\ \A j \in 1 .. Len(seq) - (k + 1) + 1: part[j] = seq[(k + 1) + j - 1]
  BY <1>0, <1>1, SubSeqProperties
<1> HIDE DEF part
<1>3. Len(part) = Len(seq) - k
  <2>0. \A l \in Nat: \A j \in 0 .. l: j + 1 <= l \/ j = l
    BY ONLY TRUE
  <2>1. k + 1 <= Len(seq) \/ k = Len(seq)
    BY ONLY <1>0, <2>0, k \in 0 .. Len(seq)
  <2>2. CASE k = Len(seq)
    <3>1. ~(k + 1 <= Len(seq)) /\ Len(seq) - k = 0
      BY ONLY <1>0, <2>2
    <3> QED
      BY ONLY <1>2, <3>1
  <2>3. CASE k + 1 <= Len(seq)
    <3>1. Len(seq) - (k + 1) + 1 = Len(seq) - k
      BY ONLY <1>0
    <3> QED
      BY ONLY <1>2, <2>3, <3>1
  <2> QED
    BY <2>1, <2>2, <2>3
<1>4. \A j \in 1 .. Len(seq) - k: part[j] = seq[k + j]
  <2>1. Len(seq) - (k + 1) + 1 = Len(seq) - k
        /\ \A j \in 1 .. Len(seq) - k: (k + 1) + j - 1 = k + j
    BY ONLY <1>0
  <2> QED
    BY <1>2, <2>1
<1>5. DOMAIN part = 1 .. Len(seq) - k
  BY <1>2, <1>3
<1>6. Listed(part) = {seq[k + j]: j \in 1 .. Len(seq) - k}
  BY <1>4, <1>5 DEF Listed
<1>7. Listed(part) \subseteq Listed(seq)
  <2>1. \A j \in 1 .. Len(seq) - k: k + j \in 1 .. Len(seq)
    BY ONLY <1>0
  <2> QED
    BY <1>0, <1>6, <2>1 DEF Listed
<1>8. k = Len(seq) => Listed(part) = {}
  <2>1. k = Len(seq) => 1 .. Len(seq) - k = {}
    BY ONLY <1>0
  <2> QED
    BY <1>6, <2>1
<1>9. k < Len(seq) => seq[Len(seq)] \in Listed(part)
  <2>1. k < Len(seq) => /\ Len(seq) - k \in 1 .. Len(seq) - k
                        /\ k + (Len(seq) - k) = Len(seq)
    BY ONLY <1>0
  <2> QED
    BY <1>6, <2>1
<1>10. k = Len(seq) - 1 => Listed(part) = {seq[Len(seq)]}
  <2>1. k = Len(seq) - 1 => /\ 1 .. Len(seq) - k = {1} /\ k + 1 = Len(seq)
    BY ONLY <1>0
  <2> QED
    BY <1>6, <2>1
<1> QED
  BY <1>2, <1>7, <1>8, <1>9, <1>10 DEF part

-----------------------------------------------------------------------------
(* What a prune leaves.                                                     *)

\* The nodes after a call keep what the call says nothing of.
LEMMA KeepIs ==
  ASSUME NEW n, NodeOK(n), NEW k \in 0 .. Len(n.order)
  PROVE  LET m == Keep(n, k + 1, Len(n.order))
             kept == Listed(SubSeq(n.order, k + 1, Len(n.order)))
         IN  /\ NodeOK(m) /\ m.live = n.live /\ m.anchor = n.anchor
             /\ m.cold = n.cold /\ m.cap = n.cap /\ Listed(m.order) = kept
             /\ \A s \in kept \cap Sessions: Size(m, s) = Size(n, s)
<1> DEFINE part == SubSeq(n.order, k + 1, Len(n.order))
           m == Keep(n, k + 1, Len(n.order))
<1>1. n \in Nodes /\ Sound(n) /\ MaxJunk \in Nat
  BY SsdAssumption DEF NodeOK, SsdAssumption
<1>2. part \in Seq(Sessions)
  <2>1. n.order \in Seq(Sessions)
    BY <1>1, NodesAre
  <2> QED
    BY <2>1, PartIs
<1>3. /\ m.live = n.live /\ m.anchor = n.anchor /\ m.cold = n.cold
      /\ m.order = part /\ m.cap = n.cap
      /\ m.art = [s \in Sessions |->
                    IF s \in Listed(part) THEN n.art[s] ELSE Absent]
      /\ m.junk = [s \in Sessions |->
                     IF s \in Listed(part) THEN n.junk[s] ELSE 0]
      /\ m \in [live: {m.live}, anchor: {m.anchor}, cold: {m.cold},
                 art: {m.art}, junk: {m.junk}, order: {m.order}, cap: {m.cap}]
  BY <1>1 DEF Keep, Nodes
<1> HIDE DEF m, part
<1>4. Absent \in Artifacts /\ Absent.ids = Absent.kv /\ Len(Absent.kv) = 0
  BY DEF Absent, Artifacts
<1>5. m.art \in [Sessions -> Artifacts] /\ m.junk \in [Sessions -> 0 .. MaxJunk]
  BY <1>1, <1>3, <1>4, NodesAre
<1>6. m \in Nodes
  <2>1. /\ m.live \in {None} \cup Slots
        /\ m.anchor \in [Sessions -> Seq(Nat)] /\ m.cold \in BOOLEAN
        /\ m.order \in Seq(Sessions) /\ m.cap \in Nat
    BY <1>1, <1>2, <1>3, NodesAre
  <2> QED
    BY <1>3, <1>5, <2>1 DEF Nodes
<1>7. \A s \in Sessions: s \in Listed(part) => Size(m, s) = Size(n, s)
  BY <1>3 DEF Size
<1>8. ASSUME NEW s \in Sessions
      PROVE  m.art[s].ids = m.art[s].kv
             /\ (Size(m, s) > 0 => s \in Listed(m.order))
  <2>1. CASE s \in Listed(part)
    BY <1>1, <1>3, <2>1 DEF Sound
  <2>2. CASE s \notin Listed(part)
    <3>1. m.art[s] = Absent /\ m.junk[s] = 0
      BY <1>3, <2>2
    <3> QED
      BY <1>4, <3>1 DEF Size
  <2> QED
    BY <2>1, <2>2
<1>9. Sound(m)
  BY <1>1, <1>3, <1>8 DEF Sound
<1> QED
  BY <1>3, <1>6, <1>7, <1>9 DEF NodeOK, m, part
LEMMA PruneIs ==
  ASSUME NEW n, NodeOK(n), NEW expired \in 0 .. Len(n.order)
  PROVE  LET m == Prune(n, expired)
             last == n.order[Len(n.order)]
         IN  /\ NodeOK(m) /\ m.live = n.live /\ m.anchor = n.anchor
             /\ m.cold = n.cold /\ m.cap = n.cap
             /\ n.cap = 0 \/ Usage(m, Listed(m.order)) <= n.cap
             /\ expired < Len(n.order) =>
                  \/ last \in Listed(m.order) /\ Size(m, last) = Size(n, last)
                  \/ Size(n, last) > n.cap
<1> DEFINE L == Len(n.order)
           Fits(k) == Fitting(n, k + 1, L)
           Least(k) == Fits(k) /\ \A l \in expired .. L: Fits(l) => k <= l
           k == CHOOSE i \in expired .. L: Least(i)
           m == Keep(n, k + 1, L)
           part == SubSeq(n.order, k + 1, L)
           last == n.order[L]
<1>1. n.order \in Seq(Sessions) /\ L \in Nat /\ expired \in Nat
      /\ expired <= L /\ n.cap \in Nat
  <2>1. n.order \in Seq(Sessions) /\ n.cap \in Nat
    BY NodesAre DEF NodeOK
  <2> QED
    BY <2>1
<1>2. Fits(L)
  <2>1. Listed(SubSeq(n.order, L + 1, L)) = {}
    <3>1. L \in 0 .. L
      BY <1>1
    <3> QED
      BY <1>1, <3>1, PartIs
  <2>2. Usage(n, {}) = 0
    BY UsageNone
  <2>3. Usage(n, Listed(SubSeq(n.order, L + 1, L))) <= n.cap
    <3>1. Usage(n, Listed(SubSeq(n.order, L + 1, L))) = 0
      BY ONLY <2>1, <2>2, Zenon
    <3>2. 0 <= n.cap
      BY <1>1
    <3> QED
      BY ONLY <3>1, <3>2, Zenon
  <2>4. Fitting(n, L + 1, L)
    BY ONLY <2>3 DEF Fitting
  <2> QED
    BY <2>4
<1> HIDE DEF Fits
<1>3. \E i \in expired .. L: Least(i)
  <2> DEFINE S == {i \in expired .. L: Fits(i)}
  <2>1. S \subseteq Nat /\ S # {}
    BY <1>1, <1>2
  <2> HIDE DEF S
  <2>2. PICK i \in S: \A j \in S: i <= j
    BY <2>1, LeastExists
  <2> QED
    BY <2>2 DEF S
<1> HIDE DEF Least
<1>4. k \in expired .. L /\ Least(k)
  BY <1>3
<1> HIDE DEF k
<1>5. Prune(n, expired) = Keep(n, 1 + k, L)
  BY DEF Prune, k, Least, Fits, L
<1>6. Prune(n, expired) = m
  <2>1. 1 + k = k + 1
    BY <1>1, <1>4
  <2> QED
    BY <1>5, <2>1
<1>7. k \in 0 .. L
  BY <1>1, <1>4
<1>8. /\ NodeOK(m) /\ m.live = n.live /\ m.anchor = n.anchor
      /\ m.cold = n.cold /\ m.cap = n.cap /\ Listed(m.order) = Listed(part)
      /\ \A s \in Listed(part) \cap Sessions: Size(m, s) = Size(n, s)
  BY <1>7, KeepIs
<1>9. /\ part \in Seq(Sessions) /\ Listed(part) \subseteq Listed(n.order)
      /\ k < L => last \in Listed(part)
      /\ k = L - 1 => Listed(part) = {last}
  BY <1>1, <1>7, PartIs
<1>10. Listed(n.order) \subseteq Sessions
  BY <1>1 DEF Listed
<1> HIDE DEF m, L
<1>11. n.cap = 0 \/ Usage(m, Listed(m.order)) <= n.cap
  <2>1. n.cap = 0 \/ Usage(n, Listed(part)) <= n.cap
    BY <1>4 DEF Least, Fits, Fitting, part
  <2> HIDE DEF part
  <2>2. Usage(m, Listed(part)) = Usage(n, Listed(part))
    <3>1. \A s \in Listed(part): Size(m, s) = Size(n, s)
      BY <1>8, <1>9, <1>10
    <3> QED
      BY <3>1, UsageSame
  <2> QED
    BY <1>8, <2>1, <2>2
<1>12. ASSUME expired < L
       PROVE  \/ last \in Listed(m.order) /\ Size(m, last) = Size(n, last)
              \/ Size(n, last) > n.cap
  <2> HIDE DEF part, last
  <2>1. CASE k < L
    BY <1>8, <1>9, <1>10, <2>1
  <2>2. CASE k = L
    <3>1. L - 1 \in expired .. L /\ L - 1 \in 0 .. L /\ ~(k <= L - 1)
      BY <1>1, <1>12, <2>2
    <3>2. ~Fits(L - 1)
      BY <1>4, <3>1 DEF Least
    <3>3. Listed(SubSeq(n.order, (L - 1) + 1, L)) = {last}
      BY <1>1, <3>1, PartIs DEF last, L
    <3>4. last \in Sessions
      <4>1. L \in 1 .. L
        BY <1>1, <1>12
      <4> QED
        BY <1>1, <4>1 DEF last, L
    <3>5. Size(n, last) \in Nat
      BY <3>4, NodesAre DEF NodeOK
    <3>6. Usage(n, {last}) = Size(n, last)
      BY <3>5, UsageOne
    <3>7. ~(Size(n, last) <= n.cap)
      BY <3>2, <3>3, <3>6 DEF Fits, Fitting
    <3> QED
      BY <1>1, <3>5, <3>7
  <2> QED
    BY <1>1, <1>4, <2>1, <2>2
<1> QED
  BY <1>6, <1>8, <1>11, <1>12 DEF L, last

-----------------------------------------------------------------------------
(* The steps of a save.                                                     *)

\* What a save that has gone through leaves of each cap and of each session
\* whose anchor it has moved.
Fine(n, m) ==
  \A s \in Sessions: m.anchor[s] # n.anchor[s] =>
    /\ m.cap = 0 \/ Usage(m, Listed(m.order)) <= m.cap
    /\ Size(m, s) = 0 => Len(m.anchor[s]) + n.junk[s] > m.cap

LEMMA LiveIs ==
  ASSUME NEW n \in Nodes, n.live # None
  PROVE  /\ n.live \in Slots /\ n.live.sess \in Sessions
         /\ n.live.ids \in Seq(Nat) /\ n.live.kv \in Seq(Nat)
         /\ n.live.tail \in Nat
         /\ Len(n.live.ids) \in Nat /\ Len(n.live.kv) \in Nat
<1>1. n.live \in Slots
  BY NodesAre
<1>2. /\ n.live.sess \in Sessions /\ n.live.tail \in Nat
      /\ n.live.ids \in Seq(Nat) /\ n.live.kv \in Seq(Nat)
  BY <1>1 DEF Slots
<1> QED
  BY <1>1, <1>2

LEMMA SavableIs ==
  ASSUME NEW n, NodeOK(n), Savable(n.live)
  PROVE  n.live # None /\ n.live.ids = n.live.kv /\ Len(n.live.kv) > 0
<1>1. /\ n.live # None /\ n.live.ids # <<>>
      /\ Len(n.live.ids) = Len(n.live.kv)
  BY DEF Savable
<1>2. n.live.ids \in Seq(Nat) /\ n.live.kv \in Seq(Nat)
  BY <1>1, LiveIs DEF NodeOK
<1>3. \A i \in 1 .. Len(n.live.ids): n.live.ids[i] = n.live.kv[i]
  <2>1. Smaller(Len(n.live.ids), Len(n.live.kv)) = Len(n.live.ids)
    BY <1>1 DEF Smaller
  <2> QED
    BY <1>1, <2>1 DEF NodeOK, Sound, Keyed
<1>4. n.live.ids = n.live.kv
  BY <1>1, <1>2, <1>3, SeqEqual
<1>5. Len(n.live.ids) > 0
  BY <1>1, <1>2, EmptySeq
<1> QED
  BY <1>1, <1>4, <1>5

\* A call that writes an artifact or left-overs of a session and nothing else,
\* and so makes it the newest.
Touches(n, m, s, a, j) ==
  /\ m.live = n.live /\ m.anchor = n.anchor /\ m.cold = n.cold
  /\ m.art = [n.art EXCEPT ![s] = a] /\ m.junk = [n.junk EXCEPT ![s] = j]
  /\ m.order = Newest(n.order, s) /\ m.cap = n.cap
  /\ m \in [live: {m.live}, anchor: {m.anchor}, cold: {m.cold},
            art: {m.art}, junk: {m.junk}, order: {m.order}, cap: {m.cap}]

LEMMA TouchesIs ==
  ASSUME NEW n, NodeOK(n), NEW s \in Sessions, NEW a \in Artifacts,
         a.ids = a.kv, NEW j \in 0 .. MaxJunk, NEW m, Touches(n, m, s, a, j)
  PROVE  /\ NodeOK(m) /\ Listed(m.order) = Listed(n.order) \cup {s}
         /\ Len(m.order) > 0 /\ m.order[Len(m.order)] = s
         /\ m.art[s] = a /\ m.junk[s] = j
<1>1. n \in Nodes /\ Sound(n)
  BY DEF NodeOK
<1>2. /\ m.live = n.live /\ m.anchor = n.anchor /\ m.cold = n.cold
      /\ m.junk = [n.junk EXCEPT ![s] = j] /\ m.order = Newest(n.order, s)
      /\ m.cap = n.cap
      /\ m.art = [n.art EXCEPT ![s] = a]
      /\ m \in [live: {m.live}, anchor: {m.anchor}, cold: {m.cold},
                 art: {m.art}, junk: {m.junk}, order: {m.order}, cap: {m.cap}]
  BY DEF Touches
<1>3. /\ m.order \in Seq(Sessions) /\ Len(m.order) > 0
      /\ m.order[Len(m.order)] = s
      /\ Listed(m.order) = Listed(n.order) \cup {s}
  <2> DEFINE o == n.order
  <2>1. o \in Seq(Sessions)
    BY <1>1, NodesAre
  <2>2. m.order = Newest(o, s)
    BY <1>2
  <2> HIDE DEF o
  <2>3. /\ Newest(o, s) \in Seq(Sessions) /\ Len(Newest(o, s)) > 0
        /\ Newest(o, s)[Len(Newest(o, s))] = s
        /\ Listed(Newest(o, s)) = Listed(o) \cup {s}
    BY <2>1, NewestIs
  <2> QED
    BY <2>2, <2>3 DEF o
<1>4. n.art \in [Sessions -> Artifacts] /\ n.junk \in [Sessions -> 0 .. MaxJunk]
  BY <1>1, NodesAre
<1>5. m.art \in [Sessions -> Artifacts]
      /\ \A t \in Sessions: m.art[t] = IF t = s THEN a ELSE n.art[t]
  BY <1>2, <1>4
<1>6. m.junk \in [Sessions -> 0 .. MaxJunk]
      /\ \A t \in Sessions: m.junk[t] = IF t = s THEN j ELSE n.junk[t]
  BY <1>2, <1>4
<1>7. m \in Nodes
  <2>1. /\ m.live \in {None} \cup Slots /\ m.cold \in BOOLEAN
        /\ m.anchor \in [Sessions -> Seq(Nat)] /\ m.cap \in Nat
    BY <1>1, <1>2, NodesAre
  <2> QED
    BY <1>2, <1>3, <1>5, <1>6, <2>1 DEF Nodes
<1>8. ASSUME NEW t \in Sessions
      PROVE  m.art[t].ids = m.art[t].kv
             /\ (Size(m, t) > 0 => t \in Listed(m.order))
  <2>1. CASE t = s
    BY <1>3, <1>5, <2>1
  <2>2. CASE t # s
    <3>1. Size(m, t) = Size(n, t) /\ m.art[t] = n.art[t]
      BY <1>5, <1>6, <2>2 DEF Size
    <3> QED
      BY <1>1, <1>3, <3>1 DEF Sound
  <2> QED
    BY <2>1, <2>2
<1>9. Sound(m)
  BY <1>1, <1>2, <1>8 DEF Sound
<1> QED
  BY <1>3, <1>5, <1>6, <1>7, <1>9 DEF NodeOK

LEMMA WrittenIs ==
  ASSUME NEW n, NodeOK(n), Savable(n.live)
  PROVE  LET m == Written(n)
             s == n.live.sess
         IN  /\ NodeOK(m) /\ m.live = n.live /\ m.anchor = n.anchor
             /\ m.cold = n.cold /\ m.junk = n.junk /\ m.cap = n.cap
             /\ Len(m.order) > 0 /\ m.order[Len(m.order)] = s
             /\ m.art[s].kv = n.live.kv
<1> DEFINE m == Written(n)
           s == n.live.sess
           a == Artifact(n.live)
           j == n.junk[s]
<1>1. n \in Nodes /\ n.live # None /\ n.live.ids = n.live.kv
  BY SavableIs DEF NodeOK
<1>2. s \in Sessions /\ n.live.ids \in Seq(Nat) /\ n.live.kv \in Seq(Nat)
  BY <1>1, LiveIs
<1>3. a \in Artifacts /\ a.ids = a.kv /\ a.kv = n.live.kv
  BY <1>1, <1>2 DEF Artifact, Artifacts
<1>4. n.junk \in [Sessions -> 0 .. MaxJunk]
  BY <1>1, NodesAre
<1>5. j \in 0 .. MaxJunk /\ n.junk = [n.junk EXCEPT ![s] = j]
  BY <1>2, <1>4
<1>6. /\ m.live = n.live /\ m.anchor = n.anchor /\ m.cold = n.cold
      /\ m.junk = n.junk /\ m.order = Newest(n.order, s) /\ m.cap = n.cap
      /\ m.art = [n.art EXCEPT ![s] = a]
      /\ m \in [live: {m.live}, anchor: {m.anchor}, cold: {m.cold},
                 art: {m.art}, junk: {m.junk}, order: {m.order}, cap: {m.cap}]
  BY <1>1 DEF Written, Nodes
<1> HIDE DEF m, s, a, j
<1>7. Touches(n, m, s, a, j)
  BY <1>5, <1>6 DEF Touches
<1>8. /\ NodeOK(m) /\ m.art[s] = a
      /\ Len(m.order) > 0 /\ m.order[Len(m.order)] = s
  BY <1>2, <1>3, <1>5, <1>7, TouchesIs
<1> QED
  BY <1>3, <1>6, <1>8 DEF m, s

LEMMA RemovedIs ==
  ASSUME NEW n, NodeOK(n), n.live # None
  PROVE  LET m == Removed(n)
         IN  NodeOK(m) /\ m.live = n.live /\ m.anchor = n.anchor
<1> DEFINE m == Removed(n)
           s == n.live.sess
           j == n.junk[s]
<1>1. n \in Nodes
  BY DEF NodeOK
<1>2. s \in Sessions
  BY <1>1, LiveIs
<1>3. Absent \in Artifacts /\ Absent.ids = Absent.kv
  BY DEF Absent, Artifacts
<1>4. n.junk \in [Sessions -> 0 .. MaxJunk]
  BY <1>1, NodesAre
<1>5. j \in 0 .. MaxJunk /\ n.junk = [n.junk EXCEPT ![s] = j]
  BY <1>2, <1>4
<1>6. /\ m.live = n.live /\ m.anchor = n.anchor /\ m.cold = n.cold
      /\ m.junk = n.junk /\ m.order = Newest(n.order, s) /\ m.cap = n.cap
      /\ m.art = [n.art EXCEPT ![s] = Absent]
      /\ m \in [live: {m.live}, anchor: {m.anchor}, cold: {m.cold},
                 art: {m.art}, junk: {m.junk}, order: {m.order}, cap: {m.cap}]
  BY <1>1 DEF Removed, Nodes
<1> HIDE DEF m, s, j
<1>7. Touches(n, m, s, Absent, j)
  BY <1>5, <1>6 DEF Touches
<1>8. NodeOK(m)
  BY <1>2, <1>3, <1>5, <1>7, TouchesIs
<1> QED
  BY <1>6, <1>8 DEF m

LEMMA LeftOverIs ==
  ASSUME NEW n, NodeOK(n), n.live # None
  PROVE  NodeOK(LeftOver(n))
<1> DEFINE m == LeftOver(n)
           s == n.live.sess
           a == n.art[s]
           j == Smaller(MaxJunk, n.junk[s] + Len(n.live.kv))
<1>1. n \in Nodes /\ Sound(n)
  BY DEF NodeOK
<1>2. s \in Sessions /\ Len(n.live.kv) \in Nat /\ MaxJunk \in Nat
  BY <1>1, LiveIs, SsdAssumption DEF SsdAssumption
<1>3. n.art \in [Sessions -> Artifacts] /\ n.junk[s] \in Nat
  BY <1>1, <1>2, NodesAre
<1>4. a \in Artifacts /\ a.ids = a.kv /\ n.art = [n.art EXCEPT ![s] = a]
  BY <1>1, <1>2, <1>3 DEF Sound
<1>5. j \in 0 .. MaxJunk
  BY <1>2, <1>3 DEF Smaller
<1>6. /\ m.live = n.live /\ m.anchor = n.anchor /\ m.cold = n.cold
      /\ m.art = n.art /\ m.order = Newest(n.order, s) /\ m.cap = n.cap
      /\ m.junk = [n.junk EXCEPT ![s] = j]
      /\ m \in [live: {m.live}, anchor: {m.anchor}, cold: {m.cold},
                 art: {m.art}, junk: {m.junk}, order: {m.order}, cap: {m.cap}]
  BY <1>1 DEF LeftOver, Nodes
<1> HIDE DEF m, s, a, j
<1>7. Touches(n, m, s, a, j)
  BY <1>4, <1>6 DEF Touches
<1>8. NodeOK(m)
  BY <1>2, <1>4, <1>5, <1>7, TouchesIs
<1> QED
  BY <1>8 DEF m

\* A save, of what is savable.
LEMMA SaveIs ==
  ASSUME NEW n, NodeOK(n), NEW late \in BOOLEAN
  PROVE  NodeOK(Save(n, late)) /\ Fine(n, Save(n, late))
<1>1. CASE ~Savable(n.live)
  <2>1. Save(n, late) = n
    BY <1>1 DEF Save
  <2> QED
    BY <2>1 DEF Fine
<1>2. CASE Savable(n.live)
  <2> DEFINE w == Written(n)
             s == n.live.sess
             v == [w EXCEPT !.anchor[s] = n.live.ids]
             expired == IF late THEN Len(v.order) - 1 ELSE 0
             m == Prune(v, expired)
  <2>1. Save(n, late) = m
    BY <1>2 DEF Save
  <2>2. /\ n \in Nodes /\ n.live # None /\ n.live.ids = n.live.kv
        /\ Len(n.live.kv) > 0
    BY <1>2, SavableIs DEF NodeOK
  <2>3. s \in Sessions /\ n.live.ids \in Seq(Nat)
    BY <2>2, LiveIs
  <2>4. /\ NodeOK(w) /\ w.live = n.live /\ w.anchor = n.anchor
        /\ w.junk = n.junk /\ Len(w.order) > 0 /\ w.order[Len(w.order)] = s
        /\ w.art[s].kv = n.live.kv
    BY <1>2, WrittenIs
  <2> HIDE DEF w, s
  <2>5. /\ v.live = w.live /\ v.cold = w.cold /\ v.art = w.art
        /\ v.junk = w.junk /\ v.order = w.order /\ v.cap = w.cap
        /\ v.anchor = [w.anchor EXCEPT ![s] = n.live.ids]
        /\ v \in [live: {v.live}, anchor: {v.anchor}, cold: {v.cold},
                   art: {v.art}, junk: {v.junk}, order: {v.order}, cap: {v.cap}]
    BY <2>4 DEF NodeOK, Nodes
  <2>6. n.anchor \in [Sessions -> Seq(Nat)]
    BY <2>2, NodesAre
  <2> HIDE DEF v
  <2>7. /\ v.anchor \in [Sessions -> Seq(Nat)] /\ v.anchor[s] = n.live.ids
        /\ \A t \in Sessions: t # s => v.anchor[t] = n.anchor[t]
    BY <2>3, <2>4, <2>5, <2>6
  <2>8. NodeOK(v)
    <3>1. /\ v.live \in {None} \cup Slots /\ v.cold \in BOOLEAN
          /\ v.art \in [Sessions -> Artifacts]
          /\ v.junk \in [Sessions -> 0 .. MaxJunk]
          /\ v.order \in Seq(Sessions) /\ v.cap \in Nat
      BY <2>4, <2>5, NodesAre DEF NodeOK
    <3>2. v \in Nodes
      BY <2>5, <2>7, <3>1 DEF Nodes
    <3>3. \A t \in Sessions: Size(v, t) = Size(w, t)
      BY <2>5 DEF Size
    <3>4. Sound(v)
      BY <2>4, <2>5, <3>3 DEF NodeOK, Sound
    <3> QED
      BY <3>2, <3>4 DEF NodeOK
  <2>9. /\ Len(v.order) \in Nat /\ Len(v.order) > 0
        /\ v.order[Len(v.order)] = s
    <3>1. v.order \in Seq(Sessions)
      BY <2>8, NodesAre DEF NodeOK
    <3> QED
      BY <2>4, <2>5, <3>1
  <2>10. expired \in 0 .. Len(v.order) /\ expired < Len(v.order)
    BY <2>9
  <2> HIDE DEF expired
  <2>11. /\ NodeOK(m) /\ m.anchor = v.anchor
         /\ m.cap = 0 \/ Usage(m, Listed(m.order)) <= m.cap
         /\ \/ s \in Listed(m.order) /\ Size(m, s) = Size(v, s)
            \/ Size(v, s) > m.cap
    BY <2>8, <2>9, <2>10, PruneIs
  <2> HIDE DEF m
  <2>12. Size(v, s) = n.junk[s] + Len(n.live.kv)
    BY <2>4, <2>5 DEF Size
  <2>13. n.junk[s] \in Nat /\ Len(n.live.kv) \in Nat /\ m.cap \in Nat
    BY <2>2, <2>3, <2>11, LiveIs, NodesAre DEF NodeOK
  <2>14. Size(m, s) = 0 => Len(m.anchor[s]) + n.junk[s] > m.cap
    <3>1. Len(m.anchor[s]) = Len(n.live.kv)
      BY <2>2, <2>7, <2>11
    <3>2. Size(m, s) = 0 => Size(v, s) > m.cap
      BY <2>2, <2>11, <2>12, <2>13
    <3>3. Len(n.live.kv) + n.junk[s] = n.junk[s] + Len(n.live.kv)
      BY <2>13
    <3> QED
      BY <2>12, <3>1, <3>2, <3>3
  <2>15. Fine(n, m)
    <3> SUFFICES ASSUME NEW t \in Sessions, m.anchor[t] # n.anchor[t]
                 PROVE  /\ m.cap = 0 \/ Usage(m, Listed(m.order)) <= m.cap
                        /\ Size(m, t) = 0 =>
                             Len(m.anchor[t]) + n.junk[t] > m.cap
      BY DEF Fine
    <3>1. t = s
      BY <2>7, <2>11
    <3> QED
      BY <2>11, <2>14, <3>1
  <2> QED
    BY <2>1, <2>11, <2>15
<1> QED
  BY <1>1, <1>2
-----------------------------------------------------------------------------
(* The steps of a request.                                                  *)

\* A call that changes nothing that a save looks at, or leaves on the disk.
SameDisk(n, m) ==
  /\ m.anchor = n.anchor /\ m.art = n.art /\ m.junk = n.junk
  /\ Listed(m.order) = Listed(n.order) /\ m.cap = n.cap

LEMMA FineThenSame ==
  ASSUME NEW n, NEW m, NEW k, Fine(n, m), SameDisk(m, k)
  PROVE  Fine(n, k)
<1>1. \A s: Size(k, s) = Size(m, s)
  BY DEF SameDisk, Size
<1>2. Usage(k, Listed(m.order)) = Usage(m, Listed(m.order))
  BY <1>1, UsageSame
<1> SUFFICES ASSUME NEW s \in Sessions, k.anchor[s] # n.anchor[s]
             PROVE  /\ k.cap = 0 \/ Usage(k, Listed(k.order)) <= k.cap
                    /\ Size(k, s) = 0 => Len(k.anchor[s]) + n.junk[s] > k.cap
  BY DEF Fine
<1>3. /\ k.anchor = m.anchor /\ Listed(k.order) = Listed(m.order)
      /\ k.cap = m.cap
  BY DEF SameDisk
<1>4. /\ m.cap = 0 \/ Usage(m, Listed(m.order)) <= m.cap
      /\ Size(m, s) = 0 => Len(m.anchor[s]) + n.junk[s] > m.cap
  BY <1>3 DEF Fine
<1> QED
  BY <1>1, <1>2, <1>3, <1>4

LEMMA SameThenFine ==
  ASSUME NEW n, NEW m, NEW k, SameDisk(n, m), Fine(m, k)
  PROVE  Fine(n, k)
BY DEF SameDisk, Fine

LEMMA SameIsFine ==
  ASSUME NEW n, NEW m, SameDisk(n, m)
  PROVE  Fine(n, m)
BY DEF SameDisk, Fine

\* A call that changes the slot or the vote's mark and nothing on the disk.
Remembers(n, m, slot) ==
  /\ m.live = slot /\ m.cold \in BOOLEAN
  /\ m.anchor = n.anchor /\ m.art = n.art /\ m.junk = n.junk
  /\ m.order = n.order /\ m.cap = n.cap
  /\ m \in [live: {m.live}, anchor: {m.anchor}, cold: {m.cold},
            art: {m.art}, junk: {m.junk}, order: {m.order}, cap: {m.cap}]

LEMMA RemembersIs ==
  ASSUME NEW n, NodeOK(n), NEW slot, slot \in {None} \cup Slots,
         slot # None => Keyed(slot), NEW m, Remembers(n, m, slot)
  PROVE  NodeOK(m) /\ SameDisk(n, m)
<1>1. n \in Nodes /\ Sound(n)
  BY DEF NodeOK
<1>2. /\ m.anchor \in [Sessions -> Seq(Nat)]
      /\ m.art \in [Sessions -> Artifacts]
      /\ m.junk \in [Sessions -> 0 .. MaxJunk]
      /\ m.order \in Seq(Sessions) /\ m.cap \in Nat
  BY <1>1, NodesAre DEF Remembers
<1>3. m \in Nodes
  BY <1>2 DEF Remembers, Nodes
<1>4. \A s: Size(m, s) = Size(n, s)
  BY DEF Remembers, Size
<1>5. Sound(m)
  BY <1>1, <1>4 DEF Remembers, Sound
<1> QED
  BY <1>3, <1>5 DEF NodeOK, SameDisk, Remembers

LEMMA SlotIs ==
  ASSUME NEW sess \in Sessions, NEW ids \in Seq(Nat), NEW kv \in Seq(Nat),
         NEW tail \in Nat
  PROVE  LET slot == Slot(sess, ids, kv, tail)
         IN  /\ slot \in Slots /\ slot.sess = sess /\ slot.ids = ids
             /\ slot.kv = kv /\ slot.tail = tail
BY DEF Slot, Slots

LEMMA CheckpointIs ==
  ASSUME NEW n, NodeOK(n), n.live # None
  PROVE  NodeOK(Checkpoint(n)) /\ SameDisk(n, Checkpoint(n))
<1> DEFINE slot == n.live
           new == Slot(slot.sess, slot.ids, Take(slot.kv, Len(slot.ids)), 0)
           m == [n EXCEPT !.live.kv = Take(@, Len(slot.ids)), !.live.tail = 0]
<1>1. CASE Checkpoint(n) = n
  BY <1>1 DEF SameDisk
<1>2. CASE Checkpoint(n) # n
  <2>1. Checkpoint(n) = m /\ slot.ids # <<>>
    BY <1>2 DEF Checkpoint
  <2>2. /\ n \in Nodes /\ slot \in Slots /\ slot.sess \in Sessions
        /\ slot.ids \in Seq(Nat) /\ slot.kv \in Seq(Nat)
        /\ Len(slot.ids) \in Nat /\ Len(slot.kv) \in Nat
    BY LiveIs DEF NodeOK
  <2> DEFINE kv == Take(slot.kv, Len(slot.ids))
  <2>3. /\ kv \in Seq(Nat) /\ Len(kv) \in Nat /\ Len(kv) <= Len(slot.kv)
        /\ \A i \in 1 .. Len(kv): kv[i] = slot.kv[i]
    <3> DEFINE all == slot.kv
               few == Len(slot.ids)
    <3>1. all \in Seq(Nat) /\ few \in Nat /\ Len(all) \in Nat
          /\ kv = Take(all, few)
      BY <2>2
    <3> HIDE DEF kv, all, few
    <3>2. /\ Take(all, few) \in Seq(Nat)
          /\ Len(Take(all, few)) = IF few <= 0 THEN 0
                                  ELSE Smaller(few, Len(all))
          /\ \A i \in 1 .. Len(Take(all, few)): Take(all, few)[i] = all[i]
      <4>1. few \in Int
        BY <3>1
      <4> QED
        BY <3>1, <4>1, TakeIs
    <3>3. /\ kv \in Seq(Nat) /\ Len(kv) \in Nat /\ Len(kv) <= Len(all)
          /\ \A i \in 1 .. Len(kv): kv[i] = all[i]
      BY <3>1, <3>2 DEF Smaller
    <3> QED
      BY <3>3 DEF all
  <2>4. m.live = new
    <3>1. m.live = [n.live EXCEPT !.kv = Take(@, Len(slot.ids)), !.tail = 0]
      BY <2>2 DEF Nodes
    <3> QED
      BY <2>2, <3>1 DEF Slot, Slots
  <2>5. Remembers(n, m, new)
    <3>1. /\ m.cold = n.cold /\ m.anchor = n.anchor /\ m.art = n.art
          /\ m.junk = n.junk /\ m.order = n.order /\ m.cap = n.cap
          /\ m \in [live: {m.live}, anchor: {m.anchor}, cold: {m.cold},
                    art: {m.art}, junk: {m.junk}, order: {m.order}, cap: {m.cap}]
      BY <2>2 DEF Nodes
    <3>2. n.cold \in BOOLEAN
      BY <2>2, NodesAre
    <3> HIDE DEF m, new
    <3> QED
      BY <2>4, <3>1, <3>2 DEF Remembers
  <2> HIDE DEF kv
  <2>6. /\ new \in Slots /\ new.ids = slot.ids /\ new.kv = kv
    BY <2>2, <2>3, SlotIs DEF kv
  <2> HIDE DEF m, new
  <2>7. Keyed(new)
    <3>1. \A i \in 1 .. Smaller(Len(slot.ids), Len(slot.kv)):
            slot.ids[i] = slot.kv[i]
      BY DEF NodeOK, Sound, Keyed
    <3>2. \A i \in 1 .. Smaller(Len(slot.ids), Len(kv)):
            /\ i \in 1 .. Smaller(Len(slot.ids), Len(slot.kv))
            /\ i \in 1 .. Len(kv)
      BY <2>2, <2>3 DEF Smaller
    <3> HIDE DEF slot
    <3>3. \A i \in 1 .. Smaller(Len(slot.ids), Len(kv)): slot.ids[i] = kv[i]
      BY <2>3, <3>1, <3>2
    <3> QED
      BY <2>1, <2>6, <3>3 DEF Keyed
  <2> QED
    BY <2>1, <2>5, <2>6, <2>7, RemembersIs
<1> QED
  BY <1>1, <1>2

LEMMA AutosaveIs ==
  ASSUME NEW n, NodeOK(n), NEW late \in BOOLEAN
  PROVE  NodeOK(Autosave(n, late)) /\ Fine(n, Autosave(n, late))
<1>1. CASE Wanted(n)
  <2> DEFINE m == Checkpoint(n)
  <2>1. Autosave(n, late) = Save(m, late) /\ n.live # None
    BY <1>1 DEF Autosave, Wanted
  <2>2. NodeOK(m) /\ SameDisk(n, m)
    BY <2>1, CheckpointIs
  <2> HIDE DEF m
  <2>3. NodeOK(Save(m, late)) /\ Fine(m, Save(m, late))
    BY <2>2, SaveIs
  <2> QED
    BY <2>1, <2>2, <2>3, SameThenFine
<1>2. CASE ~Wanted(n)
  BY <1>2 DEF Autosave, Fine
<1> QED
  BY <1>1, <1>2

LEMMA OutgoingIs ==
  ASSUME NEW n, NodeOK(n), NEW p
  PROVE  NodeOK(Outgoing(n, p)) /\ Fine(n, Outgoing(n, p))
<1> DEFINE v == Autosave(n, FALSE)
           m == [v EXCEPT !.live = None]
<1>1. NodeOK(v) /\ Fine(n, v)
  BY AutosaveIs
<1>2. Remembers(v, m, None)
  <2> HIDE DEF v
  <2>1. v \in Nodes /\ v.cold \in BOOLEAN
    BY <1>1, NodesAre DEF NodeOK
  <2> QED
    BY <2>1 DEF Remembers, Nodes
<1> HIDE DEF m, v
<1>3. NodeOK(m) /\ SameDisk(v, m)
  BY <1>1, <1>2, RemembersIs
<1>4. Fine(n, m)
  BY <1>1, <1>3, FineThenSame
<1>5. Outgoing(n, p) = n \/ Outgoing(n, p) = m
  BY DEF Outgoing, m, v
<1>6. Fine(n, n)
  BY DEF Fine
<1> QED
  BY <1>3, <1>4, <1>5, <1>6

\* What a rank prefills on: the start of the prompt.
Start(slot, p) == slot \in Slots /\ slot.kv = Take(p.ids, Len(slot.kv))

LEMMA PromptIs ==
  ASSUME NEW p \in Prompts
  PROVE  /\ p.sess \in Sessions /\ p.ids \in Seq(Nat) /\ p.full \in BOOLEAN
         /\ Len(p.ids) \in Nat /\ Len(p.ids) > 0
<1>1. /\ p \in [sess: Sessions, ids: Seq(Nat), full: BOOLEAN]
      /\ p.ids # <<>>
  BY SsdAssumption DEF SsdAssumption
<1>2. p.sess \in Sessions /\ p.ids \in Seq(Nat) /\ p.full \in BOOLEAN
  BY <1>1
<1>3. Len(p.ids) \in Nat /\ Len(p.ids) > 0
  BY <1>1, <1>2, EmptySeq
<1> QED
  BY <1>2, <1>3

LEMMA FreshIs ==
  ASSUME NEW p \in Prompts
  PROVE  Start(Fresh(p.sess), p) /\ Keyed(Fresh(p.sess))
<1>1. <<>> \in Seq(Nat) /\ Len(<<>>) = 0
  BY EmptySeq
<1>2. /\ Fresh(p.sess) \in Slots /\ Fresh(p.sess).ids = <<>>
      /\ Fresh(p.sess).kv = <<>>
  <2>1. p.sess \in Sessions /\ 0 \in Nat
    BY PromptIs
  <2> DEFINE s == p.sess
             slot == Slot(s, <<>>, <<>>, 0)
  <2>2. slot \in Slots /\ slot.ids = <<>> /\ slot.kv = <<>>
    <3> HIDE DEF s
    <3>1. s \in Sessions
      BY <2>1 DEF s
    <3> QED
      BY <1>1, <2>1, <3>1 DEF Slot, Slots
  <2> QED
    BY <2>2 DEF Fresh
<1>3. Take(p.ids, 0) = <<>>
  <2>1. Take(p.ids, 0) \in Seq(Nat) /\ Len(Take(p.ids, 0)) = 0
    BY PromptIs, TakeIs
  <2> QED
    BY <2>1, EmptySeq
<1>4. Keyed(Fresh(p.sess))
  BY <1>1, <1>2 DEF Keyed, Smaller
<1> QED
  BY <1>1, <1>2, <1>3, <1>4 DEF Start
\* The start of a sequence that is not longer than it.
LEMMA TakeShort ==
  ASSUME NEW S, NEW s \in Seq(S), NEW n \in Nat, n <= Len(s)
  PROVE  /\ Take(s, n) \in Seq(S) /\ Len(Take(s, n)) = n
         /\ \A i \in 1 .. n: Take(s, n)[i] = s[i]
<1>1. Len(s) \in Nat /\ n \in Int
  OBVIOUS
<1>2. /\ Take(s, n) \in Seq(S)
      /\ Len(Take(s, n)) = IF n <= 0 THEN 0 ELSE Smaller(n, Len(s))
      /\ \A i \in 1 .. Len(Take(s, n)): Take(s, n)[i] = s[i]
  BY <1>1, TakeIs
<1>3. Smaller(n, Len(s)) = n
  BY <1>1 DEF Smaller
<1>4. Len(Take(s, n)) = n
  <2>1. n <= 0 => n = 0
    OBVIOUS
  <2> QED
    BY ONLY <1>2, <1>3, <2>1
<1> QED
  BY <1>2, <1>4

LEMMA ContinuedIs ==
  ASSUME NEW n, NodeOK(n), n.live \in Slots, Keyed(n.live), NEW p \in Prompts
  PROVE  LET m == Continued(n, p)
         IN  NodeOK(m) /\ SameDisk(n, m) /\ Start(m.live, p)
<1> DEFINE ids == n.live.ids
           kv == n.live.kv
           q == p.ids
           reuse == Common(ids, q)
           final == IF reuse = Len(q) /\ reuse > MinReuse THEN reuse - 1
                    ELSE reuse
           some == Take(kv, final)
           new == Slot(n.live.sess, ids, some, n.live.tail)
           m == Continued(n, p)
<1>1. n \in Nodes /\ n.cold \in BOOLEAN
  BY NodesAre DEF NodeOK
<1>2. /\ ids \in Seq(Nat) /\ kv \in Seq(Nat) /\ n.live.sess \in Sessions
      /\ n.live.tail \in Nat
  BY DEF Slots
<1>3. q \in Seq(Nat)
  BY PromptIs
<1>4. CASE Len(kv) < reuse
  <2>1. m = [n EXCEPT !.live = Fresh(p.sess)]
    BY <1>4 DEF Continued
  <2>2. Remembers(n, m, Fresh(p.sess))
    BY <1>1, <2>1 DEF Remembers, Nodes
  <2>3. /\ Fresh(p.sess) \in Slots /\ Keyed(Fresh(p.sess))
        /\ Start(Fresh(p.sess), p) /\ m.live = Fresh(p.sess)
    BY <2>2, FreshIs DEF Start, Remembers
  <2> HIDE DEF m
  <2>4. NodeOK(m) /\ SameDisk(n, m)
    BY <2>2, <2>3, RemembersIs
  <2> QED
    BY <2>3, <2>4 DEF m
<1>5. CASE ~(Len(kv) < reuse)
  <2>1. m = [n EXCEPT !.live.kv = some]
    BY <1>5 DEF Continued
  <2>2. Remembers(n, m, new)
    <3>1. m.live = new
      <4>1. m.live = [n.live EXCEPT !.kv = some]
        BY <1>1, <2>1 DEF Nodes
      <4> HIDE DEF some, m
      <4> QED
        BY <4>1 DEF Slot, Slots
    <3>2. /\ m.cold = n.cold /\ m.anchor = n.anchor /\ m.art = n.art
          /\ m.junk = n.junk /\ m.order = n.order /\ m.cap = n.cap
          /\ m \in [live: {m.live}, anchor: {m.anchor}, cold: {m.cold},
                    art: {m.art}, junk: {m.junk}, order: {m.order}, cap: {m.cap}]
      BY <1>1, <2>1 DEF Nodes
    <3> HIDE DEF m, new
    <3> QED
      BY <1>1, <3>1, <3>2 DEF Remembers
  <2> HIDE DEF ids, kv, q
  <2>3. Len(ids) \in Nat /\ Len(kv) \in Nat /\ Len(q) \in Nat
        /\ MinReuse \in Nat
    <3>1. MinReuse \in Nat
      BY SsdAssumption DEF SsdAssumption
    <3> QED
      BY <1>2, <1>3, <3>1
  <2>4. /\ reuse \in 0 .. Smaller(Len(ids), Len(q))
        /\ \A i \in 1 .. reuse: ids[i] = q[i]
    BY <1>2, <1>3, CommonIs
  <2>5. /\ reuse \in Nat /\ reuse <= Len(ids) /\ reuse <= Len(q)
        /\ reuse <= Len(kv)
    <3> HIDE DEF reuse
    <3> QED
      BY <1>5, <2>3, <2>4 DEF Smaller
  <2> HIDE DEF reuse
  <2>6. final \in Nat /\ final <= reuse
    BY <2>3, <2>5
  <2> HIDE DEF final
  <2>7. /\ some \in Seq(Nat) /\ Len(some) = final
        /\ \A i \in 1 .. final: some[i] = kv[i]
    <3>1. final <= Len(kv)
      BY <2>3, <2>5, <2>6
    <3> QED
      BY <1>2, <2>6, <3>1, TakeShort
  <2> HIDE DEF some
  <2>8. /\ new \in Slots /\ new.ids = ids /\ new.kv = some
    BY <1>2, <2>7, SlotIs DEF ids
  <2> HIDE DEF new, m
  <2>9. /\ ids = <<>> => kv = <<>>
        /\ \A i \in 1 .. Smaller(Len(ids), Len(kv)): ids[i] = kv[i]
    BY DEF Keyed, ids, kv
  <2>10. \A i \in 1 .. final:
           /\ i \in 1 .. reuse /\ i \in 1 .. Smaller(Len(ids), Len(kv))
    BY <2>3, <2>5, <2>6 DEF Smaller
  <2>11. \A i \in 1 .. final: some[i] = ids[i] /\ some[i] = q[i]
    BY <2>4, <2>7, <2>9, <2>10
  <2>12. Keyed(new)
    <3>1. \A i \in 1 .. Smaller(Len(ids), Len(some)): i \in 1 .. final
      BY <2>3, <2>5, <2>6, <2>7 DEF Smaller
    <3>2. \A i \in 1 .. Smaller(Len(ids), Len(some)): ids[i] = some[i]
      BY <2>11, <3>1
    <3>3. ids = <<>> => some = <<>>
      <4>1. ids = <<>> => Len(ids) = 0
        BY EmptySeq
      <4>2. Len(ids) = 0 => Len(some) = 0
        BY <2>3, <2>5, <2>6, <2>7
      <4>3. Len(some) = 0 => some = <<>>
        BY <2>7, EmptySeq
      <4> QED
        BY <4>1, <4>2, <4>3
    <3> QED
      BY <2>8, <3>2, <3>3 DEF Keyed
  <2>13. some = Take(q, Len(some))
    <3>1. /\ Take(q, final) \in Seq(Nat) /\ Len(Take(q, final)) = final
          /\ \A i \in 1 .. final: Take(q, final)[i] = q[i]
      <4>1. final <= Len(q)
        BY <2>3, <2>5, <2>6
      <4> QED
        BY <1>3, <2>6, <4>1, TakeShort
    <3> DEFINE t == Take(q, final)
    <3>2. /\ t \in Seq(Nat) /\ Len(some) = Len(t)
          /\ \A i \in 1 .. Len(some): some[i] = t[i]
      BY <2>7, <2>11, <3>1
    <3> HIDE DEF t
    <3>3. some = t
      BY <2>7, <3>2, SeqEqual
    <3> QED
      BY <2>7, <3>3 DEF t
  <2>14. Start(m.live, p)
    BY <2>2, <2>8, <2>13 DEF Start, Remembers, q
  <2>15. NodeOK(m) /\ SameDisk(n, m)
    BY <2>2, <2>8, <2>12, RemembersIs
  <2> QED
    BY <2>14, <2>15 DEF m
<1> QED
  BY <1>4, <1>5

LEMMA RestoredIs ==
  ASSUME NEW n, NodeOK(n), NEW p \in Prompts, Loadable(n, p)
  PROVE  LET m == Restored(n, p)
         IN  /\ NodeOK(m) /\ SameDisk(n, m)
             /\ m.live \in Slots /\ Keyed(m.live)
<1> DEFINE s == p.sess
           a == n.art[s]
           reuse == Common(a.ids, p.ids)
           some == Take(a.kv, reuse)
           new == Slot(s, some, some, 0)
           v == [n EXCEPT !.live = new]
           m == [n EXCEPT !.live = new, !.order = Newest(@, s)]
           j == n.junk[s]
<1>1. /\ n \in Nodes /\ Sound(n) /\ s \in Sessions /\ p.ids \in Seq(Nat)
      /\ n.cold \in BOOLEAN
  BY PromptIs, NodesAre DEF NodeOK
<1>2. a.ids \in Seq(Nat) /\ a.kv \in Seq(Nat) /\ a.ids = a.kv
  BY <1>1, NodesAre DEF Sound
<1>3. Restored(n, p) = m
  BY <1>2 DEF Restored
<1>4. s \in Listed(n.order)
  <2>1. a \in Artifacts /\ a # Absent
    BY <1>1, NodesAre DEF Loadable
  <2>2. a.kv # <<>>
    BY <1>2, <2>1 DEF Artifacts, Absent
  <2>3. Len(a.kv) \in Nat /\ Len(a.kv) > 0
    BY <1>2, <2>2, EmptySeq
  <2>4. n.junk[s] \in Nat
    BY <1>1, NodesAre
  <2>5. Size(n, s) > 0
    BY <2>3, <2>4 DEF Size
  <2> QED
    BY <1>1, <2>5 DEF Sound
<1>5. some \in Seq(Nat)
  <2> DEFINE b == a.kv
  <2>1. b \in Seq(Nat) /\ reuse \in Int
    <3>1. Common(a.ids, p.ids) \in 0 .. Smaller(Len(a.ids), Len(p.ids))
      BY <1>1, <1>2, CommonIs
    <3>2. Smaller(Len(a.ids), Len(p.ids)) \in Nat
      BY <1>1, <1>2 DEF Smaller
    <3> QED
      BY <1>2, <3>1, <3>2
  <2> HIDE DEF b, reuse
  <2>2. Take(b, reuse) \in Seq(Nat)
    BY <2>1, TakeIs
  <2> QED
    BY <2>2 DEF b
<1> HIDE DEF some
<1>6. new \in Slots /\ new.ids = some /\ new.kv = some
  BY <1>1, <1>5, SlotIs
<1> HIDE DEF new
<1>7. Keyed(new)
  BY <1>6 DEF Keyed
<1>8. Remembers(n, v, new)
  BY <1>1 DEF Remembers, Nodes
<1>9. NodeOK(v)
  <2> HIDE DEF v
  <2> QED
    BY <1>6, <1>7, <1>8, RemembersIs
<1>10. /\ m.live = v.live /\ m.anchor = v.anchor /\ m.cold = v.cold
       /\ m.art = n.art /\ m.junk = n.junk /\ m.order = Newest(n.order, s)
       /\ v.art = n.art /\ v.junk = n.junk /\ v.order = n.order
       /\ m.live = new /\ m.anchor = n.anchor
       /\ m.cap = n.cap /\ v.cap = n.cap
       /\ m \in [live: {m.live}, anchor: {m.anchor}, cold: {m.cold},
                 art: {m.art}, junk: {m.junk}, order: {m.order}, cap: {m.cap}]
  BY <1>1 DEF Nodes
<1>11. /\ a \in Artifacts /\ n.art = [n.art EXCEPT ![s] = a]
       /\ j \in 0 .. MaxJunk /\ n.junk = [n.junk EXCEPT ![s] = j]
  <2>1. /\ n.art \in [Sessions -> Artifacts]
        /\ n.junk \in [Sessions -> 0 .. MaxJunk]
    BY <1>1, NodesAre
  <2> QED
    BY <1>1, <2>1
<1> HIDE DEF m, v, j, a, s
<1>12. Touches(v, m, s, a, j)
  BY <1>10, <1>11 DEF Touches
<1>13. NodeOK(m) /\ Listed(m.order) = Listed(v.order) \cup {s}
  <2>1. s \in Sessions /\ a \in Artifacts /\ j \in 0 .. MaxJunk
    BY <1>1, <1>11
  <2>2. a.ids = a.kv
    BY <1>2
  <2> QED
    BY ONLY <1>9, <1>12, <2>1, <2>2, TouchesIs
<1>14. SameDisk(n, m)
  BY <1>4, <1>10, <1>13 DEF SameDisk
<1> QED
  BY <1>3, <1>6, <1>7, <1>10, <1>13, <1>14

LEMMA PreparedIs ==
  ASSUME NEW n, NodeOK(n), NEW p \in Prompts
  PROVE  LET m == Prepared(n, p)
         IN  NodeOK(m) /\ SameDisk(n, m) /\ Start(m.live, p)
<1> DEFINE empty == n.live = None \/ n.live.ids = <<>>
           low == empty \/ Common(n.live.ids, p.ids) < MinReuse
           load == ~ColdOnce(n, p) /\ Loadable(n, p)
           next == TakeCold(n, p)
           fresh == [next EXCEPT !.live = Fresh(p.sess)]
<1>1. n \in Nodes /\ n.cold \in BOOLEAN
  BY NodesAre DEF NodeOK
<1>2. CASE ~low
  <2>1. Prepared(n, p) = Continued(n, p)
    BY <1>2 DEF Prepared
  <2>2. n.live # None
    BY <1>2
  <2>3. n.live \in Slots /\ Keyed(n.live)
    BY <2>2, LiveIs DEF NodeOK, Sound
  <2> QED
    BY <2>1, <2>3, ContinuedIs
<1>3. CASE low /\ load
  <2> DEFINE v == Restored(n, p)
  <2>1. Prepared(n, p) = Continued(v, p)
    BY <1>3 DEF Prepared
  <2>2. NodeOK(v) /\ SameDisk(n, v) /\ v.live \in Slots /\ Keyed(v.live)
    BY <1>3, RestoredIs
  <2> HIDE DEF v
  <2>3. /\ NodeOK(Continued(v, p)) /\ SameDisk(v, Continued(v, p))
        /\ Start(Continued(v, p).live, p)
    BY <2>2, ContinuedIs
  <2>4. SameDisk(n, Continued(v, p))
    BY <2>2, <2>3 DEF SameDisk
  <2> QED
    BY <2>1, <2>3, <2>4
<1>4. CASE low /\ ~load
  <2>1. ~(empty /\ n.live # None /\ n.live.kv # <<>>)
    BY DEF NodeOK, Sound, Keyed
  <2>2. Prepared(n, p) = fresh
    BY <1>4, <2>1 DEF Prepared
  <2>3. Remembers(n, fresh, Fresh(p.sess))
    BY <1>1 DEF Remembers, Nodes, TakeCold
  <2>4. /\ Fresh(p.sess) \in Slots /\ Keyed(Fresh(p.sess))
        /\ Start(Fresh(p.sess), p)
    BY FreshIs DEF Start
  <2> HIDE DEF fresh
  <2>5. NodeOK(fresh) /\ SameDisk(n, fresh)
    BY <2>3, <2>4, RemembersIs
  <2>6. fresh.live = Fresh(p.sess)
    BY <2>3 DEF Remembers
  <2> QED
    BY <2>2, <2>4, <2>5, <2>6
<1> QED
  BY <1>2, <1>3, <1>4
LEMMA UpdatedIs ==
  ASSUME NEW r \in Ranks, NodeOK(Node(r)), req \in Prompts,
         NEW full \in BOOLEAN, NEW lost \in {0, 1}
  PROVE  LET m == Updated(r, full, lost)
         IN  NodeOK(m) /\ SameDisk(Node(r), m)
<1> DEFINE n == Node(r)
           ids == req.ids
           kv == ids \o Answer
           some == Take(kv, Len(kv) - lost)
           key == IF full THEN some ELSE ids
           tail == IF full THEN 0 ELSE Len(Answer) - lost
           new == Slot(req.sess, key, kv, tail)
           m == [n EXCEPT !.live = new]
<1>1. CASE live[r] = None
  BY <1>1 DEF Updated, SameDisk
<1>2. CASE live[r] # None
  <2>1. Updated(r, full, lost) = m
    BY <1>2 DEF Updated
  <2>2. /\ ids \in Seq(Nat) /\ Len(ids) \in Nat /\ Len(ids) > 0
        /\ req.sess \in Sessions
    BY PromptIs
  <2>3. Answer \in Seq(Nat) /\ Len(Answer) \in Nat /\ Len(Answer) > 0
    BY SsdAssumption, EmptySeq DEF SsdAssumption
  <2>4. n \in Nodes /\ n.cold \in BOOLEAN
    BY NodesAre DEF NodeOK
  <2>5. Remembers(n, m, new)
    <3> HIDE DEF n, new
    <3> QED
      BY <2>4 DEF Remembers, Nodes
  <2> HIDE DEF n, m, ids
  <2>6. /\ kv \in Seq(Nat) /\ Len(kv) = Len(ids) + Len(Answer)
        /\ \A i \in 1 .. Len(ids): kv[i] = ids[i]
    BY <2>2, <2>3, ConcatProperties
  <2> HIDE DEF kv
  <2>7. Len(kv) \in Nat /\ Len(kv) - lost \in Nat /\ Len(kv) - lost <= Len(kv)
        /\ Len(kv) - lost > 0
    BY <2>2, <2>3, <2>6
  <2>8. /\ some \in Seq(Nat) /\ Len(some) = Len(kv) - lost
        /\ \A i \in 1 .. Len(kv) - lost: some[i] = kv[i]
    BY <2>6, <2>7, TakeShort
  <2> HIDE DEF some
  <2>9. /\ key \in Seq(Nat) /\ Len(key) \in Nat /\ Len(key) > 0
        /\ \A i \in 1 .. Len(key): key[i] = kv[i]
    BY <2>2, <2>6, <2>7, <2>8
  <2> HIDE DEF key
  <2>10. tail \in Nat
    BY <2>3
  <2> HIDE DEF tail
  <2>11. new \in Slots /\ new.ids = key /\ new.kv = kv
    BY <2>2, <2>6, <2>9, <2>10, SlotIs
  <2> HIDE DEF new
  <2>12. Keyed(new)
    <3>1. key # <<>>
      BY <2>9, EmptySeq
    <3>2. \A i \in 1 .. Smaller(Len(key), Len(kv)): i \in 1 .. Len(key)
      BY <2>7, <2>9 DEF Smaller
    <3> QED
      BY <2>9, <2>11, <3>1, <3>2 DEF Keyed
  <2>13. NodeOK(n)
    BY DEF n
  <2>14. NodeOK(m) /\ SameDisk(n, m)
    BY <2>5, <2>11, <2>12, <2>13, RemembersIs
  <2> QED
    BY <2>1, <2>14 DEF n
<1> QED
  BY <1>1, <1>2

\* What a rank may be in after the update of a generation and its save.
LEMMA FinishIs ==
  ASSUME NEW r \in Ranks, NodeOK(Node(r)), req \in Prompts,
         NEW lost \in {0, 1}, NEW late \in BOOLEAN
  PROVE  LET m == Autosave(Updated(r, req.full, lost), late)
         IN  NodeOK(m) /\ Fine(Node(r), m)
<1> DEFINE n == Node(r)
           v == Updated(r, req.full, lost)
           m == Autosave(v, late)
<1>1. NodeOK(v) /\ SameDisk(n, v)
  <2>1. req.full \in BOOLEAN
    BY PromptIs
  <2> QED
    BY <2>1, UpdatedIs
<1> HIDE DEF v
<1>2. NodeOK(m) /\ Fine(v, m)
  BY <1>1, AutosaveIs
<1>3. Fine(n, m)
  BY <1>1, <1>2, SameThenFine
<1> QED
  BY <1>2, <1>3 DEF v

LEMMA WritingIs ==
  ASSUME NEW r \in Ranks, NodeOK(Node(r)), req \in Prompts,
         NEW n \in Writing(Updated(r, req.full, 0))
  PROVE  /\ NodeOK(n) /\ SameDisk(Node(r), n) /\ Savable(n.live)
         /\ n.live # None
<1> DEFINE u == Node(r)
           v == Updated(r, req.full, 0)
<1>1. NodeOK(v) /\ SameDisk(u, v)
  <2>1. req.full \in BOOLEAN /\ 0 \in {0, 1}
    BY PromptIs
  <2> QED
    BY <2>1, UpdatedIs
<1>2. Wanted(v) /\ n = Checkpoint(v) /\ Savable(n.live)
  BY DEF Writing
<1> HIDE DEF u, v
<1>3. v.live # None
  BY <1>2 DEF Wanted
<1>4. NodeOK(n) /\ SameDisk(v, n)
  BY <1>1, <1>2, <1>3, CheckpointIs
<1>5. n.live # None
  BY <1>2 DEF Savable
<1> QED
  BY <1>1, <1>2, <1>4, <1>5 DEF SameDisk, u

LEMMA SaveFailsIs ==
  ASSUME NEW r \in Ranks, NodeOK(Node(r)), req \in Prompts,
         NEW n \in Writing(Updated(r, req.full, 0)), NEW m \in SaveFails(n)
  PROVE  NodeOK(m) /\ Fine(Node(r), m)
<1>1. NodeOK(n) /\ SameDisk(Node(r), n) /\ n.live # None
  BY WritingIs
<1>2. m = n \/ m = Removed(n)
  BY DEF SaveFails
<1>3. NodeOK(m) /\ m.anchor = n.anchor
  BY <1>1, <1>2, RemovedIs
<1> QED
  BY <1>1, <1>3 DEF Fine, SameDisk

LEMMA SaveCrashesIs ==
  ASSUME NEW r \in Ranks, NodeOK(Node(r)), req \in Prompts,
         NEW n \in Writing(Updated(r, req.full, 0)), NEW m \in SaveCrashes(n)
  PROVE  NodeOK(m)
<1>1. NodeOK(n) /\ n.live # None /\ Savable(n.live)
  BY WritingIs
<1>2. NodeOK(Removed(n)) /\ Removed(n).live # None
  BY <1>1, RemovedIs
<1>3. m = LeftOver(n) \/ m = LeftOver(Removed(n)) \/ m = Written(n)
  BY DEF SaveCrashes
<1>4. NodeOK(LeftOver(n)) /\ NodeOK(Written(n))
  BY <1>1, LeftOverIs, WrittenIs
<1>5. NodeOK(LeftOver(Removed(n)))
  <2> DEFINE k == Removed(n)
  <2> HIDE DEF k
  <2>1. NodeOK(k) /\ k.live # None
    BY <1>2 DEF k
  <2>2. NodeOK(LeftOver(k))
    BY <2>1, LeftOverIs
  <2> QED
    BY <2>2 DEF k
<1> QED
  BY <1>3, <1>4, <1>5

-----------------------------------------------------------------------------
(* The inductive invariant.                                                 *)

MemoryOK ==
  /\ live \in [Ranks -> {None} \cup Slots]
  /\ anchor \in [Ranks -> [Sessions -> Seq(Nat)]]
  /\ cold \in [Ranks -> BOOLEAN]
  /\ art \in [Ranks -> [Sessions -> Artifacts]]
  /\ junk \in [Ranks -> [Sessions -> 0 .. MaxJunk]]
  /\ order \in [Ranks -> Seq(Sessions)] /\ cap \in [Ranks -> Nat]
  /\ \A r \in Ranks: NodeOK(Node(r))

CourseOK ==
  /\ at \in [Ranks -> Places] /\ req \in {None} \cup Prompts
  /\ \A r \in Ranks: at[r] = "idle" <=> req = None
  /\ verdict \in {None, "agreed", "diverged"} /\ faults \in 0 .. MaxFaults

PlanOK ==
  /\ \A r \in Ranks:
       \/ at[r] = "prepared"
       \/ at[r] = "decode" /\ verdict = "agreed"
       => Start(live[r], req)
  /\ BothAt("decode") /\ verdict = "agreed" => Reused(0) = Reused(1)

TierInv == MemoryOK /\ CourseOK /\ PlanOK

\* Every rank's step is fine, or it has forgotten its anchors.
Saved ==
  \A r \in Ranks:
    \/ Fine(Node(r), Node(r)')
    \/ \A s \in Sessions: anchor'[r][s] = <<>>

LEMMA BecomeNode ==
  ASSUME MemoryOK, NEW r \in Ranks, NEW m, NodeOK(m), Become(r, m)
  PROVE  Node(r)' = m /\ \A q \in Ranks: q # r => Node(q)' = Node(q)
<1>1. m \in Nodes
  BY DEF NodeOK
<1>2. /\ live'[r] = m.live /\ anchor'[r] = m.anchor /\ cold'[r] = m.cold
      /\ art'[r] = m.art /\ junk'[r] = m.junk /\ order'[r] = m.order
      /\ cap'[r] = m.cap
  BY DEF MemoryOK, Become
<1>3. \A q \in Ranks: q # r =>
        /\ live'[q] = live[q] /\ anchor'[q] = anchor[q]
        /\ cold'[q] = cold[q] /\ art'[q] = art[q]
        /\ junk'[q] = junk[q] /\ order'[q] = order[q] /\ cap'[q] = cap[q]
  BY DEF MemoryOK, Become
<1>4. Node(r)' = m
  BY <1>1, <1>2 DEF Node, Nodes
<1>5. \A q \in Ranks: q # r => Node(q)' = Node(q)
  BY <1>3 DEF Node
<1> QED
  BY <1>4, <1>5

LEMMA BecomeIs ==
  ASSUME MemoryOK, NEW r \in Ranks, NEW m, NodeOK(m), Fine(Node(r), m),
         Become(r, m)
  PROVE  /\ MemoryOK' /\ Saved
         /\ live'[r] = m.live
         /\ \A q \in Ranks: q # r => live'[q] = live[q]
<1>1. m \in Nodes
  BY DEF NodeOK
<1>2. /\ m.live \in {None} \cup Slots
      /\ m.anchor \in [Sessions -> Seq(Nat)] /\ m.cold \in BOOLEAN
      /\ m.art \in [Sessions -> Artifacts]
      /\ m.junk \in [Sessions -> 0 .. MaxJunk]
      /\ m.order \in Seq(Sessions) /\ m.cap \in Nat
  BY <1>1, NodesAre
<1>3. /\ live' \in [Ranks -> {None} \cup Slots]
      /\ anchor' \in [Ranks -> [Sessions -> Seq(Nat)]]
      /\ cold' \in [Ranks -> BOOLEAN]
  BY <1>2 DEF MemoryOK, Become
<1>4. /\ art' \in [Ranks -> [Sessions -> Artifacts]]
      /\ junk' \in [Ranks -> [Sessions -> 0 .. MaxJunk]]
      /\ order' \in [Ranks -> Seq(Sessions)] /\ cap' \in [Ranks -> Nat]
  BY <1>2 DEF MemoryOK, Become
<1>5. /\ live'[r] = m.live
      /\ \A q \in Ranks: q # r => live'[q] = live[q]
  BY DEF MemoryOK, Become
<1>6. Node(r)' = m /\ \A q \in Ranks: q # r => Node(q)' = Node(q)
  BY BecomeNode
<1>7. \A q \in Ranks: NodeOK(Node(q)')
  BY <1>6 DEF MemoryOK
<1>8. MemoryOK'
  BY <1>3, <1>4, <1>7 DEF MemoryOK
<1>9. \A q \in Ranks: Fine(Node(q), Node(q))
  BY DEF Fine
<1>10. Saved
  BY <1>6, <1>9 DEF Saved
<1> QED
  BY <1>5, <1>8, <1>10

\* A step that leaves memory and disk alone.
LEMMA MemorySame ==
  ASSUME MemoryOK, UNCHANGED <<live, anchor, cold, art, junk, order, cap>>
  PROVE  MemoryOK' /\ Saved
<1>1. \A r \in Ranks: Node(r)' = Node(r)
  BY DEF Node
<1>2. MemoryOK'
  BY <1>1 DEF MemoryOK
<1>3. \A r \in Ranks: Fine(Node(r), Node(r))
  BY DEF Fine
<1> QED
  BY <1>1, <1>2, <1>3 DEF Saved

LEMMA InitHolds ==
  ASSUME TierInit
  PROVE  TierInv
<1>1. <<>> \in Seq(Nat) /\ <<>> \in Seq(Sessions) /\ 0 \in 0 .. MaxJunk
      /\ 0 \in 0 .. MaxFaults
  BY SsdAssumption DEF SsdAssumption
<1>2. Absent \in Artifacts /\ Absent.ids = Absent.kv /\ Len(Absent.kv) = 0
  BY DEF Absent, Artifacts
<1>3. /\ live \in [Ranks -> {None} \cup Slots]
      /\ anchor \in [Ranks -> [Sessions -> Seq(Nat)]]
      /\ cold \in [Ranks -> BOOLEAN]
      /\ art \in [Ranks -> [Sessions -> Artifacts]]
      /\ junk \in [Ranks -> [Sessions -> 0 .. MaxJunk]]
      /\ order \in [Ranks -> Seq(Sessions)] /\ cap \in [Ranks -> Nat]
  BY <1>1, <1>2, SsdAssumption DEF TierInit, Ranks, SsdAssumption
<1>4. ASSUME NEW r \in Ranks PROVE NodeOK(Node(r))
  <2>1. /\ Node(r).live = None
        /\ \A s \in Sessions: Node(r).art[s] = Absent /\ Node(r).junk[s] = 0
    BY DEF TierInit, Node
  <2>2. Node(r) \in Nodes
    BY <1>3 DEF Node, Nodes
  <2>3. \A s \in Sessions: Size(Node(r), s) = 0
    BY <1>2, <2>1 DEF Size
  <2> QED
    BY <1>2, <2>1, <2>2, <2>3 DEF NodeOK, Sound
<1>5. MemoryOK
  BY <1>3, <1>4 DEF MemoryOK
<1>6. CourseOK
  BY <1>1 DEF TierInit, CourseOK, Places
<1>7. PlanOK
  BY DEF TierInit, PlanOK, BothAt, Ranks
<1> QED
  BY <1>5, <1>6, <1>7 DEF TierInv

LEMMA ArriveHolds ==
  ASSUME TierInv, NEW p \in Prompts, Arrive(p)
  PROVE  TierInv' /\ Saved
<1>1. MemoryOK' /\ Saved
  BY MemorySame DEF TierInv, Arrive
<1>2. p # None
  BY SsdAssumption DEF SsdAssumption
<1>3. CourseOK'
  BY <1>2 DEF TierInv, CourseOK, Arrive, Places
<1>4. PlanOK'
  BY DEF Arrive, PlanOK, BothAt, Ranks
<1> QED
  BY <1>1, <1>3, <1>4 DEF TierInv

LEMMA ReqIs ==
  ASSUME CourseOK, NEW r \in Ranks, at[r] # "idle"
  PROVE  req \in Prompts
BY DEF CourseOK

LEMMA PrepareHolds ==
  ASSUME TierInv, NEW r \in Ranks, Prepare(r)
  PROVE  TierInv' /\ Saved
<1> DEFINE n == Outgoing(Node(r), req)
           m == Prepared(n, req)
<1>1. req \in Prompts
  BY ReqIs DEF TierInv, Prepare
<1>2. NodeOK(n) /\ Fine(Node(r), n)
  BY OutgoingIs DEF TierInv, MemoryOK
<1>3. Become(r, m)
  BY DEF Prepare
<1> HIDE DEF n
<1>4. NodeOK(m) /\ SameDisk(n, m) /\ Start(m.live, req)
  BY <1>1, <1>2, PreparedIs
<1> HIDE DEF m
<1>5. Fine(Node(r), m)
  BY <1>2, <1>4, FineThenSame
<1>6. /\ MemoryOK' /\ Saved /\ live'[r] = m.live
      /\ \A q \in Ranks: q # r => live'[q] = live[q]
  BY <1>3, <1>4, <1>5, BecomeIs DEF TierInv
<1>7. /\ at' = [at EXCEPT ![r] = "prepared"] /\ at[r] = "start"
      /\ UNCHANGED <<req, verdict, faults>>
  BY DEF Prepare
<1>8. CourseOK'
  BY <1>7 DEF TierInv, CourseOK, Places
<1>9. PlanOK'
  <2>1. /\ at'[r] = "prepared"
        /\ \A q \in Ranks: q # r => at'[q] = at[q]
    BY <1>7 DEF TierInv, CourseOK
  <2>2. ASSUME NEW q \in Ranks,
               at'[q] = "prepared" \/ (at'[q] = "decode" /\ verdict' = "agreed")
        PROVE  Start(live'[q], req')
    <3>1. CASE q = r
      BY <1>4, <1>6, <1>7, <3>1
    <3>2. CASE q # r
      BY <1>6, <1>7, <2>1, <2>2, <3>2 DEF TierInv, PlanOK
    <3> QED
      BY <3>1, <3>2
  <2>3. ~BothAt("decode")'
    BY <2>1 DEF BothAt
  <2> QED
    BY <2>2, <2>3 DEF PlanOK
<1> QED
  BY <1>6, <1>8, <1>9 DEF TierInv

\* A rank's own step of the end of a generation.
LEMMA EndHolds ==
  ASSUME TierInv, NEW r \in Ranks, NEW m, NodeOK(m), Fine(Node(r), m),
         Become(r, m), at[r] = "decode",
         at' = [at EXCEPT ![r] = "finished"], UNCHANGED <<req, verdict>>,
         faults' \in 0 .. MaxFaults
  PROVE  TierInv' /\ Saved
<1>1. /\ MemoryOK' /\ Saved
      /\ \A q \in Ranks: q # r => live'[q] = live[q]
  BY BecomeIs DEF TierInv
<1>2. CourseOK'
  BY DEF TierInv, CourseOK, Places
<1>3. PlanOK'
  <2>1. /\ at'[r] = "finished"
        /\ \A q \in Ranks: q # r => at'[q] = at[q]
    BY DEF TierInv, CourseOK
  <2>2. ASSUME NEW q \in Ranks,
               at'[q] = "prepared" \/ (at'[q] = "decode" /\ verdict' = "agreed")
        PROVE  Start(live'[q], req')
    <3>1. q # r
      BY <2>1, <2>2
    <3> QED
      BY <1>1, <2>1, <2>2, <3>1 DEF TierInv, PlanOK
  <2>3. ~BothAt("decode")'
    BY <2>1 DEF BothAt
  <2> QED
    BY <2>2, <2>3 DEF PlanOK
<1> QED
  BY <1>1, <1>2, <1>3 DEF TierInv

LEMMA FinishHolds ==
  ASSUME TierInv, NEW r \in Ranks, Finish(r)
  PROVE  TierInv' /\ Saved
<1> DEFINE m == Autosave(Updated(r, req.full, 0), FALSE)
<1>1. NodeOK(Node(r)) /\ req \in Prompts
  BY ReqIs DEF TierInv, MemoryOK, Finish
<1>2. NodeOK(m) /\ Fine(Node(r), m)
  <2>1. 0 \in {0, 1} /\ FALSE \in BOOLEAN
    OBVIOUS
  <2> QED
    BY <1>1, <2>1, FinishIs
<1>3. Become(r, m)
  BY DEF Finish
<1>4. /\ at[r] = "decode" /\ at' = [at EXCEPT ![r] = "finished"]
      /\ UNCHANGED <<req, verdict>> /\ faults' \in 0 .. MaxFaults
  BY DEF Finish, TierInv, CourseOK
<1> HIDE DEF m
<1> QED
  BY <1>2, <1>3, <1>4, EndHolds

LEMMA FaultIs ==
  ASSUME TierInv, Fault
  PROVE  faults' \in 0 .. MaxFaults
BY SsdAssumption DEF SsdAssumption, TierInv, CourseOK, Fault

LEMMA FinishBadlyHolds ==
  ASSUME TierInv, NEW r \in Ranks, FinishBadly(r)
  PROVE  TierInv' /\ Saved
<1>1. NodeOK(Node(r)) /\ req \in Prompts
  BY ReqIs DEF TierInv, MemoryOK, FinishBadly
<1>2. \E m: NodeOK(m) /\ Fine(Node(r), m) /\ Become(r, m)
  <2>1. CASE Become(r, Autosave(Updated(r, req.full, 1), FALSE))
    <3>1. 1 \in {0, 1} /\ FALSE \in BOOLEAN
      OBVIOUS
    <3> QED
      BY <1>1, <2>1, <3>1, FinishIs
  <2>2. CASE Become(r, Autosave(Updated(r, req.full, 0), TRUE))
    <3>1. 0 \in {0, 1} /\ TRUE \in BOOLEAN
      OBVIOUS
    <3> QED
      BY <1>1, <2>2, <3>1, FinishIs
  <2>3. CASE \E n \in Writing(Updated(r, req.full, 0)):
               \E m \in SaveFails(n): Become(r, m)
    BY <1>1, <2>3, SaveFailsIs
  <2> QED
    BY <2>1, <2>2, <2>3 DEF FinishBadly
<1>3. /\ at[r] = "decode" /\ at' = [at EXCEPT ![r] = "finished"]
      /\ UNCHANGED <<req, verdict>> /\ faults' \in 0 .. MaxFaults
  BY FaultIs DEF FinishBadly
<1> QED
  BY <1>2, <1>3, EndHolds
\* A step after which some ranks have no live cache, and no other memory of the
\* disk than before or none.
LEMMA ForgetIs ==
  ASSUME MemoryOK, live' \in [Ranks -> {None} \cup Slots],
         \A r \in Ranks: live'[r] = None \/ live'[r] = live[r],
         anchor' \in [Ranks -> [Sessions -> Seq(Nat)]],
         cold' \in [Ranks -> BOOLEAN], UNCHANGED <<art, junk, order, cap>>
  PROVE  MemoryOK'
<1>1. /\ art' \in [Ranks -> [Sessions -> Artifacts]]
      /\ junk' \in [Ranks -> [Sessions -> 0 .. MaxJunk]]
      /\ order' \in [Ranks -> Seq(Sessions)] /\ cap' \in [Ranks -> Nat]
  BY DEF MemoryOK
<1>2. ASSUME NEW r \in Ranks PROVE NodeOK(Node(r)')
  <2> DEFINE n == Node(r)
             m == Node(r)'
  <2>1. NodeOK(n)
    BY DEF MemoryOK
  <2>2. m \in Nodes
    BY <1>1 DEF Node, Nodes
  <2>3. /\ m.art = n.art /\ m.junk = n.junk /\ m.order = n.order
        /\ m.live = None \/ m.live = n.live
    BY DEF Node
  <2> HIDE DEF n, m
  <2>4. \A s \in Sessions: Size(m, s) = Size(n, s)
    BY <2>3 DEF Size
  <2>5. NodeOK(m)
    BY <2>1, <2>2, <2>3, <2>4 DEF NodeOK, Sound
  <2> QED
    BY <2>5 DEF m
<1> QED
  BY <1>1, <1>2 DEF MemoryOK

LEMMA VoteHolds ==
  ASSUME TierInv, Vote
  PROVE  TierInv' /\ Saved
<1>1. /\ at' = [r \in Ranks |-> "decode"] /\ UNCHANGED <<req, faults>>
      /\ \A r \in Ranks: at[r] = "prepared"
      /\ UNCHANGED <<art, junk, order, cap>>
  BY DEF Vote, BothAt
<1>2. CASE Reused(0) = Reused(1)
  <2>1. verdict' = "agreed" /\ UNCHANGED <<live, anchor, cold>>
    BY <1>2 DEF Vote
  <2>2. MemoryOK' /\ Saved
    BY <1>1, <2>1, MemorySame DEF TierInv
  <2>3. CourseOK'
    BY <1>1, <2>1 DEF TierInv, CourseOK, Places, Ranks
  <2>4. PlanOK'
    BY <1>1, <1>2, <2>1 DEF TierInv, PlanOK, Reused
  <2> QED
    BY <2>2, <2>3, <2>4 DEF TierInv
<1>3. CASE Reused(0) # Reused(1)
  <2>1. /\ verdict' = "diverged" /\ live' = [r \in Ranks |-> None]
        /\ cold' = [r \in Ranks |-> TRUE]
        /\ anchor' = [r \in Ranks |-> [s \in Sessions |-> <<>>]]
    BY <1>3 DEF Vote
  <2>2. <<>> \in Seq(Nat)
    BY EmptySeq
  <2>3. /\ live' \in [Ranks -> {None} \cup Slots]
        /\ \A r \in Ranks: live'[r] = None \/ live'[r] = live[r]
        /\ anchor' \in [Ranks -> [Sessions -> Seq(Nat)]]
        /\ cold' \in [Ranks -> BOOLEAN]
    BY <2>1, <2>2
  <2>4. MemoryOK'
    BY <1>1, <2>3, ForgetIs DEF TierInv
  <2>5. Saved
    BY <2>1 DEF Saved
  <2>6. CourseOK'
    BY <1>1, <2>1 DEF TierInv, CourseOK, Places, Ranks
  <2>7. PlanOK'
    BY <1>1, <2>1 DEF PlanOK
  <2> QED
    BY <2>4, <2>5, <2>6, <2>7 DEF TierInv
<1> QED
  BY <1>2, <1>3

LEMMA CompleteHolds ==
  ASSUME TierInv, Complete
  PROVE  TierInv' /\ Saved
<1>1. MemoryOK' /\ Saved
  BY MemorySame DEF TierInv, Complete
<1>2. CourseOK'
  BY DEF TierInv, CourseOK, Complete, Places
<1>3. PlanOK'
  BY DEF Complete, PlanOK, BothAt, Ranks
<1> QED
  BY <1>1, <1>2, <1>3 DEF TierInv

\* A step in which a rank without a plan loses its live cache.
LEMMA LoseHolds ==
  ASSUME TierInv, live' \in [Ranks -> {None} \cup Slots],
         \A r \in Ranks: \/ live'[r] = live[r]
                         \/ live'[r] = None /\ at[r] \in {"idle", "start"},
         UNCHANGED <<anchor, cold, art, junk, order, cap, at, req, verdict>>,
         faults' \in 0 .. MaxFaults
  PROVE  TierInv' /\ Saved
<1>1. MemoryOK'
  <2>1. /\ anchor' \in [Ranks -> [Sessions -> Seq(Nat)]]
        /\ cold' \in [Ranks -> BOOLEAN]
    BY DEF TierInv, MemoryOK
  <2> QED
    BY <2>1, ForgetIs DEF TierInv
<1>2. Saved
  BY DEF Saved, Fine, Node
<1>3. CourseOK'
  BY DEF TierInv, CourseOK
<1>4. PlanOK'
  BY DEF TierInv, PlanOK, BothAt, Reused, Ranks
<1> QED
  BY <1>1, <1>2, <1>3, <1>4 DEF TierInv

LEMMA ReleaseHolds ==
  ASSUME TierInv, Release
  PROVE  TierInv' /\ Saved
<1>1. /\ live' \in [Ranks -> {None} \cup Slots]
      /\ \A r \in Ranks: live'[r] = None /\ at[r] \in {"idle", "start"}
  BY DEF TierInv, CourseOK, Release
<1>2. /\ UNCHANGED <<anchor, cold, art, junk, order, cap, at, req, verdict>>
      /\ faults' \in 0 .. MaxFaults
  BY DEF TierInv, CourseOK, Release
<1> QED
  BY <1>1, <1>2, LoseHolds

LEMMA ExpireHolds ==
  ASSUME TierInv, NEW r \in Ranks, Expire(r)
  PROVE  TierInv' /\ Saved
<1>1. /\ live' \in [Ranks -> {None} \cup Slots]
      /\ \A q \in Ranks: \/ live'[q] = live[q]
                         \/ live'[q] = None /\ at[q] \in {"idle", "start"}
  BY DEF TierInv, MemoryOK, Expire
<1>2. /\ UNCHANGED <<anchor, cold, art, junk, order, cap, at, req, verdict>>
      /\ faults' \in 0 .. MaxFaults
  BY FaultIs DEF Expire
<1> QED
  BY <1>1, <1>2, LoseHolds

LEMMA ClearHolds ==
  ASSUME TierInv, Clear
  PROVE  TierInv' /\ Saved
<1>1. /\ <<>> \in Seq(Sessions) /\ 0 \in 0 .. MaxJunk
      /\ Absent \in Artifacts /\ Absent.ids = Absent.kv
      /\ Len(Absent.kv) = 0
  BY SsdAssumption DEF SsdAssumption, Absent, Artifacts
<1>2. /\ art' = [r \in Ranks |-> [s \in Sessions |-> Absent]]
      /\ junk' = [r \in Ranks |-> [s \in Sessions |-> 0]]
      /\ order' = [r \in Ranks |-> <<>>] /\ req = None
      /\ UNCHANGED <<live, anchor, cold, cap, at, req, verdict, faults>>
  BY DEF Clear
<1>3. /\ live' \in [Ranks -> {None} \cup Slots]
      /\ anchor' \in [Ranks -> [Sessions -> Seq(Nat)]]
      /\ cold' \in [Ranks -> BOOLEAN]
      /\ art' \in [Ranks -> [Sessions -> Artifacts]]
      /\ junk' \in [Ranks -> [Sessions -> 0 .. MaxJunk]]
      /\ order' \in [Ranks -> Seq(Sessions)] /\ cap' \in [Ranks -> Nat]
  BY <1>1, <1>2, SsdAssumption DEF TierInv, MemoryOK, Ranks, SsdAssumption
<1>4. ASSUME NEW r \in Ranks PROVE NodeOK(Node(r)')
  <2> DEFINE m == Node(r)'
  <2>1. m \in Nodes
    BY <1>3 DEF Node, Nodes
  <2>2. /\ m.live = Node(r).live
        /\ \A s \in Sessions: m.art[s] = Absent /\ m.junk[s] = 0
    BY <1>2 DEF Node
  <2>3. NodeOK(Node(r))
    BY DEF TierInv, MemoryOK
  <2> HIDE DEF m
  <2>4. \A s \in Sessions: Size(m, s) = 0
    BY <1>1, <2>2 DEF Size
  <2>5. NodeOK(m)
    BY <1>1, <2>1, <2>2, <2>3, <2>4 DEF NodeOK, Sound
  <2> QED
    BY <2>5 DEF m
<1>5. MemoryOK'
  BY <1>3, <1>4 DEF MemoryOK
<1>6. Saved
  BY <1>2 DEF Saved, Fine, Node
<1>7. CourseOK'
  BY <1>2 DEF TierInv, CourseOK
<1>8. PlanOK'
  BY <1>2 DEF TierInv, CourseOK, PlanOK, BothAt, Ranks
<1> QED
  BY <1>5, <1>6, <1>7, <1>8 DEF TierInv

LEMMA RestartHolds ==
  ASSUME TierInv, NEW r \in Ranks, NEW m, NodeOK(m), Restart(r, m),
         faults' \in 0 .. MaxFaults
  PROVE  TierInv' /\ Saved
<1>1. /\ live' = [q \in Ranks |-> None]
      /\ anchor' = [q \in Ranks |-> [s \in Sessions |-> <<>>]]
      /\ cold' = [q \in Ranks |-> FALSE]
      /\ art' = [art EXCEPT ![r] = m.art]
      /\ junk' = [junk EXCEPT ![r] = m.junk]
      /\ order' = [order EXCEPT ![r] = m.order]
      /\ cap' = EnvCap
      /\ at' = [q \in Ranks |-> "idle"] /\ req' = None /\ verdict' = None
  BY DEF Restart
<1>2. /\ m.art \in [Sessions -> Artifacts]
      /\ m.junk \in [Sessions -> 0 .. MaxJunk]
      /\ m.order \in Seq(Sessions) /\ <<>> \in Seq(Nat)
  BY NodesAre DEF NodeOK
<1>3. /\ live' \in [Ranks -> {None} \cup Slots]
      /\ anchor' \in [Ranks -> [Sessions -> Seq(Nat)]]
      /\ cold' \in [Ranks -> BOOLEAN]
  BY <1>1, <1>2
<1>4. /\ art' \in [Ranks -> [Sessions -> Artifacts]]
      /\ junk' \in [Ranks -> [Sessions -> 0 .. MaxJunk]]
      /\ order' \in [Ranks -> Seq(Sessions)] /\ cap' \in [Ranks -> Nat]
  BY <1>1, <1>2, SsdAssumption DEF TierInv, MemoryOK, Ranks, SsdAssumption
<1>5. /\ art'[r] = m.art /\ junk'[r] = m.junk /\ order'[r] = m.order
      /\ \A q \in Ranks: q # r =>
           art'[q] = art[q] /\ junk'[q] = junk[q] /\ order'[q] = order[q]
  BY <1>1 DEF TierInv, MemoryOK
<1>6. ASSUME NEW q \in Ranks PROVE NodeOK(Node(q)')
  <2> DEFINE k == Node(q)'
             n == IF q = r THEN m ELSE Node(q)
  <2>1. k \in Nodes
    BY <1>3, <1>4 DEF Node, Nodes
  <2>2. NodeOK(n)
    BY DEF TierInv, MemoryOK
  <2>3. /\ k.live = None /\ k.art = n.art /\ k.junk = n.junk
        /\ k.order = n.order
    BY <1>1, <1>5 DEF Node
  <2> HIDE DEF k, n
  <2>4. \A s \in Sessions: Size(k, s) = Size(n, s)
    BY <2>3 DEF Size
  <2>5. NodeOK(k)
    BY <2>1, <2>2, <2>3, <2>4 DEF NodeOK, Sound
  <2> QED
    BY <2>5 DEF k
<1>7. MemoryOK'
  BY <1>3, <1>4, <1>6 DEF MemoryOK
<1>8. Saved
  BY <1>1 DEF Saved
<1>9. CourseOK'
  BY <1>1 DEF CourseOK, Places
<1>10. PlanOK'
  BY <1>1 DEF PlanOK, BothAt, Ranks
<1> QED
  BY <1>7, <1>8, <1>9, <1>10 DEF TierInv

LEMMA CrashHolds ==
  ASSUME TierInv, NEW r \in Ranks, Crash(r)
  PROVE  TierInv' /\ Saved
<1>1. NodeOK(Node(r)) /\ faults' \in 0 .. MaxFaults
  BY FaultIs DEF TierInv, MemoryOK, Crash
<1>2. \E m: NodeOK(m) /\ Restart(r, m)
  <2>1. CASE Restart(r, Node(r))
    BY <1>1, <2>1
  <2>2. CASE /\ at[r] = "decode"
             /\ \E n \in Writing(Updated(r, req.full, 0)):
                  \E m \in SaveCrashes(n): Restart(r, m)
    <3>1. req \in Prompts
      BY <2>2, ReqIs DEF TierInv
    <3> QED
      BY <1>1, <2>2, <3>1, SaveCrashesIs
  <2> QED
    BY <2>1, <2>2 DEF Crash
<1> QED
  BY <1>1, <1>2, RestartHolds

LEMMA RetuneHolds ==
  ASSUME TierInv, NEW c \in Tuned, Retune(c)
  PROVE  TierInv' /\ Saved
<1>1. /\ cap' = [cap EXCEPT ![0] = c] /\ c \in Nat
      /\ UNCHANGED <<live, anchor, cold, art, junk, order, at, req, verdict,
                     faults>>
  BY SsdAssumption DEF Retune, SsdAssumption
<1>2. cap' \in [Ranks -> Nat]
  BY <1>1 DEF TierInv, MemoryOK
<1>3. ASSUME NEW r \in Ranks PROVE NodeOK(Node(r)')
  <2> DEFINE n == Node(r)
             m == Node(r)'
  <2>1. NodeOK(n)
    BY DEF TierInv, MemoryOK
  <2>2. m \in Nodes
    BY <1>1, <1>2 DEF TierInv, MemoryOK, Node, Nodes
  <2>3. m.live = n.live /\ m.art = n.art /\ m.junk = n.junk
        /\ m.order = n.order
    BY <1>1 DEF Node
  <2> HIDE DEF n, m
  <2>4. \A s \in Sessions: Size(m, s) = Size(n, s)
    BY <2>3 DEF Size
  <2>5. NodeOK(m)
    BY <2>1, <2>2, <2>3, <2>4 DEF NodeOK, Sound
  <2> QED
    BY <2>5 DEF m
<1>4. MemoryOK'
  BY <1>1, <1>2, <1>3 DEF TierInv, MemoryOK
<1>5. Saved
  BY <1>1 DEF Saved, Fine, Node
<1>6. CourseOK' /\ PlanOK'
  BY <1>1 DEF TierInv, CourseOK, PlanOK, BothAt, Reused
<1> QED
  BY <1>4, <1>5, <1>6 DEF TierInv

-----------------------------------------------------------------------------
(* What follows of every behaviour.                                         *)

LEMMA NextHolds ==
  ASSUME TierInv, [TierNext]_tier
  PROVE  TierInv' /\ Saved
<1>1. CASE UNCHANGED tier
  <2>1. MemoryOK' /\ Saved
    BY <1>1, MemorySame DEF TierInv, tier
  <2>2. CourseOK'
    BY <1>1 DEF TierInv, CourseOK, tier
  <2>3. PlanOK'
    BY <1>1 DEF TierInv, PlanOK, BothAt, Reused, tier
  <2> QED
    BY <2>1, <2>2, <2>3 DEF TierInv
<1>2. ASSUME NEW p \in Prompts, Arrive(p) PROVE TierInv' /\ Saved
  BY <1>2, ArriveHolds
<1>3. ASSUME NEW r \in Ranks, Prepare(r) \/ Finish(r) PROVE TierInv' /\ Saved
  BY <1>3, PrepareHolds, FinishHolds
<1>4. CASE Vote \/ Complete \/ Release \/ Clear
  BY <1>4, VoteHolds, CompleteHolds, ReleaseHolds, ClearHolds
<1>5. ASSUME NEW r \in Ranks, Expire(r) \/ FinishBadly(r) \/ Crash(r)
      PROVE  TierInv' /\ Saved
  BY <1>5, ExpireHolds, FinishBadlyHolds, CrashHolds
<1>6. ASSUME NEW c \in Tuned, Retune(c) PROVE TierInv' /\ Saved
  BY <1>6, RetuneHolds
<1> QED
  BY <1>1, <1>2, <1>3, <1>4, <1>5, <1>6 DEF TierNext

\* Crashes, failed saves, expiries and a key that is a token short on one rank
\* included, TierInv holds.
THEOREM TierInvariant == TierSpec => []TierInv
<1>1. TierInit => TierInv
  BY InitHolds
<1>2. TierInv /\ [TierNext]_tier => TierInv'
  BY NextHolds
<1> QED
  BY <1>1, <1>2, PTL DEF TierSpec

\* Whatever happens to a rank, its memory and its disk keep their types.
THEOREM TierTypes == TierSpec => []TierTypeOK
<1>1. TierInv => TierTypeOK
  BY DEF TierInv, MemoryOK, CourseOK, TierTypeOK, NodeOK, Sound, Node
<1> QED
  BY <1>1, TierInvariant, PTL

\* What two ranks have agreed to prefill on is the start of the prompt and of
\* the same length on both.
THEOREM SoundPlans == TierSpec => []PlanIsSound
<1>1. TierInv => PlanIsSound
  <2> SUFFICES ASSUME TierInv PROVE PlanIsSound
    OBVIOUS
  <2>1. TierTypeOK
    BY DEF TierInv, MemoryOK, CourseOK, TierTypeOK, NodeOK, Sound, Node
  <2>2. ASSUME BothAt("decode"), verdict = "agreed"
        PROVE  /\ Reused(0) = Reused(1)
               /\ \A r \in Ranks: live[r].kv = Take(req.ids, Reused(r))
    BY <2>2 DEF TierInv, PlanOK, BothAt, Start, Reused
  <2> QED
    BY <2>1, <2>2 DEF PlanIsSound
<1> QED
  BY <1>1, TierInvariant, PTL

\* A save leaves the disk within its cap and the session it has saved on it.
THEOREM SavesFit == TierSpec => SavesWithinCap
<1> DEFINE Kept ==
      \A r \in Ranks, s \in Sessions:
        anchor'[r][s] # anchor[r][s] /\ anchor'[r][s] # <<>> =>
          /\ cap'[r] = 0 \/ Usage(Node(r), Listed(order[r]))' <= cap'[r]
          /\ (Size(Node(r), s) = 0)' =>
               Len(anchor'[r][s]) + junk[r][s] > cap'[r]
<1>1. TierInv /\ [TierNext]_tier => Kept
  <2> SUFFICES ASSUME TierInv, [TierNext]_tier, NEW r \in Ranks,
                      NEW s \in Sessions, anchor'[r][s] # anchor[r][s],
                      anchor'[r][s] # <<>>
               PROVE  /\ cap'[r] = 0 \/ Usage(Node(r), Listed(order[r]))' <= cap'[r]
                      /\ (Size(Node(r), s) = 0)' =>
                           Len(anchor'[r][s]) + junk[r][s] > cap'[r]
    OBVIOUS
  <2>1. Fine(Node(r), Node(r)')
    BY NextHolds DEF Saved
  <2>2. /\ Node(r).anchor = anchor[r] /\ Node(r).junk = junk[r]
        /\ Node(r)'.anchor = anchor'[r] /\ Node(r)'.order = order'[r]
        /\ Node(r)'.cap = cap'[r]
    BY DEF Node
  <2> QED
    BY <2>1, <2>2 DEF Fine
<1>2. TierInv /\ [TierNext]_tier => [Kept]_tier
  BY <1>1
<1>3. TierSpec => [][Kept]_tier
  BY <1>2, TierInvariant, PTL DEF TierSpec
<1> QED
  BY <1>3 DEF SavesWithinCap
-----------------------------------------------------------------------------
(* Where a disagreement comes from.  As long as nothing fails and no save   *)
(* has to prune, whatever one rank has done to its memory and its disk, the *)
(* other is about to do to its own; the caps may differ, and change.        *)

\* Two nodes that differ in their caps at most.
Same(n, m) ==
  /\ n.live = m.live /\ n.anchor = m.anchor /\ n.cold = m.cold
  /\ n.art = m.art /\ n.junk = m.junk /\ n.order = m.order

\* What the rank may be about to write fits beside all that is on its disk.
Room(n) ==
  \A m \in Writing(n): Fitting(Written(m), 1, Len(Written(m).order))

RoomToSave ==
  \A r \in Ranks:
    /\ at[r] = "start" => Room(Node(r))
    /\ at[r] = "decode" => Room(Updated(r, req.full, 0))

LEMMA LiveSet ==
  ASSUME NEW n \in Nodes, NEW slot
  PROVE  LET m == [n EXCEPT !.live = slot]
         IN  /\ m.live = slot /\ m.anchor = n.anchor /\ m.cold = n.cold
             /\ m.art = n.art /\ m.junk = n.junk /\ m.order = n.order
BY DEF Nodes

\* A prune that finds room keeps all that has a place in the order.
LEMMA PruneAll ==
  ASSUME NEW n \in Nodes, Fitting(n, 1, Len(n.order))
  PROVE  Prune(n, 0) = Keep(n, 1, Len(n.order))
<1> DEFINE L == Len(n.order)
           Least(k) == /\ Fitting(n, k + 1, L)
                       /\ \A l \in 0 .. L: Fitting(n, l + 1, L) => k <= l
           k == CHOOSE i \in 0 .. L: Least(i)
<1>1. L \in Nat
  BY NodesAre
<1>2. 0 \in 0 .. L /\ 0 + 1 = 1 /\ Fitting(n, 0 + 1, L)
  BY <1>1
<1>3. Least(0)
  BY <1>1, <1>2
<1>4. \A i \in 0 .. L: Least(i) => i = 0
  BY <1>1, <1>2
<1> HIDE DEF Least, L
<1>5. k \in 0 .. L /\ Least(k)
  BY <1>2, <1>3
<1>6. k = 0
  BY <1>4, <1>5
<1>7. Prune(n, 0) = Keep(n, 1 + k, L)
  BY DEF Prune, Least, L
<1>8. 1 + k = 1
  <2> HIDE DEF k
  <2> QED
    BY <1>6
<1> QED
  BY <1>7, <1>8 DEF L

LEMMA KeepSame ==
  ASSUME NEW n \in Nodes, NEW m \in Nodes, Same(n, m), NEW first, NEW last
  PROVE  Same(Keep(n, first, last), Keep(m, first, last))
<1> DEFINE part == SubSeq(n.order, first, last)
           Kept(o, k) ==
             /\ k.live = o.live /\ k.anchor = o.anchor /\ k.cold = o.cold
             /\ k.order = part
             /\ k.art = [s \in Sessions |->
                           IF s \in Listed(part) THEN o.art[s] ELSE Absent]
             /\ k.junk = [s \in Sessions |->
                            IF s \in Listed(part) THEN o.junk[s] ELSE 0]
<1>1. Kept(n, Keep(n, first, last))
  BY DEF Keep, Nodes
<1>2. m.order = n.order
  BY DEF Same
<1>3. Kept(m, Keep(m, first, last))
  BY <1>2 DEF Keep, Nodes
<1> HIDE DEF part
<1> QED
  BY <1>1, <1>3 DEF Same

LEMMA WrittenSame ==
  ASSUME NEW n \in Nodes, NEW m \in Nodes, Same(n, m)
  PROVE  Same(Written(n), Written(m))
<1> DEFINE Wrote(o, k) ==
      /\ k.live = o.live /\ k.anchor = o.anchor /\ k.cold = o.cold
      /\ k.art = [o.art EXCEPT ![o.live.sess] = Artifact(o.live)]
      /\ k.junk = o.junk /\ k.order = Newest(o.order, o.live.sess)
<1>1. Wrote(n, Written(n)) /\ Wrote(m, Written(m))
  BY DEF Written, Nodes
<1> QED
  BY <1>1 DEF Same

\* A save that has room, on two ranks.
LEMMA SaveSame ==
  ASSUME NEW n, NodeOK(n), NEW m, NodeOK(m), Same(n, m),
         \A k \in {n, m}: Savable(k.live) =>
           Fitting(Written(k), 1, Len(Written(k).order))
  PROVE  Same(Save(n, FALSE), Save(m, FALSE))
<1>1. CASE ~Savable(n.live)
  BY <1>1 DEF Save, Same
<1>2. CASE Savable(n.live)
  <2> DEFINE With(k) == [Written(k) EXCEPT !.anchor[k.live.sess] = k.live.ids]
             Last(k) == Len(With(k).order)
  <2>1. n \in Nodes /\ m \in Nodes /\ Savable(m.live)
    BY <1>2 DEF NodeOK, Same
  <2>2. ASSUME NEW k \in {n, m}
        PROVE  /\ With(k) \in Nodes
               /\ With(k).live = Written(k).live
               /\ With(k).cold = Written(k).cold
               /\ With(k).art = Written(k).art
               /\ With(k).junk = Written(k).junk
               /\ With(k).order = Written(k).order
               /\ With(k).cap = Written(k).cap
               /\ With(k).anchor =
                    [Written(k).anchor EXCEPT ![k.live.sess] = k.live.ids]
    <3> DEFINE w == Written(k)
               ids == k.live.ids
               s == k.live.sess
    <3>1. /\ k \in Nodes /\ k.live # None /\ s \in Sessions
          /\ ids \in Seq(Nat)
      BY <1>2, <2>1, LiveIs DEF Savable
    <3>2. w \in Nodes
      BY <1>2, <2>1, WrittenIs DEF NodeOK
    <3> HIDE DEF w, ids, s
    <3>3. [w EXCEPT !.anchor[s] = ids] \in Nodes
      BY <3>1, <3>2 DEF Nodes
    <3>4. LET v == [w EXCEPT !.anchor[s] = ids]
          IN  /\ v.live = w.live /\ v.cold = w.cold /\ v.art = w.art
              /\ v.junk = w.junk /\ v.order = w.order /\ v.cap = w.cap
              /\ v.anchor = [w.anchor EXCEPT ![s] = ids]
      BY <3>2 DEF Nodes
    <3> QED
      BY <3>3, <3>4 DEF w, s, ids
  <2>3. Same(Written(n), Written(m))
    BY <2>1, WrittenSame
  <2>4. Same(With(n), With(m))
    <3>1. n.live = m.live
      BY DEF Same
    <3> HIDE DEF With
    <3> QED
      BY <2>2, <2>3, <3>1 DEF Same
  <2>5. ASSUME NEW k \in {n, m}
        PROVE  Save(k, FALSE) = Keep(With(k), 1, Last(k))
    <3>1. Save(k, FALSE) = Prune(With(k), 0)
      BY <1>2, <2>1 DEF Save
    <3>2. Fitting(Written(k), 1, Len(Written(k).order))
      BY <1>2, <2>1
    <3> DEFINE v == With(k)
               w == Written(k)
    <3>3. /\ v.order = w.order /\ v.cap = w.cap
          /\ \A s: Size(v, s) = Size(w, s)
      <4> HIDE DEF With
      <4> QED
        BY <2>2 DEF Size
    <3> HIDE DEF v, w
    <3>4. Fitting(v, 1, Len(v.order))
      <4> DEFINE kept == Listed(SubSeq(w.order, 1, Len(w.order)))
      <4>1. Usage(v, kept) = Usage(w, kept)
        BY <3>3, UsageSame
      <4>2. Fitting(w, 1, Len(w.order))
        BY <3>2 DEF w
      <4> QED
        BY <3>3, <4>1, <4>2 DEF Fitting
    <3> QED
      BY <2>2, <3>1, <3>4, PruneAll DEF v
  <2>6. Last(n) = Last(m)
    BY <2>4 DEF Same
  <2> HIDE DEF With, Last
  <2>7. Same(Keep(With(n), 1, Last(n)), Keep(With(m), 1, Last(n)))
    BY <2>2, <2>4, KeepSame
  <2> QED
    BY <2>5, <2>6, <2>7
<1> QED
  BY <1>1, <1>2

LEMMA CheckpointSame ==
  ASSUME NEW n, NodeOK(n), NEW m, NodeOK(m), Same(n, m), n.live # None
  PROVE  Same(Checkpoint(n), Checkpoint(m))
<1> DEFINE Cut(o) == [o.live EXCEPT !.kv = Take(@, Len(o.live.ids)), !.tail = 0]
           Trimmed(o) == [o EXCEPT !.live.kv = Take(@, Len(o.live.ids)),
                                   !.live.tail = 0]
<1>1. n \in Nodes /\ m \in Nodes /\ n.live = m.live
  BY DEF NodeOK, Same
<1>2. ASSUME NEW o \in Nodes
      PROVE  /\ Trimmed(o).live = Cut(o) /\ Trimmed(o).anchor = o.anchor
             /\ Trimmed(o).cold = o.cold /\ Trimmed(o).art = o.art
             /\ Trimmed(o).junk = o.junk /\ Trimmed(o).order = o.order
  BY DEF Nodes
<1>3. \/ Checkpoint(n) = n /\ Checkpoint(m) = m
      \/ Checkpoint(n) = Trimmed(n) /\ Checkpoint(m) = Trimmed(m)
  BY <1>1 DEF Checkpoint
<1>4. Cut(n) = Cut(m)
  BY <1>1
<1> HIDE DEF Trimmed, Cut
<1> QED
  BY <1>1, <1>2, <1>3, <1>4 DEF Same

LEMMA AutosaveSame ==
  ASSUME NEW n, NodeOK(n), NEW m, NodeOK(m), Same(n, m), Room(n), Room(m)
  PROVE  Same(Autosave(n, FALSE), Autosave(m, FALSE))
<1>1. Wanted(n) <=> Wanted(m)
  BY DEF Wanted, Due, Same
<1>2. CASE ~Wanted(n)
  BY <1>1, <1>2 DEF Autosave
<1>3. CASE Wanted(n)
  <2>1. n.live # None /\ m.live # None
    BY <1>3 DEF Wanted, Same
  <2> DEFINE u == Checkpoint(n)
             v == Checkpoint(m)
  <2>2. NodeOK(u) /\ NodeOK(v) /\ Same(u, v)
    BY <2>1, CheckpointIs, CheckpointSame
  <2>3. /\ Savable(u.live) => Fitting(Written(u), 1, Len(Written(u).order))
        /\ Savable(v.live) => Fitting(Written(v), 1, Len(Written(v).order))
    BY <1>1, <1>3 DEF Room, Writing
  <2>4. Autosave(n, FALSE) = Save(u, FALSE) /\ Autosave(m, FALSE) = Save(v, FALSE)
    BY <1>1, <1>3 DEF Autosave
  <2> HIDE DEF u, v
  <2> QED
    BY <2>2, <2>3, <2>4, SaveSame
<1> QED
  BY <1>2, <1>3

LEMMA OutgoingSame ==
  ASSUME NEW n, NodeOK(n), NEW m, NodeOK(m), Same(n, m), Room(n), Room(m),
         NEW p
  PROVE  Same(Outgoing(n, p), Outgoing(m, p))
<1>1. CASE n.live = None \/ n.live.sess = p.sess
  BY <1>1 DEF Outgoing, Same
<1>2. CASE ~(n.live = None \/ n.live.sess = p.sess)
  <2> DEFINE u == Autosave(n, FALSE)
             v == Autosave(m, FALSE)
  <2>1. Outgoing(n, p) = [u EXCEPT !.live = None]
        /\ Outgoing(m, p) = [v EXCEPT !.live = None]
    BY <1>2 DEF Outgoing, Same
  <2>2. u \in Nodes /\ v \in Nodes
    BY AutosaveIs DEF NodeOK
  <2>3. Same(u, v)
    BY AutosaveSame
  <2> HIDE DEF u, v
  <2>4. Same([u EXCEPT !.live = None], [v EXCEPT !.live = None])
    BY <2>2, <2>3, LiveSet DEF Same
  <2> QED
    BY <2>1, <2>4
<1> QED
  BY <1>1, <1>2

LEMMA ContinuedSame ==
  ASSUME NEW n \in Nodes, NEW m \in Nodes, Same(n, m), NEW p
  PROVE  Same(Continued(n, p), Continued(m, p))
<1> DEFINE reuse == Common(n.live.ids, p.ids)
           final == IF reuse = Len(p.ids) /\ reuse > MinReuse THEN reuse - 1
                    ELSE reuse
           cut == [n.live EXCEPT !.kv = Take(@, final)]
           slot == IF Len(n.live.kv) < reuse THEN Fresh(p.sess) ELSE cut
<1>1. n.live = m.live
  BY DEF Same
<1>2. Continued(n, p) = [n EXCEPT !.live = slot]
  BY DEF Continued, Nodes
<1>3. Continued(m, p) = [m EXCEPT !.live = slot]
  BY <1>1 DEF Continued, Nodes
<1> HIDE DEF slot
<1> QED
  BY <1>2, <1>3, LiveSet DEF Same

LEMMA RestoredSame ==
  ASSUME NEW n \in Nodes, NEW m \in Nodes, Same(n, m), NEW p
  PROVE  Same(Restored(n, p), Restored(m, p))
<1> DEFINE reuse == Common(n.art[p.sess].ids, p.ids)
           slot == Slot(p.sess, Take(n.art[p.sess].ids, reuse),
                        Take(n.art[p.sess].kv, reuse), 0)
           Load(o) == [o EXCEPT !.live = slot, !.order = Newest(@, p.sess)]
<1>1. n.art = m.art
  BY DEF Same
<1>2. Restored(n, p) = Load(n) /\ Restored(m, p) = Load(m)
  BY <1>1 DEF Restored
<1> HIDE DEF slot
<1>3. ASSUME NEW o \in Nodes
      PROVE  /\ Load(o).live = slot /\ Load(o).anchor = o.anchor
             /\ Load(o).cold = o.cold /\ Load(o).art = o.art
             /\ Load(o).junk = o.junk
             /\ Load(o).order = Newest(o.order, p.sess)
  BY DEF Nodes
<1> HIDE DEF Load
<1> QED
  BY <1>2, <1>3 DEF Same

LEMMA PreparedSame ==
  ASSUME NEW n, NodeOK(n), NEW m, NodeOK(m), Same(n, m), NEW p \in Prompts
  PROVE  Same(Prepared(n, p), Prepared(m, p))
<1> DEFINE Empty(o) == o.live = None \/ o.live.ids = <<>>
           Low(o) == Empty(o) \/ Common(o.live.ids, p.ids) < MinReuse
           Load(o) == ~ColdOnce(o, p) /\ Loadable(o, p)
           Chilled(o) == TakeCold(o, p)
<1>1. n \in Nodes /\ m \in Nodes
  BY DEF NodeOK
<1>2. /\ Empty(n) <=> Empty(m)
      /\ Low(n) <=> Low(m)
      /\ Load(n) <=> Load(m)
  BY DEF Same, ColdOnce, Loadable
<1>3. CASE ~Low(n)
  <2>1. Prepared(n, p) = Continued(n, p) /\ Prepared(m, p) = Continued(m, p)
    BY <1>2, <1>3 DEF Prepared
  <2> QED
    BY <1>1, <2>1, ContinuedSame
<1>4. CASE Low(n) /\ Load(n)
  <2> DEFINE u == Restored(n, p)
             v == Restored(m, p)
  <2>1. Prepared(n, p) = Continued(u, p) /\ Prepared(m, p) = Continued(v, p)
    BY <1>2, <1>4 DEF Prepared
  <2>2. u \in Nodes /\ v \in Nodes /\ Same(u, v)
    BY <1>1, <1>2, <1>4, RestoredIs, RestoredSame DEF NodeOK
  <2> HIDE DEF u, v
  <2> QED
    BY <2>1, <2>2, ContinuedSame
<1>5. CASE Low(n) /\ ~Load(n)
  <2>1. ~(Empty(n) /\ n.live # None /\ n.live.kv # <<>>)
    BY DEF NodeOK, Sound, Keyed
  <2>2. ~(Empty(m) /\ m.live # None /\ m.live.kv # <<>>)
    BY DEF NodeOK, Sound, Keyed
  <2>3. /\ Prepared(n, p) = [Chilled(n) EXCEPT !.live = Fresh(p.sess)]
        /\ Prepared(m, p) = [Chilled(m) EXCEPT !.live = Fresh(p.sess)]
    BY <1>2, <1>5, <2>1, <2>2 DEF Prepared
  <2>4. Chilled(n) \in Nodes /\ Chilled(m) \in Nodes
    BY <1>1 DEF TakeCold, Nodes
  <2>5. Same(Chilled(n), Chilled(m))
    BY <1>1 DEF TakeCold, ColdOnce, Same, Nodes
  <2> HIDE DEF Chilled
  <2> QED
    BY <2>3, <2>4, <2>5, LiveSet DEF Same
<1> QED
  BY <1>3, <1>4, <1>5

LEMMA UpdatedSame ==
  ASSUME NEW q \in Ranks, NEW r \in Ranks, NodeOK(Node(q)), NodeOK(Node(r)),
         Same(Node(q), Node(r)), NEW full, NEW lost
  PROVE  Same(Updated(q, full, lost), Updated(r, full, lost))
<1> DEFINE kv == req.ids \o Answer
           key == IF full THEN Take(kv, Len(kv) - lost) ELSE req.ids
           tail == IF full THEN 0 ELSE Len(Answer) - lost
           slot == Slot(req.sess, key, kv, tail)
<1>1. \A o \in Ranks: Node(o).live = live[o]
  BY DEF Node
<1>2. live[q] = live[r] /\ Node(q) \in Nodes /\ Node(r) \in Nodes
  BY <1>1 DEF Same, NodeOK
<1>3. \A o \in {q, r}: Updated(o, full, lost) =
        IF live[o] = None THEN Node(o) ELSE [Node(o) EXCEPT !.live = slot]
  BY DEF Updated
<1> HIDE DEF slot
<1> DEFINE u == Node(q)
           v == Node(r)
<1> HIDE DEF u, v
<1>4. Same(u, v) /\ Same([u EXCEPT !.live = slot], [v EXCEPT !.live = slot])
  <2>1. u \in Nodes /\ v \in Nodes /\ Same(u, v)
    BY <1>2 DEF u, v
  <2> QED
    BY <2>1, LiveSet DEF Same
<1> QED
  BY <1>2, <1>3, <1>4 DEF u, v

LEMMA SameOK ==
  ASSUME NEW n, NodeOK(n), NEW m \in Nodes, Same(n, m)
  PROVE  NodeOK(m)
<1>1. \A s \in Sessions: Size(m, s) = Size(n, s)
  BY DEF Same, Size
<1> QED
  BY <1>1 DEF NodeOK, Sound, Same

After(r) == Autosave(Updated(r, req.full, 0), FALSE)

Alike(q, r) ==
  \/ at[q] = at[r] /\ Same(Node(q), Node(r))
  \/ /\ at[q] = "start" /\ at[r] = "prepared"
     /\ Same(Node(r), Prepared(Outgoing(Node(q), req), req))
  \/ at[q] = "decode" /\ at[r] = "finished" /\ Same(Node(r), After(q))

AlikeInv ==
  /\ \E q \in Ranks, r \in Ranks: q # r /\ Alike(q, r)
  /\ verdict # "diverged"

\* In which order does not matter where the ranks are in step.
LEMMA AlikeAtRest ==
  ASSUME AlikeInv, NEW place, BothAt(place)
  PROVE  Same(Node(0), Node(1))
BY DEF AlikeInv, Alike, BothAt, Ranks, Same

\* A step of both ranks, or of none, between two phases.
LEMMA AlikeTogether ==
  ASSUME \E place: BothAt(place)', Same(Node(0), Node(1))',
         verdict' # "diverged"
  PROVE  AlikeInv'
<1>1. at'[0] = at'[1]
  BY DEF BothAt, Ranks
<1>2. Alike(0, 1)'
  BY <1>1 DEF Alike
<1> QED
  BY <1>2 DEF AlikeInv, Ranks

LEMMA PrepareAlike ==
  ASSUME TierInv, AlikeInv, RoomToSave, NEW r \in Ranks, Prepare(r)
  PROVE  AlikeInv'
<1> DEFINE n == Outgoing(Node(r), req)
           m == Prepared(n, req)
<1>1. PICK o \in Ranks: o # r /\ (Alike(o, r) \/ Alike(r, o))
  <2>1. PICK q \in Ranks, p \in Ranks: q # p /\ Alike(q, p)
    BY DEF AlikeInv
  <2>2. q = r \/ p = r
    BY <2>1 DEF Ranks
  <2> QED
    BY <2>1, <2>2
<1>2. /\ at[r] = "start" /\ at' = [at EXCEPT ![r] = "prepared"]
      /\ req' = req /\ verdict' = verdict /\ Become(r, m)
  BY DEF Prepare
<1>3. at'[r] = "prepared" /\ at'[o] = at[o]
  BY <1>1, <1>2 DEF TierInv, CourseOK
<1>4. req \in Prompts /\ NodeOK(Node(r)) /\ NodeOK(Node(o)) /\ NodeOK(n)
  BY <1>2, ReqIs, OutgoingIs DEF TierInv, MemoryOK
<1>5. Node(r)' = m /\ Node(o)' = Node(o)
  <2> HIDE DEF n
  <2>1. NodeOK(m)
    BY <1>4, PreparedIs
  <2> HIDE DEF m
  <2> QED
    BY <1>1, <1>2, <2>1, BecomeNode DEF TierInv
<1>6. CASE at[o] = at[r] /\ Same(Node(o), Node(r))
  <2> DEFINE k == Outgoing(Node(o), req)
  <2>1. Room(Node(r)) /\ Room(Node(o))
    BY <1>2, <1>6 DEF RoomToSave
  <2>2. NodeOK(k)
    BY <1>4, OutgoingIs
  <2>3. Same(n, k)
    <3>1. Same(Node(r), Node(o))
      BY <1>6 DEF Same
    <3> QED
      BY <1>4, <2>1, <3>1, OutgoingSame
  <2> HIDE DEF n, k
  <2>4. Same(m, Prepared(k, req))
    BY <1>4, <2>2, <2>3, PreparedSame
  <2>5. at'[o] = "start" /\ Same(Node(r)', Prepared(Outgoing(Node(o)', req'), req'))
    BY <1>2, <1>3, <1>5, <1>6, <2>4 DEF k
  <2>6. Alike(o, r)'
    BY <1>3, <2>5 DEF Alike
  <2> QED
    BY <1>1, <1>2, <2>6 DEF AlikeInv
<1>7. CASE at[o] = "prepared" /\ Same(Node(o), m)
  <2>1. Alike(o, r)'
    BY <1>3, <1>5, <1>7 DEF Alike
  <2> QED
    BY <1>1, <1>2, <2>1 DEF AlikeInv
<1>8. \/ at[o] = at[r] /\ Same(Node(o), Node(r))
      \/ at[o] = "prepared" /\ Same(Node(o), m)
  BY <1>1, <1>2 DEF Alike, Same
<1> QED
  BY <1>6, <1>7, <1>8

LEMMA FinishAlike ==
  ASSUME TierInv, AlikeInv, RoomToSave, NEW r \in Ranks, Finish(r)
  PROVE  AlikeInv'
<1> DEFINE m == After(r)
<1>1. PICK o \in Ranks: o # r /\ (Alike(o, r) \/ Alike(r, o))
  <2>1. PICK q \in Ranks, p \in Ranks: q # p /\ Alike(q, p)
    BY DEF AlikeInv
  <2>2. q = r \/ p = r
    BY <2>1 DEF Ranks
  <2> QED
    BY <2>1, <2>2
<1>2. /\ at[r] = "decode" /\ at' = [at EXCEPT ![r] = "finished"]
      /\ req' = req /\ verdict' = verdict /\ Become(r, m)
  BY DEF Finish, After
<1>3. at'[r] = "finished" /\ at'[o] = at[o]
  BY <1>1, <1>2 DEF TierInv, CourseOK
<1>4. /\ req \in Prompts /\ req.full \in BOOLEAN /\ 0 \in {0, 1}
      /\ \A q \in Ranks: NodeOK(Node(q))
  <2>1. req \in Prompts
    BY <1>2, ReqIs DEF TierInv
  <2> QED
    BY <2>1, PromptIs DEF TierInv, MemoryOK
<1>5. Node(r)' = m /\ Node(o)' = Node(o)
  <2>1. NodeOK(m)
    BY <1>4, FinishIs DEF After
  <2> HIDE DEF m
  <2> QED
    BY <1>1, <1>2, <2>1, BecomeNode DEF TierInv
<1>6. CASE at[o] = at[r] /\ Same(Node(o), Node(r))
  <2> DEFINE u == Updated(r, req.full, 0)
             v == Updated(o, req.full, 0)
  <2>1. Room(u) /\ Room(v) /\ NodeOK(u) /\ NodeOK(v)
    BY <1>2, <1>4, <1>6, UpdatedIs DEF RoomToSave
  <2>2. Same(u, v)
    <3>1. Same(Node(r), Node(o))
      BY <1>6 DEF Same
    <3> QED
      BY <1>4, <3>1, UpdatedSame
  <2>3. After(o)' = After(o)
    <3>1. live'[o] = live[o]
      <4>1. Node(o).live = live[o] /\ Node(o)'.live = live'[o]
        BY DEF Node
      <4> QED
        BY <1>5, <4>1
    <3>2. Updated(o, req.full, 0)' = Updated(o, req.full, 0)
      BY <1>2, <1>5, <3>1 DEF Updated
    <3> QED
      BY <3>2 DEF After
  <2> HIDE DEF u, v
  <2>4. Same(Autosave(u, FALSE), Autosave(v, FALSE))
    BY <2>1, <2>2, AutosaveSame
  <2>5. at'[o] = "decode" /\ Same(Node(r)', After(o)')
    BY <1>2, <1>3, <1>5, <1>6, <2>3, <2>4 DEF After, u, v
  <2>6. Alike(o, r)'
    BY <1>3, <2>5 DEF Alike
  <2> QED
    BY <1>1, <1>2, <2>6 DEF AlikeInv
<1>7. CASE at[o] = "finished" /\ Same(Node(o), m)
  <2>1. Alike(o, r)'
    BY <1>3, <1>5, <1>7 DEF Alike
  <2> QED
    BY <1>1, <1>2, <2>1 DEF AlikeInv
<1>8. \/ at[o] = at[r] /\ Same(Node(o), Node(r))
      \/ at[o] = "finished" /\ Same(Node(o), m)
  BY <1>1, <1>2 DEF Alike, Same
<1> QED
  BY <1>6, <1>7, <1>8

\* Rank 0's cap is another while the two ranks are where they were.
LEMMA RetuneAlike ==
  ASSUME TierInv, AlikeInv, RoomToSave, TierInv', RoomToSave',
         NEW c \in Tuned, Retune(c)
  PROVE  AlikeInv'
<1>1. UNCHANGED <<live, anchor, cold, art, junk, order, at, req, verdict>>
  BY DEF Retune
<1>2. PICK q \in Ranks, r \in Ranks: q # r /\ Alike(q, r)
  BY DEF AlikeInv
<1>3. \A o \in Ranks: /\ Same(Node(o), Node(o)')
                      /\ NodeOK(Node(o)) /\ NodeOK(Node(o)')
  BY <1>1 DEF Same, Node, TierInv, MemoryOK
<1>4. CASE at[q] = at[r] /\ Same(Node(q), Node(r))
  <2>1. Same(Node(q)', Node(r)')
    BY <1>3, <1>4 DEF Same
  <2>2. Alike(q, r)'
    BY <1>1, <1>4, <2>1 DEF Alike
  <2> QED
    BY <1>1, <1>2, <2>2 DEF AlikeInv
<1>5. CASE /\ at[q] = "start" /\ at[r] = "prepared"
           /\ Same(Node(r), Prepared(Outgoing(Node(q), req), req))
  <2> DEFINE n == Outgoing(Node(q), req)
             m == Outgoing(Node(q)', req)
  <2>1. req \in Prompts
    BY <1>5, ReqIs DEF TierInv
  <2>2. Room(Node(q)) /\ Room(Node(q)')
    BY <1>1, <1>5 DEF RoomToSave
  <2>3. NodeOK(n) /\ NodeOK(m) /\ Same(n, m)
    BY <1>3, <2>2, OutgoingIs, OutgoingSame
  <2> HIDE DEF n, m
  <2>4. Same(Prepared(n, req), Prepared(m, req))
    BY <2>1, <2>3, PreparedSame
  <2>5. Same(Node(r), Prepared(n, req))
    BY <1>5 DEF n
  <2>6. Same(Node(r), Node(r)')
    BY <1>3
  <2>7. Same(Node(r)', Prepared(m, req))
    BY <2>4, <2>5, <2>6 DEF Same
  <2>8. Alike(q, r)'
    BY <1>1, <1>5, <2>7 DEF Alike, m
  <2> QED
    BY <1>1, <1>2, <2>8 DEF AlikeInv
<1>6. CASE at[q] = "decode" /\ at[r] = "finished" /\ Same(Node(r), After(q))
  <2> DEFINE u == Updated(q, req.full, 0)
             v == Updated(q, req.full, 0)'
             kv == req.ids \o Answer
             key == IF req.full THEN Take(kv, Len(kv) - 0) ELSE req.ids
             tail == IF req.full THEN 0 ELSE Len(Answer) - 0
             slot == Slot(req.sess, key, kv, tail)
             n == Node(q)
             m == Node(q)'
  <2>1. req \in Prompts /\ req.full \in BOOLEAN /\ 0 \in {0, 1}
    <3>1. req \in Prompts
      BY <1>6, ReqIs DEF TierInv
    <3> QED
      BY <3>1, PromptIs
  <2>2. Room(u) /\ Room(v)
    BY <1>1, <1>6 DEF RoomToSave
  <2>3. NodeOK(u)
    BY <1>3, <2>1, UpdatedIs
  <2>4. /\ n \in Nodes /\ m \in Nodes /\ Same(n, m)
    BY <1>3 DEF NodeOK
  <2>5. \/ u = n /\ v = m
        \/ u = [n EXCEPT !.live = slot] /\ v = [m EXCEPT !.live = slot]
    BY <1>1 DEF Updated
  <2> HIDE DEF u, v, slot, n, m
  <2>6. NodeOK(v) /\ Same(u, v)
    <3>1. CASE u = n /\ v = m
      BY <2>3, <2>4, <3>1, SameOK
    <3>2. CASE u = [n EXCEPT !.live = slot] /\ v = [m EXCEPT !.live = slot]
      <4>1. Same(u, v)
        BY <2>4, <3>2, LiveSet DEF Same
      <4>2. slot \in {None} \cup Slots
        <5>1. u.live = slot
          BY <2>4, <3>2, LiveSet
        <5>2. u.live \in {None} \cup Slots
          BY <2>3, NodesAre DEF NodeOK
        <5> QED
          BY <5>1, <5>2
      <4>3. v \in Nodes
        BY <2>4, <3>2, <4>2 DEF Nodes
      <4> QED
        BY <2>3, <4>1, <4>3, SameOK
    <3> QED
      BY <2>5, <3>1, <3>2
  <2>7. Same(Autosave(u, FALSE), Autosave(v, FALSE))
    BY <2>2, <2>3, <2>6, AutosaveSame
  <2>8. Same(Node(r)', Autosave(v, FALSE))
    <3>1. Same(Node(r), Autosave(u, FALSE)) /\ Same(Node(r), Node(r)')
      BY <1>3, <1>6 DEF After, u
    <3> QED
      BY <2>7, <3>1 DEF Same
  <2>9. Alike(q, r)'
    BY <1>1, <1>6, <2>8 DEF Alike, After, v
  <2> QED
    BY <1>1, <1>2, <2>9 DEF AlikeInv
<1> QED
  BY <1>2, <1>4, <1>5, <1>6 DEF Alike

LEMMA AlikeNext ==
  ASSUME MaxFaults = 0, TierInv, AlikeInv, RoomToSave, RoomToSave',
         [TierNext]_tier
  PROVE  AlikeInv'
<1>1. CASE UNCHANGED tier
  <2>1. \A r \in Ranks: Node(r)' = Node(r) /\ After(r)' = After(r)
    BY <1>1 DEF tier, Node, After, Updated
  <2>2. at' = at /\ req' = req /\ verdict' = verdict
    BY <1>1 DEF tier
  <2> QED
    BY <2>1, <2>2 DEF AlikeInv, Alike
<1>2. ASSUME NEW p \in Prompts, Arrive(p) PROVE AlikeInv'
  <2>1. BothAt("idle") /\ verdict' = verdict
    BY <1>2 DEF TierInv, CourseOK, Arrive, BothAt
  <2>2. Node(0)' = Node(0) /\ Node(1)' = Node(1) /\ BothAt("start")'
    BY <1>2 DEF Arrive, Node, BothAt
  <2>3. Same(Node(0)', Node(1)')
    BY <2>1, <2>2, AlikeAtRest
  <2> QED
    BY <2>1, <2>2, <2>3, AlikeTogether DEF AlikeInv
<1>3. ASSUME NEW r \in Ranks, Prepare(r) \/ Finish(r) PROVE AlikeInv'
  BY <1>3, PrepareAlike, FinishAlike
<1>4. CASE Vote
  <2>1. BothAt("prepared")
    BY <1>4 DEF Vote
  <2>2. Same(Node(0), Node(1))
    BY <2>1, AlikeAtRest
  <2>3. Reused(0) = Reused(1)
    <3>1. Node(0).live = live[0] /\ Node(1).live = live[1]
      BY DEF Node
    <3> QED
      BY <2>2, <3>1 DEF Reused, Same
  <2>4. /\ verdict' = "agreed"
        /\ UNCHANGED <<live, anchor, cold, art, junk, order, cap>>
        /\ BothAt("decode")'
    BY <1>4, <2>3 DEF Vote, BothAt
  <2>5. Node(0)' = Node(0) /\ Node(1)' = Node(1)
    BY <2>4 DEF Node
  <2> QED
    BY <2>2, <2>4, <2>5, AlikeTogether
<1>5. CASE Complete
  <2>1. BothAt("finished")
    BY <1>5 DEF Complete
  <2>2. /\ Node(0)' = Node(0) /\ Node(1)' = Node(1) /\ BothAt("idle")'
        /\ verdict' = None
    BY <1>5 DEF Complete, Node, BothAt
  <2>3. Same(Node(0)', Node(1)') /\ verdict' # "diverged"
    BY <2>1, <2>2, AlikeAtRest, SsdAssumption DEF SsdAssumption
  <2> QED
    BY <2>2, <2>3, AlikeTogether DEF AlikeInv
<1>6. CASE Release \/ Clear
  <2>1. BothAt("idle") /\ BothAt("idle")' /\ verdict' = verdict
    BY <1>6 DEF TierInv, CourseOK, Release, Clear, BothAt
  <2>2. Same(Node(0), Node(1))
    BY <2>1, AlikeAtRest
  <2>3. /\ live[0] = live[1] /\ anchor[0] = anchor[1] /\ cold[0] = cold[1]
        /\ art[0] = art[1] /\ junk[0] = junk[1] /\ order[0] = order[1]
    BY <2>2 DEF Node, Same
  <2>4. Same(Node(0)', Node(1)')
    BY <1>6, <2>3 DEF Release, Clear, Node, Ranks, Same
  <2> QED
    BY <2>1, <2>4, AlikeTogether DEF AlikeInv
<1>7. ASSUME NEW r \in Ranks, Expire(r) \/ FinishBadly(r) \/ Crash(r)
      PROVE  FALSE
  BY <1>7 DEF Expire, FinishBadly, Crash, Fault, TierInv, CourseOK
<1>8. ASSUME NEW c \in Tuned, Retune(c) PROVE AlikeInv'
  BY <1>8, RetuneHolds, RetuneAlike
<1> QED
  BY <1>1, <1>2, <1>3, <1>4, <1>5, <1>6, <1>7, <1>8 DEF TierNext

\* Skew between the ranks comes from faults and from prunes alone: without a
\* fault, and as long as every save finds room on its rank's disk, no vote
\* diverges, and whenever no request runs the two memories and disks are the
\* same, whatever is saved, loaded and released and however different the two
\* ranks' caps are or become.
THEOREM SkewNeedsFaultOrPrune ==
  ASSUME MaxFaults = 0
  PROVE  TierSpec /\ []RoomToSave =>
           [](/\ verdict # "diverged"
              /\ BothAt("idle") => Same(Node(0), Node(1)))
<1>1. TierInit => AlikeInv
  <2> SUFFICES ASSUME TierInit PROVE AlikeInv
    OBVIOUS
  <2>1. at[0] = at[1] /\ Same(Node(0), Node(1))
    BY DEF TierInit, Node, Ranks, Same
  <2>2. verdict # "diverged"
    BY SsdAssumption DEF SsdAssumption, TierInit
  <2> QED
    BY <2>1, <2>2 DEF AlikeInv, Alike, Ranks
<1>2. TierInv /\ AlikeInv /\ RoomToSave /\ RoomToSave' /\ [TierNext]_tier
      => AlikeInv'
  BY AlikeNext
<1>3. AlikeInv => /\ verdict # "diverged"
                  /\ BothAt("idle") => Same(Node(0), Node(1))
  BY AlikeAtRest DEF AlikeInv
<1> QED
  BY <1>1, <1>2, <1>3, TierInvariant, PTL DEF TierSpec
=============================================================================
