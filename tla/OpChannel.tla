----------------------------- MODULE OpChannel -----------------------------
(***************************************************************************)
(* The channel on which rank 0 tells rank 1 what to run next.              *)
(*                                                                         *)
(* An operation is a run of collectives: a size word, a body word and, for *)
(* some operations, follow-up steps (prefill consensus, decode, ping).     *)
(* Rank 1 knows only the position it has reached in that run, so a word of *)
(* another thread of rank 0 that arrives in between is taken for the one   *)
(* it waits for: the words are shredded and rank 1 wedges.  One mutex of   *)
(* rank 0 is there to keep transactions apart; some of the threads that    *)
(* broadcast do not take it.                                               *)
(*                                                                         *)
(* A word is a rendezvous: mx.eval returns on rank 0 when rank 1 has taken *)
(* part.  Which thread of rank 0 gets its word in first is open.  The      *)
(* generation lock is left out (GenerationSlot has it): any number of      *)
(* requests may be active here.                                            *)
(***************************************************************************)
EXTENDS Naturals, Sequences

CONSTANTS Requests,    \* chat requests, each a job of the generation worker
          Keepwarms,   \* heartbeat, keepwarm and post-response threads
          SsdAdmins,   \* prune and clear handlers, on the event loop
          Savers,      \* SSD save, a control job of the generation worker
          LoopAdmins,  \* reset, warmup and tuning handlers, on the event loop
          Janitors,    \* the prompt-cache janitor's thread
          Stoppers,    \* /admin/shutdown handlers, on the event loop
          OneSided,    \* the ranks on which a generation may fail alone
          MaxSteps,    \* bound on the follow-up steps of one operation
          NoOne

Locked   == Requests \cup Keepwarms \cup SsdAdmins \cup Savers
Unlocked == LoopAdmins \cup Janitors \cup Stoppers
Actors   == Locked \cup Unlocked
OnLoop   == SsdAdmins \cup LoopAdmins \cup Stoppers
OnWorker == Requests \cup Savers

ASSUME ActorsAssumption == NoOne \notin Actors
ASSUME StepsAssumption == MaxSteps \in Nat \ {0} /\ OneSided \subseteq {0, 1}
ASSUME KindsAssumption ==
  /\ Unlocked \cap Locked = {}
  /\ Requests \cap (Keepwarms \cup SsdAdmins \cup Savers) = {}
  /\ Stoppers \cap (LoopAdmins \cup Janitors) = {}

Ops == {"request", "barrier", "touch", "ping", "prewarm", "reset", "ssd",
        "tuning", "shutdown"}

\* Operations that go on with collectives after their body word.
Stepped == {"request", "prewarm", "ping"}

\* Operations that change state both ranks hold: caches, files, tuning.
Changing == {"request", "prewarm", "reset", "ssd", "tuning"}

\* A request may begin with a warmup; a tool retry may drop the caches and
\* generates again; the end may drop or prewarm them.
Starts  == {<<>>, <<"touch">>}
Retries == {<<>>, <<"request">>, <<"reset", "request">>}
Ends    == {<<>>, <<"reset">>, <<"prewarm">>}

RequestPlans ==
  {start \o <<"request">> \o retry \o end \o <<"barrier">> :
     start \in Starts, retry \in Retries, end \in Ends}

\* The operations a thread may broadcast in one go.
Plans(a) ==
  {p \in RequestPlans: a \in Requests} \cup
  {p \in {<<"touch">>, <<"ping">>, <<"prewarm">>}: a \in Keepwarms} \cup
  {p \in {<<"ssd">>}: a \in SsdAdmins \cup Savers} \cup
  {p \in {<<"reset">>, <<"touch">>, <<"tuning">>, <<"reset", "tuning">>}:
     a \in LoopAdmins} \cup
  {p \in {<<"reset">>}: a \in Janitors} \cup
  {p \in {<<"shutdown">>}: a \in Stoppers}

VARIABLES turn,       \* who holds _RANK0_OP_MUTEX
          pc,         \* per actor: where its thread is
          plan,       \* per actor: the operations it still has to broadcast
          mirror,     \* rank 1: what it waits for or does, and for which op
          steps,      \* follow-up steps exchanged for the current operation
          log,        \* per rank: the changes it applied, oldest first
          stopping    \* request_state["shutdown_requested"]

vars == <<turn, pc, plan, mirror, steps, log, stopping>>

Words == {"size", "body", "step"}
InOp  == Words \cup {"local"}
InJob == InOp \cup {"close"}

TypeOK ==
  /\ turn \in Locked \cup {NoOne}
  /\ pc \in [Actors -> InJob \cup {"idle", "queued", "active", "checked", "done"}]
  /\ plan \in [Actors -> Seq(Ops)]
  /\ mirror \in [at: InOp \cup {"gone", "wedged"}, from: Actors \cup {NoOne},
                 op: Ops]
  /\ steps \in 0..MaxSteps
  /\ log \in [{0, 1} -> Seq(Actors \X Ops)]
  /\ stopping \in BOOLEAN

Waiting(at) == [at |-> at, from |-> NoOne, op |-> "barrier"]

Init ==
  /\ turn = NoOne
  /\ pc = [a \in Actors |-> "idle"]
  /\ plan = [a \in Actors |-> <<>>]
  /\ mirror = Waiting("size")
  /\ steps = 0
  /\ log = [r \in {0, 1} |-> <<>>]
  /\ stopping = FALSE

\* A request's transaction; its slot is released when it shuts down.
InTransaction(r) == pc[r] \in InJob /\ plan[r] # <<"shutdown">>

\* request_state["active"] names r.
Active(r) == pc[r] = "active" \/ InTransaction(r)

\* The check of active and queued under state_lock.
Idle == \A r \in Requests: pc[r] # "queued" /\ ~Active(r)

LoopFree == \A a \in OnLoop: pc[a] \notin InJob

WorkerFree == \A a \in OnWorker: pc[a] \notin InJob

(***************************************************************************)
(* Before a transaction.                                                   *)
(***************************************************************************)

Goto(a, to) == pc' = [pc EXCEPT ![a] = to]

\* The event loop accepts a request, unless a shutdown was requested.
Queue(r) ==
  /\ pc[r] = "idle" /\ LoopFree /\ ~stopping
  /\ Goto(r, "queued")
  /\ UNCHANGED <<turn, plan, mirror, steps, log, stopping>>

\* The event loop finds the slot granted and records the request as active.
Publish(r) ==
  /\ pc[r] = "queued" /\ LoopFree
  /\ Goto(r, "active")
  /\ UNCHANGED <<turn, plan, mirror, steps, log, stopping>>

\* A thread or handler sees no request; what it does next is another step:
\* handlers await the body of their HTTP request, threads get preempted.
Check(a) ==
  /\ pc[a] = "idle" /\ Idle
  /\ a \in OnLoop \cup Savers => LoopFree
  /\ a \in Keepwarms => ~stopping
  /\ Goto(a, "checked")
  /\ UNCHANGED <<turn, plan, mirror, steps, log, stopping>>

Enter(a) ==
  /\ \E p \in Plans(a): plan' = [plan EXCEPT ![a] = p]
  /\ Goto(a, "size")

\* Keepwarms look again once they have the channel.
Welcome(a) == a \in Keepwarms => Idle /\ ~stopping

\* Mutant: the mutex is not acquired exclusively.
TakeTurn_Shared(a) ==
  /\ pc[a] = (IF a \in Requests THEN "active" ELSE "checked")
  /\ a \in OnWorker => WorkerFree
  /\ a \in OnLoop => LoopFree
  /\ Welcome(a)
  /\ turn' = a
  /\ Enter(a)
  /\ UNCHANGED <<mirror, steps, log, stopping>>

\* Acquire the op mutex for a whole transaction.
TakeTurn(a) ==
  /\ pc[a] = (IF a \in Requests THEN "active" ELSE "checked")
  /\ turn = NoOne
  /\ a \in OnWorker => WorkerFree
  /\ a \in OnLoop => LoopFree
  /\ Welcome(a)
  /\ turn' = a
  /\ Enter(a)
  /\ UNCHANGED <<mirror, steps, log, stopping>>

\* The bounded acquire runs out, or the second look finds a request.
GiveUp(a) ==
  /\ pc[a] = "checked"
  /\ a \in Keepwarms \cup SsdAdmins
  /\ turn # NoOne \/ ~Welcome(a)
  /\ Goto(a, "done")
  /\ UNCHANGED <<turn, plan, mirror, steps, log, stopping>>

\* Mutant: the unlocked handlers are served by threads, not by the event loop.
Barge_OffLoop(a) ==
  /\ pc[a] = "checked"
  /\ Enter(a)
  /\ UNCHANGED <<turn, mirror, steps, log, stopping>>

\* Handlers and janitor that broadcast without the mutex.
Barge(a) ==
  /\ pc[a] = "checked"
  /\ a \in OnLoop => LoopFree
  /\ Enter(a)
  /\ UNCHANGED <<turn, mirror, steps, log, stopping>>

\* Mutant: the shutdown is broadcast whether a request is active or not.
Shutdown_Blind(a) ==
  /\ pc[a] = "idle" /\ LoopFree
  /\ stopping' = TRUE
  /\ Enter(a)
  /\ UNCHANGED <<turn, mirror, steps, log>>

\* /admin/shutdown: at once, or left to the request that is active.
Shutdown(a) ==
  /\ pc[a] = "idle" /\ LoopFree
  /\ stopping' = TRUE
  /\ IF \E r \in Requests: Active(r)
     THEN Goto(a, "done") /\ UNCHANGED plan
     ELSE Enter(a)
  /\ UNCHANGED <<turn, mirror, steps, log>>

(***************************************************************************)
(* The words.  pc[a] names the word that a has to send next, mirror.at the *)
(* word that rank 1 waits for.                                             *)
(***************************************************************************)

Op(a) == Head(plan[a])

\* Rank 1 waits for this very word of this very operation.
Meets(a) == mirror.at = pc[a] /\ (pc[a] # "size" => mirror.from = a)

SendSize(a) ==
  /\ pc[a] = "size" /\ Meets(a)
  /\ mirror' = [at |-> "body", from |-> a, op |-> Op(a)]
  /\ Goto(a, "body")
  /\ UNCHANGED <<turn, plan, steps, log, stopping>>

\* Mutant: the mutex covers the broadcast only, not rank 0's half after it.
SendBody_Releases(a) ==
  /\ pc[a] = "body" /\ Meets(a)
  /\ LET next == IF Op(a) \in Stepped THEN "step" ELSE "local"
     IN  /\ Goto(a, next)
         /\ mirror' = [mirror EXCEPT !.at = next]
         /\ turn' = IF next = "local" /\ Len(plan[a]) = 1 THEN NoOne ELSE turn
  /\ steps' = 0
  /\ UNCHANGED <<plan, log, stopping>>

\* Rank 1 unpickles the operation and dispatches it.
SendBody(a) ==
  /\ pc[a] = "body" /\ Meets(a)
  /\ LET next == IF Op(a) \in Stepped THEN "step" ELSE "local"
     IN  /\ Goto(a, next)
         /\ mirror' = [mirror EXCEPT !.at =
                         IF Op(a) = "shutdown" THEN "gone" ELSE next]
  /\ steps' = 0
  /\ UNCHANGED <<turn, plan, log, stopping>>

\* One follow-up collective.  Its content tells both ranks whether it is the
\* last: the end token is gathered from rank 0, and only requests decode.
SendStep(a) ==
  /\ pc[a] = "step" /\ Meets(a)
  /\ steps' = steps + 1
  /\ \E last \in BOOLEAN:
       /\ steps' = MaxSteps \/ Op(a) # "request" => last
       /\ IF last
          THEN Goto(a, "local") /\ mirror' = [mirror EXCEPT !.at = "local"]
          ELSE UNCHANGED <<pc, mirror>>
  /\ UNCHANGED <<turn, plan, log, stopping>>

\* Rank 1 takes a word for another one.
Shred(a) ==
  /\ pc[a] \in Words /\ mirror.at \in Words /\ ~Meets(a)
  /\ mirror' = Waiting("wedged")
  /\ UNCHANGED <<turn, pc, plan, steps, log, stopping>>

\* A rank's log after its half of operation op of a.
Extend(s, a, op) == IF op \in Changing THEN Append(s, <<a, op>>) ELSE s

\* Rank 0's half of the operation, then its next one.
Local(a) ==
  /\ pc[a] = "local"
  /\ log' = [log EXCEPT ![0] = Extend(@, a, Op(a))]
  /\ plan' = [plan EXCEPT ![a] = Tail(@)]
  /\ Goto(a, IF Len(plan[a]) = 1 THEN "close" ELSE "size")
  /\ UNCHANGED <<turn, mirror, steps, stopping>>

\* Rank 1's half, then back to the head of its loop.
MirrorLocal ==
  /\ mirror.at = "local"
  /\ log' = [log EXCEPT ![1] = Extend(@, mirror.from, mirror.op)]
  /\ mirror' = Waiting("size")
  /\ UNCHANGED <<turn, pc, plan, steps, stopping>>

\* Mutant: the mutex is not released.
Close_Holds(a) ==
  /\ pc[a] = "close"
  /\ Goto(a, "done")
  /\ UNCHANGED <<turn, plan, mirror, steps, log, stopping>>

\* Release the mutex; a request also releases its slot, and then shuts the
\* cluster down if that was left to it.
Close(a) ==
  /\ pc[a] = "close"
  /\ turn' = IF turn = a THEN NoOne ELSE turn
  /\ IF a \in Requests /\ stopping /\ turn = a
     THEN Goto(a, "size") /\ plan' = [plan EXCEPT ![a] = <<"shutdown">>]
     ELSE Goto(a, "done") /\ UNCHANGED plan
  /\ UNCHANGED <<mirror, steps, log, stopping>>

(***************************************************************************)
(* A generation that fails on one rank only.                               *)
(***************************************************************************)

\* Mutant: rank 0 keeps what a failed generation has cached.
LeaderFails_Keeps(a) ==
  /\ 0 \in OneSided
  /\ pc[a] = "step" /\ Op(a) = "request"
  /\ plan' = [plan EXCEPT ![a] = <<"barrier">>]
  /\ Goto(a, "size")
  /\ log' = [log EXCEPT ![0] = Extend(@, a, Op(a))]
  /\ UNCHANGED <<turn, mirror, steps, stopping>>

\* Rank 0 goes straight to the barrier in its finally clause.
LeaderFails(a) ==
  /\ 0 \in OneSided
  /\ pc[a] = "step" /\ Op(a) = "request"
  /\ plan' = [plan EXCEPT ![a] = <<"barrier">>]
  /\ Goto(a, "size")
  /\ UNCHANGED <<turn, mirror, steps, log, stopping>>

\* Mutant: rank 1 keeps what a failed generation has cached.
MirrorFails_Keeps ==
  /\ 1 \in OneSided
  /\ mirror.at = "step" /\ mirror.op = "request"
  /\ mirror' = Waiting("size")
  /\ log' = [log EXCEPT ![1] = Extend(@, mirror.from, mirror.op)]
  /\ UNCHANGED <<turn, pc, plan, steps, stopping>>

\* Rank 1 logs the exception and goes back to the head of its loop.
MirrorFails ==
  /\ 1 \in OneSided
  /\ mirror.at = "step" /\ mirror.op = "request"
  /\ mirror' = Waiting("size")
  /\ UNCHANGED <<turn, pc, plan, steps, log, stopping>>

Send(a) == SendSize(a) \/ SendBody(a) \/ SendStep(a)

Work(a) == Send(a) \/ Local(a) \/ Close(a)

Next ==
  \/ \E r \in Requests: Queue(r) \/ Publish(r) \/ LeaderFails(r)
  \/ \E a \in Actors \ (Requests \cup Stoppers): Check(a)
  \/ \E a \in Locked: TakeTurn(a) \/ GiveUp(a)
  \/ \E a \in LoopAdmins \cup Janitors: Barge(a)
  \/ \E a \in Stoppers: Shutdown(a)
  \/ \E a \in Actors: Work(a) \/ Shred(a)
  \/ MirrorLocal
  \/ MirrorFails

Spec == Init /\ [][Next]_vars

\* Threads run; nobody has to begin, and no rank has to fail.
Fairness ==
  /\ \A r \in Requests: WF_vars(Publish(r))
  /\ \A a \in Locked: WF_vars(TakeTurn(a)) /\ WF_vars(GiveUp(a))
  /\ \A a \in Actors: WF_vars(Work(a))
  /\ WF_vars(MirrorLocal)

LiveSpec == Spec /\ Fairness

(***************************************************************************)
(* Properties.                                                             *)
(***************************************************************************)

\* Rank 1 never takes a word of one operation for a word of another: the
\* threads that share _bcast do not interleave their collectives.
NeverShredded == mirror.at # "wedged"

\* Among themselves the handlers that broadcast without the mutex, and those
\* that take it, are kept apart by the event loop that serves them all: words
\* are shredded only when a thread, too, is in the middle of a transaction.
LoopKeepsApart ==
  mirror.at = "wedged" =>
    \E a \in Requests \cup Keepwarms \cup Savers: pc[a] \in InJob

\* When no thread is broadcasting and rank 1 waits for the next operation, both
\* ranks have changed their caches, files and tuning in the same way and order.
AgreeAtRest ==
  (\A a \in Actors: pc[a] \notin InJob) /\ mirror.at = "size" => log[0] = log[1]

\* The mirror barrier: a request leaves the channel only when rank 1 has
\* finished everything the request told it to do.
BarrierAgrees == \A r \in Requests: pc[r] = "close" => log[0] = log[1]

\* The channel implements one sequence of operations in unmixed turns, which
\* both ranks apply with at most one operation of lag.
Replicated == INSTANCE ReplicatedOps WITH
  Actors <- Actors, Ops <- Ops, NoOne <- NoOne, turn <- turn, log <- log
ChannelReplicates == Replicated!Spec

\* The shutdown word is not sent into a request's transaction, although it is
\* broadcast without the mutex: the active check, the event loop and the single
\* worker see to that.
ShutdownMeetsNoRequest ==
  [][mirror.at # "gone" /\ mirror'.at = "gone" =>
       \A r \in Requests: ~InTransaction(r)]_vars

\* Whoever is accepted gets through its transaction or gives up; nobody is
\* left waiting for the channel or for rank 1.
EveryTransactionEnds ==
  \A a \in Locked: pc[a] \in {"queued", "checked"} ~> pc[a] = "done"
=============================================================================
