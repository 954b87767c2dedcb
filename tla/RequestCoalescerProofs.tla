----------------------- MODULE RequestCoalescerProofs -----------------------
(***************************************************************************)
(* Proofs about RequestCoalescer, for every set of requests, every         *)
(* fingerprint function and every value of the grace periods and of the    *)
(* table's limit.  IInv is the inductive invariant: the table holds every  *)
(* pending entry, never two with one key, and handlers, entries and        *)
(* answers agree with one another.                                         *)
(***************************************************************************)
EXTENDS RequestCoalescer, FiniteSetTheorems, TLAPS

(* The table: pending entries are never evicted, failed ones never kept.   *)
TableInv ==
    /\ \A r \in Requests : Pending(r) => r \in table
    /\ \A r \in table : entry[r].state \in {"pending", "ok"}
    /\ \A r, q \in table : KeyOf[r] = KeyOf[q] => r = q

(* Handlers and entries: who holds which entry in which state.             *)
HandlerInv ==
    /\ \A r \in Requests : pc[r] = "idle" => entry[r].state = "none"
    /\ \A r \in Requests : pc[r] \in {"preparing", "running", "polling"}
                              => Pending(r) /\ joined[r] = r
    /\ \A r \in Requests : pc[r] = "waiting"
                              => joined[r] # r /\ joined[r] \in Requests
                                 /\ entry[joined[r]].state # "none"
    /\ \A r \in Requests : pc[r] \in {"waiting", "answered"}
                              => joined[r] \in Requests
                                 /\ KeyOf[joined[r]] = KeyOf[r]

(* Entries and answers: what a finished entry and its clients agree on.    *)
AnswerInv ==
    /\ \A r \in Requests : Done(r) => /\ pc[r] = "answered"
                                      /\ joined[r] = r
                                      /\ answer[r] = entry[r].reply
    /\ \A r \in Requests : entry[r].state = "ok" => entry[r].reply.status = 200
    /\ \A r \in Requests :
          pc[r] = "answered" /\ joined[r] # r =>
              \/ Done(joined[r]) /\ answer[r] = entry[joined[r]].reply
              \/ answer[r].status = 499 /\ ~online[r]

IInv == TypeOK /\ TableInv /\ HandlerInv /\ AnswerInv

-----------------------------------------------------------------------------
(* _purge_locked only removes entries, never a pending one, and what it     *)
(* leaves and is done is a success within the replay grace.                 *)
LEMMA PurgeKeepsPending ==
    ASSUME NEW T
    PROVE  /\ Purged(T) \subseteq T
           /\ \A e \in T : Pending(e) => e \in Purged(T)
           /\ \A e \in Purged(T) :
                 Done(e) => entry[e].state = "ok" /\ entry[e].age <= ReplayGrace
  BY DEF Purged, Replayable, Oldest, Pending, Done

(* An entry stays an entry when its changing fields are updated.            *)
LEMMA EntryUpdates ==
    ASSUME NEW x \in Entries, NEW c \in SUBSET Requests, NEW a \in Alone,
           NEW g \in Age, NEW s \in {"ok", "failed"}, NEW p \in Answers
    PROVE  /\ [x EXCEPT !.clients = c, !.alone = a] \in Entries
           /\ [x EXCEPT !.age = g, !.alone = a] \in Entries
           /\ [x EXCEPT !.state = s, !.age = g, !.reply = p] \in Entries
  BY DEF Entries

(* The initial state satisfies the inductive invariant.                     *)
LEMMA InitIInv == Init => IInv
  <1> SUFFICES ASSUME Init PROVE IInv
    OBVIOUS
  <1>1. NoEntry \in Entries
    BY ConstantsAssumption DEF NoEntry, Entries, NoAnswer, Answers, Alone, Age,
       Statuses, Outputs
  <1>2. NoAnswer \in Answers
    BY DEF NoAnswer, Answers, Statuses, Outputs
  <1>3. TypeOK
    BY <1>1, <1>2 DEF Init, TypeOK, Outputs
  <1>4. TableInv
    BY DEF Init, TableInv, Pending, NoEntry
  <1>5. HandlerInv
    BY DEF Init, HandlerInv, NoEntry
  <1>6. AnswerInv
    BY DEF Init, AnswerInv, Done, NoEntry
  <1> QED BY <1>3, <1>4, <1>5, <1>6 DEF IInv

(* Every step preserves the types.                                          *)
LEMMA TypeStep == TypeOK /\ HandlerInv /\ [Next]_vars => TypeOK'
  <1> SUFFICES ASSUME TypeOK, HandlerInv, [Next]_vars PROVE TypeOK'
    OBVIOUS
  <1> USE ConstantsAssumption DEF TypeOK, clientVars, jobVars, stopVars
  <1>0. IsFiniteSet(Created) /\ Cardinality(Created) \in Nat
    BY FS_Subset, FS_CardinalityType DEF Created
  <1>1. \A r \in Requests : NewEntry(r) \in Entries
    BY <1>0 DEF NewEntry, Entries, NoAnswer, Answers, Alone, Age, Statuses, Outputs
  <1>a. \A e \in Requests : /\ entry[e] \in Entries
                            /\ entry[e].clients \subseteq Requests
                            /\ entry[e].alone \in Alone
                            /\ entry[e].age \in Age
    BY DEF Entries
  <1>2. \A e, r \in Requests : Joined(e, r) \in Entries
    <2> TAKE e, r \in Requests
    <2> DEFINE c == entry[e].clients \cup {r}
               a == IF Done(e) THEN entry[e].alone ELSE None
    <2>1. a \in Alone /\ c \subseteq Requests
      BY <1>a DEF Alone
    <2> HIDE DEF a, c
    <2>2. [entry[e] EXCEPT !.clients = c, !.alone = a] \in Entries
      BY <2>1, <1>a, EntryUpdates
    <2> QED BY <2>2 DEF Joined, a, c
  <1>3. \A e, r \in Requests : Disconnected(e, r) \in Entries
    <2> TAKE e, r \in Requests
    <2> DEFINE left == entry[e].clients \ {r}
               a == IF ~Done(e) /\ left = {} /\ entry[e].alone = None THEN 0
                    ELSE entry[e].alone
    <2>1. a \in Alone /\ left \subseteq Requests
      BY <1>a DEF Alone
    <2> HIDE DEF left, a
    <2>2. [entry[e] EXCEPT !.clients = left, !.alone = a] \in Entries
      BY <2>1, <1>a, EntryUpdates
    <2> QED BY <2>2 DEF Disconnected, left, a
  <1>4. ASSUME NEW r \in Requests, NEW a \in Answers, Complete(r, a)
        PROVE  entry' \in [Requests -> Entries] /\ table' \subseteq Requests
               /\ answer' \in [Requests -> Answers]
               /\ pc' \in [Requests -> {"idle", "preparing", "running", "polling",
                                        "waiting", "answered"}]
    <2>1. 0 \in Age
      BY DEF Age
    <2> DEFINE s == IF a.status = 200 THEN "ok" ELSE "failed"
    <2>2. s \in {"ok", "failed"}
      OBVIOUS
    <2> HIDE DEF s
    <2>3. [entry[r] EXCEPT !.state = s, !.age = 0, !.reply = a] \in Entries
      BY <2>1, <2>2, EntryUpdates, <1>a
    <2> QED BY <1>4, <2>3 DEF Complete, Finished, s
  <1>5. ASSUME NEW r \in Requests, ClaimNew(r) PROVE TypeOK'
    BY <1>1, <1>5, PurgeKeepsPending DEF ClaimNew
  <1>6. ASSUME NEW r \in Requests, NEW e \in Requests, ClaimJoin(r, e) PROVE TypeOK'
    BY <1>2, <1>6, PurgeKeepsPending DEF ClaimJoin
  <1>7. ASSUME NEW r \in Requests, OwnerStep(r) PROVE TypeOK'
    <2>1. CASE AcquireSlot(r)
      BY <2>1 DEF AcquireSlot
    <2>2. CASE PollTimesOut(r)
      BY <2>2 DEF PollTimesOut
    <2>3. CASE PollBody(r)
      BY <2>3, <1>3 DEF PollBody, Arm
    <2>4. CASE Respond(r)
      <3>1. PICK a : a \in Answers /\ Complete(r, a)
        BY <2>4 DEF Respond, Answers, Statuses, Outputs
      <3> QED BY <3>1, <1>4, <2>4 DEF Respond
    <2>5. ASSUME NEW status \in {400, 500}, PrepareFails(r, status) PROVE TypeOK'
      <3>1. [status |-> status, text |-> "error"] \in Answers
        BY DEF Answers, Statuses, Outputs
      <3> QED BY <3>1, <1>4, <2>5 DEF PrepareFails
    <2> QED BY <1>7, <2>1, <2>2, <2>3, <2>4, <2>5 DEF OwnerStep
  <1>8. ASSUME NEW r \in Requests, JoinerStep(r) PROVE TypeOK'
    <2>1. CASE JoinerReplies(r)
      <3>1. joined[r] \in Requests => entry[joined[r]].reply \in Answers
        BY DEF Entries
      <3>2. joined[r] \in Requests
        BY <2>1 DEF JoinerReplies, HandlerInv
      <3> QED BY <2>1, <3>1, <3>2 DEF JoinerReplies
    <2>2. CASE JoinerLeaves(r)
      <3>1. [status |-> 499, text |-> "none"] \in Answers
        BY DEF Answers, Statuses, Outputs
      <3>2. joined[r] \in Requests
        BY <2>2 DEF JoinerLeaves, HandlerInv
      <3> QED BY <2>2, <3>1, <3>2, <1>3 DEF JoinerLeaves
    <2> QED BY <1>8, <2>1, <2>2 DEF JoinerStep
  <1>9. ASSUME NEW r \in Requests, WorkerStep(r) PROVE TypeOK'
    BY <1>9 DEF WorkerStep, JobStart, JobEnd, Outputs
  <1>10. ASSUME NEW r \in Requests, StopGeneration(r) PROVE TypeOK'
    BY <1>10 DEF StopGeneration, Arm
  <1>11. ASSUME NEW r \in Requests, ClientLeaves(r) PROVE TypeOK'
    BY <1>11 DEF ClientLeaves
  <1>12. CASE HealthStatus
    BY <1>12, PurgeKeepsPending DEF HealthStatus
  <1>13. CASE Tick
    <2>1. \A e \in Requests :
             [entry[e] EXCEPT
                 !.age   = IF Done(e) /\ @ <= ReplayGrace THEN @ + 1 ELSE @,
                 !.alone = IF @ # None /\ @ < DisconnectGrace THEN @ + 1 ELSE @]
               \in Entries
      <3> TAKE e \in Requests
      <3> DEFINE g == IF Done(e) /\ entry[e].age <= ReplayGrace
                      THEN entry[e].age + 1 ELSE entry[e].age
                 a == IF entry[e].alone # None /\ entry[e].alone < DisconnectGrace
                      THEN entry[e].alone + 1 ELSE entry[e].alone
      <3>1. g \in Age
        BY <1>a DEF Age
      <3>2. a \in Alone
        BY <1>a DEF Alone
      <3> HIDE DEF g, a
      <3>3. [entry[e] EXCEPT !.age = g, !.alone = a] \in Entries
        BY <3>1, <3>2, <1>a, EntryUpdates
      <3> QED BY <3>3 DEF g, a
    <2> QED BY <1>13, <2>1 DEF Tick
  <1>14. CASE UNCHANGED vars
    BY <1>14 DEF vars
  <1> QED BY <1>5, <1>6, <1>7, <1>8, <1>9, <1>10, <1>11, <1>12, <1>13, <1>14 DEF Next

-----------------------------------------------------------------------------
(* Joining, leaving and the passing of time change no entry's outcome.       *)
LEMMA SameOutcome ==
    ASSUME TypeOK, NEW r \in Requests,
           \/ \E e \in Requests : ClaimJoin(r, e)
           \/ PollBody(r)
           \/ JoinerLeaves(r) /\ joined[r] \in Requests
    PROVE  \A q \in Requests : /\ entry'[q].state = entry[q].state
                               /\ entry'[q].reply = entry[q].reply
  <1>1. \A e, q \in Requests : /\ Joined(e, q).state = entry[e].state
                               /\ Joined(e, q).reply = entry[e].reply
                               /\ Disconnected(e, q).state = entry[e].state
                               /\ Disconnected(e, q).reply = entry[e].reply
    BY DEF Joined, Disconnected, TypeOK, Entries
  <1>2. CASE \E e \in Requests : ClaimJoin(r, e)
    BY <1>1, <1>2 DEF ClaimJoin, TypeOK
  <1>3. CASE PollBody(r)
    BY <1>1, <1>3 DEF PollBody, TypeOK
  <1>4. CASE JoinerLeaves(r) /\ joined[r] \in Requests
    BY <1>1, <1>4 DEF JoinerLeaves, TypeOK
  <1> QED BY <1>2, <1>3, <1>4

LEMMA TickOutcome ==
    ASSUME TypeOK, Tick
    PROVE  \A q \in Requests : /\ entry'[q].state = entry[q].state
                               /\ entry'[q].reply = entry[q].reply
  <1> TAKE q \in Requests
  <1> DEFINE g == IF Done(q) /\ entry[q].age <= ReplayGrace
                  THEN entry[q].age + 1 ELSE entry[q].age
             a == IF entry[q].alone # None /\ entry[q].alone < DisconnectGrace
                  THEN entry[q].alone + 1 ELSE entry[q].alone
  <1>1. entry'[q] = [entry[q] EXCEPT !.age = g, !.alone = a]
    BY DEF Tick, TypeOK
  <1> HIDE DEF g, a
  <1>2. entry[q] \in Entries
    BY DEF TypeOK
  <1> QED BY <1>1, <1>2 DEF Entries

(* Completing an entry finishes that entry only and answers its owner.      *)
LEMMA CompleteOutcome ==
    ASSUME TypeOK, NEW r \in Requests, NEW a \in Answers, Pending(r),
           Complete(r, a)
    PROVE  /\ \A q \in Requests \ {r} : entry'[q] = entry[q] /\ pc'[q] = pc[q]
                                       /\ answer'[q] = answer[q]
           /\ entry'[r].state = IF a.status = 200 THEN "ok" ELSE "failed"
           /\ entry'[r].reply = a
           /\ answer'[r] = a
           /\ pc'[r] = "answered"
           /\ table' = IF a.status # 200 THEN table \ {r} ELSE table
  <1>1. ~Done(r)
    BY DEF Done, Pending
  <1> QED BY <1>1 DEF Complete, Finished, TypeOK, Entries

(* A step of a handler that completes its entry.                            *)
Completes(r) == Respond(r) \/ \E status \in {400, 500} : PrepareFails(r, status)

LEMMA CompletesAnAnswer ==
    ASSUME TypeOK, HandlerInv, NEW r \in Requests, Completes(r)
    PROVE  /\ Pending(r) /\ joined[r] = r /\ joined' = joined
           /\ online' = online
           /\ pc[r] \in {"preparing", "running"}
           /\ \E a \in Answers : Complete(r, a)
  <1>1. CASE Respond(r)
    <2>1. \E a \in Answers : Complete(r, a)
      BY <1>1 DEF Respond, TypeOK, Answers, Statuses, Outputs
    <2> QED BY <1>1, <2>1 DEF Respond, HandlerInv
  <1>2. ASSUME NEW status \in {400, 500}, PrepareFails(r, status)
        PROVE  /\ Pending(r) /\ joined[r] = r /\ joined' = joined
               /\ online' = online
               /\ pc[r] \in {"preparing", "running"}
               /\ \E a \in Answers : Complete(r, a)
    <2>1. [status |-> status, text |-> "error"] \in Answers
      BY DEF Answers, Statuses, Outputs
    <2> QED BY <1>2, <2>1 DEF PrepareFails, HandlerInv
  <1> QED BY <1>1, <1>2 DEF Completes

(* The steps that leave the table, the entries, the answers and the handlers' *)
(* places alone, or move an owner between its places only.                    *)
Silent(r) ==
    AcquireSlot(r) \/ PollTimesOut(r) \/ WorkerStep(r) \/ StopGeneration(r)
    \/ ClientLeaves(r)

LEMMA SilentStep ==
    ASSUME TypeOK, NEW r \in Requests, Silent(r)
    PROVE  /\ UNCHANGED <<table, entry, joined, answer>>
           /\ \A q \in Requests :
                 \/ pc'[q] = pc[q]
                 \/ pc[q] \in {"preparing", "running"}
                    /\ pc'[q] \in {"running", "polling"}
           /\ \A q \in Requests : online'[q] => online[q]
  BY DEF Silent, AcquireSlot, PollTimesOut, WorkerStep, JobStart, JobEnd,
         StopGeneration, ClientLeaves, TypeOK, clientVars

(* The next-state relation, in the cases the proofs distinguish.            *)
LEMMA NextCases ==
    ASSUME Next
    PROVE  \/ \E r \in Requests :
                 \/ ClaimNew(r) \/ (\E e \in Requests : ClaimJoin(r, e))
                 \/ Completes(r) \/ PollBody(r) \/ Silent(r)
                 \/ JoinerReplies(r) \/ JoinerLeaves(r)
           \/ HealthStatus
           \/ Tick
  BY DEF Next, OwnerStep, JoinerStep, Completes, Silent

(* Every step preserves the table's part of the invariant.                  *)
LEMMA TableStep == IInv /\ [Next]_vars => TableInv'
  <1> SUFFICES ASSUME IInv, [Next]_vars PROVE TableInv'
    OBVIOUS
  <1> USE DEF IInv
  <1>1. ASSUME NEW r \in Requests, ClaimNew(r) PROVE TableInv'
    <2>1. /\ entry' = [entry EXCEPT ![r] = NewEntry(r)]
          /\ table' = Purged(table) \cup {r}
          /\ entry[r].state = "none"
      BY <1>1 DEF ClaimNew, HandlerInv
    <2>2. r \notin table
      BY <2>1 DEF TableInv
    <2>3. /\ entry'[r].state = "pending"
          /\ \A q \in Requests \ {r} : entry'[q] = entry[q]
      BY <2>1 DEF NewEntry, TypeOK
    <2>4. \A q \in Purged(table) : q # r /\ KeyOf[q] # KeyOf[r]
      BY <1>1, <2>2, PurgeKeepsPending DEF ClaimNew
    <2> QED
      BY <2>1, <2>2, <2>3, <2>4, PurgeKeepsPending DEF TableInv, Pending, TypeOK
  <1>2. ASSUME NEW r \in Requests, NEW e \in Requests, ClaimJoin(r, e)
        PROVE  TableInv'
    <2>1. \A q \in Requests : entry'[q].state = entry[q].state
      BY <1>2, SameOutcome
    <2>2. table' = Purged(table)
      BY <1>2 DEF ClaimJoin
    <2> QED BY <2>1, <2>2, PurgeKeepsPending DEF TableInv, Pending, TypeOK
  <1>3. ASSUME NEW r \in Requests, Completes(r) PROVE TableInv'
    <2>1. PICK a \in Answers : Complete(r, a)
      BY <1>3, CompletesAnAnswer
    <2> QED BY <2>1, <1>3, CompletesAnAnswer, CompleteOutcome
            DEF TableInv, Pending, TypeOK
  <1>4. ASSUME NEW r \in Requests, PollBody(r) \/ JoinerLeaves(r) PROVE TableInv'
    <2>1. table' = table
      BY <1>4 DEF PollBody, JoinerLeaves
    <2>2. JoinerLeaves(r) => joined[r] \in Requests
      BY DEF JoinerLeaves, HandlerInv
    <2>3. \A q \in Requests : entry'[q].state = entry[q].state
      BY <1>4, <2>2, SameOutcome
    <2> QED BY <2>1, <2>3 DEF TableInv, Pending, TypeOK
  <1>5. ASSUME NEW r \in Requests, Silent(r) \/ JoinerReplies(r) PROVE TableInv'
    BY <1>5, SilentStep DEF JoinerReplies, TableInv, Pending
  <1>6. CASE HealthStatus
    BY <1>6, PurgeKeepsPending DEF HealthStatus, TableInv, Pending
  <1>7. CASE Tick
    <2>1. \A q \in Requests : entry'[q].state = entry[q].state
      BY <1>7, TickOutcome
    <2>2. table' = table
      BY <1>7 DEF Tick
    <2> QED BY <2>1, <2>2 DEF TableInv, Pending, TypeOK
  <1>8. CASE UNCHANGED vars
    BY <1>8 DEF vars, TableInv, Pending
  <1> QED BY <1>1, <1>2, <1>3, <1>4, <1>5, <1>6, <1>7, <1>8, NextCases

(* Every step preserves the handlers' part of the invariant.                *)
LEMMA HandlerStep == IInv /\ [Next]_vars => HandlerInv'
  <1> SUFFICES ASSUME IInv, [Next]_vars PROVE HandlerInv'
    OBVIOUS
  <1> USE DEF IInv
  <1>0. None \notin Requests
    BY ConstantsAssumption
  <1>1. ASSUME NEW r \in Requests, ClaimNew(r) PROVE HandlerInv'
    <2>1. /\ entry'[r].state = "pending"
          /\ \A q \in Requests \ {r} : entry'[q] = entry[q]
      BY <1>1 DEF ClaimNew, NewEntry, TypeOK
    <2>2. /\ pc' = [pc EXCEPT ![r] = "preparing"]
          /\ joined' = [joined EXCEPT ![r] = r]
          /\ pc[r] = "idle" /\ entry[r].state = "none"
      BY <1>1 DEF ClaimNew, HandlerInv
    <2> QED BY <2>1, <2>2 DEF HandlerInv, Pending, TypeOK
  <1>2. ASSUME NEW r \in Requests, NEW e \in Requests, ClaimJoin(r, e)
        PROVE  HandlerInv'
    <2>1. \A q \in Requests : entry'[q].state = entry[q].state
      BY <1>2, SameOutcome
    <2>2. /\ pc' = [pc EXCEPT ![r] = "waiting"]
          /\ joined' = [joined EXCEPT ![r] = e]
          /\ pc[r] = "idle" /\ entry[r].state = "none"
          /\ KeyOf[e] = KeyOf[r] /\ e \in table
      BY <1>2, PurgeKeepsPending DEF ClaimJoin, HandlerInv
    <2>3. entry[e].state \in {"pending", "ok"}
      BY <2>2 DEF TableInv
    <2> QED BY <2>1, <2>2, <2>3, SMTT(30) DEF HandlerInv, Pending, TypeOK
  <1>3. ASSUME NEW r \in Requests, Completes(r) PROVE HandlerInv'
    <2>1. PICK a \in Answers : Complete(r, a)
      BY <1>3, CompletesAnAnswer
    <2>2. entry'[r].state \in {"ok", "failed"}
      BY <2>1, <1>3, CompletesAnAnswer, CompleteOutcome
    <2>3. /\ Pending(r) /\ joined[r] = r /\ joined' = joined
          /\ pc'[r] = "answered"
          /\ \A q \in Requests \ {r} : entry'[q] = entry[q] /\ pc'[q] = pc[q]
      BY <2>1, <1>3, CompletesAnAnswer, CompleteOutcome
    <2>4. \A q \in Requests : entry[q].state # "none" => entry'[q].state # "none"
      BY <2>2, <2>3
    <2>5. ASSUME NEW q \in Requests \ {r},
                 pc'[q] \in {"preparing", "running", "polling"}
          PROVE  Pending(q)' /\ joined'[q] = q
      BY <2>3, <2>5 DEF HandlerInv, Pending
    <2>6. ASSUME NEW q \in Requests, pc'[q] = "waiting"
          PROVE  joined'[q] # q /\ joined'[q] \in Requests
                 /\ entry'[joined'[q]].state # "none"
      BY <2>3, <2>4, <2>6 DEF HandlerInv
    <2>7. ASSUME NEW q \in Requests, pc'[q] \in {"waiting", "answered"}
          PROVE  joined'[q] \in Requests /\ KeyOf[joined'[q]] = KeyOf[q]
      BY <2>3, <2>7 DEF HandlerInv
    <2> QED BY <2>3, <2>5, <2>6, <2>7 DEF HandlerInv
  <1>4. ASSUME NEW r \in Requests, PollBody(r) PROVE HandlerInv'
    <2>1. /\ joined' = joined
          /\ \A q \in Requests : \/ q # r /\ pc'[q] = pc[q]
                                 \/ q = r /\ pc[r] = "polling"
                                          /\ pc'[r] = "running"
      BY <1>4 DEF PollBody, TypeOK
    <2>2. \A q \in Requests : entry'[q].state = entry[q].state
      BY <1>4, SameOutcome
    <2> QED BY <2>1, <2>2 DEF HandlerInv, Pending
  <1>5. ASSUME NEW r \in Requests, JoinerLeaves(r) PROVE HandlerInv'
    <2>1. /\ joined' = joined /\ pc' = [pc EXCEPT ![r] = "answered"]
          /\ pc[r] = "waiting"
      BY <1>5 DEF JoinerLeaves
    <2>2. \A q \in Requests : entry'[q].state = entry[q].state
      BY <1>5, <2>1, SameOutcome DEF HandlerInv
    <2> QED BY <2>1, <2>2 DEF HandlerInv, Pending, TypeOK
  <1>6. ASSUME NEW r \in Requests, Silent(r) PROVE HandlerInv'
    BY <1>6, SilentStep DEF HandlerInv, Pending
  <1>7. ASSUME NEW r \in Requests, JoinerReplies(r) PROVE HandlerInv'
    BY <1>7 DEF JoinerReplies, HandlerInv, Pending, TypeOK
  <1>8. CASE HealthStatus
    BY <1>8 DEF HealthStatus, HandlerInv, Pending, clientVars
  <1>9. CASE Tick
    <2>1. UNCHANGED <<pc, joined>>
      BY <1>9 DEF Tick, clientVars
    <2> QED BY <1>9, <2>1, TickOutcome DEF HandlerInv, Pending
  <1>10. CASE UNCHANGED vars
    BY <1>10 DEF vars, HandlerInv, Pending
  <1> QED BY <1>1, <1>2, <1>3, <1>4, <1>5, <1>6, <1>7, <1>8, <1>9, <1>10, NextCases

(* Every step preserves the answers' part of the invariant.                 *)
LEMMA AnswerStep == IInv /\ [Next]_vars => AnswerInv'
  <1> SUFFICES ASSUME IInv, [Next]_vars PROVE AnswerInv'
    OBVIOUS
  <1> USE DEF IInv
  <1>0. \A q \in Requests : pc[q] \in {"waiting", "answered"} => joined[q] \in Requests
    BY DEF HandlerInv
  <1>1. ASSUME NEW r \in Requests, ClaimNew(r) PROVE AnswerInv'
    <2>1. /\ entry'[r].state = "pending"
          /\ \A q \in Requests \ {r} : entry'[q] = entry[q]
      BY <1>1 DEF ClaimNew, NewEntry, TypeOK
    <2>2. /\ pc' = [pc EXCEPT ![r] = "preparing"]
          /\ joined' = [joined EXCEPT ![r] = r]
          /\ pc[r] = "idle" /\ entry[r].state = "none"
          /\ UNCHANGED <<answer, online>>
      BY <1>1 DEF ClaimNew, HandlerInv
    <2> QED BY <1>0, <2>1, <2>2 DEF AnswerInv, Done, TypeOK
  <1>2. ASSUME NEW r \in Requests, NEW e \in Requests, ClaimJoin(r, e)
        PROVE  AnswerInv'
    <2>1. /\ pc' = [pc EXCEPT ![r] = "waiting"]
          /\ joined' = [joined EXCEPT ![r] = e]
          /\ pc[r] = "idle" /\ entry[r].state = "none"
          /\ UNCHANGED <<answer, online>>
      BY <1>2 DEF ClaimJoin, HandlerInv
    <2> QED BY <1>0, <2>1, <1>2, SameOutcome DEF AnswerInv, Done, TypeOK
  <1>3. ASSUME NEW r \in Requests, Completes(r) PROVE AnswerInv'
    <2>1. PICK a \in Answers : Complete(r, a)
      BY <1>3, CompletesAnAnswer
    <2>2. \A q \in Requests : Done(q) => q # r
      BY <1>3, CompletesAnAnswer DEF Done, Pending
    <2>3. /\ entry'[r].state = IF a.status = 200 THEN "ok" ELSE "failed"
          /\ entry'[r].reply = a /\ answer'[r] = a /\ pc'[r] = "answered"
          /\ joined'[r] = r /\ UNCHANGED <<joined, online>>
          /\ \A q \in Requests \ {r} : /\ entry'[q] = entry[q] /\ pc'[q] = pc[q]
                                       /\ answer'[q] = answer[q]
      BY <2>1, <1>3, CompletesAnAnswer, CompleteOutcome
    <2> QED BY <1>0, <2>2, <2>3 DEF AnswerInv, Done, TypeOK
  <1>4. ASSUME NEW r \in Requests, PollBody(r) PROVE AnswerInv'
    <2>1. /\ UNCHANGED <<joined, online, answer>>
          /\ pc' = [pc EXCEPT ![r] = "running"]
          /\ pc[r] = "polling"
      BY <1>4 DEF PollBody
    <2> QED BY <1>0, <2>1, <1>4, SameOutcome DEF AnswerInv, Done, TypeOK
  <1>5. ASSUME NEW r \in Requests, JoinerLeaves(r) PROVE AnswerInv'
    <2>1. /\ UNCHANGED <<joined, online>>
          /\ pc' = [pc EXCEPT ![r] = "answered"]
          /\ pc[r] = "waiting" /\ ~online[r] /\ joined[r] \in Requests
          /\ answer' = [answer EXCEPT ![r] = [status |-> 499, text |-> "none"]]
          /\ joined[r] # r
      BY <1>5 DEF JoinerLeaves, HandlerInv
    <2>2. answer'[r].status = 499
      BY <2>1 DEF TypeOK
    <2>3. ~Done(r)
      BY <2>1 DEF AnswerInv
    <2>4. \A q \in Requests \ {r} : pc'[q] = pc[q] /\ answer'[q] = answer[q]
      BY <2>1 DEF TypeOK
    <2>5. \A q \in Requests : /\ entry'[q].state = entry[q].state
                              /\ entry'[q].reply = entry[q].reply
      BY <2>1, <1>5, SameOutcome
    <2>6. \A q \in Requests :
             entry'[q].state \in {"ok", "failed"} => /\ pc'[q] = "answered"
                                                     /\ joined'[q] = q
                                                     /\ answer'[q] = entry'[q].reply
      BY <2>1, <2>3, <2>4, <2>5 DEF AnswerInv, Done
    <2>7. \A q \in Requests : entry'[q].state = "ok"
                                  => entry'[q].reply.status = 200
      BY <2>5 DEF AnswerInv
    <2>8. ASSUME NEW q \in Requests, pc'[q] = "answered", joined'[q] # q
          PROVE  \/ /\ entry'[joined'[q]].state \in {"ok", "failed"}
                    /\ answer'[q] = entry'[joined'[q]].reply
                 \/ answer'[q].status = 499 /\ ~online'[q]
      <3>1. CASE q = r
        BY <3>1, <2>1, <2>2
      <3>2. CASE q # r
        <4>1. joined[q] \in Requests /\ pc[q] = "answered" /\ joined[q] # q
          BY <3>2, <2>1, <2>4, <2>8, <1>0
        <4> QED BY <3>2, <4>1, <2>1, <2>4, <2>5 DEF AnswerInv, Done
      <3> QED BY <3>1, <3>2
    <2> QED BY <2>6, <2>7, <2>8 DEF AnswerInv, Done
  <1>6. ASSUME NEW r \in Requests, Silent(r) PROVE AnswerInv'
    <2>1. \A q \in Requests : pc'[q] = "answered" <=> pc[q] = "answered"
      BY <1>6, SilentStep
    <2> QED BY <1>0, <2>1, <1>6, SilentStep DEF AnswerInv, Done, TypeOK
  <1>7. ASSUME NEW r \in Requests, JoinerReplies(r) PROVE AnswerInv'
    <2>1. /\ UNCHANGED <<joined, online, entry>>
          /\ pc' = [pc EXCEPT ![r] = "answered"]
          /\ pc[r] = "waiting" /\ Done(joined[r]) /\ joined[r] # r
          /\ answer' = [answer EXCEPT ![r] = entry[joined[r]].reply]
      BY <1>7 DEF JoinerReplies, HandlerInv
    <2>2. ~Done(r)
      BY <2>1 DEF AnswerInv
    <2> QED BY <1>0, <2>1, <2>2 DEF AnswerInv, Done, TypeOK
  <1>8. CASE HealthStatus
    BY <1>8 DEF HealthStatus, AnswerInv, Done, clientVars
  <1>9. CASE Tick
    <2>1. UNCHANGED <<pc, joined, answer, online>>
      BY <1>9 DEF Tick, clientVars
    <2> QED BY <1>0, <1>9, <2>1, TickOutcome DEF AnswerInv, Done, TypeOK
  <1>10. CASE UNCHANGED vars
    BY <1>10 DEF vars, AnswerInv, Done
  <1> QED BY <1>1, <1>2, <1>3, <1>4, <1>5, <1>6, <1>7, <1>8, <1>9, <1>10, NextCases

(* The inductive invariant holds in every reachable state.                  *)
THEOREM Invariance == Spec => []IInv
  <1>1. IInv /\ [Next]_vars => IInv'
    BY TypeStep, TableStep, HandlerStep, AnswerStep DEF IInv
  <1> QED BY InitIInv, <1>1, PTL DEF Spec

-----------------------------------------------------------------------------
(* Every variable keeps its type.                                           *)
THEOREM TypeCorrect == Spec => []TypeOK
  <1>1. IInv => TypeOK
    BY DEF IInv
  <1> QED BY Invariance, <1>1, PTL

(* One fingerprint never has two unfinished generations: the table never    *)
(* loses a pending entry, so a retry always finds it.                       *)
THEOREM SingleGeneration == Spec => []OneGenerationPerKey
  <1>1. IInv => OneGenerationPerKey
    BY DEF IInv, TableInv, OneGenerationPerKey
  <1> QED BY Invariance, <1>1, PTL

(* A retry gets the response the owner's client got, or its own client left. *)
THEOREM RetryAnswers == Spec => []RetriesGetTheOwnersResponse
  <1>1. IInv => RetriesGetTheOwnersResponse
    <2> SUFFICES ASSUME IInv, NEW r \in Requests,
                        pc[r] = "answered", joined[r] # r
                 PROVE  /\ KeyOf[joined[r]] = KeyOf[r]
                        /\ \/ answer[r] = answer[joined[r]]
                              /\ pc[joined[r]] = "answered"
                           \/ answer[r].status = 499 /\ ~online[r]
      BY DEF RetriesGetTheOwnersResponse
    <2>1. joined[r] \in Requests /\ KeyOf[joined[r]] = KeyOf[r]
      BY DEF IInv, HandlerInv
    <2> QED BY <2>1 DEF IInv, AnswerInv
  <1> QED BY Invariance, <1>1, PTL

(* A request only ever replays a success within the replay grace.           *)
THEOREM FreshReplays == Spec => ReplaysFreshSuccess
  <1> DEFINE Fresh == \A r \in Requests :
                 pc[r] = "idle" /\ pc'[r] = "waiting" /\ Done(joined'[r])
                     => /\ entry[joined'[r]].reply.status = 200
                        /\ entry[joined'[r]].age <= ReplayGrace
  <1>1. ASSUME IInv, [Next]_vars PROVE [Fresh]_vars
    <2> SUFFICES ASSUME NEW q \in Requests, pc[q] = "idle", pc'[q] = "waiting",
                        Done(joined'[q]), Next
                 PROVE  /\ entry[joined'[q]].reply.status = 200
                        /\ entry[joined'[q]].age <= ReplayGrace
      BY <1>1
    <2> USE <1>1 DEF IInv
    <2>1. ASSUME NEW r \in Requests, NEW e \in Requests, ClaimJoin(r, e)
          PROVE  /\ entry[joined'[q]].reply.status = 200
                 /\ entry[joined'[q]].age <= ReplayGrace
      <3>1. r = q /\ joined'[q] = e /\ e \in Purged(table)
        BY <2>1 DEF ClaimJoin, TypeOK
      <3> QED BY <3>1, PurgeKeepsPending DEF AnswerInv
    <2>2. ASSUME NEW r \in Requests, Completes(r) PROVE FALSE
      <3>1. PICK a \in Answers : Complete(r, a)
        BY <2>2, CompletesAnAnswer
      <3> QED BY <3>1, <2>2, CompletesAnAnswer, CompleteOutcome
    <2>3. ASSUME NEW r \in Requests,
                 ClaimNew(r) \/ PollBody(r) \/ JoinerReplies(r) \/ JoinerLeaves(r)
          PROVE  FALSE
      BY <2>3 DEF ClaimNew, PollBody, JoinerReplies, JoinerLeaves, TypeOK
    <2>4. ASSUME NEW r \in Requests, Silent(r) PROVE FALSE
      BY <2>4, SilentStep
    <2>5. CASE HealthStatus \/ Tick
      BY <2>5 DEF HealthStatus, Tick, clientVars
    <2> QED BY <2>1, <2>2, <2>3, <2>4, <2>5, NextCases
  <1> QED BY Invariance, <1>1, PTL DEF Spec, ReplaysFreshSuccess

-----------------------------------------------------------------------------
(* Entries and clients: whoever holds an unfinished entry with an open       *)
(* connection is counted among its clients, and the grace period of a        *)
(* deserted entry runs only while nobody is.                                 *)
ClientInv ==
    /\ \A r \in Requests : pc[r] = "idle" => joined[r] = None
    /\ \A r \in Requests : Pending(r) /\ entry[r].alone # None
                              => entry[r].clients = {}
    /\ \A c \in Requests : pc[c] \notin {"idle", "answered"} /\ online[c]
                              /\ Pending(joined[c])
                              => c \in entry[joined[c]].clients

(* What joining and leaving do to the clients of a pending entry.            *)
LEMMA ClientUpdates ==
    ASSUME TypeOK, NEW e \in Requests, NEW r \in Requests, Pending(e)
    PROVE  /\ Joined(e, r).clients = entry[e].clients \cup {r}
           /\ Joined(e, r).alone = None
           /\ Disconnected(e, r).clients = entry[e].clients \ {r}
           /\ Disconnected(e, r).alone # None =>
                 entry[e].alone # None \/ entry[e].clients \ {r} = {}
  BY DEF Joined, Disconnected, Done, Pending, TypeOK, Entries

(* Time passes for a deserted entry only.                                    *)
LEMMA TickClients ==
    ASSUME TypeOK, Tick
    PROVE  \A q \in Requests : /\ entry'[q].clients = entry[q].clients
                               /\ entry'[q].alone = None <=> entry[q].alone = None
  <1> TAKE q \in Requests
  <1> DEFINE g == IF Done(q) /\ entry[q].age <= ReplayGrace
                  THEN entry[q].age + 1 ELSE entry[q].age
             a == IF entry[q].alone # None /\ entry[q].alone < DisconnectGrace
                  THEN entry[q].alone + 1 ELSE entry[q].alone
  <1>1. entry'[q] = [entry[q] EXCEPT !.age = g, !.alone = a]
    BY DEF Tick, TypeOK
  <1>2. entry[q] \in Entries /\ entry[q].alone \in Alone
    BY DEF TypeOK, Entries
  <1>3. a = None <=> entry[q].alone = None
    BY <1>2, ConstantsAssumption DEF Alone
  <1> HIDE DEF g, a
  <1> QED BY <1>1, <1>2, <1>3 DEF Entries

(* Every step preserves the clients' part of the invariant.                  *)
LEMMA ClientStep == IInv /\ ClientInv /\ [Next]_vars => ClientInv'
  <1> SUFFICES ASSUME IInv, ClientInv, [Next]_vars PROVE ClientInv'
    OBVIOUS
  <1> USE DEF IInv
  <1>0. \A q \in Requests :
           pc[q] \notin {"idle", "answered"} =>
              joined[q] \in Requests /\ entry[joined[q]].state # "none"
    BY DEF HandlerInv, Pending, TypeOK
  <1>1. ASSUME NEW r \in Requests, ClaimNew(r) PROVE ClientInv'
    <2>1. /\ entry'[r].clients = {r} /\ entry'[r].alone = None
          /\ \A q \in Requests \ {r} : entry'[q] = entry[q]
      BY <1>1 DEF ClaimNew, NewEntry, TypeOK
    <2>2. /\ pc'[r] = "preparing" /\ joined'[r] = r /\ online' = online
          /\ \A q \in Requests \ {r} : pc'[q] = pc[q] /\ joined'[q] = joined[q]
          /\ entry[r].state = "none"
      BY <1>1 DEF ClaimNew, HandlerInv, TypeOK
    <2>3. ASSUME NEW c \in Requests, pc'[c] \notin {"idle", "answered"},
                 online'[c], Pending(joined[c])', c # r
          PROVE  c \in entry'[joined'[c]].clients
      <3>1. joined'[c] = joined[c] /\ joined[c] \in Requests \ {r}
        BY <1>0, <2>2, <2>3
      <3> QED BY <2>1, <2>2, <2>3, <3>1 DEF ClientInv, Pending
    <2>4. ASSUME NEW q \in Requests, Pending(q)', entry'[q].alone # None
          PROVE  entry'[q].clients = {}
      BY <2>1, <2>4 DEF ClientInv, Pending
    <2> QED BY <2>1, <2>2, <2>3, <2>4 DEF ClientInv
  <1>2. ASSUME NEW r \in Requests, NEW e \in Requests, ClaimJoin(r, e)
        PROVE  ClientInv'
    <2>1. /\ pc'[r] = "waiting" /\ joined'[r] = e /\ online' = online
          /\ \A q \in Requests \ {r} : pc'[q] = pc[q] /\ joined'[q] = joined[q]
          /\ entry'[e] = Joined(e, r)
          /\ \A q \in Requests \ {e} : entry'[q] = entry[q]
      BY <1>2 DEF ClaimJoin, TypeOK
    <2>2. \A q \in Requests : entry'[q].state = entry[q].state
      BY <1>2, SameOutcome
    <2>3. ASSUME NEW q \in Requests, Pending(q)', entry'[q].alone # None
          PROVE  entry'[q].clients = {}
      BY <2>1, <2>2, <2>3, ClientUpdates DEF ClientInv, Pending
    <2>4. ASSUME NEW c \in Requests, pc'[c] \notin {"idle", "answered"},
                 online'[c], Pending(joined[c])'
          PROVE  c \in entry'[joined'[c]].clients
      <3>1. CASE c = r
        BY <2>1, <2>2, <2>4, <3>1, ClientUpdates DEF Pending
      <3>2. CASE c # r
        <4>1. /\ joined'[c] = joined[c] /\ joined[c] \in Requests
              /\ pc'[c] = pc[c] /\ Pending(joined[c])
          BY <1>0, <2>1, <2>2, <2>4, <3>2 DEF Pending
        <4>2. c \in entry[joined[c]].clients
          BY <2>1, <2>4, <4>1 DEF ClientInv
        <4> QED BY <2>1, <4>1, <4>2, ClientUpdates
      <3> QED BY <3>1, <3>2
    <2> QED BY <2>1, <2>3, <2>4 DEF ClientInv
  <1>3. ASSUME NEW r \in Requests, Completes(r) PROVE ClientInv'
    <2>1. PICK a \in Answers : Complete(r, a)
      BY <1>3, CompletesAnAnswer
    <2>2. /\ UNCHANGED <<joined, online>> /\ joined[r] = r
          /\ pc'[r] = "answered" /\ entry'[r].state \in {"ok", "failed"}
          /\ \A q \in Requests \ {r} : entry'[q] = entry[q] /\ pc'[q] = pc[q]
      BY <2>1, <1>3, CompletesAnAnswer, CompleteOutcome
    <2>3. \A q \in Requests : Pending(q)' => entry'[q] = entry[q] /\ Pending(q)
      BY <2>2 DEF Pending
    <2>4. ASSUME NEW c \in Requests, pc'[c] \notin {"idle", "answered"},
                 online'[c], Pending(joined[c])'
          PROVE  c \in entry'[joined'[c]].clients
      <3>1. pc'[c] = pc[c] /\ joined'[c] = joined[c] /\ joined[c] \in Requests
        BY <1>0, <2>2, <2>4
      <3> QED BY <2>2, <2>3, <2>4, <3>1 DEF ClientInv, Pending
    <2> QED BY <2>2, <2>3, <2>4 DEF ClientInv
  <1>4. ASSUME NEW r \in Requests, PollBody(r) PROVE ClientInv'
    <2>1. /\ UNCHANGED <<joined, online>> /\ joined[r] = r /\ Pending(r)
          /\ pc[r] = "polling" /\ pc'[r] = "running"
          /\ \A q \in Requests \ {r} : pc'[q] = pc[q] /\ entry'[q] = entry[q]
          /\ \/ entry'[r] = entry[r]
             \/ entry'[r] = Disconnected(r, r) /\ ~online[r]
      BY <1>4 DEF PollBody, TypeOK, HandlerInv
    <2>2. \A q \in Requests : entry'[q].state = entry[q].state
      BY <1>4, SameOutcome
    <2>3. ASSUME NEW q \in Requests, Pending(q)', entry'[q].alone # None
          PROVE  entry'[q].clients = {}
      BY <2>1, <2>2, <2>3, ClientUpdates DEF ClientInv, Pending
    <2>4. ASSUME NEW c \in Requests, pc'[c] \notin {"idle", "answered"},
                 online'[c], Pending(joined[c])'
          PROVE  c \in entry'[joined'[c]].clients
      <3>1. /\ joined'[c] = joined[c] /\ joined[c] \in Requests
            /\ pc[c] \notin {"idle", "answered"} /\ Pending(joined[c])
        BY <1>0, <2>1, <2>2, <2>4 DEF Pending
      <3>2. c \in entry[joined[c]].clients
        BY <2>1, <2>4, <3>1 DEF ClientInv
      <3> QED BY <2>1, <2>4, <3>1, <3>2, ClientUpdates
    <2> QED BY <2>1, <2>3, <2>4 DEF ClientInv
  <1>5. ASSUME NEW r \in Requests, JoinerLeaves(r) PROVE ClientInv'
    <2>1. /\ UNCHANGED <<joined, online>> /\ joined[r] \in Requests
          /\ Pending(joined[r]) /\ pc'[r] = "answered"
          /\ \A q \in Requests \ {r} : pc'[q] = pc[q]
          /\ entry'[joined[r]] = Disconnected(joined[r], r)
          /\ \A q \in Requests \ {joined[r]} : entry'[q] = entry[q]
      BY <1>0, <1>5 DEF JoinerLeaves, TypeOK, Entries, Done, Pending
    <2>2. \A q \in Requests : entry'[q].state = entry[q].state
      BY <1>5, <2>1, SameOutcome
    <2>3. ASSUME NEW q \in Requests, Pending(q)', entry'[q].alone # None
          PROVE  entry'[q].clients = {}
      <3>1. CASE q = joined[r]
        BY <2>1, <2>3, <3>1, ClientUpdates DEF ClientInv
      <3>2. CASE q # joined[r]
        BY <2>1, <2>3, <3>2 DEF ClientInv, Pending
      <3> QED BY <3>1, <3>2
    <2>4. ASSUME NEW c \in Requests, pc'[c] \notin {"idle", "answered"},
                 online'[c], Pending(joined[c])'
          PROVE  c \in entry'[joined'[c]].clients
      <3>1. /\ joined'[c] = joined[c] /\ joined[c] \in Requests /\ c # r
            /\ pc'[c] = pc[c] /\ Pending(joined[c])
        BY <1>0, <2>1, <2>2, <2>4 DEF Pending
      <3>2. c \in entry[joined[c]].clients
        BY <2>1, <2>4, <3>1 DEF ClientInv
      <3> QED BY <2>1, <3>1, <3>2, ClientUpdates
    <2> QED BY <2>1, <2>3, <2>4 DEF ClientInv
  <1>6. ASSUME NEW r \in Requests, Silent(r) PROVE ClientInv'
    BY <1>6, SilentStep DEF ClientInv, Pending
  <1>7. ASSUME NEW r \in Requests, JoinerReplies(r) PROVE ClientInv'
    BY <1>7 DEF JoinerReplies, ClientInv, Pending, TypeOK
  <1>8. CASE HealthStatus
    BY <1>8 DEF HealthStatus, ClientInv, Pending, clientVars
  <1>9. CASE Tick
    <2>1. UNCHANGED <<pc, joined, online>>
      BY <1>9 DEF Tick, clientVars
    <2>2. \A q \in Requests : /\ entry'[q].state = entry[q].state
                              /\ entry'[q].clients = entry[q].clients
                              /\ entry'[q].alone = None <=> entry[q].alone = None
      BY <1>9, TickOutcome, TickClients
    <2> QED BY <1>0, <2>1, <2>2 DEF ClientInv, Pending
  <1>10. CASE UNCHANGED vars
    BY <1>10 DEF vars, ClientInv, Pending
  <1> QED BY <1>1, <1>2, <1>3, <1>4, <1>5, <1>6, <1>7, <1>8, <1>9, <1>10, NextCases

(* The orphan guard stops a generation only when every connection that waits *)
(* for it is closed: a client that came back in the grace period is counted. *)
THEOREM GuardSparesTheWaiting == Spec => CancelOnlyWhenAbandoned
  <1> DEFINE Spared == \A r \in Requests :
                 armed'[r] # armed[r] =>
                     \A c \in Requests :
                         joined[c] = r /\ pc[c] # "answered" => ~online[c]
  <1>1. Init => ClientInv
    BY DEF Init, ClientInv, NoEntry, Pending
  <1>2. IInv /\ ClientInv /\ [Next]_vars => ClientInv'
    BY ClientStep
  <1>3. ASSUME IInv, ClientInv, ClientInv', [Next]_vars PROVE [Spared]_vars
    <2> SUFFICES ASSUME NEW r \in Requests, NEW c \in Requests,
                        armed'[r] # armed[r], joined[c] = r,
                        pc[c] # "answered", online[c], Next
                 PROVE  FALSE
      BY <1>3
    <2> USE <1>3 DEF IInv
    <2>1. PollBody(r)
      <3>1. ASSUME NEW q \in Requests, Completes(q) PROVE FALSE
        BY <3>1 DEF Completes, Respond, PrepareFails
      <3>2. ASSUME NEW q \in Requests,
                   \/ ClaimNew(q) \/ (\E e \in Requests : ClaimJoin(q, e))
                   \/ JoinerReplies(q) \/ JoinerLeaves(q) \/ Silent(q)
            PROVE  FALSE
        BY <3>2 DEF ClaimNew, ClaimJoin, JoinerReplies, JoinerLeaves, Silent,
           AcquireSlot, PollTimesOut, WorkerStep, JobStart, JobEnd,
           StopGeneration, ClientLeaves, clientVars
      <3>3. ASSUME HealthStatus \/ Tick PROVE FALSE
        BY <3>3 DEF HealthStatus, Tick, clientVars
      <3>4. PICK q \in Requests : PollBody(q)
        BY <3>1, <3>2, <3>3, NextCases
      <3>5. q = r
        BY <3>4 DEF PollBody, TypeOK
      <3> QED BY <3>4, <3>5
    <2>2. /\ ShouldCancel(entry'[r]) /\ UNCHANGED <<joined, online>>
          /\ pc' = [pc EXCEPT ![r] = "running"] /\ pc[r] = "polling"
      BY <2>1 DEF PollBody, TypeOK
    <2>3. Pending(r)' /\ entry'[r].clients = {}
      BY <2>2 DEF ShouldCancel, Pending, ClientInv
    <2>4. pc[c] # "idle"
      BY ConstantsAssumption DEF ClientInv
    <2>5. pc'[c] \notin {"idle", "answered"} /\ joined'[c] = r /\ online'[c]
      BY <2>2, <2>4 DEF TypeOK
    <2> QED BY <2>3, <2>5 DEF ClientInv
  <1> QED BY Invariance, <1>1, <1>2, <1>3, PTL DEF Spec, CancelOnlyWhenAbandoned
=============================================================================
