------------------------ MODULE GenerationSlotProofs ------------------------
(***************************************************************************)
(* Proofs about GenerationSlot, for every set of actors, whoever may be    *)
(* cancelled or is guarded, and every value of the grace periods.  The     *)
(* inductive invariant says where each actor must be for the records that  *)
(* name it: the mutex, the published slot, the queue counter.              *)
(***************************************************************************)
EXTENDS GenerationSlot, FiniteSetTheorems, TLAPS

(* Whoever is in a transaction on the channel holds its mutex.             *)
MutexInv == \A a \in Actors : InChannel(a) => mutex = a

IInv == TypeOK /\ MutexInv /\ SlotRecordsAreLive /\ QueuedIsExact

-----------------------------------------------------------------------------
(* The initial state satisfies the inductive invariant.                     *)
LEMMA InitIInv == Init => IInv
  <1> SUFFICES ASSUME Init PROVE IInv
    OBVIOUS
  <1> USE ConstantsAssumption DEF Init
  <1>1. TypeOK
    BY DEF TypeOK, Actors, RequestStates, KeepwarmStates, ControlStates, NoOwner,
       Owners
  <1>2. MutexInv
    BY DEF MutexInv, InChannel, Actors
  <1>3. SlotRecordsAreLive
    BY DEF SlotRecordsAreLive
  <1>4. QueuedIsExact
    <2>1. Waiting = {}
      BY DEF Waiting, Actors
    <2> QED BY <2>1, FS_EmptySet DEF QueuedIsExact
  <1> QED BY <1>1, <1>2, <1>3, <1>4 DEF IInv

(* An owner record the code writes has the owner record's type.             *)
LEMMA OwnerTypes ==
    /\ NoOwner \in Owners
    /\ \A a \in Actors : \A kind \in {"request", "keepwarm", "control"} :
          OwnedBy(kind, a) \in Owners
  BY ConstantsAssumption DEF NoOwner, OwnedBy, Owners

LEMMA AgedTypes ==
    ASSUME owner \in Owners, Tick
    PROVE  owner' \in Owners
  <1>1. owner.age \in 0 .. MaxAge /\ owner.age < MaxAge
    BY DEF Tick, Owners
  <1>2. owner.age + 1 \in 0 .. MaxAge
    BY <1>1, ConstantsAssumption DEF ConstantsAssumption
  <1> QED BY <1>2 DEF Tick, Owners

(* Every step preserves the types.                                          *)
LEMMA TypeStep == TypeOK /\ [Next]_vars => TypeOK'
  <1> SUFFICES ASSUME TypeOK, [Next]_vars PROVE TypeOK'
    OBVIOUS
  <1> USE ConstantsAssumption, OwnerTypes
      DEF TypeOK, Actors, Goto, Acquire, Release, Recover, stateVars,
          RequestStates, KeepwarmStates, ControlStates
  <1>1. ASSUME NEW r \in Requests, Arrive(r) PROVE TypeOK'
    BY <1>1 DEF Arrive
  <1>2. ASSUME NEW r \in Requests, Retry(r) PROVE TypeOK'
    BY <1>2 DEF Retry
  <1>3. ASSUME NEW r \in Requests, RecoverRelease(r) PROVE TypeOK'
    BY <1>3 DEF RecoverRelease
  <1>4. ASSUME NEW r \in Requests, Publish(r) PROVE TypeOK'
    BY <1>4 DEF Publish
  <1>5. ASSUME NEW r \in Requests, Granted(r) PROVE TypeOK'
    BY <1>5 DEF Granted
  <1>6. ASSUME NEW r \in Requests, ZombieAcquires(r) PROVE TypeOK'
    BY <1>6 DEF ZombieAcquires
  <1>7. ASSUME NEW r \in Requests, ZombieTimesOut(r) PROVE TypeOK'
    BY <1>7 DEF ZombieTimesOut
  <1>8. ASSUME NEW r \in Requests, JobStart(r) PROVE TypeOK'
    BY <1>8 DEF JobStart
  <1>9. ASSUME NEW r \in Requests, JobTransaction(r) PROVE TypeOK'
    BY <1>9 DEF JobTransaction
  <1>10. ASSUME NEW r \in Requests, JobEnd(r) PROVE TypeOK'
    BY <1>10 DEF JobEnd
  <1>11. ASSUME NEW r \in Requests, ReleaseBegin(r) PROVE TypeOK'
    BY <1>11 DEF ReleaseBegin
  <1>12. ASSUME NEW r \in Requests, ReleaseActive(r) PROVE TypeOK'
    BY <1>12 DEF ReleaseActive
  <1>13. ASSUME NEW r \in Requests, ReleaseOwner(r) PROVE TypeOK'
    BY <1>13 DEF ReleaseOwner
  <1>14. ASSUME NEW r \in Requests, ReleaseLock(r) PROVE TypeOK'
    BY <1>14 DEF ReleaseLock
  <1>15. ASSUME NEW r \in Requests, ReleaseEnd(r) PROVE TypeOK'
    BY <1>15 DEF ReleaseEnd
  <1>16. ASSUME NEW r \in Requests, Cancel(r) PROVE TypeOK'
    BY <1>16 DEF Cancel
  <1>17. ASSUME NEW k \in Keepwarms, KeepwarmLock(k) PROVE TypeOK'
    BY <1>17 DEF KeepwarmLock
  <1>18. ASSUME NEW k \in Keepwarms, KeepwarmOwn(k) PROVE TypeOK'
    BY <1>18 DEF KeepwarmOwn
  <1>19. ASSUME NEW k \in Keepwarms, KeepwarmWarm(k) PROVE TypeOK'
    BY <1>19 DEF KeepwarmWarm
  <1>20. ASSUME NEW k \in Keepwarms, KeepwarmSkip(k) PROVE TypeOK'
    BY <1>20 DEF KeepwarmSkip
  <1>21. ASSUME NEW k \in Keepwarms, KeepwarmDone(k) PROVE TypeOK'
    BY <1>21 DEF KeepwarmDone
  <1>22. ASSUME NEW k \in Keepwarms, KeepwarmClear(k) PROVE TypeOK'
    BY <1>22 DEF KeepwarmClear
  <1>23. ASSUME NEW k \in Keepwarms, KeepwarmUnlock(k) PROVE TypeOK'
    BY <1>23 DEF KeepwarmUnlock
  <1>24. ASSUME NEW c \in Controls, ControlCheck(c) PROVE TypeOK'
    BY <1>24 DEF ControlCheck
  <1>25. ASSUME NEW c \in Controls, ControlSubmit(c) PROVE TypeOK'
    BY <1>25 DEF ControlSubmit
  <1>26. ASSUME NEW c \in Controls, ControlStart(c) PROVE TypeOK'
    BY <1>26 DEF ControlStart
  <1>27. ASSUME NEW c \in Controls, ControlRecover(c) PROVE TypeOK'
    BY <1>27 DEF ControlRecover
  <1>28. ASSUME NEW c \in Controls, ControlLock(c) PROVE TypeOK'
    BY <1>28 DEF ControlLock
  <1>29. ASSUME NEW c \in Controls, ControlOwn(c) PROVE TypeOK'
    BY <1>29 DEF ControlOwn
  <1>30. ASSUME NEW c \in Controls, ControlRun(c) PROVE TypeOK'
    BY <1>30 DEF ControlRun
  <1>31. ASSUME NEW c \in Controls, ControlEnd(c) PROVE TypeOK'
    BY <1>31 DEF ControlEnd
  <1>32. ASSUME NEW c \in Controls, ControlClear(c) PROVE TypeOK'
    BY <1>32 DEF ControlClear
  <1>33. ASSUME NEW c \in Controls, ControlUnlock(c) PROVE TypeOK'
    BY <1>33 DEF ControlUnlock
  <1>34. CASE Tick
    <2>1. owner' \in Owners
      BY <1>34, AgedTypes
    <2> QED BY <1>34, <2>1 DEF Tick
  <1>35. CASE UNCHANGED vars
    BY <1>35 DEF vars
  <1> QED BY <1>1, <1>2, <1>3, <1>4, <1>5, <1>6, <1>7, <1>8, <1>9, <1>10, <1>11, <1>12, <1>13, <1>14, <1>15, <1>16, <1>17, <1>18, <1>19, <1>20, <1>21, <1>22, <1>23, <1>24, <1>25, <1>26, <1>27, <1>28, <1>29, <1>30, <1>31, <1>32, <1>33, <1>34, <1>35
      DEF Next, HandlerStep, ThreadStep, JobStep, KeepwarmStep, ControlStep

-----------------------------------------------------------------------------
(* Three actions enter a transaction, three leave it, and no other touches  *)
(* the mutex or moves anybody into the channel.                             *)
Enters(a) ==
    \/ a \in Requests  /\ JobTransaction(a)
    \/ a \in Keepwarms /\ KeepwarmWarm(a)
    \/ a \in Controls  /\ ControlRun(a)
Leaves(a) ==
    \/ a \in Requests  /\ JobEnd(a)
    \/ a \in Keepwarms /\ KeepwarmDone(a)
    \/ a \in Controls  /\ ControlEnd(a)
StaysOut(a) ==
    /\ mutex' = mutex
    /\ \E place \in RequestStates \cup KeepwarmStates \cup ControlStates :
          /\ place \notin {"generating", "warming", "running"}
          /\ pc' = [pc EXCEPT ![a] = place]

LEMMA ChannelMoves ==
    ASSUME Next
    PROVE  \/ \E a \in Actors : Enters(a) \/ Leaves(a) \/ StaysOut(a)
           \/ UNCHANGED <<pc, mutex>>
  <1> USE DEF Actors, StaysOut, Goto, RequestStates, KeepwarmStates, ControlStates
  <1>1. ASSUME NEW r \in Requests, HandlerStep(r) \/ ThreadStep(r) \/ Cancel(r)
        PROVE  StaysOut(r)
    BY <1>1 DEF HandlerStep, ThreadStep, Arrive, Retry, RecoverRelease, Publish,
       Cancel, Granted, ZombieAcquires, ZombieTimesOut, Recover
  <1>2. ASSUME NEW r \in Requests, JobStep(r)
        PROVE  Enters(r) \/ Leaves(r) \/ StaysOut(r)
    BY <1>2 DEF JobStep, JobStart, ReleaseBegin, ReleaseActive, ReleaseOwner,
       ReleaseLock, ReleaseEnd, Enters, Leaves
  <1>3. ASSUME NEW k \in Keepwarms, KeepwarmStep(k)
        PROVE  Enters(k) \/ Leaves(k) \/ StaysOut(k)
    BY <1>3 DEF KeepwarmStep, KeepwarmLock, KeepwarmOwn, KeepwarmSkip,
       KeepwarmClear, KeepwarmUnlock, Enters, Leaves
  <1>4. ASSUME NEW c \in Controls, ControlStep(c)
        PROVE  Enters(c) \/ Leaves(c) \/ StaysOut(c)
    BY <1>4 DEF ControlStep, ControlCheck, ControlSubmit, ControlStart,
       ControlRecover, ControlLock, ControlOwn, ControlClear, ControlUnlock,
       Recover, Enters, Leaves
  <1>5. CASE Tick
    BY <1>5 DEF Tick
  <1> QED BY <1>1, <1>2, <1>3, <1>4, <1>5 DEF Next

(* The mutex keeps its holder for as long as the holder is in the channel.  *)
LEMMA MutexStep == TypeOK /\ MutexInv /\ [Next]_vars => MutexInv'
  <1> SUFFICES ASSUME TypeOK, MutexInv, [Next]_vars PROVE MutexInv'
    OBVIOUS
  <1> USE ConstantsAssumption DEF TypeOK, MutexInv, InChannel, Actors
  <1>1. ASSUME NEW a \in Actors, Enters(a) PROVE MutexInv'
    BY <1>1 DEF Enters, JobTransaction, KeepwarmWarm, ControlRun, Goto
  <1>2. ASSUME NEW a \in Actors, Leaves(a) PROVE MutexInv'
    BY <1>2 DEF Leaves, JobEnd, KeepwarmDone, ControlEnd, Goto
  <1>3. ASSUME NEW a \in Actors, StaysOut(a) PROVE MutexInv'
    BY <1>3 DEF StaysOut
  <1>4. CASE UNCHANGED vars \/ UNCHANGED <<pc, mutex>>
    BY <1>4 DEF vars
  <1> QED BY <1>1, <1>2, <1>3, <1>4, ChannelMoves

-----------------------------------------------------------------------------
(* Steps of keepwarms, controls and time leave the requests where they are  *)
(* and the request slot as it is.                                           *)
LEMMA OthersKeepTheSlot ==
    ASSUME TypeOK,
           \/ \E k \in Keepwarms : KeepwarmStep(k)
           \/ \E c \in Controls : ControlStep(c)
           \/ Tick \/ UNCHANGED vars
    PROVE  /\ \A r \in Requests : pc'[r] = pc[r]
           /\ UNCHANGED stateVars
  <1> USE ConstantsAssumption DEF TypeOK, Actors, Goto, Recover, stateVars
  <1>1. ASSUME NEW k \in Keepwarms, KeepwarmStep(k)
        PROVE  (\A r \in Requests : pc'[r] = pc[r]) /\ UNCHANGED stateVars
    BY <1>1 DEF KeepwarmStep, KeepwarmLock, KeepwarmOwn, KeepwarmWarm, KeepwarmSkip,
       KeepwarmDone, KeepwarmClear, KeepwarmUnlock
  <1>2. ASSUME NEW c \in Controls, ControlStep(c)
        PROVE  (\A r \in Requests : pc'[r] = pc[r]) /\ UNCHANGED stateVars
    BY <1>2 DEF ControlStep, ControlCheck, ControlSubmit, ControlStart,
       ControlRecover, ControlLock, ControlOwn, ControlRun, ControlEnd,
       ControlClear, ControlUnlock
  <1>3. CASE Tick \/ UNCHANGED vars
    BY <1>3 DEF Tick, vars
  <1> QED BY <1>1, <1>2, <1>3

(* The published slot, the stop target and the release marker are cleared   *)
(* before the request they name is over.                                    *)
LEMMA SlotStep == TypeOK /\ SlotRecordsAreLive /\ [Next]_vars => SlotRecordsAreLive'
  <1> SUFFICES ASSUME TypeOK, SlotRecordsAreLive, [Next]_vars
               PROVE  SlotRecordsAreLive'
    OBVIOUS
  <1> USE ConstantsAssumption DEF TypeOK, SlotRecordsAreLive, Actors, Goto, Recover,
          stateVars
  <1>1. ASSUME NEW r \in Requests, HandlerStep(r) \/ ThreadStep(r) \/ Cancel(r)
        PROVE  SlotRecordsAreLive'
    BY <1>1 DEF HandlerStep, ThreadStep, Arrive, Retry, RecoverRelease, Publish,
       Cancel, Granted, ZombieAcquires, ZombieTimesOut
  <1>2. ASSUME NEW r \in Requests, JobStart(r) \/ JobTransaction(r) \/ JobEnd(r)
        PROVE  SlotRecordsAreLive'
    BY <1>2 DEF JobStart, JobTransaction, JobEnd
  <1>3. ASSUME NEW r \in Requests, ReleaseBegin(r) \/ ReleaseActive(r)
        PROVE  SlotRecordsAreLive'
    BY <1>3 DEF ReleaseBegin, ReleaseActive
  <1>4. ASSUME NEW r \in Requests, ReleaseOwner(r) \/ ReleaseLock(r) \/ ReleaseEnd(r)
        PROVE  SlotRecordsAreLive'
    BY <1>4 DEF ReleaseOwner, ReleaseLock, ReleaseEnd
  <1>5. CASE \/ \E k \in Keepwarms : KeepwarmStep(k)
             \/ \E c \in Controls : ControlStep(c)
             \/ Tick \/ UNCHANGED vars
    BY <1>5, OthersKeepTheSlot
  <1> QED BY <1>1, <1>2, <1>3, <1>4, <1>5 DEF Next, JobStep

-----------------------------------------------------------------------------
(* The counter follows the set of waiting handlers: it goes up when one     *)
(* joins, down when one leaves, and stays when none does.                   *)
LEMMA QueueStep == TypeOK /\ QueuedIsExact /\ [Next]_vars => QueuedIsExact'
  <1> SUFFICES ASSUME TypeOK, QueuedIsExact, [Next]_vars PROVE QueuedIsExact'
    OBVIOUS
  <1> USE ConstantsAssumption DEF TypeOK, Actors, Goto, Recover, stateVars
  <1>1. IsFiniteSet(Waiting) /\ Cardinality(Waiting) \in Nat
    <2>1. IsFiniteSet(Requests) /\ Waiting \subseteq Requests
      BY FS_Subset DEF Waiting
    <2> QED BY <2>1, FS_Subset, FS_CardinalityType
  <1>2. ASSUME NEW r \in Requests, r \notin Waiting, Waiting' = Waiting \cup {r},
               queued' = queued + 1
        PROVE  QueuedIsExact'
    BY <1>1, <1>2, FS_AddElement DEF QueuedIsExact
  <1>3. ASSUME NEW r \in Requests, r \in Waiting, Waiting' = Waiting \ {r},
               queued' = queued - 1
        PROVE  QueuedIsExact'
    BY <1>1, <1>3, FS_RemoveElement DEF QueuedIsExact
  <1>4. ASSUME Waiting' = Waiting, queued' = queued PROVE QueuedIsExact'
    BY <1>4 DEF QueuedIsExact
  <1>5. ASSUME NEW r \in Requests, Arrive(r) PROVE QueuedIsExact'
    <2>1. CASE pc'[r] = "waiting"
      <3>1. r \notin Waiting /\ Waiting' = Waiting \cup {r} /\ queued' = queued + 1
        BY <1>5, <2>1 DEF Arrive, Waiting
      <3> QED BY <3>1, <1>2
    <2>2. CASE pc'[r] # "waiting"
      <3>1. Waiting' = Waiting /\ queued' = queued
        BY <1>5, <2>2 DEF Arrive, Waiting
      <3> QED BY <3>1, <1>4
    <2> QED BY <2>1, <2>2
  <1>6. ASSUME NEW r \in Requests, RecoverRelease(r) PROVE QueuedIsExact'
    <2>1. CASE pc[r] = "recovering"
      <3>1. r \notin Waiting /\ Waiting' = Waiting \cup {r} /\ queued' = queued + 1
        BY <1>6, <2>1 DEF RecoverRelease, Waiting
      <3> QED BY <3>1, <1>2
    <2>2. CASE pc[r] = "retrying"
      <3>1. Waiting' = Waiting /\ queued' = queued
        BY <1>6, <2>2 DEF RecoverRelease, Waiting
      <3> QED BY <3>1, <1>4
    <2> QED BY <1>6, <2>1, <2>2 DEF RecoverRelease
  <1>7. ASSUME NEW r \in Requests, Publish(r) \/ Cancel(r) PROVE QueuedIsExact'
    <2>1. r \in Waiting /\ Waiting' = Waiting \ {r} /\ queued' = queued - 1
      BY <1>7 DEF Publish, Cancel, Waiting
    <2> QED BY <2>1, <1>3
  <1>8. ASSUME NEW r \in Requests, Retry(r) \/ ThreadStep(r) \/ JobStep(r)
        PROVE  QueuedIsExact'
    <2>1. Waiting' = Waiting /\ queued' = queued
      BY <1>8 DEF Retry, ThreadStep, Granted, ZombieAcquires, ZombieTimesOut, JobStep,
         JobStart, JobTransaction, JobEnd, ReleaseBegin, ReleaseActive,
         ReleaseOwner, ReleaseLock, ReleaseEnd, Waiting
    <2> QED BY <2>1, <1>4
  <1>9. CASE \/ \E k \in Keepwarms : KeepwarmStep(k)
             \/ \E c \in Controls : ControlStep(c)
             \/ Tick \/ UNCHANGED vars
    <2>1. Waiting' = Waiting /\ queued' = queued
      BY <1>9, OthersKeepTheSlot DEF Waiting
    <2> QED BY <2>1, <1>4
  <1> QED BY <1>5, <1>6, <1>7, <1>8, <1>9 DEF Next, HandlerStep

(* The inductive invariant holds in every reachable state.                  *)
THEOREM Invariance == Spec => []IInv
  <1>1. IInv /\ [Next]_vars => IInv'
    BY TypeStep, MutexStep, SlotStep, QueueStep DEF IInv
  <1> QED BY InitIInv, <1>1, PTL DEF Spec

-----------------------------------------------------------------------------
(* Every variable keeps its type.                                           *)
THEOREM TypeCorrect == Spec => []TypeOK
  <1>1. IInv => TypeOK
    BY DEF IInv
  <1> QED BY Invariance, <1>1, PTL

(* However the lock was recovered, stolen or leaked, no two transactions    *)
(* are on the broadcast channel at once.                                    *)
THEOREM ExclusiveChannel == Spec => []ChannelIsExclusive
  <1>1. IInv => ChannelIsExclusive
    BY DEF IInv, MutexInv, ChannelIsExclusive
  <1> QED BY Invariance, <1>1, PTL

(* The slot, the stop target and the release marker only name live requests. *)
THEOREM LiveRecords == Spec => []SlotRecordsAreLive
  <1>1. IInv => SlotRecordsAreLive
    BY DEF IInv
  <1> QED BY Invariance, <1>1, PTL

(* The queue counter is the number of handlers that wait.                   *)
THEOREM ExactQueue == Spec => []QueuedIsExact
  <1>1. IInv => QueuedIsExact
    BY DEF IInv
  <1> QED BY Invariance, <1>1, PTL

=============================================================================
