--------------------------- MODULE GenerationSlot ---------------------------
(***************************************************************************)
(* The exclusive generation slot of the rank-0 HTTP server                 *)
(* (sharded_server.py, run_http_server): generation_lock with its recorded *)
(* owner, the request slot published under state_lock, the rank-0 op       *)
(* channel mutex, the single generation worker and its job queue, and the  *)
(* recovery of a lock that looks stale.                                    *)
(*                                                                         *)
(* Three kinds of actor compete for the slot.  Requests wait for the lock  *)
(* on a helper thread, publish themselves on the event loop and run on the *)
(* worker.  Keepwarms (idle heartbeat, keepwarm tick, post-response touch) *)
(* take the lock without waiting when the server looks idle.  Controls     *)
(* (SSD save) run on the worker and take the lock there.                   *)
(*                                                                         *)
(* threading.Lock belongs to nobody: whoever calls release() frees it.     *)
(* `holder` records who acquired it, which the code cannot see; the code   *)
(* sees only whether it is locked, and the owner record.                   *)
(***************************************************************************)
EXTENDS Integers, Sequences, FiniteSets

CONSTANTS
    Requests, Keepwarms, Controls,  \* the actors
    Guarded,        \* keepwarms that release only what they still own
    Cancellable,    \* requests whose handler may be cancelled while it waits
    None,
    HandoffGrace,   \* GENERATION_LOCK_HANDOFF_GRACE_SECONDS, in ticks
    KeepwarmGrace,  \* ..._KEEPWARM_OWNER_GRACE_SECONDS
    RequestGrace,   \* ..._REQUEST_OWNER_GRACE_SECONDS
    ControlGrace,   \* ..._CONTROL_OWNER_GRACE_SECONDS
    MaxAge          \* ticks after which an owner record ages no further

Actors == Requests \cup Keepwarms \cup Controls

ASSUME ConstantsAssumption ==
    /\ IsFiniteSet(Actors)
    /\ Requests \cap Keepwarms = {}
    /\ Requests \cap Controls = {}
    /\ Keepwarms \cap Controls = {}
    /\ Guarded \subseteq Keepwarms
    /\ Cancellable \subseteq Requests
    /\ None \notin Actors
    /\ {HandoffGrace, KeepwarmGrace, RequestGrace, ControlGrace, MaxAge}
          \subseteq Nat

VARIABLES
    pc,         \* where each actor is
    holder,     \* who acquired generation_lock; None when it is not locked
    owner,      \* generation_lock_owner: kind, reason and age of the record
    active,     \* request_state["active"]
    releasing,  \* request_state["releasing"]
    queued,     \* request_state["queued"]
    target,     \* _ACTIVE_STOP_TARGET["request_id"]
    mutex,      \* who is in _RANK0_OP_MUTEX
    jobs,       \* generation_jobs
    worker,     \* whose job the generation worker is running
    loop        \* the handler that occupies the event loop between two steps

stateVars == <<active, releasing, queued, target>>
vars == <<pc, holder, owner, active, releasing, queued, target, mutex, jobs,
          worker, loop>>

-----------------------------------------------------------------------------
RequestStates == {"new", "recovering", "waiting", "retrying", "granted",
                  "submitted", "taken", "generating", "ended", "releasing",
                  "retired", "unlocking", "unlocked", "served",
                  "zombie", "leaked", "gone"}
KeepwarmStates == {"idle", "locked", "owned", "warming", "skipping", "warmed",
                   "unlocking"}
ControlStates  == {"idle", "checked", "queued", "recovering", "blocked",
                   "locked", "owned", "running", "ended", "unlocking", "done"}

Owners == [kind : {"none", "request", "keepwarm", "control"},
           who  : Actors \cup {None},
           age  : 0 .. MaxAge]

(* set_generation_lock_owner, and what clear_generation_lock_owner leaves.   *)
OwnedBy(kind, a) == [kind |-> kind, who |-> a, age |-> 0]

NoOwner == [kind |-> "none", who |-> None, age |-> 0]

Init ==
    /\ pc = [a \in Actors |-> IF a \in Requests THEN "new" ELSE "idle"]
    /\ holder    = None
    /\ owner     = NoOwner
    /\ active    = None
    /\ releasing = None
    /\ queued    = 0
    /\ target    = None
    /\ mutex     = None
    /\ jobs      = << >>
    /\ worker    = None
    /\ loop      = None

Locked == holder # None
Busy   == active # None \/ queued > 0
Goto(a, place) == pc' = [pc EXCEPT ![a] = place]

(* A blocking acquire by actor a can return now / has returned.              *)
Acquire(a) == holder = None /\ holder' = a
(* release(): on a lock that is not locked it raises, and callers ignore it. *)
Release    == holder' = None

-----------------------------------------------------------------------------
(* Stale-lock recovery.                                                    *)

Grace == CASE owner.kind = "none"     -> HandoffGrace
           [] owner.kind = "keepwarm" -> KeepwarmGrace
           [] owner.kind = "request"  -> RequestGrace
           [] owner.kind = "control"  -> ControlGrace

(* Mutant: an ownerless lock is not looked at.                               *)
Stale_NeedsOwner == /\ Locked /\ active = None /\ releasing = None
                    /\ owner.kind # "none" /\ owner.age >= Grace

(* _should_recover_generation_lock                                           *)
Stale ==
    /\ Locked
    /\ active = None
    /\ releasing = None
    /\ owner.age >= Grace

(* recover_stale_generation_lock clears the owner it inspected, then frees   *)
(* the lock; the two are separate steps, and `next` is where a goes when     *)
(* there was something to recover.                                           *)
Recover(a, next) ==
    /\ Stale
    /\ owner' = NoOwner
    /\ Goto(a, next)

-----------------------------------------------------------------------------
(* A request: acquire_generation_slot, its job and release_generation_slot. *)

(* Before it queues, the request looks for a stale lock.                     *)
Arrive(r) ==
    /\ pc[r] = "new" /\ loop = None
    /\ \/ /\ Recover(r, "recovering")
          /\ loop' = r
          /\ UNCHANGED queued
       \/ /\ ~Stale
          /\ Goto(r, "waiting")
          /\ queued' = queued + 1
          /\ UNCHANGED <<owner, loop>>
    /\ UNCHANGED <<holder, active, releasing, target, mutex, jobs, worker>>

(* A 5 s slice of waiting timed out: look again.                             *)
Retry(r) ==
    /\ pc[r] = "waiting" /\ loop = None
    /\ Locked
    /\ Recover(r, "retrying")
    /\ loop' = r
    /\ UNCHANGED <<holder, stateVars, mutex, jobs, worker>>

RecoverRelease(r) ==
    /\ pc[r] \in {"recovering", "retrying"} /\ loop = r
    /\ Release
    /\ Goto(r, "waiting")
    /\ queued' = IF pc[r] = "recovering" THEN queued + 1 ELSE queued
    /\ loop' = None
    /\ UNCHANGED <<owner, active, releasing, target, mutex, jobs, worker>>

(* The helper thread gets the lock; the handler has yet to resume.           *)
Granted(r) ==
    /\ pc[r] = "waiting"
    /\ Acquire(r)
    /\ Goto(r, "granted")
    /\ UNCHANGED <<owner, stateVars, mutex, jobs, worker, loop>>

(* The handler resumes: it records itself as owner, publishes the slot and   *)
(* the stop target, and submits its job.                                     *)
Publish(r) ==
    /\ pc[r] = "granted" /\ loop = None
    /\ owner'  = OwnedBy("request", r)
    /\ queued' = queued - 1
    /\ active' = r
    /\ target' = r
    /\ jobs'   = Append(jobs, r)
    /\ Goto(r, "submitted")
    /\ UNCHANGED <<holder, releasing, mutex, worker, loop>>

(* Mutant: the cancelled handler is still counted.                           *)
Cancel_KeepsCount(r) ==
    /\ r \in Cancellable
    /\ pc[r] \in {"waiting", "granted"} /\ loop = None
    /\ Goto(r, IF pc[r] = "waiting" THEN "zombie" ELSE "leaked")
    /\ UNCHANGED <<holder, owner, stateVars, mutex, jobs, worker, loop>>

(* The handler is cancelled at its await.  The helper thread goes on waiting *)
(* for the lock, or has it already; nobody will release it.                  *)
Cancel(r) ==
    /\ r \in Cancellable
    /\ pc[r] \in {"waiting", "granted"} /\ loop = None
    /\ Goto(r, IF pc[r] = "waiting" THEN "zombie" ELSE "leaked")
    /\ queued' = queued - 1
    /\ UNCHANGED <<holder, owner, active, releasing, target, mutex, jobs,
                   worker, loop>>

ZombieAcquires(r) ==
    /\ pc[r] = "zombie"
    /\ Acquire(r)
    /\ Goto(r, "leaked")
    /\ UNCHANGED <<owner, stateVars, mutex, jobs, worker, loop>>

ZombieTimesOut(r) ==
    /\ pc[r] = "zombie"
    /\ Goto(r, "gone")
    /\ UNCHANGED <<holder, owner, stateVars, mutex, jobs, worker, loop>>

(* The worker takes the request's job, then the op channel for the whole     *)
(* transaction.                                                              *)
JobStart(r) ==
    /\ pc[r] = "submitted"
    /\ worker = None /\ jobs # << >> /\ Head(jobs) = r
    /\ worker' = r
    /\ jobs'   = Tail(jobs)
    /\ Goto(r, "taken")
    /\ UNCHANGED <<holder, owner, stateVars, mutex, loop>>

JobTransaction(r) ==
    /\ pc[r] = "taken"
    /\ mutex = None
    /\ mutex' = r
    /\ Goto(r, "generating")
    /\ UNCHANGED <<holder, owner, stateVars, jobs, worker, loop>>

(* The mirror barrier was the transaction's last collective.                 *)
JobEnd(r) ==
    /\ pc[r] = "generating"
    /\ mutex' = None
    /\ Goto(r, "ended")
    /\ UNCHANGED <<holder, owner, stateVars, jobs, worker, loop>>

(* release_generation_slot, in the order of its critical sections.           *)
ReleaseBegin(r) ==
    /\ pc[r] = "ended"
    /\ releasing' = IF active = r THEN r ELSE releasing
    /\ Goto(r, "releasing")
    /\ UNCHANGED <<holder, owner, active, queued, target, mutex, jobs, worker,
                   loop>>

(* Mutant: the stop target is left behind.                                   *)
ReleaseActive_KeepsTarget(r) ==
    /\ pc[r] = "releasing"
    /\ active' = IF active = r THEN None ELSE active
    /\ Goto(r, "retired")
    /\ UNCHANGED <<holder, owner, releasing, queued, target, mutex, jobs,
                   worker, loop>>

ReleaseActive(r) ==
    /\ pc[r] = "releasing"
    /\ active' = IF active = r THEN None ELSE active
    /\ target' = IF target = r THEN None ELSE target
    /\ Goto(r, "retired")
    /\ UNCHANGED <<holder, owner, releasing, queued, mutex, jobs, worker, loop>>

OwnsLock(r) == owner.kind = "request" /\ owner.who = r

ReleaseOwner(r) ==
    /\ pc[r] = "retired"
    /\ IF OwnsLock(r)
       THEN owner' = NoOwner /\ Goto(r, "unlocking")
       ELSE Goto(r, "unlocked") /\ UNCHANGED owner
    /\ UNCHANGED <<holder, stateVars, mutex, jobs, worker, loop>>

ReleaseLock(r) ==
    /\ pc[r] = "unlocking"
    /\ Release
    /\ Goto(r, "unlocked")
    /\ UNCHANGED <<owner, stateVars, mutex, jobs, worker, loop>>

ReleaseEnd(r) ==
    /\ pc[r] = "unlocked"
    /\ releasing' = IF releasing = r THEN None ELSE releasing
    /\ worker'    = None
    /\ Goto(r, "served")
    /\ UNCHANGED <<holder, owner, active, queued, target, mutex, jobs, loop>>

-----------------------------------------------------------------------------
(* A keepwarm: only when the server looks idle, never waiting for the lock. *)

KeepwarmLock(k) ==
    /\ pc[k] = "idle"
    /\ ~Busy
    /\ Acquire(k)
    /\ Goto(k, "locked")
    /\ UNCHANGED <<owner, stateVars, mutex, jobs, worker, loop>>

KeepwarmOwn(k) ==
    /\ pc[k] = "locked"
    /\ owner' = OwnedBy("keepwarm", k)
    /\ Goto(k, "owned")
    /\ UNCHANGED <<holder, stateVars, mutex, jobs, worker, loop>>

(* Mutant: the op channel is not waited for.                                 *)
KeepwarmWarm_NoMutex(k) ==
    /\ pc[k] = "owned"
    /\ ~Busy
    /\ mutex' = k
    /\ Goto(k, "warming")
    /\ UNCHANGED <<holder, owner, stateVars, jobs, worker, loop>>

(* The op channel within 2 s, and the server still idle, or not at all.      *)
KeepwarmWarm(k) ==
    /\ pc[k] = "owned"
    /\ mutex = None
    /\ ~Busy
    /\ mutex' = k
    /\ Goto(k, "warming")
    /\ UNCHANGED <<holder, owner, stateVars, jobs, worker, loop>>

KeepwarmSkip(k) ==
    /\ pc[k] = "owned"
    /\ mutex # None \/ Busy
    /\ Goto(k, "warmed")
    /\ UNCHANGED <<holder, owner, stateVars, mutex, jobs, worker, loop>>

KeepwarmDone(k) ==
    /\ pc[k] = "warming"
    /\ mutex' = None
    /\ Goto(k, "warmed")
    /\ UNCHANGED <<holder, owner, stateVars, jobs, worker, loop>>

(* coordinated_keepwarm releases only when it is still the owner; the idle   *)
(* heartbeat and the post-response touch release in any case.                *)
MayRelease(k) == owner.kind = "keepwarm" \/ k \notin Guarded

KeepwarmClear(k) ==
    /\ pc[k] = "warmed"
    /\ owner' = IF owner.kind = "keepwarm" THEN NoOwner ELSE owner
    /\ Goto(k, IF MayRelease(k) THEN "unlocking" ELSE "idle")
    /\ UNCHANGED <<holder, stateVars, mutex, jobs, worker, loop>>

KeepwarmUnlock(k) ==
    /\ pc[k] = "unlocking"
    /\ Release
    /\ Goto(k, "idle")
    /\ UNCHANGED <<owner, stateVars, mutex, jobs, worker, loop>>

-----------------------------------------------------------------------------
(* A control job: run_generation_control_job, called when the server looked *)
(* idle before the request's body was read.                                 *)

ControlCheck(c) ==
    /\ pc[c] = "idle" /\ loop = None
    /\ ~Busy
    /\ Goto(c, "checked")
    /\ UNCHANGED <<holder, owner, stateVars, mutex, jobs, worker, loop>>

ControlSubmit(c) ==
    /\ pc[c] = "checked" /\ loop = None
    /\ jobs' = Append(jobs, c)
    /\ Goto(c, "queued")
    /\ UNCHANGED <<holder, owner, stateVars, mutex, worker, loop>>

ControlStart(c) ==
    /\ pc[c] = "queued"
    /\ worker = None /\ jobs # << >> /\ Head(jobs) = c
    /\ worker' = c
    /\ jobs'   = Tail(jobs)
    /\ \/ Recover(c, "recovering")
       \/ ~Stale /\ Goto(c, "blocked") /\ UNCHANGED owner
    /\ UNCHANGED <<holder, stateVars, mutex, loop>>

ControlRecover(c) ==
    /\ pc[c] = "recovering"
    /\ Release
    /\ Goto(c, "blocked")
    /\ UNCHANGED <<owner, stateVars, mutex, jobs, worker, loop>>

(* generation_lock.acquire(), without a timeout, on the worker's thread.     *)
ControlLock(c) ==
    /\ pc[c] = "blocked"
    /\ Acquire(c)
    /\ Goto(c, "locked")
    /\ UNCHANGED <<owner, stateVars, mutex, jobs, worker, loop>>

ControlOwn(c) ==
    /\ pc[c] = "locked"
    /\ owner' = OwnedBy("control", c)
    /\ Goto(c, "owned")
    /\ UNCHANGED <<holder, stateVars, mutex, jobs, worker, loop>>

ControlRun(c) ==
    /\ pc[c] = "owned"
    /\ mutex = None
    /\ mutex' = c
    /\ Goto(c, "running")
    /\ UNCHANGED <<holder, owner, stateVars, jobs, worker, loop>>

ControlEnd(c) ==
    /\ pc[c] = "running"
    /\ mutex' = None
    /\ Goto(c, "ended")
    /\ UNCHANGED <<holder, owner, stateVars, jobs, worker, loop>>

ControlClear(c) ==
    /\ pc[c] = "ended"
    /\ owner' = IF owner.kind = "control" THEN NoOwner ELSE owner
    /\ Goto(c, "unlocking")
    /\ UNCHANGED <<holder, stateVars, mutex, jobs, worker, loop>>

ControlUnlock(c) ==
    /\ pc[c] = "unlocking"
    /\ Release
    /\ worker' = None
    /\ Goto(c, "done")
    /\ UNCHANGED <<owner, stateVars, mutex, jobs, loop>>

-----------------------------------------------------------------------------
Tick ==
    /\ owner.age < MaxAge
    /\ owner' = [owner EXCEPT !.age = @ + 1]
    /\ UNCHANGED <<pc, holder, stateVars, mutex, jobs, worker, loop>>

HandlerStep(r) == Arrive(r) \/ Retry(r) \/ RecoverRelease(r) \/ Publish(r)
ThreadStep(r)  == Granted(r) \/ ZombieAcquires(r) \/ ZombieTimesOut(r)
JobStep(r)     == \/ JobStart(r) \/ JobTransaction(r) \/ JobEnd(r)
                  \/ ReleaseBegin(r) \/ ReleaseActive(r) \/ ReleaseOwner(r)
                  \/ ReleaseLock(r) \/ ReleaseEnd(r)
KeepwarmStep(k) == \/ KeepwarmLock(k) \/ KeepwarmOwn(k) \/ KeepwarmWarm(k)
                   \/ KeepwarmSkip(k) \/ KeepwarmDone(k) \/ KeepwarmClear(k)
                   \/ KeepwarmUnlock(k)
ControlStep(c)  == \/ ControlCheck(c) \/ ControlSubmit(c) \/ ControlStart(c)
                   \/ ControlRecover(c) \/ ControlLock(c) \/ ControlOwn(c)
                   \/ ControlRun(c) \/ ControlEnd(c) \/ ControlClear(c)
                   \/ ControlUnlock(c)

Next ==
    \/ \E r \in Requests : HandlerStep(r) \/ ThreadStep(r) \/ JobStep(r) \/ Cancel(r)
    \/ \E k \in Keepwarms : KeepwarmStep(k)
    \/ \E c \in Controls : ControlStep(c)
    \/ Tick

(* Threads and the event loop run whatever is ready, generations and warm-ups *)
(* end, waits time out and time passes.  Nobody has to send a request or a    *)
(* control, to cancel a handler, or to start a keepwarm.                      *)
Fairness ==
    /\ WF_vars(Tick)
    /\ \A r \in Requests : /\ WF_vars(HandlerStep(r))
                            /\ WF_vars(ThreadStep(r))
                            /\ WF_vars(JobStep(r))
    /\ \A k \in Keepwarms : WF_vars(pc[k] # "idle" /\ KeepwarmStep(k))
    /\ \A c \in Controls  : WF_vars(pc[c] # "idle" /\ ControlStep(c))

Spec     == Init /\ [][Next]_vars
FairSpec == Spec /\ Fairness

-----------------------------------------------------------------------------
(* Properties.                                                             *)

TypeOK ==
    /\ \A r \in Requests  : pc[r] \in RequestStates
    /\ \A k \in Keepwarms : pc[k] \in KeepwarmStates
    /\ \A c \in Controls  : pc[c] \in ControlStates
    /\ pc \in [Actors -> RequestStates \cup KeepwarmStates \cup ControlStates]
    /\ holder \in Actors \cup {None}
    /\ owner \in Owners
    /\ active \in Requests \cup {None}
    /\ releasing \in Requests \cup {None}
    /\ queued \in Int
    /\ target \in Requests \cup {None}
    /\ mutex \in Actors \cup {None}
    /\ jobs \in Seq(Requests \cup Controls)
    /\ worker \in Requests \cup Controls \cup {None}
    /\ loop \in Requests \cup {None}

Waiting == {r \in Requests : pc[r] \in {"waiting", "retrying", "granted"}}

(* request_state["queued"] counts the handlers that still wait for the slot,  *)
(* however they are cancelled, recovered or granted: keepwarms and admin      *)
(* endpoints believe the server idle exactly when nobody waits.               *)
QueuedIsExact == queued = Cardinality(Waiting)

(* The published slot, the stop target and the release marker never outlive   *)
(* the request they name: a stop is never aimed at a finished request and a   *)
(* finished request never blocks the recovery of the lock.                    *)
SlotRecordsAreLive ==
    /\ active # None =>
          pc[active] \in {"submitted", "taken", "generating", "ended", "releasing"}
    /\ target # None =>
          pc[target] \in {"submitted", "taken", "generating", "ended", "releasing"}
    /\ releasing # None =>
          pc[releasing] \in {"releasing", "retired", "unlocking", "unlocked"}

(* One complete op transaction at a time on the broadcast channel, even after *)
(* the generation lock was taken from a slow keepwarm.                        *)
InChannel(a) == pc[a] \in {"generating", "warming", "running"}
ChannelIsExclusive ==
    \A a, b \in Actors : InChannel(a) /\ InChannel(b) => a = b

(* A request that waits for the slot gets it and is served, unless its        *)
(* handler is cancelled: a leaked lock, or one a keepwarm sits on, heals.     *)
(* The one thing that can prevent it is a control job that sits on the only   *)
(* worker for ever, waiting for a lock.                                       *)
ControlSits == \E c \in Controls : worker = c /\ pc[c] = "blocked"
EveryRequestServed ==
    \/ <>[]ControlSits
    \/ \A r \in Requests :
          pc[r] = "waiting" ~> pc[r] \in {"served", "zombie", "leaked", "gone"}
=============================================================================
