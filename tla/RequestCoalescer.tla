-------------------------- MODULE RequestCoalescer --------------------------
(***************************************************************************)
(* Non-stream chat requests of the rank-0 HTTP server (sharded_server.py). *)
(* Identical request bodies share one generation through                   *)
(* _NonstreamRequestCoalescer: the first request with a fingerprint owns   *)
(* the generation, the later ones wait for the owner's response or replay  *)
(* it for a grace period.  The handlers run on the HTTP event loop, the    *)
(* generation on the worker thread, and both touch the process-wide stop   *)
(* flag and the rank-local stop file.                                      *)
(*                                                                         *)
(* An entry object lives as long as some handler holds it, so it is named  *)
(* by the request that created it; `table` says which objects the          *)
(* coalescer's dictionary still holds.  Time appears only as elapsed time  *)
(* since a recorded instant, in ticks, and saturates one tick past the     *)
(* longest interval the code compares it with.                             *)
(***************************************************************************)
EXTENDS Naturals, FiniteSets

CONSTANTS
    Requests,         \* non-stream requests (request ids)
    Keys,             \* request fingerprints
    KeyOf,            \* the fingerprint of each request's body
    None,             \* Python's None
    ReplayGrace,      \* replay_grace_seconds, in ticks
    DisconnectGrace,  \* disconnect_grace_seconds, in ticks
    MaxEntries,       \* max_entries
    Stoppable,        \* the requests POST /v1/stop may be called for
    Impatient         \* the requests whose client may go away

ASSUME ConstantsAssumption ==
    /\ IsFiniteSet(Requests)
    /\ KeyOf \in [Requests -> Keys]
    /\ None \notin Requests \cup Nat
    /\ ReplayGrace \in Nat
    /\ DisconnectGrace \in Nat
    /\ MaxEntries \in Nat \ {0}
    /\ Stoppable \subseteq Requests
    /\ Impatient \subseteq Requests

VARIABLES
    table,   \* the owners whose entry is in _entries
    entry,   \* the entry object each owner created
    joined,  \* the owner whose entry a request's handler holds
    pc,      \* where a request's handler is
    online,  \* whether the client's connection is open
    job,     \* the request's job on the generation worker
    out,     \* what the job left in result["text"] or result["error"]
    slot,    \* the request that holds the generation slot
    flag,    \* _STOP_FLAG with _STOP_REQUEST_ID
    file,    \* the request whose nonce is in rank 0's stop file
    seen,    \* disconnect_seen of the owner's polling loop
    armed,   \* disconnect_stopped of the owner's polling loop
    answer   \* the HTTP response of a finished request

clientVars == <<joined, pc, online, seen, armed, answer>>
jobVars    == <<job, out, slot>>
stopVars   == <<flag, file>>
vars       == <<table, entry, joined, pc, online, job, out, slot, flag, file,
                seen, armed, answer>>

-----------------------------------------------------------------------------
Outputs  == {"full", "cut", "error"}
Statuses == {200, 400, 499, 500, 503}
Answers  == [status : Statuses, text : Outputs \cup {"none"}]

(* all_disconnected_at, as the time since; None while a client is connected. *)
Alone == {None} \cup 0 .. DisconnectGrace
(* completed_at, as the time since.                                          *)
Age   == 0 .. ReplayGrace + 1

Entries == [state   : {"none", "pending", "ok", "failed"},
            stamp   : Nat,
            clients : SUBSET Requests,
            alone   : Alone,
            age     : Age,
            reply   : Answers]

NoAnswer == [status |-> 503, text |-> "none"]
NoEntry  == [state |-> "none", stamp |-> 0, clients |-> {}, alone |-> None,
             age |-> 0, reply |-> NoAnswer]

Init ==
    /\ table  = {}
    /\ entry  = [r \in Requests |-> NoEntry]
    /\ joined = [r \in Requests |-> None]
    /\ pc     = [r \in Requests |-> "idle"]
    /\ online = [r \in Requests |-> TRUE]
    /\ job    = [r \in Requests |-> "none"]
    /\ out    = [r \in Requests |-> "none"]
    /\ slot   = None
    /\ flag   = None
    /\ file   = None
    /\ seen   = [r \in Requests |-> FALSE]
    /\ armed  = [r \in Requests |-> FALSE]
    /\ answer = [r \in Requests |-> NoAnswer]

-----------------------------------------------------------------------------
(* The coalescer's operations.                                             *)

Done(e)    == entry[e].state \in {"ok", "failed"}
Pending(e) == entry[e].state = "pending"

(* Mutant: the purge forgets the age.                                        *)
Replayable_NoAge(T) == {e \in T : Done(e) => entry[e].state = "ok"}

(* _purge_locked, first loop: drop what failed or outlived the replay grace. *)
Replayable(T) ==
    {e \in T : Done(e) => entry[e].state = "ok" /\ entry[e].age <= ReplayGrace}

(* Mutant: the oldest entry goes, finished or not.                           *)
Oldest_AnyEntry(T) ==
    {e \in T : Cardinality({f \in T : entry[f].stamp <= entry[e].stamp})
                   + MaxEntries <= Cardinality(T) + 1}

(* _purge_locked, second loop: while the table is full, drop the oldest      *)
(* completed entry; pending entries stay even above the limit.               *)
Oldest(T) ==
    {e \in T : /\ Done(e)
               /\ Cardinality({f \in T : Done(f)
                                          /\ entry[f].stamp <= entry[e].stamp})
                      + MaxEntries <= Cardinality(T) + 1}

Purged(T) == LET R == Replayable(T) IN R \ Oldest(R)

Created == {r \in Requests : entry[r].state # "none"}

NewEntry(r) == [state |-> "pending", stamp |-> Cardinality(Created),
                clients |-> {r}, alone |-> None, age |-> 0, reply |-> NoAnswer]

(* Mutant: a retry does not stop the grace period of a deserted entry.       *)
Joined_KeepsGrace(e, r) == [entry[e] EXCEPT !.clients = @ \cup {r}]

(* claim, the entry exists: the request becomes one more of its clients.     *)
Joined(e, r) ==
    [entry[e] EXCEPT !.clients = @ \cup {r},
                     !.alone   = IF Done(e) THEN @ ELSE None]

(* disconnect: the grace period starts when the last client has left.        *)
Disconnected(e, r) ==
    LET left == entry[e].clients \ {r}
    IN [entry[e] EXCEPT
            !.clients = left,
            !.alone   = IF ~Done(e) /\ left = {} /\ @ = None THEN 0 ELSE @]

ShouldCancel(x) ==
    x.state = "pending" /\ x.alone # None /\ x.alone >= DisconnectGrace

(* Mutant: a failure is recorded without marking the entry done.             *)
Finished_OnlySuccess(r, a) ==
    [entry[r] EXCEPT !.state = IF a.status = 200 THEN "ok" ELSE @,
                     !.age = 0, !.reply = a]
(* Mutant: done is set, the payload is not.                                  *)
Finished_NoPayload(r, a) ==
    [entry[r] EXCEPT !.state = IF a.status = 200 THEN "ok" ELSE "failed", !.age = 0]

(* complete: the first outcome wins; a failure leaves the table at once.     *)
Finished(r, a) ==
    [entry[r] EXCEPT !.state = IF a.status = 200 THEN "ok" ELSE "failed",
                     !.age = 0, !.reply = a]

Complete(r, a) ==
    /\ entry' = IF Done(r) THEN entry ELSE [entry EXCEPT ![r] = Finished(r, a)]
    /\ table' = IF ~Done(r) /\ a.status # 200 THEN table \ {r} ELSE table
    /\ answer' = [answer EXCEPT ![r] = a]
    /\ pc' = [pc EXCEPT ![r] = "answered"]

-----------------------------------------------------------------------------
(* The request handlers, on the event loop.                                *)

(* A new fingerprint: the request owns a generation.                         *)
ClaimNew(r) ==
    /\ pc[r] = "idle"
    /\ \A e \in Purged(table) : KeyOf[e] # KeyOf[r]
    /\ table'  = Purged(table) \cup {r}
    /\ entry'  = [entry EXCEPT ![r] = NewEntry(r)]
    /\ joined' = [joined EXCEPT ![r] = r]
    /\ pc'     = [pc EXCEPT ![r] = "preparing"]
    /\ UNCHANGED <<online, seen, armed, answer, jobVars, stopVars>>

(* A known fingerprint: the request waits for, or replays, the owner's.      *)
ClaimJoin(r, e) ==
    /\ pc[r] = "idle"
    /\ e \in Purged(table)
    /\ KeyOf[e] = KeyOf[r]
    /\ table'  = Purged(table)
    /\ entry'  = [entry EXCEPT ![e] = Joined(e, r)]
    /\ joined' = [joined EXCEPT ![r] = e]
    /\ pc'     = [pc EXCEPT ![r] = "waiting"]
    /\ UNCHANGED <<online, seen, armed, answer, jobVars, stopVars>>

(* The joiner's loop finds the event set and copies the owner's response.    *)
JoinerReplies(r) ==
    /\ pc[r] = "waiting"
    /\ Done(joined[r])
    /\ answer' = [answer EXCEPT ![r] = entry[joined[r]].reply]
    /\ pc'     = [pc EXCEPT ![r] = "answered"]
    /\ UNCHANGED <<table, entry, joined, online, seen, armed, jobVars, stopVars>>

(* The joiner's loop finds its client gone.                                  *)
JoinerLeaves(r) ==
    /\ pc[r] = "waiting"
    /\ ~Done(joined[r])
    /\ ~online[r]
    /\ entry'  = [entry EXCEPT ![joined[r]] = Disconnected(joined[r], r)]
    /\ answer' = [answer EXCEPT ![r] = [status |-> 499, text |-> "none"]]
    /\ pc'     = [pc EXCEPT ![r] = "answered"]
    /\ UNCHANGED <<table, joined, online, seen, armed, jobVars, stopVars>>

(* The owner renders and tokenizes; a failure or an input above the ceiling  *)
(* answers every client of the entry.                                        *)
PrepareFails(r, status) ==
    /\ pc[r] = "preparing"
    /\ Complete(r, [status |-> status, text |-> "error"])
    /\ UNCHANGED <<joined, online, seen, armed, jobVars, stopVars>>

(* The prompt is ready, acquire_generation_slot returns and the job goes to  *)
(* the worker's queue.                                                       *)
AcquireSlot(r) ==
    /\ pc[r] = "preparing"
    /\ slot = None
    /\ slot' = r
    /\ job'  = [job EXCEPT ![r] = "submitted"]
    /\ pc'   = [pc EXCEPT ![r] = "running"]
    /\ UNCHANGED <<table, entry, joined, online, seen, armed, answer, out,
                   stopVars>>

(* done_event.wait(1.0) timed out: the handler goes round its polling loop,  *)
(* and the job may well finish while it does.                                *)
PollTimesOut(r) ==
    /\ pc[r] = "running"
    /\ job[r] # "done"
    /\ pc' = [pc EXCEPT ![r] = "polling"]
    /\ UNCHANGED <<table, entry, joined, online, seen, armed, answer, jobVars,
                   stopVars>>

(* _request_inflight_stop: the flag is set; the local stop file is written   *)
(* only when the remote one was.                                             *)
Arm(r) ==
    /\ flag' = r
    /\ file' \in {r, file}

(* The body of the polling loop: note the owner's own disconnect once, then  *)
(* stop the generation once every client has been gone for the grace time.   *)
PollBody(r) ==
    LET notes == ~seen[r] /\ ~online[r]
        x     == IF notes THEN Disconnected(r, r) ELSE entry[r]
        stops == (seen[r] \/ notes) /\ ~armed[r] /\ ShouldCancel(x)
    IN  /\ pc[r] = "polling"
        /\ seen'  = [seen EXCEPT ![r] = @ \/ notes]
        /\ entry' = [entry EXCEPT ![r] = x]
        /\ armed' = [armed EXCEPT ![r] = @ \/ stops]
        /\ IF stops THEN Arm(r) ELSE UNCHANGED stopVars
        /\ pc' = [pc EXCEPT ![r] = "running"]
        /\ UNCHANGED <<table, joined, online, answer, jobVars>>

(* _user_stop_requested(req_id)                                              *)
StopRequested(r) == flag = r

(* The job is done: answer with the error, the cancellation or the text, and *)
(* give the same response to the entry's other clients.                      *)
Respond(r) ==
    /\ pc[r] = "running"
    /\ job[r] = "done"
    /\ Complete(r, CASE out[r] = "error" -> [status |-> 500, text |-> "error"]
                     [] out[r] # "error" /\ StopRequested(r)
                          -> [status |-> 499, text |-> "error"]
                     [] OTHER -> [status |-> 200, text |-> out[r]])
    /\ UNCHANGED <<joined, online, seen, armed, jobVars, stopVars>>

-----------------------------------------------------------------------------
(* The generation worker, the stop endpoint, /health and the environment.  *)

(* _job begins: the transaction starts with no stop of an earlier request.   *)
JobStart(r) ==
    /\ slot = r
    /\ job[r] = "submitted"
    /\ job'  = [job EXCEPT ![r] = "generating"]
    /\ flag' = None
    /\ file' = None
    /\ UNCHANGED <<table, entry, clientVars, out, slot>>

(* The generation ends: naturally, with an error, or cut where this rank's   *)
(* stop file says so (a prefill cut also sets the stop flag again).  _job    *)
(* releases the slot and sets done_event.                                    *)
JobEnd(r, t) ==
    /\ job[r] = "generating"
    /\ t = "cut" => file = r
    /\ out'  = [out EXCEPT ![r] = t]
    /\ job'  = [job EXCEPT ![r] = "done"]
    /\ slot' = IF slot = r THEN None ELSE slot
    /\ flag' \in IF t = "cut" THEN {flag, r} ELSE {flag}
    /\ UNCHANGED <<table, entry, clientVars, file>>

(* POST /v1/stop for the active request.                                     *)
StopGeneration(r) ==
    /\ r \in Stoppable
    /\ slot = r
    /\ Arm(r)
    /\ UNCHANGED <<table, entry, clientVars, jobVars>>

(* GET /health: status() purges the table as a claim does.                   *)
HealthStatus ==
    /\ table' = Purged(table)
    /\ UNCHANGED <<entry, clientVars, jobVars, stopVars>>

ClientLeaves(r) ==
    /\ r \in Impatient
    /\ pc[r] \notin {"idle", "answered"}
    /\ online[r]
    /\ online' = [online EXCEPT ![r] = FALSE]
    /\ UNCHANGED <<table, entry, joined, pc, seen, armed, answer, jobVars,
                   stopVars>>

Tick ==
    /\ entry' = [e \in Requests |->
                    [entry[e] EXCEPT
                        !.age   = IF Done(e) /\ @ <= ReplayGrace THEN @ + 1 ELSE @,
                        !.alone = IF @ # None /\ @ < DisconnectGrace
                                  THEN @ + 1 ELSE @]]
    /\ UNCHANGED <<table, clientVars, jobVars, stopVars>>

OwnerStep(r) ==
    \/ AcquireSlot(r) \/ PollTimesOut(r) \/ PollBody(r) \/ Respond(r)
    \/ \E status \in {400, 500} : PrepareFails(r, status)

JoinerStep(r) == JoinerReplies(r) \/ JoinerLeaves(r)

WorkerStep(r) == JobStart(r) \/ \E t \in Outputs : JobEnd(r, t)

Next ==
    \/ \E r \in Requests :
          \/ ClaimNew(r) \/ \E e \in Requests : ClaimJoin(r, e)
          \/ OwnerStep(r) \/ JoinerStep(r) \/ WorkerStep(r)
          \/ StopGeneration(r) \/ ClientLeaves(r)
    \/ HealthStatus
    \/ Tick

(* The event loop runs every ready handler, the worker thread its job, and a *)
(* generation ends (max_tokens bounds it).  Clients, time and the stop       *)
(* endpoint owe nothing.  A handler goes round its polling loop at will; it  *)
(* leaves it once the job is done.                                           *)
Fairness ==
    \A r \in Requests :
        /\ WF_vars(AcquireSlot(r))
        /\ WF_vars(PollBody(r)) /\ WF_vars(Respond(r))
        /\ WF_vars(JoinerReplies(r)) /\ WF_vars(WorkerStep(r))

Spec     == Init /\ [][Next]_vars
FairSpec == Spec /\ Fairness

-----------------------------------------------------------------------------
(* Properties.                                                             *)

TypeOK ==
    /\ table \subseteq Requests
    /\ entry \in [Requests -> Entries]
    /\ joined \in [Requests -> Requests \cup {None}]
    /\ pc \in [Requests -> {"idle", "preparing", "running", "polling",
                            "waiting", "answered"}]
    /\ online \in [Requests -> BOOLEAN]
    /\ job \in [Requests -> {"none", "submitted", "generating", "done"}]
    /\ out \in [Requests -> Outputs \cup {"none"}]
    /\ slot \in Requests \cup {None}
    /\ flag \in Requests \cup {None}
    /\ file \in Requests \cup {None}
    /\ seen \in [Requests -> BOOLEAN]
    /\ armed \in [Requests -> BOOLEAN]
    /\ answer \in [Requests -> Answers]

(* "Share one non-stream generation across exact client retries": whatever   *)
(* purges and evictions other requests and /health caused in between, two    *)
(* requests with one fingerprint never have unfinished generations at once.  *)
OneGenerationPerKey ==
    \A r, q \in Requests :
        Pending(r) /\ Pending(q) /\ KeyOf[r] = KeyOf[q] => r = q

(* A retry that waited, or came back later, is answered with the response    *)
(* its owner's client got, of a request with the same fingerprint, unless    *)
(* its own client went away; it never falls through to the 503.              *)
RetriesGetTheOwnersResponse ==
    \A r \in Requests :
        pc[r] = "answered" /\ joined[r] # r =>
            /\ KeyOf[joined[r]] = KeyOf[r]
            /\ \/ answer[r] = answer[joined[r]] /\ pc[joined[r]] = "answered"
               \/ answer[r].status = 499 /\ ~online[r]

(* A request that joins a finished generation replays a success no older     *)
(* than the replay grace: neither a failure nor an expired response.         *)
ReplaysFreshSuccess ==
    [][\A r \in Requests :
          pc[r] = "idle" /\ pc'[r] = "waiting" /\ Done(joined'[r])
              => /\ entry[joined'[r]].reply.status = 200
                 /\ entry[joined'[r]].age <= ReplayGrace]_vars

(* The orphan guard stops a generation only when nobody waits for it: no     *)
(* request that holds its entry still has an open connection.                *)
CancelOnlyWhenAbandoned ==
    [][\A r \in Requests :
          armed'[r] # armed[r] =>
              \A c \in Requests :
                  joined[c] = r /\ pc[c] # "answered" => ~online[c]]_vars

(* Every request that reached the server is answered, whoever disconnects,   *)
(* stops or shares its generation.                                           *)
EveryRequestAnswered ==
    \A r \in Requests : pc[r] # "idle" ~> pc[r] = "answered"
=============================================================================
