-------------------------------- MODULE Gateway --------------------------------
(***************************************************************************)
(* The model gateway (model_gateway.py): it forwards requests to the M3    *)
(* cluster or to oMLX, of which only one fits into memory, and stops or    *)
(* starts M3 on the way.  One asyncio process: a step runs from one await  *)
(* to the next.  SWITCH_LOCK covers the decision and the switch, not the   *)
(* forwarding; what protects a request that is being forwarded is a time   *)
(* stamp and what M3's /health says.                                       *)
(*                                                                         *)
(* A caller is a record of an id, the route it comes by, its backend and   *)
(* whether the backend knows its model.  Routes: "chat" (openai_proxy),    *)
(* "unnamed" (the same without a model, which defaults to M3), "probe"     *)
(* (passive metadata), "responses", "messages" (Anthropic, always M3), and *)
(* the calls of an operator: "stop-m3", "start-m3", "switch".              *)
(* AUTO_SWITCH is on, starting and unloading are allowed; oMLX is healthy, *)
(* but its list of models and an unload may fail, and so may a look at the *)
(* health of M3: get_json has no answer for a timeout or an error.         *)
(***************************************************************************)
EXTENDS Integers, Sequences

CONSTANTS Callers,
          Leavers,     \* those whose client may disconnect
          AllowStop,   \* M3_GATEWAY_ALLOW_STOP_M3
          M3Grace,     \* STOP_M3_GRACE_S, in ticks
          OmlxGrace,   \* OMLX_GRACE_S
          SeedGrace,   \* what a loaded model is granted after a restart
          MaxFaults,   \* bound on restarts, failed commands and lost answers
          None

GatewayAssumption ==
  /\ {M3Grace, OmlxGrace, SeedGrace, MaxFaults} \subseteq Nat
  /\ SeedGrace <= OmlxGrace
  /\ Leavers \subseteq Callers
  /\ AllowStop \in BOOLEAN
ASSUME GatewayAssumption

\* Anthropic requests go to M3, and the operator's calls are what they say.
CallersAssumption ==
  /\ None \notin Callers /\ None \notin Nat
  /\ \A c \in Callers:
       /\ c.backend \in {"m3", "omlx"}
       /\ c.route \in {"messages", "start-m3"} => c.backend = "m3"
       /\ c.route = "stop-m3" => c.backend = "omlx"
ASSUME CallersAssumption

VARIABLES
  pc,       \* of every caller
  lock,     \* who holds SWITCH_LOCK
  active,   \* STATE["active_backend"]
  stamp,    \* per backend: ticks since its last noted traffic
  left,     \* per caller: ticks until stop_m3_for_omlx stops waiting
  m3,       \* the cluster: "down", "booting", "up", "stopping"
  queue,    \* the requests at M3; the first one is active
  loaded,   \* whether oMLX has a model in memory
  serving,  \* the requests at oMLX
  begun,    \* ticks since a request reached oMLX
  causes,   \* what has happened that may bring the backends together
  faults    \* so far

world == <<m3, queue, loaded, serving, begun>>
vars == <<pc, lock, active, stamp, left, world, causes, faults>>

Requests == {c \in Callers: c.route \notin {"stop-m3", "start-m3", "switch"}}
Backends == {"m3", "omlx"}
Grace(b) == IF b = "m3" THEN M3Grace ELSE OmlxGrace
Ended == {"done", "refused", "failed", "cut", "gone"}

\* "unwatched": a start or stop went on that no holder of the lock waited for;
\* "unseen":    M3 was up and its health did not answer a request for oMLX;
\* "raced":     a start was forced while a request was on its way to oMLX;
\* "kept":      M3 was started although the model was not unloaded;
\* "unlisted":  oMLX did not say, after a restart, that a model is loaded.
Causes == {"unwatched", "unseen", "raced", "kept", "unlisted"}

Init ==
  /\ pc = [c \in Callers |-> "new"]
  /\ lock = None
  /\ active = "unknown"
  /\ stamp = [b \in Backends |-> None]
  /\ left = [c \in Callers |-> 0]
  /\ \/ m3 = "up" /\ loaded = FALSE
     \/ m3 = "down" /\ loaded \in BOOLEAN
  /\ queue = <<>> /\ serving = {}
  /\ begun = OmlxGrace
  /\ causes = {}
  /\ faults = 0

Fault == faults < MaxFaults /\ faults' = faults + 1

\* Nothing fails in this step, and nothing is to be noted.
Exact == UNCHANGED <<causes, faults>>

Noting(cause, that) == IF that THEN causes \cup {cause} ELSE causes

-----------------------------------------------------------------------------
(* The switch.                                                              *)

Forced(c) == c.route \in {"start-m3", "switch"}

\* POST /gateway/stop-m3 and /gateway/start-m3 do not take SWITCH_LOCK.
Lockless(c) == c.route \in {"stop-m3", "start-m3"}

\* proxy_request and the Responses routes note their traffic.
Noted(c) == c \in Requests /\ c.route # "messages"

\* Healthy as /health says: until the stop command has killed it.
Healthy == m3 \in {"up", "stopping"}

\* m3_health when /health does not answer in time or with an error: None, like
\* for a cluster that is down.
Unanswered == Healthy /\ Fault

Recent(b) == stamp[b] # None /\ stamp[b] < Grace(b)

\* Mutant: a switch is not exclusive.
Turn_Open(c) == pc[c] = "turn"

Turn(c) == pc[c] = "turn" /\ (Lockless(c) \/ lock = None)

\* Mutant: a switch that is refused returns inside the lock.
Released_Granted(c, ok) == IF lock = c /\ ok THEN None ELSE lock

Released(c, ok) == IF lock = c THEN None ELSE lock

\* The switch of c ends.  Up to its first await the forwarding is part of it:
\* the traffic is noted before another task runs.
Settle(c, ok) ==
  /\ pc' = [pc EXCEPT ![c] = IF ~ok THEN "refused"
                             ELSE IF c \in Requests THEN "sending" ELSE "done"]
  /\ lock' = Released(c, ok)
  /\ active' = IF Lockless(c) THEN active
               ELSE IF ok THEN c.backend ELSE "unknown"
  /\ stamp' = IF ok /\ Noted(c) THEN [stamp EXCEPT ![c.backend] = 0]
              ELSE stamp
  /\ left' = [left EXCEPT ![c] = 0]

Hold(c, stage) ==
  /\ pc' = [pc EXCEPT ![c] = stage]
  /\ lock' = IF Lockless(c) THEN lock ELSE c
  /\ UNCHANGED <<active, stamp>>

\* Mutant: the traffic of the last seconds is not looked at.
Verdict_Health ==
  IF ~Healthy THEN "down"
  ELSE IF ~AllowStop \/ queue # <<>> THEN "busy"
  ELSE "idle"

\* _m3_busy_reason, for a health that is read and judged in one step.
Verdict ==
  IF ~Healthy THEN "down"
  ELSE IF ~AllowStop \/ queue # <<>> THEN "busy"
  ELSE IF Recent("m3") THEN "recent" ELSE "idle"

\* stop_m3_for_omlx up to the decision: a busy M3 refuses, one with recent
\* traffic is polled until the traffic is old or the deadline has passed.
StopM3ForOmlx(c) ==
  /\ c.backend = "omlx"
  /\ Turn(c) \/ pc[c] = "cool"
  /\ \/ Verdict = "down" /\ Settle(c, TRUE) /\ Exact
     \/ Unanswered /\ Settle(c, TRUE) /\ causes' = causes \cup {"unseen"}
     \/ Verdict = "busy" /\ Settle(c, FALSE) /\ Exact
     \/ /\ Verdict = "idle" /\ Hold(c, "stop")
        /\ left' = [left EXCEPT ![c] = 0] /\ Exact
     \/ /\ Verdict = "recent" /\ pc[c] = "turn"
        /\ Hold(c, "cool")
        /\ left' = [left EXCEPT ![c] = M3Grace + 1] /\ Exact
     \/ /\ Verdict = "recent" /\ pc[c] = "cool" /\ left[c] = 0
        /\ Settle(c, FALSE) /\ Exact
  /\ UNCHANGED world

\* /v1/stop and STOP_COMMAND, on the strength of that decision.
StopM3(c) ==
  /\ pc[c] = "stop"
  /\ m3' = IF m3 = "down" THEN m3 ELSE "stopping"
  /\ causes' = Noting("unwatched", Lockless(c))
  /\ pc' = [pc EXCEPT ![c] = "falling"]
  /\ UNCHANGED <<lock, active, stamp, left, queue, loaded, serving, begun,
                 faults>>

\* wait_for_m3(False): down, or an answer that was lost; the command failed, or
\* 90 seconds are over.
M3Stopped(c) ==
  /\ pc[c] = "falling"
  /\ \/ ~Healthy /\ Settle(c, TRUE) /\ Exact
     \/ /\ Unanswered /\ Settle(c, TRUE)
        /\ causes' = causes \cup
             {IF m3 = "up" THEN "unseen" ELSE "unwatched"}
     \/ m3 = "up" /\ Settle(c, FALSE) /\ Exact
     \/ /\ m3 = "stopping" /\ Fault /\ Settle(c, FALSE)
        /\ causes' = causes \cup {"unwatched"}
  /\ UNCHANGED world

\* Mutant: a gateway that knows of no traffic starts M3.
SeedDue_Never == FALSE

\* _seed_omlx_traffic_if_loaded: nothing is known, but a model is loaded.
SeedDue == stamp["omlx"] = None /\ loaded

\* ensure_backend("m3") and start_m3_for_request up to the decision, if M3 is
\* up and says so.
M3Answers(c) ==
  /\ c.backend = "m3" /\ Turn(c)
  /\ Healthy /\ Settle(c, TRUE) /\ Exact
  /\ UNCHANGED world

\* The same if it seems down: the start is put off for the sake of oMLX.
Deferred(c) ==
  /\ c.backend = "m3" /\ Turn(c) /\ ~Forced(c)
  /\ \/ Recent("omlx") /\ Settle(c, FALSE)
     \/ /\ SeedDue
        /\ pc' = [pc EXCEPT ![c] = "refused"]
        /\ stamp' = [stamp EXCEPT !["omlx"] = OmlxGrace - SeedGrace]
        /\ active' = "unknown"
        /\ UNCHANGED <<lock, left>>
  /\ (~Healthy /\ UNCHANGED faults) \/ Unanswered
  /\ UNCHANGED <<world, causes>>

\* The same if nothing speaks against the start, or nothing is heard of it:
\* without a list of models there is nothing to seed.
StartM3ForRequest(c) ==
  /\ c.backend = "m3" /\ Turn(c)
  /\ Forced(c) \/ ~Recent("omlx")
  /\ \/ /\ Forced(c) \/ ~SeedDue
        /\ (~Healthy /\ UNCHANGED faults) \/ Unanswered
        /\ UNCHANGED causes
     \/ ~Forced(c) /\ SeedDue /\ ~Healthy /\ Fault
        /\ causes' = causes \cup {"unlisted"}
  /\ Hold(c, "start")
  /\ UNCHANGED <<left, world>>

\* unload_omlx_loaded_models, whose result the caller only records: the list of
\* models or the unload may fail.
Unloads(c) ==
  \/ /\ loaded' = FALSE /\ serving' = {}
     /\ pc' = [d \in Callers |-> IF d = c THEN "rising"
                                 ELSE IF d \in serving /\ pc[d] = "served"
                                 THEN "cut" ELSE pc[d]]
     /\ UNCHANGED faults
  \/ /\ loaded /\ Fault
     /\ pc' = [pc EXCEPT ![c] = "rising"]
     /\ UNCHANGED <<loaded, serving>>

ToOmlx == {r \in Requests: r.backend = "omlx" /\ pc[r] = "sending"}

\* Then START_COMMAND, which leaves a cluster alone that runs already.
StartM3(c) ==
  /\ pc[c] = "start"
  /\ Unloads(c)
  /\ m3' = IF m3 = "down" THEN "booting" ELSE m3
  /\ causes' = causes
       \cup {cause \in Causes: cause = "kept" /\ loaded'}
       \cup {cause \in Causes: cause = "unwatched" /\ Lockless(c)}
       \cup {cause \in Causes: cause = "raced" /\ Forced(c) /\ ToOmlx # {}}
  /\ UNCHANGED <<lock, active, stamp, left, queue, begun>>

\* wait_for_m3(True): up, the command failed, or SWITCH_TIMEOUT is over, which
\* it may be without an answer.
M3Started(c) ==
  /\ pc[c] = "rising"
  /\ \/ Healthy /\ Settle(c, TRUE) /\ Exact
     \/ m3 = "down" /\ Settle(c, FALSE) /\ Exact
     \/ /\ m3 # "down" /\ Fault /\ Settle(c, FALSE)
        /\ causes' = Noting("unwatched", m3 = "booting")
  /\ UNCHANGED world

-----------------------------------------------------------------------------
(* The routes.                                                              *)

\* openai_proxy before ensure_backend: a model that oMLX does not know is
\* turned away, and what must not wake M3 is answered here if M3 seems asleep.
\* The other routes look at nothing.
Arrive(c) ==
  /\ pc[c] = "new"
  /\ \/ /\ pc' = [pc EXCEPT ![c] =
               IF \/ c.route = "chat" /\ ~c.known
                  \/ c.route = "unnamed" /\ ~Healthy THEN "refused"
               ELSE IF c.route = "probe" /\ active # c.backend THEN "done"
               ELSE "turn"]
        /\ UNCHANGED faults
     \/ /\ c.route = "unnamed" /\ Unanswered
        /\ pc' = [pc EXCEPT ![c] = "refused"]
  /\ UNCHANGED <<lock, active, stamp, left, world, causes>>

\* The POST to the backend: oMLX loads the model that it is asked for.
Deliver(r) ==
  /\ pc[r] \in {"sending", "retrying"}
  /\ LET at == IF pc[r] = "sending" THEN "served" ELSE "again"
     IN  IF r.backend = "m3"
         THEN /\ pc' = [pc EXCEPT ![r] = IF Healthy THEN at ELSE "failed"]
              /\ queue' = IF Healthy THEN Append(queue, r) ELSE queue
              /\ UNCHANGED <<loaded, serving, begun>>
         ELSE /\ pc' = [pc EXCEPT ![r] = IF r.known THEN at ELSE "failed"]
              /\ loaded' = (loaded \/ r.known)
              /\ serving' = IF r.known THEN serving \cup {r} ELSE serving
              /\ begun' = IF r.known THEN 0 ELSE begun
              /\ UNCHANGED queue
  /\ UNCHANGED <<lock, active, stamp, left, m3, causes, faults>>

\* The backend is done with r.  anthropic_messages may not be content with the
\* answer and posts again, without going through ensure_backend.
Finish(r) ==
  /\ \/ queue # <<>> /\ r = Head(queue)
        /\ queue' = Tail(queue) /\ UNCHANGED serving
     \/ r \in serving /\ serving' = serving \ {r} /\ UNCHANGED queue
  /\ IF pc[r] = "gone" THEN UNCHANGED <<pc, stamp>>
     ELSE /\ \/ pc' = [pc EXCEPT ![r] = "done"]
             \/ /\ pc[r] = "served" /\ r.route = "messages"
                /\ pc' = [pc EXCEPT ![r] = "retrying"]
          /\ stamp' = IF Noted(r) THEN [stamp EXCEPT ![r.backend] = 0]
                      ELSE stamp
  /\ UNCHANGED <<lock, active, left, m3, loaded, begun, causes, faults>>

\* The disconnect watcher posts a bare /v1/stop to the backend, which cuts
\* whatever is active there, and cancels the handler wherever it is; commands
\* that it ran go on.  A streamed chat only closes its connection.
Leave(r) ==
  /\ r \in Leavers /\ pc[r] \notin Ended \cup {"new"}
  /\ r.route \in {"chat", "unnamed", "probe"} => pc[r] = "served"
  /\ \/ /\ pc' = [pc EXCEPT ![r] = "gone"]
        /\ UNCHANGED queue
     \/ /\ r.route \in {"responses", "messages"} /\ r.backend = "m3"
        /\ Healthy /\ queue # <<>>
        /\ pc' = [d \in Callers |->
                    IF d = r THEN "gone"
                    ELSE IF d = Head(queue) /\ pc[d] # "gone" THEN "cut"
                    ELSE pc[d]]
        /\ queue' = Tail(queue)
  /\ lock' = Released(r, TRUE)
  /\ left' = [left EXCEPT ![r] = 0]
  /\ causes' = Noting("unwatched", pc[r] \in {"falling", "rising"})
  /\ UNCHANGED <<active, stamp, m3, loaded, serving, begun, faults>>

-----------------------------------------------------------------------------
(* The rest of the world.                                                   *)

StopEnds ==
  /\ m3 = "stopping"
  /\ \/ /\ m3' = "down" /\ queue' = <<>>
        /\ pc' = [c \in Callers |->
                    IF pc[c] \in {"served", "again"} /\ c.backend = "m3"
                    THEN "cut" ELSE pc[c]]
        /\ UNCHANGED faults
     \/ m3' = "up" /\ Fault /\ UNCHANGED <<pc, queue>>
  /\ UNCHANGED <<lock, active, stamp, left, loaded, serving, begun, causes>>

BootEnds ==
  /\ m3 = "booting"
  /\ \/ m3' = "up" /\ UNCHANGED faults
     \/ m3' = "down" /\ Fault
  /\ UNCHANGED <<pc, lock, active, stamp, left, queue, loaded, serving, begun,
                 causes>>

\* The gateway is restarted: its connections break, STATE is empty, and the
\* backends and the commands that it ran go on.
Restart ==
  /\ Fault
  /\ pc' = [c \in Callers |-> IF pc[c] \in Ended \cup {"new"} THEN pc[c]
                              ELSE "gone"]
  /\ lock' = None
  /\ active' = "unknown"
  /\ stamp' = [b \in Backends |-> None]
  /\ left' = [c \in Callers |-> 0]
  /\ causes' = Noting("unwatched",
                      \E c \in Callers: pc[c] \in {"falling", "rising"})
  /\ UNCHANGED world

Older(age, cap) == IF age < cap THEN age + 1 ELSE cap

\* A POST on the local network arrives within a tick.
Tick ==
  /\ \A r \in Requests: pc[r] \notin {"sending", "retrying"}
  /\ \/ begun < OmlxGrace
     \/ \E b \in Backends: Recent(b)
     \/ \E c \in Callers: left[c] > 0
  /\ stamp' = [b \in Backends |-> IF stamp[b] = None THEN None
                                  ELSE Older(stamp[b], Grace(b))]
  /\ begun' = Older(begun, OmlxGrace)
  /\ left' = [c \in Callers |-> IF left[c] > 0 THEN left[c] - 1 ELSE 0]
  /\ UNCHANGED <<pc, lock, active, m3, queue, loaded, serving, causes, faults>>

Switching(c) ==
  \/ StopM3ForOmlx(c) \/ StopM3(c) \/ M3Stopped(c)
  \/ M3Answers(c) \/ Deferred(c) \/ StartM3ForRequest(c)
  \/ StartM3(c) \/ M3Started(c)

\* What the gateway, the backends and the clock do of themselves.
Run ==
  \/ \E c \in Callers: Switching(c)
  \/ \E r \in Requests: Deliver(r) \/ Finish(r)
  \/ StopEnds \/ BootEnds \/ Tick

Next ==
  \/ Run
  \/ \E c \in Callers: Arrive(c)
  \/ \E r \in Requests: Leave(r)
  \/ Restart

Spec == Init /\ [][Next]_vars

\* The event loop and the backends do not stand still while something can run.
\* A task can run only finitely often, so no fairness among them is needed;
\* nobody has to come, leave or fail.
Fairness == WF_vars(Run)

FairSpec == Spec /\ Fairness

-----------------------------------------------------------------------------
TypeOK ==
  /\ pc \in [Callers -> Ended \cup
              {"new", "turn", "cool", "stop", "falling", "start", "rising",
               "sending", "served", "retrying", "again"}]
  /\ lock \in Callers \cup {None}
  /\ active \in Backends \cup {"unknown"}
  /\ stamp \in [Backends -> {None} \cup 0 .. (M3Grace + OmlxGrace)]
  /\ left \in [Callers -> 0 .. M3Grace + 1]
  /\ m3 \in {"down", "booting", "up", "stopping"}
  /\ queue \in Seq(Requests) /\ serving \subseteq Requests
  /\ loaded \in BOOLEAN /\ causes \subseteq Causes
  /\ begun \in 0 .. OmlxGrace /\ faults \in 0 .. MaxFaults

\* "Never while M3 is busy or recently active": when a switch takes M3 down, no
\* request whose traffic is noted is on its way to M3 or being answered there.
\* Stops that no holder of the lock waits for are exempt, and only these.
SwitchSparesM3 ==
  m3 = "stopping" /\ "unwatched" \notin causes =>
    \A r \in Requests: Noted(r) /\ r.backend = "m3" =>
                         pc[r] \notin {"sending", "served"}

\* There are four ways, and no other, in which M3 boots or runs beside a model
\* that oMLX has loaded: a command that nobody waits for under the lock, a
\* health that does not answer, a start forced under a request on its way to
\* oMLX, and an unload that failed. (With the type invariant.)
OneBackend ==
  /\ TypeOK
  /\ m3 # "down" /\ loaded =>
       causes \cap {"unwatched", "unseen", "raced", "kept"} # {}

\* A start that nobody forced does not unload a model to which a request came
\* less than the grace ago that is kept even across a restart, unless oMLX did
\* not answer when it was asked for its models.
ModelIsKept ==
  [][\A c \in Callers: pc[c] = "start" /\ pc'[c] = "rising" /\ ~Forced(c)
                         /\ loaded /\ "unlisted" \notin causes
       => begun >= SeedGrace]_vars

\* Whatever is switched and whoever fails, every request that has come is
\* answered: again and again there is none left.
EveryRequestEnds == []<>(\A c \in Callers: pc[c] \in Ended \cup {"new"})
=============================================================================
