----------------------------- MODULE GatewayProofs -----------------------------
(***************************************************************************)
(* Theorems about Gateway: the three safety properties that its run checks *)
(* hold for any callers, any number of faults and any graces.              *)
(***************************************************************************)
EXTENDS Gateway, SequenceTheorems, TLAPS

Stages == {"new", "turn", "cool", "stop", "falling", "start", "rising",
           "sending", "served", "retrying", "again"}

\* Between the decision to stop or start M3 and the end of the command.
Switches == {"cool", "stop", "falling", "start", "rising"}

\* Who switches under the lock holds it.
Turns == \A c \in Callers: pc[c] \in Switches /\ ~Lockless(c) => lock = c

\* Each stage belongs to one side, and only Anthropic requests are repeated.
Sides ==
  \A c \in Callers:
    /\ pc[c] \in {"cool", "stop", "falling"} => c.backend = "omlx"
    /\ pc[c] \in {"start", "rising"} => c.backend = "m3"
    /\ pc[c] \in {"retrying", "again"} => c.route = "messages"

\* Traffic that is noted is new as long as its request is on its way.
Fresh ==
  \A r \in Requests: pc[r] = "sending" /\ Noted(r) => stamp[r.backend] = 0

\* No request is on its way to oMLX.
NoneToOmlx == \A r \in Requests: r.backend = "omlx" => pc[r] # "sending"

\* The decision to start M3 still stands when it is carried out.
StartStands == \A c \in Callers: pc[c] = "start" /\ ~Forced(c) => NoneToOmlx

\* Nothing has happened that may bring the backends together.
Regular == causes \cap {"unwatched", "unseen", "raced", "kept"} = {}

\* Until then they are apart, and no request is about to bring them together.
Apart == Regular => (m3 # "down" => ~loaded /\ NoneToOmlx)

\* A command that is under way has its caller waiting for it under the lock.
Watched ==
  "unwatched" \notin causes =>
    /\ m3 = "booting" => \E c \in Callers: lock = c /\ pc[c] = "rising"
    /\ m3 = "stopping" => \E c \in Callers: lock = c /\ pc[c] = "falling"

\* A request that M3 serves is in its queue.
InQueue ==
  \A r \in Requests: r.backend = "m3" /\ pc[r] \in {"served", "again"} =>
                       \E i \in DOMAIN queue: queue[i] = r

\* The queue of M3 holds requests that were sent and are not sent again, each
\* of them once; oMLX serves its own.
Queued ==
  /\ \A i \in DOMAIN queue: pc[queue[i]] \in Ended \cup {"served", "again"}
  /\ \A i, j \in DOMAIN queue: queue[i] = queue[j] => i = j
  /\ \A r \in serving: r.backend = "omlx"

\* So are the requests that oMLX serves.
Serving == \A r \in serving: pc[r] \in Ended \cup {"served"}

\* No noted request is on its way to M3 or being answered there.
Calm ==
  \A r \in Requests: Noted(r) /\ r.backend = "m3" =>
                       pc[r] \notin {"sending", "served"}

\* The decision to stop M3 still stands when it is carried out.
StopStands ==
  /\ \A c \in Callers: pc[c] = "stop" /\ ~Lockless(c) => Calm
  /\ m3 = "stopping" /\ "unwatched" \notin causes => Calm

\* The stamp of oMLX says at least how long ago a request reached it, except
\* for the grace that a restart may have added.
StampBounds ==
  stamp["omlx"] # None => stamp["omlx"] <= begun + (OmlxGrace - SeedGrace)

\* A model that a start will unload has been left alone for the kept grace.
KeepStands ==
  \A c \in Callers:
    pc[c] = "start" /\ ~Forced(c) /\ loaded /\ "unlisted" \notin causes
      => begun >= SeedGrace

-----------------------------------------------------------------------------
(* The types.                                                               *)

\* TypeOK without the flags.
Typed ==
  /\ pc \in [Callers -> Ended \cup Stages]
  /\ lock \in Callers \cup {None}
  /\ active \in Backends \cup {"unknown"}
  /\ stamp \in [Backends -> {None} \cup 0 .. (M3Grace + OmlxGrace)]
  /\ left \in [Callers -> 0 .. M3Grace + 1]
  /\ m3 \in {"down", "booting", "up", "stopping"}
  /\ queue \in Seq(Requests) /\ serving \subseteq Requests
  /\ begun \in 0 .. OmlxGrace /\ faults \in 0 .. MaxFaults

Flags == loaded \in BOOLEAN /\ causes \subseteq Causes

LEMMA TypeParts == TypeOK <=> Typed /\ Flags
BY DEF TypeOK, Typed, Flags, Stages, Ended

\* Of what the end of a switch changes.
SwitchTyped ==
  /\ pc' \in [Callers -> Ended \cup Stages]
  /\ lock' \in Callers \cup {None}
  /\ active' \in Backends \cup {"unknown"}
  /\ stamp' \in [Backends -> {None} \cup 0 .. (M3Grace + OmlxGrace)]
  /\ left' \in [Callers -> 0 .. M3Grace + 1]

LEMMA SettleTypes ==
  ASSUME Typed, NEW c \in Callers, NEW ok \in BOOLEAN, Settle(c, ok)
  PROVE  SwitchTyped
<1> USE GatewayAssumption, CallersAssumption
    DEF GatewayAssumption, CallersAssumption
<1>1. pc' \in [Callers -> Ended \cup Stages]
  BY DEF Settle, Typed, Ended, Stages
<1>2. lock' \in Callers \cup {None}
  BY DEF Settle, Released, Typed
<1>3. active' \in Backends \cup {"unknown"}
  BY DEF Settle, Typed, Backends
<1>4. stamp' \in [Backends -> {None} \cup 0 .. (M3Grace + OmlxGrace)]
  BY DEF Settle, Typed, Backends
<1>5. left' \in [Callers -> 0 .. M3Grace + 1]
  BY DEF Settle, Typed
<1> QED BY <1>1, <1>2, <1>3, <1>4, <1>5 DEF SwitchTyped

LEMMA HoldTypes ==
  ASSUME Typed, NEW c \in Callers, NEW stage \in Stages, Hold(c, stage),
         left' \in [Callers -> 0 .. M3Grace + 1]
  PROVE  SwitchTyped
BY DEF Hold, Typed, SwitchTyped

LEMMA QueueTypes ==
  ASSUME Typed
  PROVE  /\ \A r \in Requests: Append(queue, r) \in Seq(Requests)
         /\ queue # <<>> => Tail(queue) \in Seq(Requests)
         /\ <<>> \in Seq(Requests)
BY AppendProperties, HeadTailProperties DEF Typed

LEMMA TypedStep == ASSUME Typed, [Next]_vars PROVE Typed'
<1> USE GatewayAssumption, CallersAssumption
    DEF GatewayAssumption, CallersAssumption
<1>1. CASE UNCHANGED vars
  BY <1>1 DEF vars, world, Typed
<1>2. ASSUME NEW c \in Callers, StopM3ForOmlx(c) PROVE Typed'
  <2>1. SwitchTyped
    <3>1. CASE Settle(c, TRUE) \/ Settle(c, FALSE)
      BY <3>1, SettleTypes
    <3>2. CASE Hold(c, "stop") /\ left' = [left EXCEPT ![c] = 0]
      BY <3>2, HoldTypes DEF Typed, Stages
    <3>3. CASE Hold(c, "cool") /\ left' = [left EXCEPT ![c] = M3Grace + 1]
      BY <3>3, HoldTypes DEF Typed, Stages
    <3> QED BY <1>2, <3>1, <3>2, <3>3 DEF StopM3ForOmlx
  <2>2. faults' = faults \/ Fault
    BY <1>2 DEF StopM3ForOmlx, Exact, Unanswered
  <2>3. faults' \in 0 .. MaxFaults
    BY <2>2 DEF Fault, Typed
  <2> QED BY <1>2, <2>1, <2>3 DEF StopM3ForOmlx, SwitchTyped, world, Typed
<1>3. ASSUME NEW c \in Callers, StopM3(c) PROVE Typed'
  BY <1>3 DEF StopM3, Typed, Stages
<1>4. ASSUME NEW c \in Callers, M3Stopped(c) PROVE Typed'
  <2>1. SwitchTyped
    BY <1>4, SettleTypes DEF M3Stopped
  <2>2. faults' = faults \/ Fault
    BY <1>4 DEF M3Stopped, Exact, Unanswered
  <2>3. faults' \in 0 .. MaxFaults
    BY <2>2 DEF Fault, Typed
  <2> QED BY <1>4, <2>1, <2>3 DEF M3Stopped, SwitchTyped, world, Typed
<1>5. ASSUME NEW c \in Callers,
             M3Answers(c) \/ Deferred(c) \/ StartM3ForRequest(c)
      PROVE  Typed'
  <2>1. SwitchTyped
    <3>1. CASE Settle(c, TRUE) \/ Settle(c, FALSE)
      BY <3>1, SettleTypes
    <3>2. CASE /\ pc' = [pc EXCEPT ![c] = "refused"]
               /\ stamp' = [stamp EXCEPT !["omlx"] = OmlxGrace - SeedGrace]
               /\ active' = "unknown"
               /\ UNCHANGED <<lock, left>>
      BY <3>2 DEF Typed, SwitchTyped, Ended, Backends
    <3>3. CASE Hold(c, "start") /\ UNCHANGED left
      BY <3>3, HoldTypes DEF Typed, Stages
    <3> QED
      BY <1>5, <3>1, <3>2, <3>3 DEF M3Answers, Deferred, StartM3ForRequest
  <2>2. faults' = faults \/ Fault
    BY <1>5 DEF M3Answers, Deferred, StartM3ForRequest, Exact, Unanswered
  <2>3. faults' \in 0 .. MaxFaults
    BY <2>2 DEF Fault, Typed
  <2> QED
    BY <1>5, <2>1, <2>3
    DEF M3Answers, Deferred, StartM3ForRequest, SwitchTyped, world, Typed
<1>6. ASSUME NEW c \in Callers, StartM3(c) PROVE Typed'
  <2>1. pc' \in [Callers -> Ended \cup Stages]
    BY <1>6 DEF StartM3, Unloads, Typed, Ended, Stages
  <2>2. serving' \subseteq Requests /\ faults' \in 0 .. MaxFaults
    BY <1>6 DEF StartM3, Unloads, Fault, Typed
  <2> QED BY <1>6, <2>1, <2>2 DEF StartM3, Typed
<1>7. ASSUME NEW c \in Callers, M3Started(c) PROVE Typed'
  <2>1. SwitchTyped
    BY <1>7, SettleTypes DEF M3Started
  <2>2. faults' = faults \/ Fault
    BY <1>7 DEF M3Started, Exact
  <2>3. faults' \in 0 .. MaxFaults
    BY <2>2 DEF Fault, Typed
  <2> QED BY <1>7, <2>1, <2>3 DEF M3Started, SwitchTyped, world, Typed
<1>8. ASSUME NEW c \in Callers, Arrive(c) PROVE Typed'
  <2>1. faults' = faults \/ Fault
    BY <1>8 DEF Arrive, Unanswered
  <2>2. faults' \in 0 .. MaxFaults
    BY <2>1 DEF Fault, Typed
  <2> QED BY <1>8, <2>2 DEF Arrive, world, Typed, Ended, Stages
<1>9. ASSUME NEW r \in Requests, Deliver(r) PROVE Typed'
  <2>1. pc' \in [Callers -> Ended \cup Stages]
    BY <1>9 DEF Deliver, Typed, Ended, Stages, Requests
  <2>2. queue' \in Seq(Requests)
    BY <1>9, QueueTypes DEF Deliver, Typed
  <2>3. serving' \subseteq Requests /\ begun' \in 0 .. OmlxGrace
    BY <1>9 DEF Deliver, Typed
  <2> QED BY <1>9, <2>1, <2>2, <2>3 DEF Deliver, Typed
<1>10. ASSUME NEW r \in Requests, Finish(r) PROVE Typed'
  <2>1. pc' \in [Callers -> Ended \cup Stages]
    BY <1>10 DEF Finish, Typed, Ended, Stages, Requests
  <2>2. queue' \in Seq(Requests) /\ serving' \subseteq Requests
    BY <1>10, QueueTypes DEF Finish, Typed
  <2>3. stamp' \in [Backends -> {None} \cup 0 .. (M3Grace + OmlxGrace)]
    <3>1. 0 \in 0 .. (M3Grace + OmlxGrace)
      OBVIOUS
    <3>2. stamp' = stamp \/ stamp' = [stamp EXCEPT ![r.backend] = 0]
      BY <1>10 DEF Finish
    <3> QED BY <3>1, <3>2 DEF Typed
  <2> QED BY <1>10, <2>1, <2>2, <2>3 DEF Finish, Typed
<1>11. ASSUME NEW r \in Requests, Leave(r) PROVE Typed'
  <2>1. pc' \in [Callers -> Ended \cup Stages]
    BY <1>11 DEF Leave, Typed, Ended, Stages, Requests
  <2>2. queue' \in Seq(Requests)
    BY <1>11, QueueTypes DEF Leave, Typed
  <2>3. lock' \in Callers \cup {None}
    BY <1>11 DEF Leave, Released, Typed
  <2>4. left' \in [Callers -> 0 .. M3Grace + 1]
    BY <1>11 DEF Leave, Typed
  <2> QED BY <1>11, <2>1, <2>2, <2>3, <2>4 DEF Leave, Typed
<1>12. CASE StopEnds
  <2>1. pc' \in [Callers -> Ended \cup Stages]
    BY <1>12 DEF StopEnds, Typed, Ended, Stages
  <2>2. queue' \in Seq(Requests) /\ m3' \in {"down", "up"}
    BY <1>12, QueueTypes DEF StopEnds, Typed
  <2>3. faults' \in 0 .. MaxFaults
    BY <1>12 DEF StopEnds, Fault, Typed
  <2> QED BY <1>12, <2>1, <2>2, <2>3 DEF StopEnds, Typed
<1>13. CASE BootEnds
  BY <1>13 DEF BootEnds, Fault, Typed
<1>14. CASE Restart
  <2>1. pc' \in [Callers -> Ended \cup Stages]
    BY <1>14 DEF Restart, Typed, Ended, Stages
  <2>2. stamp' \in [Backends -> {None} \cup 0 .. (M3Grace + OmlxGrace)]
    BY <1>14 DEF Restart
  <2>3. left' \in [Callers -> 0 .. M3Grace + 1]
    BY <1>14 DEF Restart
  <2> QED BY <1>14, <2>1, <2>2, <2>3 DEF Restart, Fault, world, Typed
<1>15. CASE Tick
  <2>1. stamp' \in [Backends -> {None} \cup 0 .. (M3Grace + OmlxGrace)]
    <3>1. \A age \in 0 .. (M3Grace + OmlxGrace), b \in Backends:
            Older(age, Grace(b)) \in 0 .. (M3Grace + OmlxGrace)
      BY DEF Older, Grace, Backends
    <3>2. \A b \in Backends:
            stamp[b] = None \/ stamp[b] \in 0 .. (M3Grace + OmlxGrace)
      BY DEF Typed
    <3> QED BY <1>15, <3>1, <3>2 DEF Tick
  <2>2. left' \in [Callers -> 0 .. M3Grace + 1]
    BY <1>15 DEF Tick, Typed
  <2>3. begun' \in 0 .. OmlxGrace
    BY <1>15 DEF Tick, Older, Typed
  <2> QED BY <1>15, <2>1, <2>2, <2>3 DEF Tick, Typed
<1> QED
  BY <1>1, <1>2, <1>3, <1>4, <1>5, <1>6, <1>7, <1>8, <1>9, <1>10, <1>11, <1>12,
     <1>13, <1>14, <1>15
  DEF Next, Run, Switching

LEMMA FlagsStep == ASSUME Flags, [Next]_vars PROVE Flags'
<1>1. loaded' \in BOOLEAN
  BY DEF Flags, Next, Run, Switching, StopM3ForOmlx, StopM3, M3Stopped,
         M3Answers, Deferred, StartM3ForRequest, StartM3, Unloads, M3Started,
         Arrive, Deliver, Finish, Leave, StopEnds, BootEnds, Restart, Tick,
         world, vars
<1>2. causes' \subseteq causes \cup Causes
  BY DEF Next, Run, Switching, StopM3ForOmlx, StopM3, M3Stopped, M3Answers,
         Deferred, StartM3ForRequest, StartM3, M3Started, Arrive, Deliver,
         Finish, Leave, StopEnds, BootEnds, Restart, Tick, Exact, Noting,
         Causes, vars
<1> QED BY <1>1, <1>2 DEF Flags

\* What has happened is not forgotten.
LEMMA CausesStay == ASSUME [Next]_vars PROVE causes \subseteq causes'
BY DEF Next, Run, Switching, StopM3ForOmlx, StopM3, M3Stopped, M3Answers,
       Deferred, StartM3ForRequest, StartM3, M3Started, Arrive, Deliver,
       Finish, Leave, StopEnds, BootEnds, Restart, Tick, Exact, Noting, vars

-----------------------------------------------------------------------------
(* The lock and the stages.                                                 *)

LEMMA TurnsStep ==
  ASSUME Typed, Turns, Sides, [Next]_vars
  PROVE  Turns' /\ Sides'
<1> USE CallersAssumption DEF CallersAssumption
<1> USE DEF Typed, Turns, Sides, Switches
<1>1. CASE UNCHANGED vars
  BY <1>1 DEF vars, Lockless
<1>2. ASSUME NEW c \in Callers, StopM3ForOmlx(c) PROVE Turns' /\ Sides'
  <2>1. lock = None \/ lock = c \/ Lockless(c)
    BY <1>2 DEF StopM3ForOmlx, Turn
  <2>2. ASSUME NEW ok \in BOOLEAN, Settle(c, ok) PROVE Turns' /\ Sides'
    BY <2>1, <2>2 DEF Settle, Released, Lockless
  <2>3. CASE Hold(c, "stop") \/ Hold(c, "cool")
    BY <1>2, <2>1, <2>3 DEF StopM3ForOmlx, Hold, Lockless
  <2> QED BY <1>2, <2>2, <2>3 DEF StopM3ForOmlx
<1>3. ASSUME NEW c \in Callers, StopM3(c) PROVE Turns' /\ Sides'
  BY <1>3 DEF StopM3, Lockless
<1>4. ASSUME NEW c \in Callers, M3Stopped(c) \/ M3Started(c)
      PROVE  Turns' /\ Sides'
  <2>1. PICK ok \in BOOLEAN: Settle(c, ok)
    BY <1>4 DEF M3Stopped, M3Started
  <2> QED BY <2>1 DEF Settle, Released, Lockless
<1>5. ASSUME NEW c \in Callers,
             M3Answers(c) \/ Deferred(c) \/ StartM3ForRequest(c)
      PROVE  Turns' /\ Sides'
  <2>1. lock = None \/ Lockless(c)
    BY <1>5 DEF M3Answers, Deferred, StartM3ForRequest, Turn
  <2>2. ASSUME NEW ok \in BOOLEAN, Settle(c, ok) PROVE Turns' /\ Sides'
    BY <2>1, <2>2 DEF Settle, Released, Lockless
  <2>3. CASE StartM3ForRequest(c)
    BY <2>1, <2>3 DEF StartM3ForRequest, Hold, Lockless
  <2>4. CASE pc' = [pc EXCEPT ![c] = "refused"] /\ UNCHANGED lock
    BY <2>4 DEF Lockless
  <2> QED BY <1>5, <2>2, <2>3, <2>4 DEF M3Answers, Deferred
<1>6. ASSUME NEW c \in Callers, StartM3(c) PROVE Turns' /\ Sides'
  BY <1>6 DEF StartM3, Unloads, Lockless
<1>7. ASSUME NEW c \in Callers, Arrive(c) PROVE Turns' /\ Sides'
  BY <1>7 DEF Arrive, Lockless
<1>8. ASSUME NEW r \in Requests, Deliver(r) PROVE Turns' /\ Sides'
  BY <1>8 DEF Deliver, Lockless, Requests
<1>9. ASSUME NEW r \in Requests, Finish(r) PROVE Turns' /\ Sides'
  BY <1>9 DEF Finish, Lockless, Requests
<1>10. ASSUME NEW r \in Requests, Leave(r) PROVE Turns' /\ Sides'
  <2>1. \A d \in Callers: pc'[d] \in {pc[d], "gone", "cut"}
    BY <1>10 DEF Leave, Requests
  <2>2. lock' = (IF lock = r THEN None ELSE lock) /\ pc'[r] = "gone"
    BY <1>10 DEF Leave, Released, Requests
  <2> QED BY <2>1, <2>2 DEF Lockless, Requests
<1>11. CASE StopEnds
  BY <1>11 DEF StopEnds, Lockless
<1>12. CASE Restart
  BY <1>12 DEF Restart, Lockless, Ended
<1>13. CASE BootEnds \/ Tick
  BY <1>13 DEF BootEnds, Tick, Lockless
<1> QED
  BY <1>1, <1>2, <1>3, <1>4, <1>5, <1>6, <1>7, <1>8, <1>9, <1>10, <1>11, <1>12,
     <1>13
  DEF Next, Run, Switching

-----------------------------------------------------------------------------
(* Where requests come from: what a step may begin.                         *)

\* A request is sent at the end of its own switch, and the lock was its own
\* or nobody's.
LEMMA NewSender ==
  ASSUME Typed, Turns, Sides, [Next]_vars, NEW r \in Requests,
         pc'[r] = "sending", pc[r] # "sending"
  PROVE  /\ Settle(r, TRUE)
         /\ lock = None \/ lock = r
         /\ Switching(r)
<1> USE CallersAssumption DEF CallersAssumption, Typed
<1>1. r \in Callers /\ ~Lockless(r)
  BY DEF Requests, Lockless
<1>2. ASSUME NEW c \in Callers, NEW ok \in BOOLEAN, Settle(c, ok)
      PROVE  c = r /\ ok
  BY <1>1, <1>2 DEF Settle, Ended
<1>3. ASSUME NEW c \in Callers, NEW stage \in Switches, Hold(c, stage)
      PROVE  FALSE
  BY <1>1, <1>3 DEF Hold, Switches
<1>4. ASSUME NEW c \in Callers, StopM3ForOmlx(c)
      PROVE  c = r /\ Settle(c, TRUE)
  BY <1>2, <1>3, <1>4 DEF StopM3ForOmlx, Switches
<1>5. ASSUME NEW c \in Callers, M3Stopped(c) \/ M3Started(c)
      PROVE  c = r /\ Settle(c, TRUE)
  BY <1>2, <1>5 DEF M3Stopped, M3Started
<1>6. ASSUME NEW c \in Callers,
             M3Answers(c) \/ Deferred(c) \/ StartM3ForRequest(c)
      PROVE  c = r /\ Settle(c, TRUE)
  <2>1. ~(pc' = [pc EXCEPT ![c] = "refused"])
    BY <1>1
  <2> QED
    BY <1>2, <1>3, <1>6, <2>1
    DEF M3Answers, Deferred, StartM3ForRequest, Switches
<1>7. ~\E c \in Callers: StopM3(c) \/ StartM3(c) \/ Arrive(c)
  BY <1>1 DEF StopM3, StartM3, Unloads, Arrive
<1>8. ~\E q \in Requests: Deliver(q) \/ Finish(q)
  BY <1>1 DEF Deliver, Finish, Requests
<1>9. ASSUME NEW q \in Requests, Leave(q)
      PROVE  FALSE
  <2> DEFINE Cut == [d \in Callers |->
                      IF d = q THEN "gone"
                      ELSE IF d = Head(queue) /\ pc[d] # "gone" THEN "cut"
                      ELSE pc[d]]
  <2>1. pc' = [pc EXCEPT ![q] = "gone"] \/ pc' = Cut
    BY <1>9 DEF Leave
  <2>2. pc' # [pc EXCEPT ![q] = "gone"]
    BY <1>1
  <2>3. Cut[r] # "sending"
    BY <1>1
  <2> QED
    BY <2>1, <2>2, <2>3
<1>10. ~(StopEnds \/ BootEnds \/ Tick \/ Restart \/ UNCHANGED vars)
  BY <1>1 DEF StopEnds, BootEnds, Tick, Restart, vars, Ended
<1>11. Switching(r) /\ Settle(r, TRUE)
  BY <1>4, <1>5, <1>6, <1>7, <1>8, <1>9, <1>10 DEF Next, Run, Switching
<1>12. lock = None \/ lock = r
  <2>1. pc[r] \in Switches \/ Turn(r)
    BY <1>1, <1>7, <1>11
    DEF Switching, StopM3ForOmlx, M3Stopped, M3Answers, Deferred,
        StartM3ForRequest, M3Started, StopM3, StartM3, Switches
  <2> QED BY <1>1, <2>1 DEF Turn, Turns
<1> QED BY <1>11, <1>12

\* A request is served once it was sent.
LEMMA NewServed ==
  ASSUME Typed, [Next]_vars, NEW r \in Requests,
         pc'[r] = "served", pc[r] # "served"
  PROVE  pc[r] = "sending" /\ Deliver(r)
<1> USE DEF Typed
<1>1. r \in Callers
  BY DEF Requests
<1>2. ASSUME NEW c \in Callers, Switching(c) \/ Arrive(c)
      PROVE  FALSE
  BY <1>1, <1>2
  DEF Switching, StopM3ForOmlx, StopM3, M3Stopped, M3Answers, Deferred,
      StartM3ForRequest, StartM3, Unloads, M3Started, Settle, Hold, Arrive,
      Ended
<1>3. ASSUME NEW q \in Requests, Deliver(q) PROVE pc[r] = "sending" /\ q = r
  BY <1>1, <1>3 DEF Deliver, Requests
<1>4. ASSUME NEW q \in Requests, Finish(q) PROVE FALSE
  BY <1>1, <1>4 DEF Finish, Requests
<1>5. ASSUME NEW q \in Requests, Leave(q) PROVE FALSE
  BY <1>1, <1>5 DEF Leave, Requests
<1>6. ~(StopEnds \/ BootEnds \/ Tick \/ Restart \/ UNCHANGED vars)
  BY <1>1 DEF StopEnds, BootEnds, Tick, Restart, vars, Ended
<1> QED BY <1>2, <1>3, <1>4, <1>5, <1>6 DEF Next, Run

\* A start is decided on by somebody whose turn it is.
LEMMA NewStart ==
  ASSUME Typed, [Next]_vars, NEW c \in Callers, pc'[c] = "start",
         pc[c] # "start"
  PROVE  StartM3ForRequest(c) /\ Hold(c, "start")
<1> USE DEF Typed
<1>1. ASSUME NEW d \in Callers, StopM3ForOmlx(d) \/ StopM3(d) \/ M3Stopped(d)
                \/ M3Answers(d) \/ Deferred(d) \/ StartM3(d) \/ M3Started(d)
                \/ Arrive(d)
      PROVE  FALSE
  BY <1>1
  DEF StopM3ForOmlx, StopM3, M3Stopped, M3Answers, Deferred, StartM3, Unloads,
      M3Started, Settle, Hold, Arrive, Ended
<1>2. ASSUME NEW d \in Callers, StartM3ForRequest(d)
      PROVE  d = c /\ Hold(c, "start")
  BY <1>2 DEF StartM3ForRequest, Hold
<1>3. ASSUME NEW q \in Requests, Deliver(q) \/ Finish(q) PROVE FALSE
  BY <1>3 DEF Deliver, Finish, Requests
<1>4. ASSUME NEW q \in Requests, Leave(q) PROVE FALSE
  BY <1>4 DEF Leave, Requests
<1>5. ~(StopEnds \/ BootEnds \/ Tick \/ Restart \/ UNCHANGED vars)
  BY DEF StopEnds, BootEnds, Tick, Restart, vars, Ended
<1> QED BY <1>1, <1>2, <1>3, <1>4, <1>5 DEF Next, Run, Switching

\* So is a stop, and M3 seemed idle.
LEMMA NewStop ==
  ASSUME Typed, [Next]_vars, NEW c \in Callers, pc'[c] = "stop",
         pc[c] # "stop"
  PROVE  StopM3ForOmlx(c) /\ Hold(c, "stop") /\ Verdict = "idle"
<1> USE DEF Typed
<1>1. ASSUME NEW d \in Callers, StopM3(d) \/ M3Stopped(d) \/ M3Answers(d)
                \/ Deferred(d) \/ StartM3ForRequest(d) \/ StartM3(d)
                \/ M3Started(d) \/ Arrive(d)
      PROVE  FALSE
  BY <1>1
  DEF StopM3, M3Stopped, M3Answers, Deferred, StartM3ForRequest, StartM3,
      Unloads, M3Started, Settle, Hold, Arrive, Ended
<1>2. ASSUME NEW d \in Callers, StopM3ForOmlx(d)
      PROVE  d = c /\ Hold(c, "stop") /\ Verdict = "idle"
  BY <1>2 DEF StopM3ForOmlx, Settle, Hold, Ended
<1>3. ASSUME NEW q \in Requests, Deliver(q) \/ Finish(q) PROVE FALSE
  BY <1>3 DEF Deliver, Finish, Requests
<1>4. ASSUME NEW q \in Requests, Leave(q) PROVE FALSE
  BY <1>4 DEF Leave, Requests
<1>5. ~(StopEnds \/ BootEnds \/ Tick \/ Restart \/ UNCHANGED vars)
  BY DEF StopEnds, BootEnds, Tick, Restart, vars, Ended
<1> QED BY <1>1, <1>2, <1>3, <1>4, <1>5 DEF Next, Run, Switching

-----------------------------------------------------------------------------
(* The traffic and the queue.                                               *)

LEMMA FreshStep ==
  ASSUME Typed, Turns, Sides, Fresh, [Next]_vars
  PROVE  Fresh'
<1> USE CallersAssumption DEF CallersAssumption
<1> SUFFICES ASSUME NEW r \in Requests, pc'[r] = "sending", Noted(r)
             PROVE  stamp'[r.backend] = 0
  BY DEF Fresh, Noted
<1>1. r \in Callers /\ r.backend \in Backends
  BY DEF Requests, Backends
<1>2. CASE pc[r] # "sending"
  <2>1. Settle(r, TRUE)
    BY <1>2, NewSender
  <2> QED BY <1>1, <2>1 DEF Settle, Typed
<1>3. CASE pc[r] = "sending"
  <2>1. stamp[r.backend] = 0 /\ stamp[r.backend] # None
    BY <1>3 DEF Fresh
  <2>2. ASSUME NEW c \in Callers, NEW ok \in BOOLEAN, Settle(c, ok)
        PROVE  stamp'[r.backend] = 0
    BY <1>1, <2>1, <2>2 DEF Settle, Typed
  <2>3. CASE UNCHANGED stamp
    BY <2>1, <2>3
  <2>4. ASSUME NEW c \in Callers, Switching(c)
        PROVE  stamp'[r.backend] = 0
    <3>1. CASE /\ SeedDue
               /\ stamp' = [stamp EXCEPT !["omlx"] = OmlxGrace - SeedGrace]
      BY <1>1, <2>1, <3>1 DEF SeedDue, Typed, Backends
    <3> QED
      BY <2>2, <2>3, <2>4, <3>1
      DEF Switching, StopM3ForOmlx, StopM3, M3Stopped, M3Answers, Deferred,
          StartM3ForRequest, StartM3, Unloads, M3Started, Hold
  <2>5. ASSUME NEW q \in Requests, Finish(q) PROVE stamp'[r.backend] = 0
    BY <1>1, <2>1, <2>5 DEF Finish, Typed
  <2>6. ~Tick
    BY <1>3 DEF Tick
  <2>7. ~Restart
    BY <1>1 DEF Restart, Ended
  <2> QED
    BY <2>3, <2>4, <2>5, <2>6, <2>7
    DEF Next, Run, Arrive, Deliver, Leave, StopEnds, BootEnds, vars
<1> QED BY <1>2, <1>3

LEMMA InQueueStep ==
  ASSUME Typed, Sides, InQueue, [Next]_vars
  PROVE  InQueue'
<1> SUFFICES ASSUME NEW r \in Requests, r.backend = "m3",
                    pc'[r] \in {"served", "again"}
             PROVE  \E i \in DOMAIN queue': queue'[i] = r
  BY DEF InQueue
<1>1. r \in Callers
  BY DEF Requests
<1>2. CASE UNCHANGED queue /\ pc[r] \in {"served", "again"}
  BY <1>2 DEF InQueue
<1>3. CASE queue # <<>> /\ queue' = Tail(queue) /\ r # Head(queue)
           /\ pc[r] \in {"served", "again"}
  <2>1. PICK i \in DOMAIN queue: queue[i] = r
    BY <1>3 DEF InQueue
  <2>2. queue \in Seq(Requests) /\ i \in 1 .. Len(queue) /\ i # 1
    BY <1>3, <2>1 DEF Typed
  <2>3. i - 1 \in 1 .. Len(Tail(queue)) /\ Tail(queue)[i - 1] = queue[i]
    BY <1>3, <2>2, HeadTailProperties
  <2>4. DOMAIN Tail(queue) = 1 .. Len(Tail(queue))
    BY <1>3, <2>2, HeadTailProperties
  <2> QED BY <1>3, <2>1, <2>3, <2>4
<1>4. ASSUME NEW c \in Callers, Switching(c) \/ Arrive(c)
      PROVE  UNCHANGED queue /\ pc[r] \in {"served", "again"}
  BY <1>1, <1>4
  DEF Switching, StopM3ForOmlx, StopM3, M3Stopped, M3Answers, Deferred,
      StartM3ForRequest, StartM3, Unloads, M3Started, Settle, Hold, Arrive,
      Ended, world, Typed
<1>5. ASSUME NEW q \in Requests, Deliver(q)
      PROVE  \E i \in DOMAIN queue': queue'[i] = r
  <2>1. CASE q = r
    <3>1. queue' = Append(queue, r)
      BY <1>1, <1>5, <2>1 DEF Deliver, Typed
    <3> QED BY <3>1, AppendProperties DEF Typed
  <2>2. CASE q # r
    <3>1. PICK i \in DOMAIN queue: queue[i] = r
      BY <1>1, <1>5, <2>2 DEF Deliver, Typed, InQueue
    <3>2. queue' = queue \/ queue' = Append(queue, q)
      BY <1>5 DEF Deliver
    <3>3. ASSUME queue' = Append(queue, q)
          PROVE  i \in DOMAIN queue' /\ queue'[i] = r
      BY <3>1, <3>3, AppendProperties DEF Typed
    <3> QED BY <3>1, <3>2, <3>3
  <2> QED BY <2>1, <2>2
<1>6. ASSUME NEW q \in Requests, Finish(q)
      PROVE  \E i \in DOMAIN queue': queue'[i] = r
  <2>1. pc[r] \in {"served", "again"}
    BY <1>1, <1>6 DEF Finish, Typed, Requests
  <2>2. q # r
    BY <1>1, <1>6 DEF Finish, Typed
  <2>3. \/ queue # <<>> /\ q = Head(queue) /\ queue' = Tail(queue)
        \/ UNCHANGED queue
    BY <1>6 DEF Finish
  <2> QED BY <1>2, <1>3, <2>1, <2>2, <2>3
<1>7. ASSUME NEW q \in Requests, Leave(q)
      PROVE  \E i \in DOMAIN queue': queue'[i] = r
  <2>1. pc[r] \in {"served", "again"}
    BY <1>1, <1>7 DEF Leave, Typed, Requests
  <2>2. \/ /\ queue # <<>> /\ queue' = Tail(queue)
           /\ pc'[r] = (IF r = q THEN "gone"
                        ELSE IF r = Head(queue) /\ pc[r] # "gone" THEN "cut"
                        ELSE pc[r])
        \/ UNCHANGED queue
    BY <1>1, <1>7 DEF Leave
  <2> QED BY <1>2, <1>3, <2>1, <2>2
<1>8. ~StopEnds \/ (UNCHANGED queue /\ pc[r] \in {"served", "again"})
  BY <1>1 DEF StopEnds, Typed
<1>9. ~Restart
  BY <1>1 DEF Restart, Ended
<1>10. CASE BootEnds \/ Tick \/ UNCHANGED vars
  BY <1>2, <1>10 DEF BootEnds, Tick, vars, world
<1> QED
  BY <1>2, <1>4, <1>5, <1>6, <1>7, <1>8, <1>9, <1>10 DEF Next, Run

LEMMA QueuedStep ==
  ASSUME Typed, Sides, Queued, [Next]_vars
  PROVE  Queued'
<1> USE CallersAssumption DEF CallersAssumption
<1> DEFINE Past == Ended \cup {"served", "again"}
<1>1. queue \in Seq(Requests) /\ DOMAIN queue = 1 .. Len(queue)
  BY DEF Typed
<1>2. \A i \in DOMAIN queue: queue[i] \in Requests /\ queue[i] \in Callers
  BY <1>1 DEF Requests
<1>3. ASSUME \A r \in Requests: pc[r] \in Past => pc'[r] \in Past,
             UNCHANGED queue, \A r \in serving': r.backend = "omlx"
      PROVE  Queued'
  BY <1>2, <1>3 DEF Queued
<1>4. ASSUME queue # <<>>, queue' = Tail(queue),
             \A r \in Requests: r # Head(queue) /\ pc[r] \in Past
                                  => pc'[r] \in Past,
             \A r \in serving': r.backend = "omlx"
      PROVE  Queued'
  <2>1. DOMAIN queue' = 1 .. (Len(queue) - 1) /\ Len(queue) \in Nat \ {0}
    BY <1>1, <1>4, HeadTailProperties
  <2>2. \A i \in DOMAIN queue': i + 1 \in DOMAIN queue /\ i + 1 # 1
                                /\ queue'[i] = queue[i + 1]
    BY <1>1, <1>4, <2>1, HeadTailProperties
  <2>3. \A i \in DOMAIN queue': queue'[i] # Head(queue)
    BY <1>1, <1>4, <2>1, <2>2 DEF Queued
  <2>4. \A i \in DOMAIN queue': pc'[queue'[i]] \in Past
    BY <1>2, <1>4, <2>2, <2>3 DEF Queued
  <2>5. \A i, j \in DOMAIN queue': queue'[i] = queue'[j] => i = j
    BY <2>1, <2>2 DEF Queued
  <2> QED BY <1>4, <2>4, <2>5 DEF Queued
<1>5. ASSUME NEW c \in Callers, Switching(c) \/ Arrive(c) PROVE Queued'
  <2>1. \A r \in Requests: pc[r] \in Past => pc'[r] \in Past
    BY <1>5
    DEF Switching, StopM3ForOmlx, StopM3, M3Stopped, M3Answers, Deferred,
        StartM3ForRequest, StartM3, Unloads, M3Started, Settle, Hold, Arrive,
        Turn, Ended, Requests, Typed
  <2>2. UNCHANGED queue /\ serving' \subseteq serving
    BY <1>5
    DEF Switching, StopM3ForOmlx, StopM3, M3Stopped, M3Answers, Deferred,
        StartM3ForRequest, StartM3, Unloads, M3Started, Arrive, world
  <2> QED BY <1>3, <2>1, <2>2 DEF Queued
<1>6. ASSUME NEW r \in Requests, Deliver(r) PROVE Queued'
  <2>1. \A d \in Requests: pc[d] \in Past => pc'[d] \in Past
    BY <1>6 DEF Deliver, Ended, Requests, Typed
  <2>2. \A d \in serving': d.backend = "omlx"
    BY <1>6 DEF Deliver, Queued, Requests
  <2>3. CASE UNCHANGED queue
    BY <1>3, <2>1, <2>2, <2>3
  <2>4. CASE queue' = Append(queue, r) /\ r.backend = "m3" /\ Healthy
    <3>1. DOMAIN queue' = 1 .. (Len(queue) + 1) /\ Len(queue) \in Nat
          /\ queue'[Len(queue) + 1] = r
          /\ \A i \in DOMAIN queue: queue'[i] = queue[i]
      BY <1>1, <2>4, AppendProperties
    <3>2. \A i \in DOMAIN queue: queue[i] # r
      BY <1>6 DEF Deliver, Queued, Ended
    <3>3. pc'[r] \in Past
      BY <1>6, <2>4 DEF Deliver, Requests, Typed
    <3>4. \A i \in DOMAIN queue': i \in DOMAIN queue \/ i = Len(queue) + 1
      BY <1>1, <3>1
    <3>5. \A i \in DOMAIN queue': pc'[queue'[i]] \in Past
      BY <1>2, <2>1, <3>1, <3>3, <3>4 DEF Queued
    <3>6. \A i, j \in DOMAIN queue': queue'[i] = queue'[j] => i = j
      BY <3>1, <3>2, <3>4 DEF Queued
    <3> QED BY <2>2, <3>5, <3>6 DEF Queued
  <2> QED BY <1>6, <2>3, <2>4 DEF Deliver
<1>7. ASSUME NEW r \in Requests, Finish(r) PROVE Queued'
  <2>1. \A d \in Requests: d # r /\ pc[d] \in Past => pc'[d] \in Past
    BY <1>7 DEF Finish, Requests, Typed
  <2>2. \A d \in serving': d.backend = "omlx"
    BY <1>7 DEF Finish, Queued
  <2>3. CASE queue # <<>> /\ r = Head(queue) /\ queue' = Tail(queue)
    BY <1>4, <2>1, <2>2, <2>3
  <2>4. CASE r \in serving /\ UNCHANGED queue
    <3>1. r.route # "messages"
      BY <2>4 DEF Queued, Requests
    <3>2. pc[r] \in Past => pc'[r] \in Past
      BY <1>7, <3>1 DEF Finish, Requests, Typed, Ended
    <3> QED BY <1>3, <2>1, <2>2, <2>4, <3>2
  <2> QED BY <1>7, <2>3, <2>4 DEF Finish
<1>8. ASSUME NEW r \in Requests, Leave(r) PROVE Queued'
  <2>1. \A d \in Requests: pc[d] \in Past => pc'[d] \in Past
    BY <1>8 DEF Leave, Requests, Typed, Ended
  <2>2. UNCHANGED serving
    BY <1>8 DEF Leave
  <2>3. UNCHANGED queue \/ (queue # <<>> /\ queue' = Tail(queue))
    BY <1>8 DEF Leave
  <2> QED BY <1>3, <1>4, <2>1, <2>2, <2>3 DEF Queued
<1>9. CASE StopEnds
  <2>1. \A d \in Requests: pc[d] \in Past => pc'[d] \in Past
    BY <1>9 DEF StopEnds, Requests, Typed, Ended
  <2>2. CASE queue' = <<>>
    BY <1>9, <2>2 DEF StopEnds, Queued
  <2>3. CASE UNCHANGED queue
    BY <1>3, <1>9, <2>1, <2>3 DEF StopEnds, Queued
  <2> QED BY <1>9, <2>2, <2>3 DEF StopEnds
<1>10. CASE Restart
  <2>1. \A d \in Requests: pc[d] \in Past => pc'[d] \in Past
    BY <1>10 DEF Restart, Requests, Ended, Typed
  <2> QED BY <1>3, <1>10, <2>1 DEF Restart, world, Queued
<1>11. CASE BootEnds \/ Tick \/ UNCHANGED vars
  BY <1>11 DEF BootEnds, Tick, vars, world, Queued
<1> QED
  BY <1>5, <1>6, <1>7, <1>8, <1>9, <1>10, <1>11 DEF Next, Run

LEMMA ServingStep ==
  ASSUME Typed, Sides, Queued, Serving, [Next]_vars
  PROVE  Serving'
<1> USE CallersAssumption DEF CallersAssumption
<1> DEFINE Past == Ended \cup {"served"}
<1>1. ASSUME \A r \in serving: pc'[r] \in Past, serving' \subseteq serving
      PROVE  Serving'
  BY <1>1 DEF Serving
<1>2. serving \subseteq Callers
  BY DEF Typed, Requests
<1>3. ASSUME NEW c \in Callers, Switching(c) \/ Arrive(c) PROVE Serving'
  <2>1. \A r \in serving: pc'[r] \in Past
    BY <1>2, <1>3
    DEF Switching, StopM3ForOmlx, StopM3, M3Stopped, M3Answers, Deferred,
        StartM3ForRequest, StartM3, Unloads, M3Started, Settle, Hold, Arrive,
        Turn, Ended, Typed, Serving
  <2>2. serving' \subseteq serving
    BY <1>3
    DEF Switching, StopM3ForOmlx, StopM3, M3Stopped, M3Answers, Deferred,
        StartM3ForRequest, StartM3, Unloads, M3Started, Arrive, world
  <2> QED BY <1>1, <2>1, <2>2
<1>4. ASSUME NEW q \in Requests, Deliver(q) PROVE Serving'
  <2>1. \A r \in serving: pc'[r] \in Past
    BY <1>2, <1>4 DEF Deliver, Requests, Ended, Typed, Serving
  <2>2. q \in serving' /\ q \notin serving => pc[q] = "sending"
    BY <1>4 DEF Deliver, Sides, Requests
  <2>3. q \in serving' => pc'[q] \in Past
    BY <1>4, <2>1, <2>2 DEF Deliver, Requests, Typed
  <2>4. serving' \subseteq serving \cup {q}
    BY <1>4 DEF Deliver
  <2> QED BY <2>1, <2>3, <2>4 DEF Serving
<1>5. ASSUME NEW q \in Requests, Finish(q) PROVE Serving'
  <2>1. \A r \in serving: r.route # "messages"
    BY <1>2 DEF Queued
  <2>2. \A r \in serving: pc'[r] \in Past
    BY <1>2, <1>5, <2>1 DEF Finish, Requests, Ended, Typed, Serving
  <2>3. serving' \subseteq serving
    BY <1>5 DEF Finish
  <2> QED BY <1>1, <2>2, <2>3
<1>6. ASSUME NEW q \in Requests, Leave(q) PROVE Serving'
  BY <1>1, <1>2, <1>6 DEF Leave, Ended, Typed, Serving
<1>7. CASE StopEnds
  BY <1>1, <1>2, <1>7 DEF StopEnds, Ended, Typed, Serving
<1>8. CASE Restart
  BY <1>1, <1>2, <1>8 DEF Restart, Ended, Typed, Serving, world
<1>9. CASE BootEnds \/ Tick \/ UNCHANGED vars
  BY <1>9 DEF BootEnds, Tick, vars, world, Serving
<1> QED
  BY <1>3, <1>4, <1>5, <1>6, <1>7, <1>8, <1>9 DEF Next, Run

-----------------------------------------------------------------------------
(* Commands under the lock.                                                 *)

LEMMA WatchedStep ==
  ASSUME Typed, Turns, Sides, Queued, Serving, Watched, [Next]_vars
  PROVE  Watched'
<1> USE CallersAssumption DEF CallersAssumption, Typed
<1> DEFINE Waits(c, stage) == c \in Callers /\ lock = c /\ pc[c] = stage
<1> SUFFICES ASSUME "unwatched" \notin causes'
             PROVE  /\ m3' = "booting" =>
                         \E c \in Callers: Waits(c, "rising")'
                    /\ m3' = "stopping" =>
                         \E c \in Callers: Waits(c, "falling")'
  BY DEF Watched
<1>1. "unwatched" \notin causes
  BY CausesStay
<1>2. ASSUME NEW c \in Callers, StopM3(c)
      PROVE  m3' # "booting" /\ Waits(c, "falling")'
  <2>1. lock = c
    BY <1>2 DEF StopM3, Noting, Turns, Switches
  <2> QED BY <1>2, <2>1 DEF StopM3
<1>3. ASSUME NEW c \in Callers, StartM3(c), m3 = "down"
      PROVE  m3' = "booting" /\ Waits(c, "rising")'
  <2>1. ~Lockless(c)
    BY <1>3 DEF StartM3, Causes
  <2>2. lock = c
    BY <1>3, <2>1 DEF StartM3, Turns, Switches
  <2> QED BY <1>3, <2>2 DEF StartM3, Unloads
<1>4. ASSUME NEW c \in Callers, NEW stage \in {"rising", "falling"},
             Waits(c, stage), UNCHANGED m3, m3 = "booting" => stage = "rising",
             m3 = "stopping" => stage = "falling",
             m3 \in {"booting", "stopping"}
      PROVE  Waits(c, stage)'
  <2>1. ASSUME NEW d \in Callers, NEW ok \in BOOLEAN, Settle(d, ok), d # c
        PROVE  Waits(c, stage)'
    BY <1>4, <2>1 DEF Settle, Released
  <2>2. ASSUME NEW d \in Callers, NEW to \in Stages, Hold(d, to), d # c,
               Lockless(d) \/ lock = None \/ lock = d
        PROVE  Waits(c, stage)'
    BY <1>4, <2>2 DEF Hold
  <2>3. ASSUME NEW d \in Callers, StopM3ForOmlx(d) PROVE Waits(c, stage)'
    <3>1. d # c
      BY <1>4, <2>3 DEF StopM3ForOmlx, Turn
    <3>2. Lockless(d) \/ lock = None \/ lock = d
      BY <2>3 DEF StopM3ForOmlx, Turn, Turns, Switches
    <3> QED BY <2>1, <2>2, <2>3, <3>1, <3>2 DEF StopM3ForOmlx, Stages
  <2>4. ASSUME NEW d \in Callers,
               M3Answers(d) \/ Deferred(d) \/ StartM3ForRequest(d)
        PROVE  Waits(c, stage)'
    <3>1. d # c
      BY <1>4, <2>4 DEF M3Answers, Deferred, StartM3ForRequest, Turn
    <3>2. Lockless(d) \/ lock = None \/ lock = d
      BY <2>4 DEF M3Answers, Deferred, StartM3ForRequest, Turn
    <3>3. CASE pc' = [pc EXCEPT ![d] = "refused"] /\ UNCHANGED lock
      BY <1>4, <3>1, <3>3
    <3> QED
      BY <2>1, <2>2, <2>4, <3>1, <3>2, <3>3
      DEF M3Answers, Deferred, StartM3ForRequest, Stages
  <2>5. ASSUME NEW d \in Callers, M3Stopped(d) \/ M3Started(d)
        PROVE  Waits(c, stage)'
    <3>1. d # c
      BY <1>4, <2>5 DEF M3Stopped, M3Started, Healthy, Unanswered, Noting
    <3> QED BY <2>1, <2>5, <3>1 DEF M3Stopped, M3Started
  <2>6. ASSUME NEW d \in Callers, StopM3(d) \/ StartM3(d) \/ Arrive(d)
        PROVE  Waits(c, stage)'
    BY <1>4, <2>6 DEF StopM3, StartM3, Unloads, Arrive
  <2>7. ASSUME NEW r \in Requests, Deliver(r) \/ Finish(r)
        PROVE  Waits(c, stage)'
    <3>1. queue # <<>> => 1 \in DOMAIN queue /\ Head(queue) = queue[1]
      BY HeadTailProperties
    <3>2. c \notin serving /\ (queue # <<>> => c # Head(queue))
      BY <1>4, <3>1 DEF Queued, Serving, Ended
    <3>3. r # c
      BY <1>4, <2>7, <3>2 DEF Deliver, Finish
    <3> QED BY <1>4, <2>7, <3>3 DEF Deliver, Finish, Requests
  <2>8. ASSUME NEW r \in Requests, Leave(r) PROVE Waits(c, stage)'
    <3>1. r # c
      BY <1>4, <2>8 DEF Leave, Noting
    <3>2. queue # <<>> => 1 \in DOMAIN queue /\ Head(queue) = queue[1]
      BY HeadTailProperties
    <3>3. queue # <<>> => c # Head(queue)
      BY <1>4, <3>2 DEF Queued, Ended
    <3>4. pc'[c] = pc[c]
      BY <1>4, <2>8, <3>1, <3>3 DEF Leave
    <3> QED BY <1>4, <2>8, <3>1, <3>4 DEF Leave, Released
  <2>9. ~(StopEnds \/ BootEnds)
    BY <1>4 DEF StopEnds, BootEnds
  <2>10. ~Restart
    BY <1>4 DEF Restart, Noting
  <2>11. CASE Tick \/ UNCHANGED vars
    BY <1>4, <2>11 DEF Tick, vars
  <2> QED
    BY <2>3, <2>4, <2>5, <2>6, <2>7, <2>8, <2>9, <2>10, <2>11
    DEF Next, Run, Switching
<1>5. CASE UNCHANGED m3
  BY <1>1, <1>4, <1>5 DEF Watched
<1>6. CASE m3' # m3
  <2>1. CASE \E c \in Callers: StopM3(c) \/ StartM3(c)
    <3>1. CASE \E c \in Callers: StopM3(c)
      BY <1>2, <3>1
    <3>2. ASSUME NEW c \in Callers, StartM3(c)
          PROVE  m3' = "booting" /\ Waits(c, "rising")'
      BY <1>3, <1>6, <3>2 DEF StartM3, Unloads
    <3> QED BY <2>1, <3>1, <3>2
  <2>2. CASE StopEnds \/ BootEnds
    BY <2>2 DEF StopEnds, BootEnds
  <2> QED
    BY <1>6, <2>1, <2>2
    DEF Next, Run, Switching, StopM3ForOmlx, M3Stopped, M3Answers, Deferred,
        StartM3ForRequest, M3Started, Arrive, Deliver, Finish, Leave, Restart,
        Tick, world, vars
<1> QED BY <1>5, <1>6

-----------------------------------------------------------------------------
(* oMLX and the start of M3.                                                *)

\* What is on its way to oMLX has been noted.
LEMMA OmlxNoted ==
  ASSUME Sides, NEW r \in Requests, r.backend = "omlx"
  PROVE  r \in Callers /\ Noted(r) /\ pc[r] # "retrying" /\ pc[r] # "again"
BY CallersAssumption DEF CallersAssumption, Noted, Requests, Sides

\* oMLX is given work by a request that is on its way to it.
LEMMA OmlxGiven ==
  ASSUME Typed, Sides, [Next]_vars, NoneToOmlx
  PROVE  (loaded' => loaded) /\ begun' >= begun
<1> USE CallersAssumption DEF CallersAssumption
<1>1. ASSUME NEW r \in Requests, Deliver(r) PROVE r.backend = "m3"
  BY <1>1, OmlxNoted DEF Deliver, NoneToOmlx, Requests
<1>2. loaded' => loaded
  BY <1>1
  DEF Next, Run, Switching, StopM3ForOmlx, StopM3, M3Stopped, M3Answers,
      Deferred, StartM3ForRequest, StartM3, Unloads, M3Started, Arrive,
      Deliver, Finish, Leave, StopEnds, BootEnds, Restart, Tick, world, vars
<1>3. CASE UNCHANGED begun
  <2>1. OmlxGrace \in Nat /\ begun \in 0 .. OmlxGrace
    BY GatewayAssumption DEF Typed, GatewayAssumption
  <2>2. begun \in Nat
    BY <2>1
  <2> QED BY <1>2, <1>3, <2>2
<1>4. CASE Tick
  BY <1>4, GatewayAssumption DEF Tick, Older, Typed, GatewayAssumption
<1>5. Tick \/ UNCHANGED begun
  BY <1>1
  DEF Next, Run, Switching, StopM3ForOmlx, StopM3, M3Stopped, M3Answers,
      Deferred, StartM3ForRequest, StartM3, Unloads, M3Started, Arrive,
      Deliver, Finish, Leave, StopEnds, BootEnds, Restart, world, vars
<1> QED BY <1>2, <1>3, <1>4, <1>5

\* Who is about to start M3 unforced holds the lock.
LEMMA StartTurn ==
  ASSUME Turns, Sides, NEW c \in Callers, pc[c] = "start", ~Forced(c)
  PROVE  lock = c
<1>1. ~Lockless(c)
  BY CallersAssumption DEF CallersAssumption, Sides, Lockless, Forced
<1> QED BY <1>1 DEF Turns, Switches

LEMMA StartStandsStep ==
  ASSUME Typed, Turns, Sides, Fresh, StartStands, OmlxGrace # 0, [Next]_vars
  PROVE  StartStands'
<1> USE CallersAssumption DEF CallersAssumption
<1> SUFFICES ASSUME NEW c \in Callers, pc'[c] = "start", ~Forced(c),
                    NEW r \in Requests, r.backend = "omlx", pc'[r] = "sending"
             PROVE  FALSE
  BY DEF StartStands, NoneToOmlx, Forced
<1>1. r \in Callers /\ r # c
  BY DEF Requests
<1>2. CASE pc[c] = "start"
  <2>1. pc[r] # "sending"
    BY <1>2 DEF StartStands, NoneToOmlx
  <2>2. lock = None \/ lock = r
    BY <2>1, NewSender
  <2>3. lock = c
    BY <1>2, StartTurn
  <2> QED BY <1>1, <2>2, <2>3
<1>3. CASE pc[c] # "start"
  <2>1. Hold(c, "start") /\ ~Recent("omlx")
    BY <1>3, NewStart DEF StartM3ForRequest
  <2>2. pc[r] = "sending"
    BY <1>1, <2>1 DEF Hold, Typed
  <2>3. stamp["omlx"] = 0
    BY <2>2, OmlxNoted DEF Fresh
  <2> QED
    BY <2>1, <2>3, GatewayAssumption DEF Recent, Grace, GatewayAssumption
<1> QED BY <1>2, <1>3

LEMMA ApartStep ==
  ASSUME Typed, Flags, Turns, Sides, StartStands, Watched, Apart, [Next]_vars
  PROVE  Apart'
<1> USE CallersAssumption DEF CallersAssumption
<1> SUFFICES ASSUME Regular', m3' # "down"
             PROVE  ~loaded' /\ NoneToOmlx'
  BY DEF Apart
<1>1. Regular
  BY CausesStay DEF Regular
<1>2. CASE m3 # "down"
  <2>1. ~loaded /\ NoneToOmlx
    BY <1>1, <1>2 DEF Apart
  <2>2. ~loaded'
    BY <2>1, OmlxGiven
  <2>3. ASSUME NEW r \in Requests, r.backend = "omlx", pc'[r] = "sending"
        PROVE  FALSE
    <3>1. pc[r] # "sending"
      BY <2>1, <2>3 DEF NoneToOmlx
    <3>2. Settle(r, TRUE) /\ (lock = None \/ lock = r) /\ Switching(r)
      BY <2>3, <3>1, NewSender
    <3>3. r \in Callers
      BY DEF Requests
    <3>4. ~Settle(r, FALSE) /\ ~Hold(r, "stop") /\ ~Hold(r, "cool")
      BY <2>3, <3>3 DEF Settle, Hold, Typed
    <3>5. StopM3ForOmlx(r) \/ M3Stopped(r)
      <4>1. ~M3Answers(r) /\ ~Deferred(r) /\ ~StartM3ForRequest(r)
        BY <2>3 DEF M3Answers, Deferred, StartM3ForRequest
      <4>2. ~StopM3(r) /\ ~StartM3(r)
        BY <2>3, <3>1, <3>3 DEF StopM3, StartM3, Unloads, Typed
      <4>3. ~M3Started(r)
        BY <2>3, <3>3 DEF M3Started, Sides
      <4> QED BY <3>2, <4>1, <4>2, <4>3 DEF Switching
    <3>6. m3 = "booting" /\ pc[r] # "rising"
      <4>1. ~("unseen" \in causes') /\ ~("unwatched" \in causes')
        BY DEF Regular
      <4>2. ~Healthy
        BY <3>4, <3>5, <4>1 DEF StopM3ForOmlx, M3Stopped, Verdict
      <4> QED
        BY <1>2, <3>5, <4>2
        DEF StopM3ForOmlx, M3Stopped, Healthy, Turn, Typed
    <3>7. \E c \in Callers: lock = c /\ pc[c] = "rising"
      BY <1>1, <3>6 DEF Watched, Regular
    <3> QED BY <3>2, <3>6, <3>7
  <2> QED BY <2>2, <2>3 DEF NoneToOmlx
<1>3. CASE m3 = "down"
  <2>1. PICK c \in Callers: StartM3(c)
    BY <1>3
    DEF Next, Run, Switching, StopM3ForOmlx, StopM3, M3Stopped, M3Answers,
        Deferred, StartM3ForRequest, M3Started, Arrive, Deliver, Finish,
        Leave, StopEnds, BootEnds, Restart, Tick, world, vars
  <2>2. ~loaded' /\ (ToOmlx = {} \/ ~Forced(c))
    BY <2>1 DEF StartM3, Regular, Causes
  <2>3. NoneToOmlx
    BY <2>1, <2>2 DEF StartM3, ToOmlx, NoneToOmlx, StartStands
  <2>4. \A r \in Requests: pc'[r] = "sending" => pc[r] = "sending"
    BY <2>1 DEF StartM3, Unloads, Requests, Typed
  <2> QED BY <2>2, <2>3, <2>4 DEF NoneToOmlx
<1> QED BY <1>2, <1>3

-----------------------------------------------------------------------------
(* M3 and its stop.                                                         *)

\* While the lock is held for a stop, no noted request comes to M3.
LEMMA CalmStays ==
  ASSUME Typed, Turns, Sides, Calm, [Next]_vars, NEW c \in Callers, lock = c,
         pc[c] \in {"stop", "falling"}
  PROVE  Calm'
<1> USE CallersAssumption DEF CallersAssumption
<1> SUFFICES ASSUME NEW r \in Requests, Noted(r), r.backend = "m3",
                    pc'[r] \in {"sending", "served"}
             PROVE  FALSE
  BY DEF Calm, Noted
<1>1. pc[r] \notin {"sending", "served"}
  BY DEF Calm
<1>2. pc'[r] # "served"
  BY <1>1, NewServed
<1>3. lock = None \/ lock = r
  BY <1>1, <1>2, NewSender
<1> QED BY <1>3 DEF Sides

LEMMA StopStandsStep ==
  ASSUME Typed, Turns, Sides, Fresh, InQueue, Watched, StopStands,
         M3Grace # 0, [Next]_vars
  PROVE  StopStands'
<1> USE CallersAssumption DEF CallersAssumption
<1>1. ASSUME NEW c \in Callers, pc'[c] = "stop", ~Lockless(c) PROVE Calm'
  <2>1. CASE pc[c] = "stop"
    <3>1. lock = c /\ Calm
      BY <1>1, <2>1 DEF Turns, Switches, StopStands
    <3> QED BY <2>1, <3>1, CalmStays
  <2>2. CASE pc[c] # "stop"
    <3>1. Hold(c, "stop") /\ Verdict = "idle"
      BY <1>1, <2>2, NewStop
    <3>2. queue = <<>> /\ ~Recent("m3")
      BY <3>1 DEF Verdict
    <3>3. ASSUME NEW r \in Requests, Noted(r), r.backend = "m3",
                 pc'[r] \in {"sending", "served"}
          PROVE  FALSE
      <4>1. pc[r] = pc'[r]
        BY <3>1, <3>3 DEF Hold, Typed, Requests
      <4>2. pc[r] # "served"
        BY <3>2, <3>3 DEF InQueue
      <4>3. stamp["m3"] = 0
        BY <3>3, <4>1, <4>2 DEF Fresh
      <4> QED
        BY <3>2, <4>3, GatewayAssumption DEF Recent, Grace, GatewayAssumption
    <3> QED BY <3>3 DEF Calm, Noted
  <2> QED BY <2>1, <2>2
<1>2. ASSUME m3' = "stopping", "unwatched" \notin causes' PROVE Calm'
  <2>1. "unwatched" \notin causes
    BY <1>2, CausesStay
  <2>2. CASE m3 = "stopping"
    <3>1. Calm /\ \E c \in Callers: lock = c /\ pc[c] = "falling"
      BY <2>1, <2>2 DEF StopStands, Watched
    <3> QED BY <3>1, CalmStays
  <2>3. CASE m3 # "stopping"
    <3>1. PICK c \in Callers: StopM3(c)
      BY <1>2, <2>3
      DEF Next, Run, Switching, StopM3ForOmlx, M3Stopped, M3Answers, Deferred,
          StartM3ForRequest, StartM3, Unloads, M3Started, Arrive, Deliver,
          Finish, Leave, StopEnds, BootEnds, Restart, Tick, world, vars
    <3>2. pc[c] = "stop" /\ ~Lockless(c)
      BY <1>2, <3>1 DEF StopM3, Noting
    <3>3. lock = c /\ Calm
      BY <3>2 DEF Turns, Switches, StopStands
    <3> QED BY <3>2, <3>3, CalmStays
  <2> QED BY <2>2, <2>3
<1> QED BY <1>1, <1>2 DEF StopStands, Lockless

-----------------------------------------------------------------------------
(* The model that oMLX has loaded.                                          *)

LEMMA StampBoundsStep ==
  ASSUME Typed, Sides, Fresh, StampBounds, [Next]_vars
  PROVE  StampBounds'
<1> USE GatewayAssumption, CallersAssumption
    DEF GatewayAssumption, CallersAssumption, Typed
<1> SUFFICES ASSUME stamp'["omlx"] # None
             PROVE  stamp'["omlx"] <= begun' + (OmlxGrace - SeedGrace)
  BY DEF StampBounds
<1>1. begun \in Nat /\ OmlxGrace - SeedGrace \in Nat /\ "omlx" \in Backends
  BY DEF Backends
<1>2. CASE /\ UNCHANGED begun
           /\ stamp'["omlx"] \in {stamp["omlx"], 0, OmlxGrace - SeedGrace}
  BY <1>1, <1>2 DEF StampBounds
<1>3. ASSUME NEW c \in Callers, NEW ok \in BOOLEAN, Settle(c, ok)
      PROVE  stamp'["omlx"] \in {stamp["omlx"], 0}
  BY <1>1, <1>3 DEF Settle
<1>4. ASSUME NEW c \in Callers, Switching(c)
      PROVE  stamp'["omlx"] \in {stamp["omlx"], 0, OmlxGrace - SeedGrace}
             /\ UNCHANGED begun
  BY <1>1, <1>3, <1>4
  DEF Switching, StopM3ForOmlx, StopM3, M3Stopped, M3Answers, Deferred,
      StartM3ForRequest, StartM3, Unloads, M3Started, Hold, world
<1>5. ASSUME NEW r \in Requests, Deliver(r)
      PROVE  stamp'["omlx"] <= begun' + (OmlxGrace - SeedGrace)
  <2>1. CASE UNCHANGED begun
    BY <1>2, <1>5, <2>1 DEF Deliver
  <2>2. CASE r.backend = "omlx" /\ begun' = 0
    <3>1. stamp["omlx"] = 0
      BY <1>5, <2>2, OmlxNoted DEF Deliver, Fresh
    <3> QED BY <1>1, <1>5, <2>2, <3>1 DEF Deliver
  <2> QED BY <1>5, <2>1, <2>2 DEF Deliver, Requests
<1>6. ASSUME NEW r \in Requests, Finish(r)
      PROVE  stamp'["omlx"] \in {stamp["omlx"], 0} /\ UNCHANGED begun
  BY <1>1, <1>6 DEF Finish
<1>7. CASE Tick
  <2>1. stamp["omlx"] # None
        /\ stamp'["omlx"] = Older(stamp["omlx"], OmlxGrace)
    BY <1>1, <1>7 DEF Tick, Grace
  <2>2. begun' = Older(begun, OmlxGrace)
    BY <1>7 DEF Tick
  <2>3. stamp["omlx"] \in Nat
    BY <1>1, <2>1
  <2>4. stamp["omlx"] <= begun + (OmlxGrace - SeedGrace)
    BY <2>1 DEF StampBounds
  <2>5. \A s, b \in Nat:
          s <= b + (OmlxGrace - SeedGrace) =>
            Older(s, OmlxGrace) <= Older(b, OmlxGrace) + (OmlxGrace - SeedGrace)
    BY DEF Older
  <2> QED BY <1>1, <2>1, <2>2, <2>3, <2>4, <2>5
<1>8. ~Restart
  BY <1>1 DEF Restart
<1>9. CASE UNCHANGED <<stamp, begun>>
  BY <1>2, <1>9
<1> QED
  BY <1>2, <1>4, <1>5, <1>6, <1>7, <1>8, <1>9
  DEF Next, Run, Arrive, Leave, StopEnds, BootEnds, world, vars

LEMMA KeepStandsStep ==
  ASSUME Typed, Flags, Turns, Sides, StampBounds, KeepStands, [Next]_vars,
         OmlxGrace # 0 => StartStands, begun' \in 0 .. OmlxGrace
  PROVE  KeepStands'
<1> USE GatewayAssumption, CallersAssumption
    DEF GatewayAssumption, CallersAssumption
<1> SUFFICES ASSUME NEW c \in Callers, pc'[c] = "start", ~Forced(c), loaded',
                    "unlisted" \notin causes'
             PROVE  begun' >= SeedGrace
  BY DEF KeepStands, Forced
<1>1. CASE OmlxGrace = 0
  BY <1>1
<1>2. CASE OmlxGrace # 0 /\ pc[c] = "start"
  <2>1. NoneToOmlx
    BY <1>2 DEF StartStands
  <2>2. loaded /\ begun' >= begun
    BY <2>1, OmlxGiven
  <2>3. begun >= SeedGrace
    BY <1>2, <2>2, CausesStay DEF KeepStands
  <2> QED BY <2>2, <2>3 DEF Typed
<1>3. CASE pc[c] # "start"
  <2>1. StartM3ForRequest(c) /\ ~Recent("omlx") /\ ~SeedDue
    BY <1>3, NewStart DEF StartM3ForRequest
  <2>2. UNCHANGED <<loaded, begun>>
    BY <2>1 DEF StartM3ForRequest, world
  <2>3. stamp["omlx"] # None
    BY <2>1, <2>2 DEF SeedDue
  <2>4. stamp["omlx"] >= OmlxGrace /\ stamp["omlx"] \in Nat
    BY <2>1, <2>3 DEF Recent, Grace, Typed, Backends
  <2> QED BY <2>2, <2>3, <2>4 DEF StampBounds, Typed
<1> QED BY <1>1, <1>2, <1>3

-----------------------------------------------------------------------------
(* The theorems.                                                            *)

Inv ==
  /\ Typed /\ Flags /\ Turns /\ Sides /\ Fresh /\ InQueue /\ Queued /\ Serving
  /\ Watched /\ StampBounds /\ KeepStands
  /\ OmlxGrace # 0 => StartStands /\ Apart
  /\ M3Grace # 0 => StopStands

LEMMA InvInit == ASSUME Init PROVE Inv
<1> USE GatewayAssumption, CallersAssumption
    DEF GatewayAssumption, CallersAssumption
<1>1. Typed /\ Flags
  <2>1. pc \in [Callers -> Ended \cup Stages]
    BY DEF Init, Stages
  <2>2. stamp \in [Backends -> {None} \cup 0 .. (M3Grace + OmlxGrace)]
    BY DEF Init
  <2>3. left \in [Callers -> 0 .. M3Grace + 1]
    BY DEF Init
  <2>4. m3 \in {"down", "up"}
    BY DEF Init
  <2>5. Flags
    BY DEF Init, Flags
  <2> QED BY <2>1, <2>2, <2>3, <2>4, <2>5 DEF Init, Typed, Backends
<1>2. Turns /\ Sides /\ Fresh /\ InQueue /\ Queued /\ Serving
  BY DEF Init, Turns, Sides, Fresh, InQueue, Queued, Serving, Switches, Requests
<1>3. Watched /\ StampBounds /\ KeepStands
  BY DEF Init, Watched, StampBounds, KeepStands, Backends
<1>4. StartStands /\ Apart /\ StopStands
  BY DEF Init, StartStands, Apart, NoneToOmlx, StopStands, Calm, Requests
<1> QED BY <1>1, <1>2, <1>3, <1>4 DEF Inv

LEMMA InvStep == ASSUME Inv, [Next]_vars PROVE Inv'
<1> USE DEF Inv
<1>1. Typed' /\ Flags'
  BY TypedStep, FlagsStep
<1>2. Turns' /\ Sides' /\ Fresh'
  BY TurnsStep, FreshStep
<1>3. InQueue' /\ Queued' /\ Serving' /\ Watched'
  BY InQueueStep, QueuedStep, ServingStep, WatchedStep
<1>4. StampBounds'
  BY StampBoundsStep
<1>5. KeepStands'
  <2>1. begun' \in 0 .. OmlxGrace
    BY <1>1 DEF Typed
  <2> QED BY <2>1, KeepStandsStep
<1>6. OmlxGrace # 0 => StartStands' /\ Apart'
  BY StartStandsStep, ApartStep
<1>7. M3Grace # 0 => StopStands'
  BY StopStandsStep
<1> QED BY <1>1, <1>2, <1>3, <1>4, <1>5, <1>6, <1>7

\* The lock, the notes of traffic, the queue of M3 and the commands under way
\* always fit together, whoever switches, leaves or fails.
THEOREM Invariant == Spec => []Inv
BY InvInit, InvStep, PTL DEF Spec

\* With any grace for oMLX at all, M3 never boots or runs beside a model that
\* oMLX has loaded without one of the four causes, whoever switches or fails.
THEOREM NeverBoth == ASSUME OmlxGrace # 0 PROVE Spec => []OneBackend
<1>1. Inv => OneBackend
  BY TypeParts DEF Inv, OneBackend, Apart, Regular
<1> QED BY <1>1, Invariant, PTL

\* With any grace for M3 at all, a switch never stops it under a request whose
\* traffic was noted.
THEOREM SwitchSpares == ASSUME M3Grace # 0 PROVE Spec => []SwitchSparesM3
<1>1. Inv => SwitchSparesM3
  BY DEF Inv, SwitchSparesM3, StopStands, Calm
<1> QED BY <1>1, Invariant, PTL

\* A start that nobody forced leaves a model alone to which a request came less
\* than the kept grace ago, whatever the graces are and across restarts.
THEOREM KeepsModel == Spec => ModelIsKept
<1> DEFINE Kept == \A c \in Callers:
                     pc[c] = "start" /\ pc'[c] = "rising" /\ ~Forced(c)
                       /\ loaded /\ "unlisted" \notin causes
                     => begun >= SeedGrace
<1>1. Inv /\ [Next]_vars => [Kept]_vars
  BY DEF Inv, KeepStands
<1>2. Spec => [][Kept]_vars
  BY <1>1, Invariant, PTL DEF Spec
<1> QED BY <1>2 DEF ModelIsKept
=============================================================================
