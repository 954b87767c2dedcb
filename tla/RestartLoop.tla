----------------------------- MODULE RestartLoop -----------------------------
(***************************************************************************)
(* The restart loop (auto_restart.sh) and what it keeps alive: the launcher *)
(* (launch_cluster.sh running mlx.launch), the two ranks it starts, each    *)
(* under its watchdog (run_with_watchdog.py), the API liveness guard that   *)
(* runs beside the launcher, and the operator's scripts: stop_cluster.sh,   *)
(* M3_Start.command and the dashboard's /api/start.                         *)
(*                                                                         *)
(* What must not go wrong is the memory.  A rank wires some 160 GB; one     *)
(* that is killed in the middle of a Metal evaluation leaves it wired with  *)
(* no process to free it, and a cluster launched on top of it crashes the   *)
(* machine.  So the loop checks the wired memory of both machines before it *)
(* launches and after the cluster has exited, and every way to end a rank   *)
(* tries to let it free its memory first.                                   *)
(*                                                                         *)
(* Time is abstracted: a window that elapses is an action that may be taken.*)
(* One loop is modelled.  The memory limits are those of .env.example (set) *)
(* and both memory readings answer; a rank counts as wired from its launch. *)
(***************************************************************************)
EXTENDS Naturals

CONSTANTS
  MaxQuick,       \* M3_MAX_QUICK_FAILURES
  MaxTear,        \* M3_MAX_GUARD_TEARDOWNS
  MaxTries,       \* M3_ORPHAN_WAIT_TRIES
  MaxFaults,      \* bound: crashes, wedges and failed syncs
  MaxOps,         \* bound: starts and stops by the operator
  StopPlaces      \* where the loop is when the operator may stop it

ASSUME RestartAssumption ==
  /\ MaxQuick \in Nat \ {0}
  /\ MaxTear \in Nat \ {0}
  /\ MaxTries \in Nat \ {0}
  /\ MaxFaults \in Nat
  /\ MaxOps \in Nat

Ranks == {0, 1}

(* The loop's place in the script: the two memory checks (top, end) with    *)
(* their waits, the launch, `wait $LAUNCH_PID`, what follows it, the sleep. *)
Places == {"gone", "top", "topWait", "launch", "wait", "over", "end",
           "endWait", "count", "sleep"}

ASSUME StopPlacesAssumption == StopPlaces \subseteq Places

VARIABLES
  pc,        \* where the loop is; "gone": no loop runs
  tries,     \* orphan_memory_present: iterations of its wait
  quick,     \* QUICK_FAILURES
  tear,      \* GUARD_TEARDOWNS
  tail,      \* the end of startup.log shows a progress-guard teardown
  launcher,  \* the process $LAUNCH_PID lives
  guard,     \* api_liveness_guard: off, watch, drain, term, kill
  rank,      \* of each rank: down, boot, up, hung, stuck or lost
  armed,     \* run_with_watchdog: _generation_active, of each rank
  wired,     \* whose memory is wired, by a process or by none
  asked,     \* the server has been asked to shut down (/admin/shutdown)
  stopFile,  \* STOP_FILE exists
  stop,      \* stop_cluster.sh: idle, drain or final
  halted,    \* history: an operator's stop began and no start came since
  laps,      \* history: short laps since the last long one or the start
  faults, ops

loopVars == <<pc, tries, quick, tear, tail, laps>>
rankVars == <<rank, armed, wired>>
vars == <<loopVars, rankVars, launcher, guard, asked, stopFile, stop, halted,
          faults, ops>>

TypeOK ==
  /\ pc \in Places
  /\ tries \in 0..(MaxTries - 1)
  /\ quick \in 0..MaxQuick
  /\ tear \in 0..MaxTear
  /\ tail \in BOOLEAN
  /\ launcher \in BOOLEAN
  /\ guard \in {"off", "watch", "drain", "term", "kill"}
  /\ rank \in [Ranks -> {"down", "boot", "up", "hung", "stuck", "lost"}]
  /\ armed \in [Ranks -> BOOLEAN]
  /\ wired \in [Ranks -> BOOLEAN]
  /\ asked \in BOOLEAN
  /\ stopFile \in BOOLEAN
  /\ stop \in {"idle", "drain", "final"}
  /\ halted \in BOOLEAN
  /\ laps \in Nat
  /\ faults \in 0..MaxFaults
  /\ ops \in 0..MaxOps

Init ==
  /\ pc = "gone" /\ tries = 0 /\ quick = 0 /\ tear = 0 /\ tail = FALSE
  /\ launcher = FALSE /\ guard = "off"
  /\ rank = [r \in Ranks |-> "down"]
  /\ armed = [r \in Ranks |-> FALSE]
  /\ wired = [r \in Ranks |-> FALSE]
  /\ asked = FALSE /\ stopFile = FALSE /\ stop = "idle"
  /\ halted = FALSE /\ laps = 0 /\ faults = 0 /\ ops = 0

Alive == {r \in Ranks : rank[r] # "down"}

Serving == \A r \in Ranks : rank[r] = "up"

\* The event loop of rank 0 answers even while its generation is wedged.
Answers == rank[0] \in {"up", "hung", "stuck", "lost"}

(* The ranks R end, and those of Dirty leave their memory wired.  The       *)
(* partner of a rank that is gone blocks in its next collective: at once if *)
(* it is generating, or if it is rank 1, which idles in a broadcast.        *)
Ended(R, Dirty) ==
  /\ rank' = [r \in Ranks |->
       IF r \in R THEN "down"
       ELSE IF R # {} /\ rank[r] = "up" /\ (armed[r] \/ r = 1) THEN "stuck"
       ELSE rank[r]]
  /\ armed' = [r \in Ranks |-> armed[r] /\ r \notin R]
  /\ wired' = [r \in Ranks |->
       IF r \in R /\ rank[r] # "down" THEN r \in Dirty ELSE wired[r]]

(* SIGTERM to every rank.  The handler clears Metal's memory before it      *)
(* exits; a rank blocked in native code may not get to run it.              *)
Terminated ==
  \E R \in SUBSET Alive :
    /\ {r \in Alive : rank[r] \in {"boot", "up"}} \subseteq R
    /\ Ended(R, {})

(* SIGKILL to whatever SIGTERM has left: memory may stay wired.             *)
Killed == \E Dirty \in SUBSET Alive : Ended(Alive, Dirty)

-----------------------------------------------------------------------------
(* The ranks and their watchdogs.                                           *)

\* Loading needs both ranks: without its partner a rank blocks in it.
Boot(r) ==
  /\ rank[r] = "boot"
  /\ rank' = [rank EXCEPT ![r] = IF rank[1 - r] = "down" THEN "stuck" ELSE "up"]
  /\ UNCHANGED <<loopVars, armed, wired, launcher, guard, asked, stopFile,
                 stop, halted, faults, ops>>

\* run_generation on both ranks; with rank 1 gone, rank 0 blocks in it.
Generate ==
  /\ rank[0] = "up" /\ ~armed[0] /\ rank[1] # "boot"
  /\ IF rank[1] = "up"
       THEN armed' = [r \in Ranks |-> TRUE] /\ UNCHANGED rank
       ELSE armed' = [armed EXCEPT ![0] = TRUE]
            /\ rank' = [rank EXCEPT ![0] = "stuck"]
  /\ UNCHANGED <<loopVars, wired, launcher, guard, asked, stopFile, stop,
                 halted, faults, ops>>

Finish ==
  /\ Serving /\ \A r \in Ranks : armed[r]
  /\ armed' = [r \in Ranks |-> FALSE]
  /\ UNCHANGED <<loopVars, rank, wired, launcher, guard, asked, stopFile, stop,
                 halted, faults, ops>>

\* A segfault, the memory killer, a failed load: with or without its memory.
Crash(r) ==
  /\ faults < MaxFaults
  /\ rank[r] # "down"
  /\ \E Dirty \in SUBSET {r} : Ended({r}, Dirty)
  /\ faults' = faults + 1
  /\ UNCHANGED <<loopVars, launcher, guard, asked, stopFile, stop, halted, ops>>

\* Metal wedges under one rank, and the partner waits for it.
Wedge(r) ==
  /\ faults < MaxFaults
  /\ Serving /\ armed[r]
  /\ rank' = [s \in Ranks |-> IF s = r THEN "hung" ELSE "stuck"]
  /\ faults' = faults + 1
  /\ UNCHANGED <<loopVars, armed, wired, launcher, guard, asked, stopFile,
                 stop, halted, ops>>

\* Mutant: the watchdog only looks for a partner that is gone.
Stalled_Partner(r) == armed[r] /\ rank[r] = "stuck"

(* start_watchdog: a generation is active and no heartbeat came within the  *)
(* window.  clear_mlx_cache, then os._exit.                                 *)
Stalled(r) == armed[r] /\ rank[r] \in {"hung", "stuck"}

WatchdogExits(r) ==
  /\ Stalled(r)
  /\ Ended({r}, {})
  /\ UNCHANGED <<loopVars, launcher, guard, asked, stopFile, stop, halted,
                 faults, ops>>

\* No alarm is set on this path: a blocked clear keeps the process.
WatchdogBlocks(r) ==
  /\ faults < MaxFaults
  /\ Stalled(r)
  /\ rank' = [rank EXCEPT ![r] = "lost"]
  /\ faults' = faults + 1
  /\ UNCHANGED <<loopVars, armed, wired, launcher, guard, asked, stopFile,
                 stop, halted, ops>>

\* JACCL's progress guard ends a rank that waits in a collective (exit 75).
ProgressGuard(r) ==
  /\ rank[r] = "stuck"
  /\ Ended({r}, {})
  /\ tail' = TRUE
  /\ UNCHANGED <<pc, tries, quick, tear, laps, launcher, guard, asked,
                 stopFile, stop, halted, faults, ops>>

(* The shutdown request is carried out once rank 0 is idle: it tells rank 1 *)
(* and both exit; without rank 1 it blocks in that broadcast.               *)
ShutDown ==
  /\ asked
  /\ rank[0] = "up" /\ ~armed[0] /\ rank[1] # "boot"
  /\ IF rank[1] = "up"
       THEN Ended(Ranks, {})
       ELSE rank' = [rank EXCEPT ![0] = "stuck"] /\ UNCHANGED <<armed, wired>>
  /\ UNCHANGED <<loopVars, launcher, guard, asked, stopFile, stop, halted,
                 faults, ops>>

\* The system takes back the memory of a dead process after all.
Reclaim(r) ==
  /\ rank[r] = "down" /\ wired[r]
  /\ wired' = [wired EXCEPT ![r] = FALSE]
  /\ UNCHANGED <<loopVars, rank, armed, launcher, guard, asked, stopFile, stop,
                 halted, faults, ops>>

\* mlx.launch returns when its ranks are gone.
LauncherReturns ==
  /\ launcher /\ Alive = {}
  /\ launcher' = FALSE
  /\ UNCHANGED <<loopVars, rankVars, guard, asked, stopFile, stop, halted,
                 faults, ops>>

-----------------------------------------------------------------------------
(* auto_restart.sh.                                                         *)

LoopGone == pc' = "gone" /\ tries' = 0

\* orphan_memory_present: memory above a limit on either machine.
Orphaned == \E r \in Ranks : wired[r]

After(place) == IF place = "top" THEN "launch" ELSE "count"

\* The check at the top of a lap and again after the cluster has exited.
CheckMemory(place) ==
  /\ pc = place
  /\ IF Orphaned
       THEN /\ Killed
            /\ pc' = IF place = "top" THEN "topWait" ELSE "endWait"
            /\ launcher' = FALSE
       ELSE pc' = After(place) /\ UNCHANGED <<rankVars, launcher>>
  /\ UNCHANGED <<tries, quick, tear, tail, laps, guard, asked, stopFile, stop,
                 halted, faults, ops>>

LastTry == tries + 1 >= MaxTries

\* One iteration of its wait: the stop file first, then the memory.
AwaitMemory(place) ==
  /\ pc = IF place = "top" THEN "topWait" ELSE "endWait"
  /\ IF stopFile
       THEN stopFile' = FALSE /\ LoopGone
       ELSE /\ UNCHANGED stopFile
            /\ \/ ~Orphaned /\ pc' = After(place) /\ tries' = 0
               \/ Orphaned /\ ~LastTry /\ tries' = tries + 1 /\ UNCHANGED pc
               \/ Orphaned /\ LastTry /\ LoopGone
  /\ UNCHANGED <<quick, tear, tail, laps, rankVars, launcher, guard, asked,
                 stop, halted, faults, ops>>

(* A failed sync is only a warning here; launch_cluster.sh tries again and  *)
(* refuses to start the ranks.                                              *)
Launch ==
  /\ pc = "launch"
  /\ pc' = "wait" /\ guard' = "watch" /\ asked' = FALSE
  /\ \/ /\ launcher' = TRUE
        /\ rank' = [r \in Ranks |-> "boot"]
        /\ armed' = [r \in Ranks |-> FALSE]
        /\ wired' = [r \in Ranks |-> TRUE]
        /\ UNCHANGED faults
     \/ /\ faults < MaxFaults
        /\ faults' = faults + 1
        /\ UNCHANGED <<rankVars, launcher>>
  /\ UNCHANGED <<tries, quick, tear, tail, laps, stopFile, stop, halted, ops>>

\* wait $LAUNCH_PID returns; the guards are killed, wherever they are.
Reap ==
  /\ pc = "wait" /\ ~launcher
  /\ pc' = "over" /\ guard' = "off"
  /\ UNCHANGED <<tries, quick, tear, tail, laps, rankVars, launcher, asked,
                 stopFile, stop, halted, faults, ops>>

\* Mutant: the flag is only believed when the ranks exited with 0.
Over_CleanExit ==
  /\ pc = "over"
  /\ IF stopFile /\ ~tail THEN stopFile' = FALSE /\ LoopGone
                          ELSE pc' = "end" /\ UNCHANGED <<stopFile, tries>>
  /\ UNCHANGED <<quick, tear, tail, laps, rankVars, launcher, guard, asked,
                 stop, halted, faults, ops>>

Over ==
  /\ pc = "over"
  /\ IF stopFile THEN stopFile' = FALSE /\ LoopGone
                 ELSE pc' = "end" /\ UNCHANGED <<stopFile, tries>>
  /\ UNCHANGED <<quick, tear, tail, laps, rankVars, launcher, guard, asked,
                 stop, halted, faults, ops>>

\* Mutant: a teardown clears the count of startup failures.
Charged_Forgiving(isTear) ==
  /\ quick' = IF isTear THEN 0 ELSE quick + 1
  /\ tear' = IF isTear THEN tear + 1 ELSE 0

(* Short laps are charged to one of two budgets, by whether the last lines  *)
(* of startup.log show a teardown: this lap's, or an older one that the new *)
(* lap has not pushed out.                                                  *)
Charged(isTear) ==
  /\ quick' = IF isTear THEN quick ELSE quick + 1
  /\ tear' = IF isTear THEN tear + 1 ELSE tear

Spent(q, t) == q >= MaxQuick \/ t >= MaxTear

Count ==
  /\ pc = "count"
  /\ \E short \in BOOLEAN, isTear \in {FALSE, tail} :
       /\ IF short THEN Charged(isTear) /\ laps' = laps + 1
                   ELSE quick' = 0 /\ tear' = 0 /\ laps' = 0
       /\ tail' = isTear
       /\ pc' = IF Spent(quick', tear') THEN "gone" ELSE "sleep"
  /\ UNCHANGED <<tries, rankVars, launcher, guard, asked, stopFile, stop,
                 halted, faults, ops>>

Backoff ==
  /\ pc = "sleep"
  /\ pc' = "top"
  /\ UNCHANGED <<tries, quick, tear, tail, laps, rankVars, launcher, guard,
                 asked, stopFile, stop, halted, faults, ops>>

-----------------------------------------------------------------------------
(* api_liveness_guard and guarded_cluster_shutdown, a subshell of the loop. *)

(* The API is down.  The guard asks for a stop and a shutdown, and waits    *)
(* for the launcher to end.                                                 *)
GuardTrips ==
  /\ guard = "watch" /\ pc = "wait" /\ launcher
  /\ rank[0] = "down"
  /\ guard' = "drain"
  /\ UNCHANGED <<loopVars, rankVars, launcher, asked, stopFile, stop, halted,
                 faults, ops>>

(* The active request has not begun its prefill for too long.  One that     *)
(* wedges later is not noticed here.                                        *)
GuardSeesNoStart ==
  /\ guard = "watch" /\ pc = "wait" /\ launcher
  /\ rank[0] \in {"hung", "stuck", "lost"}
  /\ guard' = "drain"
  /\ asked' = TRUE
  /\ UNCHANGED <<loopVars, rankVars, launcher, stopFile, stop, halted, faults,
                 ops>>

\* The drain has run out: SIGTERM, which the launcher may survive.
GuardTerms ==
  /\ guard = "drain" /\ launcher
  /\ guard' = "term"
  /\ launcher' \in BOOLEAN
  /\ UNCHANGED <<loopVars, rankVars, asked, stopFile, stop, halted, faults,
                 ops>>

(* What follows races with the loop, whose wait returns as soon as the      *)
(* launcher is dead and which then kills this subshell.                     *)
GuardSweeps ==
  /\ guard = "term" /\ ~launcher
  /\ Terminated
  /\ guard' = "off"
  /\ UNCHANGED <<loopVars, launcher, asked, stopFile, stop, halted, faults,
                 ops>>

GuardKills ==
  /\ guard = "term" /\ launcher
  /\ launcher' = FALSE
  /\ guard' = "kill"
  /\ UNCHANGED <<loopVars, rankVars, asked, stopFile, stop, halted, faults,
                 ops>>

GuardSweepsHard ==
  /\ guard = "kill"
  /\ Killed
  /\ guard' = "off"
  /\ UNCHANGED <<loopVars, launcher, asked, stopFile, stop, halted, faults,
                 ops>>

-----------------------------------------------------------------------------
(* The operator.                                                            *)

\* Mutant: a busy server refuses the shutdown.
StopBegins_Busy ==
  /\ stop = "idle" /\ ops < MaxOps
  /\ pc \in StopPlaces
  /\ stopFile' = TRUE
  /\ halted' = TRUE
  /\ IF Answers THEN asked' = ~armed[0] /\ UNCHANGED rankVars
                ELSE UNCHANGED asked /\ Terminated
  /\ stop' = "drain"
  /\ ops' = ops + 1
  /\ UNCHANGED <<loopVars, launcher, guard, faults>>

(* stop_cluster.sh: the stop file, then /admin/shutdown; SIGTERM to the     *)
(* ranks only if nobody answers it.                                         *)
StopBegins ==
  /\ stop = "idle" /\ ops < MaxOps
  /\ pc \in StopPlaces
  /\ stopFile' = TRUE
  /\ halted' = TRUE
  /\ IF Answers THEN asked' = TRUE /\ UNCHANGED rankVars
                ELSE UNCHANGED asked /\ Terminated
  /\ stop' = "drain"
  /\ ops' = ops + 1
  /\ UNCHANGED <<loopVars, launcher, guard, faults>>

\* The API went down and ranks linger: SIGTERM.
StopTerms ==
  /\ stop = "drain"
  /\ ~Answers /\ Alive # {}
  /\ Terminated
  /\ UNCHANGED <<loopVars, launcher, guard, asked, stopFile, stop, halted,
                 faults, ops>>

\* No rank is left, or the drain time is over.
StopDrained ==
  /\ stop = "drain"
  /\ stop' = "final"
  /\ UNCHANGED <<loopVars, rankVars, launcher, guard, asked, stopFile, halted,
                 faults, ops>>

(* SIGTERM to the launcher and to the loop.  The loop's trap removes the    *)
(* lock and does not exit: a wait is cut short, a sleep is not.             *)
StopFinal ==
  /\ stop = "final"
  /\ launcher' = FALSE
  /\ IF pc = "wait" THEN pc' = "over" /\ guard' = "off"
                    ELSE UNCHANGED <<pc, guard>>
  /\ stop' = "idle"
  /\ UNCHANGED <<tries, quick, tear, tail, laps, rankVars, asked, stopFile,
                 halted, faults, ops>>

Begun ==
  /\ pc' = "top" /\ quick' = 0 /\ tear' = 0 /\ laps' = 0
  /\ halted' = FALSE
  /\ ops' = ops + 1
  /\ UNCHANGED <<tries, tail, rankVars, launcher, guard, asked, stop, faults>>

\* M3_Start.command: refuses a running cluster and wired memory.
Start ==
  /\ pc = "gone" /\ stop = "idle" /\ ops < MaxOps
  /\ ~Answers
  /\ ~Orphaned
  /\ stopFile' = FALSE
  /\ Begun

\* The dashboard's start unlinks another file and checks nothing.
ApiStart ==
  /\ pc = "gone" /\ stop = "idle" /\ ops < MaxOps
  /\ UNCHANGED stopFile
  /\ Begun

-----------------------------------------------------------------------------
Loop ==
  \/ \E place \in {"top", "end"} : CheckMemory(place) \/ AwaitMemory(place)
  \/ Launch \/ Reap \/ Over \/ Count \/ Backoff

Guard ==
  GuardTrips \/ GuardTerms \/ GuardSweeps \/ GuardKills \/ GuardSweepsHard

StopScript == StopTerms \/ StopDrained \/ StopFinal

RanksRun ==
  \/ \E r \in Ranks : Boot(r) \/ WatchdogExits(r) \/ ProgressGuard(r)
  \/ Finish \/ ShutDown \/ LauncherReturns

Next ==
  \/ Loop \/ Guard \/ StopScript \/ RanksRun \/ Generate
  \/ \E r \in Ranks : Crash(r) \/ Wedge(r) \/ WatchdogBlocks(r) \/ Reclaim(r)
  \/ GuardSeesNoStart \/ StopBegins \/ Start \/ ApiStart

Spec == Init /\ [][Next]_vars

(* Each script goes on, the ranks boot, finish what they generate, exit     *)
(* when they were asked to, and their watchdogs fire.  The keepwarm job     *)
(* generates now and then even when no client asks, and the guard's drain   *)
(* and its grace are bounded waits.                                         *)
FairSpec ==
  /\ Spec
  /\ WF_vars(Loop)
  /\ WF_vars(Guard)
  /\ WF_vars(StopFinal)
  /\ WF_vars(StopDrained)
  /\ WF_vars(Generate)
  /\ \A r \in Ranks : WF_vars(Boot(r)) /\ WF_vars(WatchdogExits(r))
                      /\ WF_vars(ProgressGuard(r))
  /\ WF_vars(LauncherReturns)
  /\ SF_vars(ShutDown)
  /\ WF_vars(Finish)

-----------------------------------------------------------------------------
(* Properties.                                                              *)

Launches == pc = "launch" /\ launcher' /\ ~launcher

(* A cluster is never launched while the memory of either machine is still  *)
(* wired, by a rank that survived its cluster or by one that died, whatever *)
(* crashed, was swept or cut short before (auto_restart.sh, the two memory  *)
(* checks); and once an operator's stop has begun, nothing is launched      *)
(* until he starts the cluster again, however the stop races with a crash,  *)
(* a teardown, a guard or the wait for memory (M3_Stop.command: it stops    *)
(* the ranks and the auto-restart).                                         *)
LaunchesAreSafe == [][Launches => ~halted /\ \A r \in Ranks : ~wired[r]]_vars

(* However failures and teardowns alternate, the number of short laps since *)
(* the last long one stays within the two budgets together: the loop does   *)
(* not hammer the machines.  (With the type invariant.)                     *)
LaunchBudget == TypeOK /\ laps < MaxQuick + MaxTear

Lost == \E r \in Ranks : rank[r] = "lost"

(* After a crash, a wedge or a failed launch the cluster serves again, or   *)
(* the loop has given up.  A watchdog whose clear blocks is excepted.       *)
Recovers == []<>(Serving \/ pc = "gone" \/ Lost)

(* A stop ends: the loop is gone and no rank is left, unless the operator   *)
(* has started again; again but for a lost rank.                            *)
StopEnds == halted ~> (~halted \/ Lost \/ (pc = "gone" /\ Alive = {}))

=============================================================================
