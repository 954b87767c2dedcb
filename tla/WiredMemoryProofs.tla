-------------------------- MODULE WiredMemoryProofs --------------------------
(***************************************************************************)
(* Theorems about the two parts that keep the wired memory in bounds.      *)
(*                                                                         *)
(* RestartLoop, across launches: the types, the budgets of short laps and  *)
(* what a launch may rely on, for every size of the budgets and any number *)
(* of faults and operations.                                               *)
(*                                                                         *)
(* PrefillAdmission, within a request: for every layout of the memory,     *)
(* every estimate and budget, that the guard makes room for the prefills   *)
(* it looks at, and that it gives up no slot too many.                     *)
(***************************************************************************)
EXTENDS RestartLoop, PrefillAdmission, SequenceTheorems, FiniteSetTheorems,
        WellFoundedInduction, TLAPS


\* A rank that lives has its memory wired.
Held == \A r \in Ranks : rank[r] # "down" => wired[r]

\* Short laps are charged, and the loop goes on only within both budgets.
Budgets ==
  /\ laps <= quick + tear
  /\ quick + tear < MaxQuick + MaxTear
  /\ pc # "gone" => quick < MaxQuick /\ tear < MaxTear

\* The memory check that lets the loop launch still holds when it does.
Clear == pc = "launch" => \A r \in Ranks : ~wired[r]

\* Where the loop will still look at the stop file before it launches.
Watched == {"wait", "over", "topWait", "endWait"}

\* A stop has ended the loop, or the loop is going to see it.
Noticed == halted => pc = "gone" \/ (stopFile /\ pc \in Watched)

-----------------------------------------------------------------------------
(* The helpers that several actions share.                                  *)

\* Whatever ends ranks keeps their types and wires no memory.
LEMMA EndedKeeps ==
  ASSUME TypeOK, NEW R \in SUBSET Ranks, NEW Dirty \in SUBSET Ranks,
         Ended(R, Dirty)
  PROVE  /\ rank' \in [Ranks -> {"down", "boot", "up", "hung", "stuck", "lost"}]
         /\ armed' \in [Ranks -> BOOLEAN]
         /\ wired' \in [Ranks -> BOOLEAN]
         /\ Held => Held' /\ \A r \in Ranks : wired'[r] => wired[r]
<1>1. rank' \in [Ranks -> {"down", "boot", "up", "hung", "stuck", "lost"}]
  BY DEF Ended, TypeOK
<1>2. armed' \in [Ranks -> BOOLEAN] /\ wired' \in [Ranks -> BOOLEAN]
  <2>1. \A r \in Ranks : (armed[r] /\ r \notin R) \in BOOLEAN
    OBVIOUS
  <2>2. \A r \in Ranks : wired[r] \in BOOLEAN
    BY DEF TypeOK
  <2>3. \A r \in Ranks :
          (IF r \in R /\ rank[r] # "down" THEN r \in Dirty ELSE wired[r])
            \in BOOLEAN
    <3>1. ASSUME NEW r \in Ranks, r \in R /\ rank[r] # "down"
          PROVE  (r \in Dirty) \in BOOLEAN
      OBVIOUS
    <3> QED BY <2>2, <3>1, Zenon
  <2> QED BY <2>1, <2>3 DEF Ended
<1>3. ASSUME Held, NEW r \in Ranks
      PROVE  /\ rank'[r] # "down" => wired'[r]
             /\ wired'[r] => wired[r]
  <2>1. rank'[r] # "down" => r \notin R /\ rank[r] # "down"
    BY DEF Ended, TypeOK
  <2>2. wired'[r] = IF r \in R /\ rank[r] # "down" THEN r \in Dirty
                    ELSE wired[r]
    BY DEF Ended
  <2> QED BY <1>3, <2>1, <2>2 DEF Held
<1> QED BY <1>1, <1>2, <1>3 DEF Held

LEMMA TerminatedEnds ==
  ASSUME TypeOK, Terminated
  PROVE  \E R, Dirty \in SUBSET Ranks : Ended(R, Dirty)
BY DEF Terminated, Alive

LEMMA KilledEnds ==
  ASSUME TypeOK, Killed
  PROVE  \E R, Dirty \in SUBSET Ranks : Ended(R, Dirty)
BY DEF Killed, Alive

\* What a step does to the ranks, as far as memory is concerned: it wires none,
\* or it launches.
Keeps ==
  /\ rank' \in [Ranks -> {"down", "boot", "up", "hung", "stuck", "lost"}]
  /\ armed' \in [Ranks -> BOOLEAN]
  /\ wired' \in [Ranks -> BOOLEAN]
  /\ Held => Held' /\ \A r \in Ranks : wired'[r] => wired[r]

LEMMA EndsKeep ==
  ASSUME TypeOK, \E R, Dirty \in SUBSET Ranks : Ended(R, Dirty)
  PROVE  Keeps
BY EndedKeeps DEF Keeps

LEMMA SameKeeps ==
  ASSUME TypeOK, UNCHANGED rankVars
  PROVE  Keeps
BY DEF Keeps, TypeOK, rankVars, Held

\* Every step but a launch keeps the memory.
LEMMA StepsKeep ==
  ASSUME TypeOK, [Next]_vars, ~Launch
  PROVE  Keeps
<1>1. CASE UNCHANGED vars
  BY <1>1, SameKeeps DEF vars, rankVars
<1>2. CASE \E place \in {"top", "end"} :
             CheckMemory(place) \/ AwaitMemory(place)
  <2>1. PICK place \in {"top", "end"} : CheckMemory(place) \/ AwaitMemory(place)
    BY <1>2
  <2>2. CASE UNCHANGED rankVars
    BY <2>2, SameKeeps
  <2>3. CASE Killed
    BY <2>3, KilledEnds, EndsKeep
  <2> QED BY <2>1, <2>2, <2>3 DEF CheckMemory, AwaitMemory
<1>3. CASE Reap \/ Over \/ Count \/ Backoff
  BY <1>3, SameKeeps DEF Reap, Over, Count, Backoff
<1>4. CASE Guard
  <2>1. CASE UNCHANGED rankVars
    BY <2>1, SameKeeps
  <2>2. CASE Killed
    BY <2>2, KilledEnds, EndsKeep
  <2>3. CASE Terminated
    BY <2>3, TerminatedEnds, EndsKeep
  <2> QED
    BY <1>4, <2>1, <2>2, <2>3
    DEF Guard, GuardTrips, GuardTerms, GuardSweeps, GuardKills, GuardSweepsHard
<1>5. CASE StopScript
  <2>1. CASE StopTerms
    BY <2>1, TerminatedEnds, EndsKeep DEF StopTerms
  <2>2. CASE StopDrained \/ StopFinal
    BY <2>2, SameKeeps DEF StopDrained, StopFinal
  <2> QED BY <1>5, <2>1, <2>2 DEF StopScript
<1>6. CASE RanksRun
  <2>1. ASSUME NEW r \in Ranks, Boot(r) PROVE Keeps
    BY <2>1 DEF Boot, Keeps, TypeOK, Held
  <2>2. ASSUME NEW r \in Ranks, WatchdogExits(r) \/ ProgressGuard(r) PROVE Keeps
    <3>1. Ended({r}, {})
      BY <2>2 DEF WatchdogExits, ProgressGuard
    <3> QED BY <3>1, EndsKeep
  <2>3. CASE Finish
    BY <2>3 DEF Finish, Keeps, TypeOK, Held
  <2>4. CASE ShutDown
    <3>1. CASE Ended(Ranks, {})
      BY <3>1, EndsKeep
    <3>2. CASE /\ rank[0] = "up"
               /\ rank' = [rank EXCEPT ![0] = "stuck"]
               /\ UNCHANGED <<armed, wired>>
      BY <3>2 DEF Keeps, TypeOK, Held, Ranks
    <3> QED BY <2>4, <3>1, <3>2 DEF ShutDown
  <2>5. CASE LauncherReturns
    BY <2>5, SameKeeps DEF LauncherReturns
  <2> QED BY <1>6, <2>1, <2>2, <2>3, <2>4, <2>5 DEF RanksRun
<1>7. CASE Generate
  BY <1>7 DEF Generate, Keeps, TypeOK, Held, Ranks
<1>8. ASSUME NEW r \in Ranks,
             Crash(r) \/ Wedge(r) \/ WatchdogBlocks(r) \/ Reclaim(r)
      PROVE  Keeps
  <2>1. CASE Crash(r)
    <3>1. PICK Dirty \in SUBSET {r} : Ended({r}, Dirty)
      BY <2>1 DEF Crash
    <3> QED BY <3>1, EndsKeep
  <2>2. CASE Wedge(r)
    BY <2>2 DEF Wedge, Serving, Keeps, TypeOK, Held
  <2>3. CASE WatchdogBlocks(r)
    BY <2>3 DEF WatchdogBlocks, Stalled, Keeps, TypeOK, Held
  <2>4. CASE Reclaim(r)
    BY <2>4 DEF Reclaim, Keeps, TypeOK, Held
  <2> QED BY <1>8, <2>1, <2>2, <2>3, <2>4
<1>9. CASE GuardSeesNoStart
  BY <1>9, SameKeeps DEF GuardSeesNoStart
<1>10. CASE StopBegins
  <2>1. CASE UNCHANGED rankVars
    BY <2>1, SameKeeps
  <2>2. CASE Terminated
    BY <2>2, TerminatedEnds, EndsKeep
  <2> QED BY <1>10, <2>1, <2>2 DEF StopBegins
<1>11. CASE Start \/ ApiStart
  BY <1>11, SameKeeps DEF Start, ApiStart, Begun
<1> QED
  BY <1>1, <1>2, <1>3, <1>4, <1>5, <1>6, <1>7, <1>8, <1>9, <1>10, <1>11
  DEF Next, Loop

-----------------------------------------------------------------------------
(* The types.                                                               *)

\* The places and counters of TypeOK.
Marks ==
  /\ pc \in Places
  /\ tries \in 0..(MaxTries - 1)
  /\ quick \in 0..MaxQuick
  /\ tear \in 0..MaxTear
  /\ guard \in {"off", "watch", "drain", "term", "kill"}
  /\ stop \in {"idle", "drain", "final"}
  /\ laps \in Nat
  /\ faults \in 0..MaxFaults
  /\ ops \in 0..MaxOps

\* Its flags.
Flags ==
  /\ tail \in BOOLEAN
  /\ launcher \in BOOLEAN
  /\ asked \in BOOLEAN
  /\ stopFile \in BOOLEAN
  /\ halted \in BOOLEAN

\* The loop is at work only within both budgets.
InBudget == pc # "gone" => quick < MaxQuick /\ tear < MaxTear

LEMMA MarksStep ==
  ASSUME TypeOK, InBudget, [Next]_vars
  PROVE  Marks'
<1> USE RestartAssumption
<1>1. CASE UNCHANGED vars
  BY <1>1 DEF vars, loopVars, TypeOK, Marks
<1>2. ASSUME NEW place \in {"top", "end"}, CheckMemory(place)
      PROVE  Marks'
  BY <1>2 DEF CheckMemory, After, Places, TypeOK, Marks
<1>3. ASSUME NEW place \in {"top", "end"}, AwaitMemory(place)
      PROVE  Marks'
  <2>1. pc' \in Places
    BY <1>3 DEF AwaitMemory, After, LoopGone, Places, TypeOK
  <2>2. tries' \in 0..(MaxTries - 1)
    BY <1>3 DEF AwaitMemory, LoopGone, LastTry, TypeOK
  <2> QED BY <1>3, <2>1, <2>2 DEF AwaitMemory, TypeOK, Marks
<1>4. CASE Launch
  BY <1>4 DEF Launch, Places, TypeOK, Marks
<1>5. CASE Reap \/ Over \/ Backoff
  BY <1>5 DEF Reap, Over, Backoff, LoopGone, Places, TypeOK, Marks
<1>6. CASE Count
  <2>1. quick < MaxQuick /\ tear < MaxTear
    BY <1>6 DEF Count, InBudget
  <2>2. PICK short \in BOOLEAN, isTear \in {FALSE, tail} :
          /\ IF short THEN Charged(isTear) /\ laps' = laps + 1
                      ELSE quick' = 0 /\ tear' = 0 /\ laps' = 0
          /\ tail' = isTear
          /\ pc' = IF Spent(quick', tear') THEN "gone" ELSE "sleep"
    BY <1>6 DEF Count
  <2>3. quick' \in 0..MaxQuick /\ tear' \in 0..MaxTear /\ laps' \in Nat
    BY <2>1, <2>2 DEF Charged, TypeOK
  <2>4. pc' \in Places
    BY <2>2 DEF Places
  <2> QED BY <1>6, <2>3, <2>4 DEF Count, TypeOK, Marks
<1>7. CASE Guard \/ GuardSeesNoStart
  BY <1>7
  DEF Guard, GuardTrips, GuardTerms, GuardSweeps, GuardKills, GuardSweepsHard,
      GuardSeesNoStart, loopVars, TypeOK, Marks
<1>8. CASE StopScript \/ StopBegins
  <2>1. CASE StopTerms \/ StopDrained
    BY <2>1 DEF StopTerms, StopDrained, loopVars, TypeOK, Marks
  <2>2. CASE StopFinal
    BY <2>2 DEF StopFinal, Places, TypeOK, Marks
  <2>3. CASE StopBegins
    BY <2>3 DEF StopBegins, loopVars, TypeOK, Marks
  <2> QED BY <1>8, <2>1, <2>2, <2>3 DEF StopScript
<1>9. CASE RanksRun \/ Generate
  BY <1>9
  DEF RanksRun, Boot, WatchdogExits, ProgressGuard, Finish, ShutDown,
      LauncherReturns, Generate, loopVars, TypeOK, Marks
<1>10. ASSUME NEW r \in Ranks,
              Crash(r) \/ Wedge(r) \/ WatchdogBlocks(r) \/ Reclaim(r)
       PROVE  Marks'
  BY <1>10 DEF Crash, Wedge, WatchdogBlocks, Reclaim, loopVars, TypeOK, Marks
<1>11. CASE Start \/ ApiStart
  BY <1>11 DEF Start, ApiStart, Begun, Places, TypeOK, Marks
<1> QED
  BY <1>1, <1>2, <1>3, <1>4, <1>5, <1>6, <1>7, <1>8, <1>9, <1>10, <1>11
  DEF Next, Loop

\* The flags; every step sets or keeps each of them.
LEMMA FlagsStep ==
  ASSUME TypeOK, [Next]_vars
  PROVE  Flags'
<1>1. tail' \in BOOLEAN
  BY DEF TypeOK, vars, loopVars, rankVars, Next, Loop, CheckMemory, AwaitMemory,
      LoopGone, Launch, Reap, Over, Count, Backoff, Guard, GuardTrips,
      GuardTerms, GuardSweeps, GuardKills, GuardSweepsHard, GuardSeesNoStart,
      StopScript, StopTerms, StopDrained, StopFinal, StopBegins, Start,
      ApiStart, Begun, RanksRun, Boot, WatchdogExits, ProgressGuard, Finish,
      ShutDown, LauncherReturns, Generate, Crash, Wedge, WatchdogBlocks,
      Reclaim
<1>2. launcher' \in BOOLEAN
  BY DEF TypeOK, vars, loopVars, rankVars, Next, Loop, CheckMemory, AwaitMemory,
      LoopGone, Launch, Reap, Over, Count, Backoff, Guard, GuardTrips,
      GuardTerms, GuardSweeps, GuardKills, GuardSweepsHard, GuardSeesNoStart,
      StopScript, StopTerms, StopDrained, StopFinal, StopBegins, Start,
      ApiStart, Begun, RanksRun, Boot, WatchdogExits, ProgressGuard, Finish,
      ShutDown, LauncherReturns, Generate, Crash, Wedge, WatchdogBlocks,
      Reclaim
<1>3. asked' \in BOOLEAN
  BY DEF TypeOK, vars, loopVars, rankVars, Next, Loop, CheckMemory, AwaitMemory,
      LoopGone, Launch, Reap, Over, Count, Backoff, Guard, GuardTrips,
      GuardTerms, GuardSweeps, GuardKills, GuardSweepsHard, GuardSeesNoStart,
      StopScript, StopTerms, StopDrained, StopFinal, StopBegins, Start,
      ApiStart, Begun, RanksRun, Boot, WatchdogExits, ProgressGuard, Finish,
      ShutDown, LauncherReturns, Generate, Crash, Wedge, WatchdogBlocks,
      Reclaim
<1>4. stopFile' \in BOOLEAN
  BY DEF TypeOK, vars, loopVars, rankVars, Next, Loop, CheckMemory, AwaitMemory,
      LoopGone, Launch, Reap, Over, Count, Backoff, Guard, GuardTrips,
      GuardTerms, GuardSweeps, GuardKills, GuardSweepsHard, GuardSeesNoStart,
      StopScript, StopTerms, StopDrained, StopFinal, StopBegins, Start,
      ApiStart, Begun, RanksRun, Boot, WatchdogExits, ProgressGuard, Finish,
      ShutDown, LauncherReturns, Generate, Crash, Wedge, WatchdogBlocks,
      Reclaim
<1>5. halted' \in BOOLEAN
  BY DEF TypeOK, vars, loopVars, rankVars, Next, Loop, CheckMemory, AwaitMemory,
      LoopGone, Launch, Reap, Over, Count, Backoff, Guard, GuardTrips,
      GuardTerms, GuardSweeps, GuardKills, GuardSweepsHard, GuardSeesNoStart,
      StopScript, StopTerms, StopDrained, StopFinal, StopBegins, Start,
      ApiStart, Begun, RanksRun, Boot, WatchdogExits, ProgressGuard, Finish,
      ShutDown, LauncherReturns, Generate, Crash, Wedge, WatchdogBlocks,
      Reclaim
<1> QED BY <1>1, <1>2, <1>3, <1>4, <1>5 DEF Flags

-----------------------------------------------------------------------------
(* The inductive invariant.                                                 *)

Inv == TypeOK /\ Held /\ Budgets /\ Clear

LEMMA InvInit == ASSUME Init PROVE Inv /\ Noticed
<1> USE RestartAssumption
<1>1. TypeOK
  <2>1. Marks
    BY DEF Init, Marks, Places
  <2>2. Flags
    BY DEF Init, Flags
  <2>3. /\ rank \in [Ranks -> {"down", "boot", "up", "hung", "stuck", "lost"}]
        /\ armed \in [Ranks -> BOOLEAN]
        /\ wired \in [Ranks -> BOOLEAN]
    BY DEF Init
  <2> QED BY <2>1, <2>2, <2>3 DEF TypeOK, Marks, Flags
<1>2. Held /\ Budgets /\ Clear /\ Noticed
  BY DEF Init, Held, Budgets, Clear, Noticed
<1> QED BY <1>1, <1>2 DEF Inv

\* A launch leaves every rank with its memory wired.
LEMMA LaunchKeeps ==
  ASSUME TypeOK, Held, Launch
  PROVE  /\ rank' \in [Ranks -> {"down", "boot", "up", "hung", "stuck", "lost"}]
         /\ armed' \in [Ranks -> BOOLEAN]
         /\ wired' \in [Ranks -> BOOLEAN]
         /\ Held'
BY DEF Launch, rankVars, TypeOK, Held

\* The budgets only move where a lap is counted or a start resets them.
LEMMA BudgetsStep ==
  ASSUME TypeOK, Budgets, [Next]_vars
  PROVE  Budgets'
<1> USE RestartAssumption
<1>1. CASE Count
  <2>1. quick < MaxQuick /\ tear < MaxTear
    BY <1>1 DEF Count, Budgets
  <2>2. PICK short \in BOOLEAN, isTear \in {FALSE, tail} :
          /\ IF short THEN Charged(isTear) /\ laps' = laps + 1
                      ELSE quick' = 0 /\ tear' = 0 /\ laps' = 0
          /\ tail' = isTear
          /\ pc' = IF Spent(quick', tear') THEN "gone" ELSE "sleep"
    BY <1>1 DEF Count
  <2>3. CASE ~short
    BY <2>2, <2>3 DEF Spent, Budgets
  <2>4. CASE short /\ isTear
    <3>1. quick' = quick /\ tear' = tear + 1 /\ laps' = laps + 1
      BY <2>2, <2>4 DEF Charged
    <3> QED BY <2>1, <2>2, <3>1 DEF Spent, Budgets, TypeOK
  <2>5. CASE short /\ ~isTear
    <3>1. quick' = quick + 1 /\ tear' = tear /\ laps' = laps + 1
      BY <2>2, <2>5 DEF Charged
    <3> QED BY <2>1, <2>2, <3>1 DEF Spent, Budgets, TypeOK
  <2>6. isTear \in BOOLEAN /\ short \in BOOLEAN
    BY DEF TypeOK
  <2> QED BY <2>3, <2>4, <2>5, <2>6
<1>2. CASE Start \/ ApiStart
  BY <1>2 DEF Start, ApiStart, Begun, Budgets
<1>3. ASSUME UNCHANGED <<quick, tear, laps>>, pc = "gone" => pc' = "gone"
      PROVE  Budgets'
  BY <1>3 DEF Budgets
<1>4. CASE ~Count /\ ~Start /\ ~ApiStart
  <2>1. UNCHANGED <<quick, tear, laps>> /\ (pc = "gone" => pc' = "gone")
    BY <1>4
    DEF Next, Loop, CheckMemory, AwaitMemory, LoopGone, Launch, Reap, Over,
        Backoff, Guard, GuardTrips, GuardTerms, GuardSweeps, GuardKills,
        GuardSweepsHard, GuardSeesNoStart, StopScript, StopTerms, StopDrained,
        StopFinal, StopBegins, RanksRun, Boot, WatchdogExits, ProgressGuard,
        Finish, ShutDown, LauncherReturns, Generate, Crash, Wedge,
        WatchdogBlocks, Reclaim, loopVars, vars
  <2> QED BY <1>3, <2>1
<1> QED BY <1>1, <1>2, <1>4

\* The loop comes to a launch only from a check that found nothing wired.
LEMMA ClearStep ==
  ASSUME TypeOK, Held, Clear, [Next]_vars
  PROVE  Clear'
<1>1. CASE Launch
  BY <1>1 DEF Launch, Clear
<1>2. CASE ~Launch
  <2>1. \A r \in Ranks : wired'[r] => wired[r]
    BY <1>2, StepsKeep DEF Keeps
  <2>2. ASSUME pc' = "launch" PROVE \A r \in Ranks : ~wired[r]
    <3>1. CASE pc = "launch"
      BY <3>1 DEF Clear
    <3>2. CASE \E place \in {"top", "end"} :
                 CheckMemory(place) \/ AwaitMemory(place)
      BY <2>2, <3>2, <3>1
      DEF CheckMemory, AwaitMemory, LoopGone, Orphaned, rankVars
    <3>3. CASE pc # "launch" /\ ~\E place \in {"top", "end"} :
                 CheckMemory(place) \/ AwaitMemory(place)
      BY <1>2, <2>2, <3>3
      DEF Next, Loop, LoopGone, Reap, Over, Count, Backoff, Guard, GuardTrips,
          GuardTerms, GuardSweeps, GuardKills, GuardSweepsHard,
          GuardSeesNoStart, StopScript, StopTerms, StopDrained, StopFinal,
          StopBegins, Start, ApiStart, Begun, RanksRun, Boot, WatchdogExits,
          ProgressGuard, Finish, ShutDown, LauncherReturns, Generate, Crash,
          Wedge, WatchdogBlocks, Reclaim, loopVars, vars
    <3> QED BY <3>1, <3>2, <3>3
  <2> QED BY <2>1, <2>2 DEF Clear
<1> QED BY <1>1, <1>2

LEMMA InvStep == ASSUME Inv, [Next]_vars PROVE Inv'
<1>1. Marks' /\ Flags'
  BY MarksStep, FlagsStep DEF Inv, Budgets, InBudget
<1>2. /\ rank' \in [Ranks -> {"down", "boot", "up", "hung", "stuck", "lost"}]
      /\ armed' \in [Ranks -> BOOLEAN]
      /\ wired' \in [Ranks -> BOOLEAN]
      /\ Held'
  <2>1. CASE Launch
    BY <2>1, LaunchKeeps DEF Inv
  <2>2. CASE ~Launch
    BY <2>2, StepsKeep DEF Inv, Keeps
  <2> QED BY <2>1, <2>2
<1>3. TypeOK'
  BY <1>1, <1>2 DEF Marks, Flags, TypeOK
<1>4. Budgets' /\ Clear'
  BY BudgetsStep, ClearStep DEF Inv
<1> QED BY <1>2, <1>3, <1>4 DEF Inv

(* Memory, budgets, the launch and the stop file always fit together, as far *)
(* as they do not depend on where the operator stops the loop.              *)
THEOREM Invariant == Spec => []Inv
<1>1. Init => Inv
  BY InvInit
<1>2. Inv /\ [Next]_vars => Inv'
  BY InvStep
<1> QED BY <1>1, <1>2, PTL DEF Spec

(* For all budgets the short laps since the last long one stay below their  *)
(* sum, however quick failures and teardowns alternate.                     *)
THEOREM LaunchesBounded == Spec => []LaunchBudget
<1>1. Inv => LaunchBudget
  BY RestartAssumption DEF Inv, Budgets, TypeOK, LaunchBudget
<1> QED BY <1>1, Invariant, PTL

-----------------------------------------------------------------------------
(* An operator's stop.                                                      *)

\* The steps that move the loop, the stop file or the history of the stop.
LEMMA NoticedStep ==
  ASSUME Inv, Noticed, [Next]_vars, StopPlaces \subseteq Watched \cup {"gone"}
  PROVE  Noticed'
<1>1. CASE \E place \in {"top", "end"} : CheckMemory(place)
  BY <1>1 DEF CheckMemory, Noticed, Watched
<1>2. CASE \E place \in {"top", "end"} : AwaitMemory(place)
  BY <1>2 DEF AwaitMemory, LoopGone, Noticed, Watched
<1>3. CASE Launch \/ Reap \/ Over \/ Count \/ Backoff
  BY <1>3 DEF Launch, Reap, Over, Count, Backoff, LoopGone, Noticed, Watched
<1>4. CASE StopBegins
  BY <1>4 DEF StopBegins, loopVars, Noticed, Watched
<1>5. CASE StopFinal
  BY <1>5 DEF StopFinal, Noticed, Watched
<1>6. CASE Start \/ ApiStart
  BY <1>6 DEF Start, ApiStart, Begun, Noticed
<1>7. CASE UNCHANGED <<pc, stopFile, halted>>
  BY <1>7 DEF Noticed
<1>8. CASE Guard \/ GuardSeesNoStart \/ StopTerms \/ StopDrained \/ RanksRun
           \/ Generate \/ UNCHANGED vars
  BY <1>7, <1>8
  DEF Guard, GuardTrips, GuardTerms, GuardSweeps, GuardKills, GuardSweepsHard,
      GuardSeesNoStart, StopTerms, StopDrained, RanksRun, Boot, WatchdogExits,
      ProgressGuard, Finish, ShutDown, LauncherReturns, Generate, loopVars, vars
<1>9. ASSUME NEW r \in Ranks,
             Crash(r) \/ Wedge(r) \/ WatchdogBlocks(r) \/ Reclaim(r)
      PROVE  Noticed'
  BY <1>7, <1>9 DEF Crash, Wedge, WatchdogBlocks, Reclaim, loopVars
<1> QED
  BY <1>1, <1>2, <1>3, <1>4, <1>5, <1>6, <1>8, <1>9 DEF Next, Loop, StopScript

\* At a launch nothing is wired and no stop is pending.
LEMMA SafeStep ==
  ASSUME Inv, Noticed
  PROVE  Launches => ~halted /\ \A r \in Ranks : ~wired[r]
BY DEF Inv, Noticed, Clear, Launches, Watched

(* Nothing is ever launched on wired memory, nor after a stop, provided the *)
(* operator stops the loop only where it will read the stop file again: the *)
(* places the run of the backoff counterexample adds are not among them.    *)
THEOREM LaunchesSafe ==
  ASSUME StopPlaces \subseteq Watched \cup {"gone"}
  PROVE  Spec => LaunchesAreSafe
<1>1. Init => Inv /\ Noticed
  BY InvInit
<1>2. Inv /\ Noticed /\ [Next]_vars => (Inv /\ Noticed)'
  BY InvStep, NoticedStep
<1>3. Inv /\ Noticed => [Launches => ~halted /\ \A r \in Ranks : ~wired[r]]_vars
  BY SafeStep
<1> QED BY <1>1, <1>2, <1>3, PTL DEF Spec, LaunchesAreSafe

-----------------------------------------------------------------------------
(* The admission guard: numbers first.                                      *)

LEMMA LeastExists ==
  ASSUME NEW S, S \subseteq Nat, S # {}
  PROVE  \E i \in S: \A j \in S: i <= j
<1>1. PICK i \in S: \A j \in S: ~(<<j, i>> \in OpToRel(<, Nat))
  BY NatLessThanWellFounded, WFMin
<1>2. \A j \in S: i <= j
  <2>1. SUFFICES ASSUME NEW j \in S, j < i PROVE FALSE
    OBVIOUS
  <2>2. <<j, i>> \in OpToRel(<, Nat)
    BY <2>1 DEF OpToRel
  <2> QED
    BY <1>1, <2>2
<1> QED
  BY <1>2

-----------------------------------------------------------------------------
(* Sums.  The induction theorems of the library take an operator; a set of  *)
(* numbers that is closed under successors does the same here.              *)

LEMMA Climb ==
  ASSUME NEW n \in Nat, NEW S, 0 \in S, \A k \in 1 .. n: k - 1 \in S => k \in S
  PROVE  0 .. n \subseteq S
<1> DEFINE Out == {k \in 0 .. n: k \notin S}
<1>1. SUFFICES ASSUME Out # {} PROVE FALSE
  OBVIOUS
<1>2. PICK k \in Out: \A j \in Out: k <= j
  <2>1. Out \subseteq Nat
    OBVIOUS
  <2> HIDE DEF Out
  <2> QED
    BY <1>1, <2>1, LeastExists
<1>3. k \in 1 .. n /\ k - 1 \in 0 .. n /\ k - 1 \notin Out
  BY <1>2
<1> QED
  BY <1>3

\* f counts seq up to every place: the function that Added applies.
Counts(seq, f) ==
  f = [n \in 0 .. Len(seq) |-> IF n = 0 THEN 0 ELSE f[n - 1] + seq[n]]

\* The sum of a sequence of numbers: Added is the last of its running sums.
LEMMA AddedIs ==
  ASSUME NEW seq \in Seq(Nat)
  PROVE  \E f \in [0 .. Len(seq) -> Nat]:
           /\ f[0] = 0 /\ \A n \in 1 .. Len(seq): f[n] = f[n - 1] + seq[n]
           /\ Added(seq) = f[Len(seq)]
<1> DEFINE Upto(k, f) == /\ f[0] = 0
                         /\ \A n \in 1 .. k: f[n] = f[n - 1] + seq[n]
           Sum(k) == \E f \in [0 .. k -> Nat]: Upto(k, f)
           S == {k \in 0 .. Len(seq): Sum(k)}
<1>0. Len(seq) \in Nat /\ \A n \in 1 .. Len(seq): seq[n] \in Nat
  OBVIOUS
<1>1. 0 \in S
  <2> DEFINE f == [n \in 0 .. 0 |-> 0]
  <2>1. f \in [0 .. 0 -> Nat] /\ Upto(0, f)
    OBVIOUS
  <2>2. Sum(0)
    <3> HIDE DEF f
    <3> QED
      BY <2>1
  <2> HIDE DEF Sum
  <2> QED
    BY <1>0, <2>2
<1>2. \A k \in 1 .. Len(seq): k - 1 \in S => k \in S
  <2> SUFFICES ASSUME NEW k \in 1 .. Len(seq), k - 1 \in S PROVE k \in S
    OBVIOUS
  <2>0. Sum(k - 1)
    <3> HIDE DEF Sum
    <3> QED
      OBVIOUS
  <2>1. PICK g \in [0 .. k - 1 -> Nat]: Upto(k - 1, g)
    BY <2>0
  <2> DEFINE f == [n \in 0 .. k |-> IF n = k THEN g[k - 1] + seq[k] ELSE g[n]]
  <2>2. f \in [0 .. k -> Nat]
    BY <1>0
  <2>3. f[0] = 0
    BY <2>1
  <2>4. \A n \in 1 .. k: f[n] = f[n - 1] + seq[n]
    BY <2>1
  <2> HIDE DEF f
  <2>5. Upto(k, f)
    BY <2>3, <2>4
  <2>6. Sum(k)
    BY <2>2, <2>5
  <2> HIDE DEF Sum
  <2> QED
    BY <1>0, <2>6
<1>3. 0 .. Len(seq) \subseteq S
  <2> HIDE DEF S
  <2> QED
    BY <1>0, <1>1, <1>2, Climb
<1>4. PICK f \in [0 .. Len(seq) -> Nat]: Upto(Len(seq), f)
  <2>1. Sum(Len(seq))
    <3> HIDE DEF Sum
    <3> QED
      BY <1>0, <1>3
  <2> QED
    BY <2>1
<1>5. Counts(seq, f)
  <2> DEFINE g == [n \in 0 .. Len(seq) |->
                     IF n = 0 THEN 0 ELSE f[n - 1] + seq[n]]
  <2>1. \A n \in 0 .. Len(seq): f[n] = g[n]
    BY <1>0, <1>4
  <2>2. f = g
    BY <2>1
  <2> QED
    BY <2>2 DEF Counts
<1>6. \E g: Counts(seq, g)
  BY <1>5
<1> DEFINE h == CHOOSE g: Counts(seq, g)
<1>7. Counts(seq, h) /\ Added(seq) = h[Len(seq)]
  <2>1. Counts(seq, h)
    BY <1>6
  <2>2. Added(seq) = h[Len(seq)]
    BY DEF Added, Counts
  <2> QED
    BY <2>1, <2>2
<1> HIDE DEF h
<1>8. /\ h[0] = 0
      /\ \A n \in 1 .. Len(seq): h[n] = h[n - 1] + seq[n]
  <2>1. h = [n \in 0 .. Len(seq) |-> IF n = 0 THEN 0 ELSE h[n - 1] + seq[n]]
    BY <1>7 DEF Counts
  <2>2. \A n \in 0 .. Len(seq): h[n] = IF n = 0 THEN 0 ELSE h[n - 1] + seq[n]
    BY ONLY <2>1
  <2> QED
    BY <1>0, <2>2
<1>9. h \in [0 .. Len(seq) -> Nat]
  <2> DEFINE N == {n \in 0 .. Len(seq): h[n] \in Nat}
  <2>1. 0 \in N
    BY <1>0, <1>8
  <2>2. \A k \in 1 .. Len(seq): k - 1 \in N => k \in N
    BY <1>0, <1>8
  <2>3. 0 .. Len(seq) \subseteq N
    <3> HIDE DEF N
    <3> QED
      BY <1>0, <2>1, <2>2, Climb
  <2>4. h = [n \in 0 .. Len(seq) |-> IF n = 0 THEN 0 ELSE h[n - 1] + seq[n]]
    BY <1>7 DEF Counts
  <2>5. DOMAIN h = 0 .. Len(seq) /\ h = [n \in 0 .. Len(seq) |-> h[n]]
    BY ONLY <2>4
  <2> QED
    BY <2>3, <2>5
<1> QED
  BY <1>7, <1>8, <1>9

LEMMA AddedType ==
  ASSUME NEW seq \in Seq(Nat)
  PROVE  Added(seq) \in Nat
<1>1. Len(seq) \in Nat
  OBVIOUS
<1> QED
  BY <1>1, AddedIs

\* Place by place.
LEMMA AddedPlus ==
  ASSUME NEW a \in Seq(Nat), NEW b \in Seq(Nat), NEW c \in Seq(Nat),
         Len(a) = Len(c), Len(b) = Len(c),
         \A i \in 1 .. Len(c): c[i] = a[i] + b[i]
  PROVE  Added(c) = Added(a) + Added(b)
<1> DEFINE m == Len(c)
<1>0. m \in Nat
  OBVIOUS
<1>1. PICK f \in [0 .. m -> Nat]:
           /\ f[0] = 0 /\ \A n \in 1 .. m: f[n] = f[n - 1] + a[n]
           /\ Added(a) = f[m]
  BY AddedIs
<1>2. PICK g \in [0 .. m -> Nat]:
           /\ g[0] = 0 /\ \A n \in 1 .. m: g[n] = g[n - 1] + b[n]
           /\ Added(b) = g[m]
  BY AddedIs
<1>3. PICK h \in [0 .. m -> Nat]:
           /\ h[0] = 0 /\ \A n \in 1 .. m: h[n] = h[n - 1] + c[n]
           /\ Added(c) = h[m]
  BY AddedIs
<1> DEFINE S == {n \in 0 .. m: h[n] = f[n] + g[n]}
<1>4. 0 \in S
  BY <1>0, <1>1, <1>2, <1>3
<1>5. \A k \in 1 .. m: k - 1 \in S => k \in S
  <2> SUFFICES ASSUME NEW k \in 1 .. m, k - 1 \in S PROVE k \in S
    OBVIOUS
  <2>1. a[k] \in Nat /\ b[k] \in Nat /\ c[k] = a[k] + b[k]
    OBVIOUS
  <2>2. k - 1 \in 0 .. m /\ k \in 0 .. m /\ h[k - 1] = f[k - 1] + g[k - 1]
    BY <1>0
  <2>3. f[k - 1] \in Nat /\ g[k - 1] \in Nat
    BY <1>1, <1>2, <2>2
  <2>4. /\ f[k] = f[k - 1] + a[k] /\ g[k] = g[k - 1] + b[k]
        /\ h[k] = h[k - 1] + c[k]
    BY <1>1, <1>2, <1>3
  <2>5. h[k] = f[k] + g[k]
    <3> DEFINE x == f[k - 1]
               y == g[k - 1]
               p == a[k]
               q == b[k]
    <3>1. h[k] = (x + y) + (p + q) /\ f[k] = x + p /\ g[k] = y + q
      BY <2>1, <2>2, <2>4
    <3>2. x \in Nat /\ y \in Nat /\ p \in Nat /\ q \in Nat
      BY <2>1, <2>3
    <3> HIDE DEF x, y, p, q
    <3>3. (x + y) + (p + q) = (x + p) + (y + q)
      BY <3>2
    <3> QED
      BY ONLY <3>1, <3>3
  <2> QED
    BY <2>2, <2>5
<1>6. 0 .. m \subseteq S
  <2> HIDE DEF S, m
  <2> QED
    BY <1>0, <1>4, <1>5, Climb
<1> QED
  BY <1>0, <1>1, <1>2, <1>3, <1>6

-----------------------------------------------------------------------------
(* What slots hold.                                                         *)

LEMMA HeldType ==
  ASSUME NEW slots \in Seq(Nat), NEW set
  PROVE  TokensIn(slots, set) \in Nat
<1>1. [i \in DOMAIN slots |-> IF i \in set THEN slots[i] ELSE 0] \in Seq(Nat)
  OBVIOUS
<1> QED
  BY <1>1, AddedType DEF TokensIn

\* Disjoint sets of slots.
LEMMA HeldUnion ==
  ASSUME NEW slots \in Seq(Nat), NEW A, NEW B, A \cap B = {}
  PROVE  TokensIn(slots, A \cup B) = TokensIn(slots, A) + TokensIn(slots, B)
<1> DEFINE a == [i \in DOMAIN slots |-> IF i \in A THEN slots[i] ELSE 0]
           b == [i \in DOMAIN slots |-> IF i \in B THEN slots[i] ELSE 0]
           c == [i \in DOMAIN slots |-> IF i \in A \cup B THEN slots[i] ELSE 0]
<1>1. /\ a \in Seq(Nat) /\ b \in Seq(Nat) /\ c \in Seq(Nat)
      /\ Len(a) = Len(c) /\ Len(b) = Len(c)
  <2>1. a \in Seq(Nat) /\ Len(a) = Len(slots)
    OBVIOUS
  <2>2. b \in Seq(Nat) /\ Len(b) = Len(slots)
    OBVIOUS
  <2>3. c \in Seq(Nat) /\ Len(c) = Len(slots)
    OBVIOUS
  <2> HIDE DEF a, b, c
  <2> QED
    BY <2>1, <2>2, <2>3
<1>2. \A i \in 1 .. Len(c): c[i] = a[i] + b[i]
  OBVIOUS
<1>3. /\ TokensIn(slots, A) = Added(a) /\ TokensIn(slots, B) = Added(b)
      /\ TokensIn(slots, A \cup B) = Added(c)
  BY DEF TokensIn
<1> HIDE DEF a, b, c
<1>4. Added(c) = Added(a) + Added(b)
  BY <1>1, <1>2, AddedPlus
<1> QED
  BY <1>3, <1>4

LEMMA HeldMono ==
  ASSUME NEW slots \in Seq(Nat), NEW A, NEW B, A \subseteq B
  PROVE  TokensIn(slots, A) <= TokensIn(slots, B)
<1> DEFINE C == B \ A
<1>1. B = A \cup C /\ A \cap C = {}
  OBVIOUS
<1> HIDE DEF C
<1>2. TokensIn(slots, A \cup C) = TokensIn(slots, A) + TokensIn(slots, C)
  BY <1>1, HeldUnion
<1>3. TokensIn(slots, A) \in Nat /\ TokensIn(slots, C) \in Nat
  BY HeldType
<1> QED
  BY <1>1, <1>2, <1>3

\* Only what is in the slots counts.
LEMMA HeldSame ==
  ASSUME NEW slots \in Seq(Nat), NEW A, NEW B,
         \A i \in DOMAIN slots: slots[i] > 0 => (i \in A <=> i \in B)
  PROVE  TokensIn(slots, A) = TokensIn(slots, B)
<1>1. \A i \in DOMAIN slots: slots[i] \in Nat
  OBVIOUS
<1>2. [i \in DOMAIN slots |-> IF i \in A THEN slots[i] ELSE 0]
      = [i \in DOMAIN slots |-> IF i \in B THEN slots[i] ELSE 0]
  BY <1>1
<1> QED
  BY <1>2 DEF TokensIn

LEMMA HeldAll ==
  ASSUME NEW slots \in Seq(Nat)
  PROVE  TokensIn(slots, DOMAIN slots) = Added(slots)
<1>1. slots = [i \in DOMAIN slots |->
                 IF i \in DOMAIN slots THEN slots[i] ELSE 0]
  OBVIOUS
<1> QED
  BY <1>1 DEF TokensIn

LEMMA HeldNone ==
  ASSUME NEW slots \in Seq(Nat)
  PROVE  TokensIn(slots, {}) = 0
<1> DEFINE none == {}
           h == TokensIn(slots, none)
<1>1. none \cap none = {} /\ none \cup none = none
  OBVIOUS
<1> HIDE DEF none
<1>2. TokensIn(slots, none \cup none)
      = TokensIn(slots, none) + TokensIn(slots, none)
  BY <1>1, HeldUnion
<1>3. h = h + h /\ h \in Nat
  BY <1>1, <1>2, HeldType
<1> HIDE DEF h
<1>4. h = 0
  BY <1>3
<1> QED
  BY <1>4 DEF h, none

LEMMA HeldOne ==
  ASSUME NEW slots \in Seq(Nat), NEW i \in DOMAIN slots
  PROVE  TokensIn(slots, {i}) = slots[i]
<1> DEFINE part == [j \in DOMAIN slots |-> IF j \in {i} THEN slots[j] ELSE 0]
           m == Len(slots)
<1>1. part \in Seq(Nat) /\ Len(part) = m /\ m \in Nat /\ i \in 1 .. m
  OBVIOUS
<1>2. /\ part[i] = slots[i] /\ slots[i] \in Nat
      /\ \A n \in 1 .. m: n # i => part[n] = 0
  OBVIOUS
<1>3. TokensIn(slots, {i}) = Added(part)
  BY DEF TokensIn
<1> HIDE DEF part, m
<1>4. PICK f \in [0 .. m -> Nat]:
           /\ f[0] = 0 /\ \A n \in 1 .. m: f[n] = f[n - 1] + part[n]
           /\ Added(part) = f[m]
  BY <1>1, AddedIs
<1> DEFINE S == {n \in 0 .. m: f[n] = IF n < i THEN 0 ELSE slots[i]}
<1>5. 0 \in S
  BY <1>1, <1>4
<1>6. \A k \in 1 .. m: k - 1 \in S => k \in S
  <2> SUFFICES ASSUME NEW k \in 1 .. m, k - 1 \in S PROVE k \in S
    OBVIOUS
  <2>1. f[k] = f[k - 1] + part[k] /\ f[k - 1] \in Nat
    BY <1>1, <1>4
  <2>2. f[k - 1] = IF k - 1 < i THEN 0 ELSE slots[i]
    OBVIOUS
  <2>3. f[k] = IF k < i THEN 0 ELSE slots[i]
    <3>1. k \in Nat /\ i \in Nat /\ k \in 1 .. m
      BY <1>1
    <3>2. CASE k < i
      <4>1. part[k] = 0 /\ f[k - 1] = 0
        BY <1>2, <2>2, <3>1, <3>2
      <4> QED
        BY <2>1, <3>2, <4>1
    <3>3. CASE k = i
      <4>1. part[k] = slots[i] /\ f[k - 1] = 0 /\ slots[i] \in Nat
        BY <1>2, <2>2, <3>1, <3>3
      <4> QED
        BY <2>1, <3>1, <3>3, <4>1
    <3>4. CASE k > i
      <4>1. part[k] = 0 /\ f[k - 1] = slots[i] /\ slots[i] \in Nat
        BY <1>2, <2>2, <3>1, <3>4
      <4> QED
        BY <2>1, <3>1, <3>4, <4>1
    <3> QED
      BY <3>1, <3>2, <3>3, <3>4
  <2> QED
    BY <1>1, <2>3
<1>7. 0 .. m \subseteq S
  <2> HIDE DEF S
  <2> QED
    BY <1>1, <1>5, <1>6, Climb
<1> QED
  BY <1>1, <1>3, <1>4, <1>7

LEMMA DroppedType ==
  ASSUME NEW slots \in Seq(Nat), NEW i \in DOMAIN slots
  PROVE  /\ [slots EXCEPT ![i] = 0] \in Seq(Nat)
         /\ DOMAIN [slots EXCEPT ![i] = 0] = DOMAIN slots
OBVIOUS

\* A slot that is dropped no longer counts.
LEMMA HeldDropped ==
  ASSUME NEW slots \in Seq(Nat), NEW i \in DOMAIN slots, NEW A, i \notin A
  PROVE  LET left == [slots EXCEPT ![i] = 0]
         IN  /\ left \in Seq(Nat) /\ DOMAIN left = DOMAIN slots
             /\ TokensIn(left, A \cup {i}) = TokensIn(slots, A)
<1> DEFINE left == [slots EXCEPT ![i] = 0]
<1>1. left \in Seq(Nat) /\ DOMAIN left = DOMAIN slots
  BY DroppedType
<1>2. [j \in DOMAIN left |-> IF j \in A \cup {i} THEN left[j] ELSE 0]
      = [j \in DOMAIN slots |-> IF j \in A THEN slots[j] ELSE 0]
  OBVIOUS
<1> QED
  BY <1>1, <1>2 DEF TokensIn

-----------------------------------------------------------------------------
(* The order of eviction.                                                   *)

LEMMA SlotsAre ==
  ASSUME parked \in Seq(Nat)
  PROVE  /\ \A i \in DOMAIN parked: i \in Nat /\ parked[i] \in Nat
         /\ IsFiniteSet(DOMAIN parked)
         /\ Slots \subseteq DOMAIN parked /\ Slots \in InOrder
<1>1. Len(parked) \in Nat /\ DOMAIN parked = 1 .. Len(parked)
  OBVIOUS
<1>2. IsFiniteSet(DOMAIN parked)
  BY <1>1, FS_Interval
<1> QED
  BY <1>1, <1>2 DEF Slots, InOrder

\* Of two beginnings of the order one contains the other.
LEMMA Chain ==
  ASSUME parked \in Seq(Nat), NEW A \in InOrder, NEW B \in InOrder
  PROVE  A \subseteq B \/ B \subseteq A
<1> SUFFICES ASSUME NEW a \in A, a \notin B, NEW b \in B, b \notin A PROVE FALSE
  OBVIOUS
<1>1. a \in Slots /\ b \in Slots
  BY DEF InOrder
<1>2. a # b /\ a \in Nat /\ b \in Nat /\ parked[a] \in Nat /\ parked[b] \in Nat
  BY <1>1, SlotsAre
<1>3. Sooner(a, b) \/ Sooner(b, a)
  BY <1>2 DEF Sooner
<1> QED
  BY <1>1, <1>3 DEF InOrder

LEMMA SizeOf ==
  ASSUME parked \in Seq(Nat), NEW A, A \subseteq DOMAIN parked
  PROVE  IsFiniteSet(A) /\ Cardinality(A) \in Nat
<1>1. IsFiniteSet(A)
  BY SlotsAre, FS_Subset
<1> QED
  BY <1>1, FS_CardinalityType

\* Plan is defined: there is a shortest beginning among those that cover a
\* deficit.
LEMMA PlanIs ==
  ASSUME parked \in Seq(Nat), NEW d \in Int, Enough(d) # {}
  PROVE  /\ Plan(d) \in Enough(d)
         /\ \A other \in Enough(d): Plan(d) \subseteq other
<1> DEFINE S == {Cardinality(A): A \in Enough(d)}
<1>1. \A A \in Enough(d): A \in InOrder /\ A \subseteq DOMAIN parked
  BY DEF Enough, InOrder, Slots
<1>2. S \subseteq Nat /\ S # {}
  BY <1>1, SizeOf
<1>3. PICK n \in S: \A k \in S: n <= k
  <2> HIDE DEF S
  <2> QED
    BY <1>2, LeastExists
<1>4. PICK A \in Enough(d): n = Cardinality(A)
  BY <1>3
<1>5. \A B \in Enough(d): A \subseteq B
  <2> SUFFICES ASSUME NEW B \in Enough(d) PROVE A \subseteq B
    OBVIOUS
  <2>1. Cardinality(A) <= Cardinality(B)
    BY <1>3, <1>4
  <2>2. A \subseteq B \/ B \subseteq A
    BY <1>1, Chain
  <2>3. IsFiniteSet(A) /\ Cardinality(A) \in Nat /\ Cardinality(B) \in Nat
    BY <1>1, SizeOf
  <2>4. CASE B \subseteq A
    <3>1. /\ Cardinality(B) <= Cardinality(A)
          /\ Cardinality(A) = Cardinality(B) => A = B
      BY <2>3, <2>4, FS_Subset
    <3> QED
      BY <2>1, <2>3, <3>1
  <2> QED
    BY <2>2, <2>4
<1> QED
  BY <1>4, <1>5 DEF Plan

\* No set of as many slots holds more than a beginning of the order: one of
\* its slots after another is exchanged for one of the beginning.
LEMMA LargestFirst ==
  ASSUME parked \in Seq(Nat), NEW T \in InOrder,
         NEW Q, Q \subseteq DOMAIN parked, Cardinality(Q) <= Cardinality(T)
  PROVE  TokensIn(parked, Q) <= TokensIn(parked, T)
<1> DEFINE Worse(P) == /\ P \subseteq DOMAIN parked
                       /\ Cardinality(P) <= Cardinality(T)
                       /\ ~(TokensIn(parked, P) <= TokensIn(parked, T))
           S == {Cardinality(P \ T):
                   P \in {R \in SUBSET DOMAIN parked: Worse(R)}}
<1>1. SUFFICES ASSUME Worse(Q) PROVE FALSE
  OBVIOUS
<1>2. T \subseteq DOMAIN parked /\ T \subseteq Slots
  BY DEF InOrder, Slots
<1>3. PICK n \in S: \A k \in S: n <= k
  <2>1. \A P \in SUBSET DOMAIN parked: Cardinality(P \ T) \in Nat
    <3> SUFFICES ASSUME NEW P \in SUBSET DOMAIN parked
                 PROVE  Cardinality(P \ T) \in Nat
      OBVIOUS
    <3>1. P \ T \subseteq DOMAIN parked
      OBVIOUS
    <3> QED
      BY <3>1, SizeOf
  <2>2. S \subseteq Nat /\ S # {}
    BY <1>1, <2>1
  <2> HIDE DEF S
  <2> QED
    BY <2>2, LeastExists
<1>4. PICK P \in SUBSET DOMAIN parked: Worse(P) /\ n = Cardinality(P \ T)
  BY <1>3
<1>5. IsFiniteSet(P) /\ IsFiniteSet(T) /\ IsFiniteSet(P \ T)
      /\ Cardinality(P) \in Nat /\ Cardinality(T) \in Nat
      /\ Cardinality(P \ T) \in Nat
  <2>1. P \ T \subseteq DOMAIN parked
    OBVIOUS
  <2> QED
    BY <1>2, <2>1, SizeOf
<1>6. \A A: TokensIn(parked, A) \in Nat
  BY HeldType
<1>7. PICK q \in P: q \notin T
  <2>1. SUFFICES ASSUME P \subseteq T PROVE FALSE
    OBVIOUS
  <2> QED
    BY <1>4, <2>1, HeldMono
<1>8. PICK t \in T: t \notin P
  <2>1. SUFFICES ASSUME T \subseteq P PROVE FALSE
    OBVIOUS
  <2>2. /\ Cardinality(T) <= Cardinality(P)
        /\ Cardinality(P) = Cardinality(T) => P = T
    BY <1>5, <2>1, FS_Subset
  <2>3. Cardinality(P) = Cardinality(T)
    BY <1>4, <1>5, <2>2
  <2> QED
    BY <1>7, <2>2, <2>3
<1>9. /\ parked[q] <= parked[t] /\ parked[q] \in Nat /\ parked[t] \in Nat
      /\ q \in DOMAIN parked /\ t \in DOMAIN parked
  <2>1. /\ q \in DOMAIN parked /\ t \in DOMAIN parked /\ parked[q] \in Nat
        /\ parked[t] \in Nat
    BY <1>2, SlotsAre
  <2>2. SUFFICES ASSUME parked[q] > parked[t] PROVE FALSE
    BY <2>1
  <2>3. q \in Slots /\ Sooner(q, t)
    BY <2>1, <2>2 DEF Slots, Sooner
  <2> QED
    BY <1>7, <2>3 DEF InOrder
<1> DEFINE rest == P \ {q}
           R == rest \cup {t}
<1>10. TokensIn(parked, P) = TokensIn(parked, rest) + parked[q]
  <2>1. P = rest \cup {q} /\ rest \cap {q} = {}
    OBVIOUS
  <2> HIDE DEF rest
  <2>2. TokensIn(parked, rest \cup {q})
        = TokensIn(parked, rest) + TokensIn(parked, {q})
    BY <2>1, HeldUnion
  <2> QED
    BY <1>9, <2>1, <2>2, HeldOne
<1>11. TokensIn(parked, R) = TokensIn(parked, rest) + parked[t]
  <2>1. rest \cap {t} = {}
    BY <1>8
  <2> HIDE DEF rest
  <2>2. TokensIn(parked, rest \cup {t})
        = TokensIn(parked, rest) + TokensIn(parked, {t})
    BY <2>1, HeldUnion
  <2> QED
    BY <1>9, <2>2, HeldOne
<1>12. Cardinality(R) = Cardinality(P) /\ R \in SUBSET DOMAIN parked
  <2>1. IsFiniteSet(rest) /\ Cardinality(rest) = Cardinality(P) - 1
    BY <1>5, FS_RemoveElement
  <2>2. t \notin rest
    BY <1>8
  <2>3. R \in SUBSET DOMAIN parked
    BY <1>9
  <2> HIDE DEF rest
  <2>4. Cardinality(R) = Cardinality(rest) + 1
    BY <2>1, <2>2, FS_AddElement
  <2> QED
    BY <1>5, <2>1, <2>3, <2>4
<1>13. Cardinality(R \ T) = Cardinality(P \ T) - 1
  <2> DEFINE D == P \ T
  <2>1. R \ T = D \ {q} /\ q \in D
    BY <1>7, <1>8
  <2>2. IsFiniteSet(D)
    BY <1>5
  <2> HIDE DEF D, R, rest
  <2>3. Cardinality(D \ {q}) = Cardinality(D) - 1
    BY <2>1, <2>2, FS_RemoveElement
  <2>4. Cardinality(R \ T) = Cardinality(D) - 1
    BY ONLY <2>1, <2>3
  <2> QED
    BY ONLY <2>4 DEF D
<1>14. Worse(R)
  <2> HIDE DEF R, rest
  <2>1. TokensIn(parked, P) <= TokensIn(parked, R)
    BY <1>6, <1>9, <1>10, <1>11
  <2> QED
    BY <1>4, <1>6, <1>12, <2>1
<1>15. Cardinality(R \ T) \in S
  <2> HIDE DEF Worse, R
  <2> QED
    BY <1>12, <1>14
<1> QED
  <2> HIDE DEF S, R
  <2>1. n <= Cardinality(R \ T) /\ n = Cardinality(P \ T)
    BY <1>3, <1>4, <1>15
  <2>2. Cardinality(P \ T) \in Nat
    BY <1>5
  <2> QED
    BY ONLY <1>13, <2>1, <2>2

LEMMA PlanCovers ==
  ASSUME parked \in Seq(Nat), NEW d \in Int
  PROVE  /\ Plan(d) \in InOrder /\ Plan(d) \subseteq DOMAIN parked
         /\ Freed(Plan(d)) >= d \/ Plan(d) = Slots
<1>1. CASE Enough(d) = {}
  BY <1>1, SlotsAre DEF Plan
<1>2. CASE Enough(d) # {}
  <2>1. Plan(d) \in Enough(d)
    BY <1>2, PlanIs
  <2> QED
    BY <2>1 DEF Enough, InOrder, Slots
<1> QED
  BY <1>1, <1>2

\* More tokens free more.
LEMMA FreedMono ==
  ASSUME AdmissionAssumption, parked \in Seq(Nat), NEW A, NEW B,
         TokensIn(parked, A) <= TokensIn(parked, B)
  PROVE  Freed(A) \in Nat /\ Freed(B) \in Nat /\ Freed(A) <= Freed(B)
<1> DEFINE a == TokensIn(parked, A)
           b == TokensIn(parked, B)
           p == 100 * PerToken
<1>1. a \in Nat /\ b \in Nat /\ p \in Nat /\ a <= b
  BY HeldType DEF AdmissionAssumption
<1>2. Freed(A) = p * a /\ Freed(B) = p * b
  BY DEF Freed
<1> HIDE DEF a, b, p
<1>3. b - a \in Nat /\ b = a + (b - a)
  BY <1>1
<1>4. p * b = p * a + p * (b - a) /\ p * (b - a) \in Nat /\ p * a \in Nat
  BY <1>1, <1>3
<1> QED
  BY <1>2, <1>4

\* No smaller number of slots covers the deficit: the last slot of the plan
\* could otherwise have stayed.
LEMMA PlanIsLeast ==
  ASSUME AdmissionAssumption, parked \in Seq(Nat), NEW d \in Int,
         NEW Q \in SUBSET DOMAIN parked, Freed(Q) >= d
  PROVE  Cardinality(Q) >= Cardinality(Plan(d))
<1> DEFINE P == Plan(d)
<1>1. P \in InOrder /\ P \subseteq DOMAIN parked
  BY PlanCovers
<1>2. /\ Cardinality(P) \in Nat /\ Cardinality(Q) \in Nat
      /\ IsFiniteSet(P) /\ IsFiniteSet(Q)
  <2> HIDE DEF P
  <2> QED
    BY <1>1, SizeOf
<1>3. SUFFICES ASSUME Cardinality(Q) < Cardinality(P) PROVE FALSE
  BY <1>2
<1>4. Enough(d) # {}
  <2>1. Cardinality(Q) <= Cardinality(P)
    BY <1>2, <1>3
  <2>2. TokensIn(parked, Q) <= TokensIn(parked, P)
    <3> HIDE DEF P
    <3> QED
      BY <1>1, <2>1, LargestFirst
  <2>3. Freed(Q) <= Freed(P) /\ Freed(Q) \in Nat /\ Freed(P) \in Nat
    <3> HIDE DEF P
    <3> QED
      BY <2>2, FreedMono
  <2>4. Freed(P) >= d
    BY <2>3
  <2> QED
    BY <1>1, <2>4 DEF Enough
<1>5. \A other \in Enough(d): P \subseteq other
  BY <1>4, PlanIs
<1>6. P # {}
  BY <1>2, <1>3, FS_EmptySet
<1>7. \A i \in P: i \in Nat /\ parked[i] \in Nat /\ i <= Len(parked)
  BY <1>1, SlotsAre
<1> HIDE DEF P
<1>8. PICK m \in {parked[i]: i \in P}: \A k \in {parked[i]: i \in P}: m <= k
  <2>1. {parked[i]: i \in P} \subseteq Nat /\ {parked[i]: i \in P} # {}
    BY <1>6, <1>7
  <2> QED
    BY <2>1, LeastExists
<1> DEFINE Ends == {Len(parked) - i: i \in {j \in P: parked[j] = m}}
<1>9. PICK e \in Ends: \A k \in Ends: e <= k
  <2>1. Ends \subseteq Nat /\ Ends # {}
    <3>1. Len(parked) \in Nat
      OBVIOUS
    <3> QED
      BY <1>7, <1>8, <3>1
  <2> HIDE DEF Ends
  <2> QED
    BY <2>1, LeastExists
<1>10. PICK last \in P: parked[last] = m /\ e = Len(parked) - last
  BY <1>9
<1>11. \A j \in P: ~Sooner(last, j)
  <2> SUFFICES ASSUME NEW j \in P, Sooner(last, j) PROVE FALSE
    OBVIOUS
  <2>1. /\ m <= parked[j] /\ parked[j] \in Nat /\ m \in Nat
        /\ last \in Nat /\ j \in Nat
    BY <1>7, <1>8, <1>10
  <2>2. parked[j] = m /\ last < j
    BY <1>10, <2>1 DEF Sooner
  <2>3. e <= Len(parked) - j
    BY <1>9, <2>2
  <2>4. Len(parked) \in Nat
    OBVIOUS
  <2> QED
    BY <1>10, <2>1, <2>2, <2>3, <2>4
<1> DEFINE T == P \ {last}
<1>12. T \in InOrder
  <2>1. P \subseteq Slots /\ \A i \in P, j \in Slots: Sooner(j, i) => j \in P
    BY <1>1 DEF InOrder
  <2>2. \A i \in T, j \in Slots: Sooner(j, i) => j \in T
    BY <1>11, <2>1
  <2> QED
    BY <2>1, <2>2 DEF InOrder
<1>13. Cardinality(Q) <= Cardinality(T)
  <2>1. Cardinality(T) = Cardinality(P) - 1
    BY <1>2, FS_RemoveElement
  <2> QED
    BY <1>2, <1>3, <2>1
<1>14. TokensIn(parked, Q) <= TokensIn(parked, T)
  <2> HIDE DEF T
  <2> QED
    BY <1>12, <1>13, LargestFirst
<1>15. T \in Enough(d)
  <2> HIDE DEF T
  <2>1. Freed(Q) <= Freed(T) /\ Freed(Q) \in Nat /\ Freed(T) \in Nat
    BY <1>14, FreedMono
  <2>2. Freed(T) >= d
    BY <2>1
  <2> QED
    BY <1>12, <2>2 DEF Enough
<1> QED
  BY <1>5, <1>10, <1>15

-----------------------------------------------------------------------------
(* The ladder.                                                              *)

\* The prefill fits into the budget beside the slots of rest, or there is
\* nothing in them.
Fits(rest) ==
  \/ 100 * (base + garbage + real * (live + TokensIn(parked, rest))
            + prefill.new * real + Reserve) <= limit * Percent
  \/ TokensIn(parked, rest) = 0

\* Nothing failed, and a token takes what the guard says.
Exact == failures = 0 /\ real = PerToken /\ limit > 0

\* The ladder is climbed only with tokens to feed; past the plan the prefill
\* fits beside what stays; nothing large goes round the guard.
LadderInv ==
  /\ LadderTypeOK
  /\ rung \notin {"start", "unguarded"} => NewTokens > 0
  /\ rung = "evict" /\ Exact => Fits(DOMAIN parked \ chosen)
  /\ rung = "admitted" /\ Exact => Fits(DOMAIN parked)

LEMMA PrefillIs ==
  ASSUME AdmissionAssumption, LadderTypeOK
  PROVE  /\ prefill.new \in Nat /\ prefill.total \in Nat
         /\ prefill.cache \in BOOLEAN
         /\ NewTokens \in Nat
         /\ NewTokens > 0 => NewTokens = prefill.new
<1>1. prefill \in [total: Nat, new: Nat, cache: BOOLEAN]
  BY DEF AdmissionAssumption, LadderTypeOK
<1>2. /\ prefill.new \in 1 .. prefill.total
      /\ ~prefill.cache => prefill.new = prefill.total
  BY DEF AdmissionAssumption, LadderTypeOK
<1> QED
  BY <1>1, <1>2 DEF NewTokens, AdmissionAssumption

LEMMA MemoryIs ==
  ASSUME AdmissionAssumption, LadderTypeOK
  PROVE  /\ base \in Nat /\ garbage \in Nat /\ live \in Nat
         /\ parked \in Seq(Nat)
         /\ real \in Nat /\ limit \in Nat /\ reading \in Nat /\ failures \in Nat
         /\ Percent \in Nat /\ PerToken \in Nat /\ Reserve \in Nat
         /\ Wired \in Nat
         /\ \A seen \in Nat: Deficit(seen) \in Int
<1>1. /\ base \in Nat /\ garbage \in Nat /\ live \in Nat /\ parked \in Seq(Nat)
      /\ real \in Nat /\ limit \in Nat /\ reading \in Nat /\ failures \in Nat
      /\ Percent \in Nat /\ PerToken \in Nat /\ Reserve \in Nat
  BY DEF AdmissionAssumption, LadderTypeOK
<1>2. Wired \in Nat
  <2>1. Added(parked) \in Nat
    BY <1>1, AddedType
  <2>2. live + Added(parked) \in Nat
    BY <1>1, <2>1
  <2>3. real * (live + Added(parked)) \in Nat
    BY <1>1, <2>2
  <2> QED
    BY <1>1, <2>3 DEF Wired
<1>3. \A seen \in Nat: Deficit(seen) \in Int
  <2>1. NewTokens * PerToken \in Nat /\ limit * Percent \in Nat
    BY <1>1, PrefillIs
  <2> QED
    BY <1>1, <2>1 DEF Deficit
<1> QED
  BY <1>1, <1>2, <1>3

\* What covers the deficit leaves a prefill that fits.
LEMMA FitsBeside ==
  ASSUME AdmissionAssumption, LadderTypeOK, NewTokens > 0, Exact,
         NEW set \in SUBSET DOMAIN parked, Freed(set) >= Deficit(Wired)
  PROVE  Fits(DOMAIN parked \ set)
<1> DEFINE rest == DOMAIN parked \ set
           a == TokensIn(parked, rest)
           b == TokensIn(parked, set)
           x == PerToken * (live + a)
           y == PerToken * b
           z == prefill.new * PerToken
           c == limit * Percent
<1>m. /\ base \in Nat /\ garbage \in Nat /\ live \in Nat /\ limit \in Nat
      /\ PerToken \in Nat /\ Percent \in Nat /\ Reserve \in Nat
  BY MemoryIs
<1>1. a \in Nat /\ b \in Nat
  BY MemoryIs, HeldType
<1>2. Added(parked) = b + a
  <2>1. DOMAIN parked = set \cup rest /\ set \cap rest = {}
    OBVIOUS
  <2> HIDE DEF rest
  <2>2. TokensIn(parked, set \cup rest)
        = TokensIn(parked, set) + TokensIn(parked, rest)
    BY <2>1, MemoryIs, HeldUnion
  <2>3. TokensIn(parked, DOMAIN parked) = Added(parked)
    BY MemoryIs, HeldAll
  <2> QED
    BY <2>1, <2>2, <2>3
<1>3. /\ NewTokens = prefill.new /\ prefill.new \in Nat
      /\ real = PerToken /\ limit > 0
  BY PrefillIs DEF Exact
<1>4. Freed(set) = 100 * y
  <2>1. Freed(set) = (100 * PerToken) * b
    BY DEF Freed
  <2> HIDE DEF b
  <2>2. (100 * PerToken) * b = 100 * (PerToken * b)
    BY ONLY <1>1, <1>m
  <2> QED
    BY <2>1, <2>2
<1>5. PerToken * (live + Added(parked)) = x + y
  <2> HIDE DEF a, b
  <2>1. live + Added(parked) = (live + a) + b
    BY ONLY <1>1, <1>2, <1>m
  <2>2. live + a \in Nat
    BY ONLY <1>1, <1>m
  <2>3. PerToken * ((live + a) + b) = PerToken * (live + a) + PerToken * b
    <3> DEFINE n == live + a
    <3>1. n \in Nat
      BY ONLY <2>2
    <3> HIDE DEF n
    <3>2. PerToken * (n + b) = PerToken * n + PerToken * b
      BY ONLY <1>1, <1>m, <3>1
    <3> QED
      BY ONLY <3>2 DEF n
  <2> QED
    BY <2>1, <2>3
<1>6. Wired = base + garbage + (x + y)
  BY <1>3, <1>5 DEF Wired
<1>7. Deficit(Wired) = 100 * (Wired + z + Reserve) - c
  BY <1>3, MemoryIs DEF Deficit
<1>8. x \in Nat /\ y \in Nat /\ z \in Nat /\ c \in Nat
  <2> HIDE DEF a, b
  <2>1. live + a \in Nat
    BY ONLY <1>1, <1>m
  <2>2. x \in Nat
    BY ONLY <1>m, <2>1
  <2>3. y \in Nat /\ z \in Nat /\ c \in Nat
    BY ONLY <1>1, <1>3, <1>m
  <2> QED
    BY ONLY <2>2, <2>3
<1>9. 100 * (base + garbage + x + z + Reserve) <= c
  <2> HIDE DEF x, y, z, c
  <2> QED
    <3>1. Freed(set) >= Deficit(Wired)
      OBVIOUS
    <3> QED
      BY ONLY <1>4, <1>6, <1>7, <1>8, <1>m, <3>1
<1> QED
  BY <1>3, <1>9 DEF Fits

LEMMA PlanFits ==
  ASSUME AdmissionAssumption, LadderTypeOK, NewTokens > 0, Exact,
         Deficit(Wired) > 0
  PROVE  Fits(DOMAIN parked \ Plan(Deficit(Wired)))
<1> DEFINE d == Deficit(Wired)
<1>1. d \in Int /\ parked \in Seq(Nat)
  BY MemoryIs
<1>2. /\ Plan(d) \subseteq DOMAIN parked
      /\ Freed(Plan(d)) >= d \/ Plan(d) = Slots
  <2> HIDE DEF d
  <2> QED
    BY <1>1, PlanCovers
<1>3. CASE Freed(Plan(d)) >= d
  BY <1>2, <1>3, FitsBeside
<1>4. CASE Plan(d) = Slots
  <2>1. TokensIn(parked, DOMAIN parked \ Slots) = TokensIn(parked, {})
    <3>1. \A i \in DOMAIN parked:
            parked[i] > 0 => (i \in DOMAIN parked \ Slots <=> i \in {})
      BY DEF Slots
    <3> QED
      BY <1>1, <3>1, HeldSame
  <2>2. TokensIn(parked, {}) = 0
    BY <1>1, HeldNone
  <2> QED
    BY <1>4, <2>1, <2>2 DEF Fits
<1> QED
  BY <1>2, <1>3, <1>4

LEMMA InitLadder ==
  ASSUME AdmissionAssumption
  PROVE  LadderInit => LadderInv
<1> SUFFICES ASSUME LadderInit PROVE LadderInv
  OBVIOUS
<1>1. PICK m \in Layouts: /\ base = m.base /\ garbage = m.garbage
                          /\ live = m.live /\ parked = m.parked
  BY DEF LadderInit
<1>2. base \in Nat /\ garbage \in Nat /\ live \in Nat /\ parked \in Seq(Nat)
  BY <1>1 DEF AdmissionAssumption
<1>3. LadderTypeOK
  BY <1>2 DEF LadderInit, LadderTypeOK, AdmissionAssumption
<1> QED
  BY <1>3 DEF LadderInit, LadderInv

\* What a step leaves alone, and with it the number of new tokens.
LEMMA RequestStays ==
  ASSUME [LadderNext]_ladder
  PROVE  /\ UNCHANGED <<limit, real, prefill, base>>
         /\ NewTokens' = NewTokens
<1>1. UNCHANGED <<limit, real, prefill, base>>
  BY DEF LadderNext, ladder, DropLive, Unguarded, Consider, PlanEviction, Evict,
         Proceed, Release, memory
<1> QED
  BY <1>1 DEF NewTokens

LEMMA LadderStep ==
  ASSUME AdmissionAssumption
  PROVE  LadderInv /\ [LadderNext]_ladder => LadderInv'
<1> SUFFICES ASSUME LadderInv, [LadderNext]_ladder PROVE LadderInv'
  OBVIOUS
<1>0. /\ NewTokens' = NewTokens /\ UNCHANGED <<limit, real, prefill, base>>
      /\ LadderTypeOK
  BY RequestStays DEF LadderInv
<1>m. /\ base \in Nat /\ garbage \in Nat /\ live \in Nat /\ parked \in Seq(Nat)
      /\ reading \in Nat /\ failures \in Nat /\ MaxFailures \in Nat
      /\ Wired \in Nat /\ \A seen \in Nat: Deficit(seen) \in Int
      /\ NewTokens \in Nat /\ MinPrompt \in Nat
  BY <1>0, MemoryIs, PrefillIs DEF AdmissionAssumption
<1>r. ASSUME NEW old \in Nat, NEW new \in {old, Wired}, Read(old, new)
      PROVE  /\ failures' \in 0 .. MaxFailures /\ new \in Nat
             /\ failures' = 0 => failures = 0 /\ new = Wired
  BY <1>0, <1>m, <1>r DEF Read, LadderTypeOK
<1>1. CASE DropLive
  <2>1. PICK seen \in {0, Wired}:
               /\ Read(0, seen)
               /\ IF DropsStale /\ ~prefill.cache /\ Deficit(seen) > 0
                  THEN live' = 0 /\ garbage' = 0
                  ELSE UNCHANGED <<live, garbage>>
    BY <1>1 DEF DropLive
  <2>2. failures' \in 0 .. MaxFailures
    BY <1>m, <1>r, <2>1
  <2>3. /\ live' \in Nat /\ garbage' \in Nat /\ rung' = "guard" /\ NewTokens > 0
        /\ UNCHANGED <<limit, real, prefill, base, parked, reading, chosen>>
    BY <1>1, <1>m, <2>1 DEF DropLive
  <2>4. LadderTypeOK'
    BY <1>0, <1>m, <2>2, <2>3 DEF LadderTypeOK
  <2> QED
    BY <1>0, <1>m, <2>3, <2>4 DEF LadderInv
<1>2. CASE Unguarded
  <2>1. LadderTypeOK'
    BY <1>0, <1>2 DEF Unguarded, LadderTypeOK, memory
  <2>2. rung' = "unguarded" /\ (NewTokens = 0 \/ NewTokens < MinPrompt)
    BY <1>2 DEF Unguarded
  <2> QED
    BY <1>0, <2>1, <2>2 DEF LadderInv
<1>3. CASE Consider
  <2>1. PICK seen \in {0, Wired}:
               /\ Read(0, seen)
               /\ reading' = seen
               /\ IF Deficit(seen) <= 0
                  THEN rung' = "admitted" /\ UNCHANGED garbage
                  ELSE rung' = "plan" /\ garbage' = 0
    BY <1>3 DEF Consider
  <2>2. /\ failures' \in 0 .. MaxFailures /\ seen \in Nat
        /\ failures' = 0 => failures = 0 /\ seen = Wired
    BY <1>m, <1>r, <2>1
  <2>3. /\ rung = "guard" /\ UNCHANGED <<live, parked, chosen>>
        /\ garbage' \in Nat
        /\ rung' \in {"admitted", "plan"}
        /\ rung' = "admitted" => garbage' = garbage /\ Deficit(seen) <= 0
    BY <1>3, <1>m, <2>1 DEF Consider
  <2>4. LadderTypeOK'
    BY <1>0, <1>m, <2>1, <2>2, <2>3 DEF LadderTypeOK
  <2>5. NewTokens > 0
    BY <2>3 DEF LadderInv
  <2>6. ASSUME rung' = "admitted", Exact' PROVE Fits(DOMAIN parked)'
    <3>1. Exact /\ seen = Wired /\ Deficit(Wired) <= 0
      BY <1>0, <2>2, <2>3, <2>6 DEF Exact
    <3>2. Freed({}) >= Deficit(Wired)
      <4>1. TokensIn(parked, {}) \in Nat /\ 100 * PerToken \in Nat
        BY <1>m, HeldType DEF AdmissionAssumption
      <4>2. (100 * PerToken) * TokensIn(parked, {}) \in Nat
        BY <4>1
      <4> QED
        BY <1>m, <3>1, <4>2 DEF Freed
    <3>3. Fits(DOMAIN parked \ {})
      BY <1>0, <2>5, <3>1, <3>2, FitsBeside
    <3> QED
      BY <1>0, <2>3, <2>6, <3>3 DEF Fits
  <2> QED
    BY <1>0, <2>3, <2>4, <2>5, <2>6 DEF LadderInv
<1>4. CASE PlanEviction
  <2>1. PICK seen \in {reading, Wired}:
               /\ Read(reading, seen)
               /\ reading' = seen
               /\ chosen' = IF Deficit(seen) > 0
                            THEN Plan(Deficit(seen)) ELSE {}
    BY <1>4 DEF PlanEviction
  <2>2. /\ failures' \in 0 .. MaxFailures /\ seen \in Nat
        /\ failures' = 0 => failures = 0 /\ seen = Wired
    BY <1>m, <1>r, <2>1
  <2>3. /\ rung = "plan" /\ rung' = "evict"
        /\ UNCHANGED <<garbage, live, parked>>
    BY <1>4 DEF PlanEviction, memory
  <2>4. chosen' \subseteq DOMAIN parked
    BY <1>m, <2>1, <2>2, PlanCovers
  <2>5. LadderTypeOK'
    BY <1>0, <1>m, <2>1, <2>2, <2>3, <2>4 DEF LadderTypeOK
  <2>6. NewTokens > 0
    BY <2>3 DEF LadderInv
  <2>7. ASSUME Exact' PROVE Fits(DOMAIN parked \ chosen)'
    <3>1. Exact /\ seen = Wired
      BY <1>0, <2>2, <2>7 DEF Exact
    <3>2. Fits(DOMAIN parked \ chosen')
      <4>1. CASE Deficit(Wired) > 0
        BY <1>0, <2>1, <2>6, <3>1, <4>1, PlanFits
      <4>2. CASE ~(Deficit(Wired) > 0)
        <5>1. TokensIn(parked, {}) \in Nat /\ 100 * PerToken \in Nat
          BY <1>m, HeldType DEF AdmissionAssumption
        <5>2. (100 * PerToken) * TokensIn(parked, {}) \in Nat
          BY <5>1
        <5>3. Freed({}) >= Deficit(Wired)
          BY <1>m, <4>2, <5>2 DEF Freed
        <5>4. Fits(DOMAIN parked \ {})
          BY <1>0, <2>6, <3>1, <5>3, FitsBeside
        <5> QED
          BY <2>1, <3>1, <4>2, <5>4
      <4> QED
        BY <4>1, <4>2
    <3> QED
      BY <1>0, <2>3, <3>2 DEF Fits
  <2> QED
    BY <1>0, <2>3, <2>5, <2>6, <2>7 DEF LadderInv
<1>5. CASE Evict
  <2>1. PICK i \in chosen:
               /\ \/ parked' = [parked EXCEPT ![i] = 0] /\ UNCHANGED failures
                  \/ /\ failures < MaxFailures /\ failures' = failures + 1
                     /\ UNCHANGED parked
               /\ chosen' = chosen \ {i}
    BY <1>5 DEF Evict
  <2>2. /\ rung = "evict" /\ rung' = "evict"
        /\ UNCHANGED <<garbage, live, reading>>
    BY <1>5 DEF Evict
  <2>3. i \in DOMAIN parked /\ chosen \subseteq DOMAIN parked
    BY <1>0, <2>1 DEF LadderTypeOK
  <2>4. /\ parked' \in Seq(Nat) /\ DOMAIN parked' = DOMAIN parked
        /\ failures' \in 0 .. MaxFailures
    <3>1. /\ \/ failures' = failures
             \/ failures < MaxFailures /\ failures' = failures + 1
          /\ parked' = parked \/ parked' = [parked EXCEPT ![i] = 0]
      BY <2>1
    <3>2. failures' \in 0 .. MaxFailures
      <4>1. failures \in 0 .. MaxFailures
        BY <1>0 DEF LadderTypeOK
      <4> QED
        BY ONLY <1>m, <3>1, <4>1
    <3> QED
      BY <1>m, <2>3, <3>1, <3>2, DroppedType
  <2>5. LadderTypeOK'
    BY <1>0, <1>m, <2>1, <2>2, <2>3, <2>4 DEF LadderTypeOK
  <2>6. NewTokens > 0
    BY <2>2 DEF LadderInv
  <2>7. ASSUME Exact' PROVE Fits(DOMAIN parked \ chosen)'
    <3>1. Exact /\ parked' = [parked EXCEPT ![i] = 0]
      BY <1>0, <1>m, <2>1, <2>7 DEF Exact
    <3>2. Fits(DOMAIN parked \ chosen)
      BY <2>2, <3>1 DEF LadderInv
    <3>3. DOMAIN parked' \ chosen' = (DOMAIN parked \ chosen) \cup {i}
      BY <2>1, <2>3, <2>4
    <3>4. TokensIn(parked', (DOMAIN parked \ chosen) \cup {i})
          = TokensIn(parked, DOMAIN parked \ chosen)
      BY <1>m, <2>1, <2>3, <3>1, HeldDropped
    <3>5. TokensIn(parked', DOMAIN parked' \ chosen')
          = TokensIn(parked, DOMAIN parked \ chosen)
      BY <3>3, <3>4
    <3> QED
      BY <1>0, <2>2, <3>2, <3>5 DEF Fits
  <2> QED
    BY <1>0, <2>2, <2>5, <2>6, <2>7 DEF LadderInv
<1>6. CASE Proceed
  <2>1. /\ rung = "evict" /\ rung' = "admitted" /\ chosen = {}
        /\ UNCHANGED <<garbage, live, parked, reading, chosen, failures>>
    BY <1>6 DEF Proceed, memory
  <2>2. LadderTypeOK'
    BY <1>0, <2>1 DEF LadderTypeOK
  <2>3. NewTokens > 0
    BY <2>1 DEF LadderInv
  <2>4. ASSUME Exact' PROVE Fits(DOMAIN parked)'
    <3>1. Fits(DOMAIN parked \ {})
      BY <1>0, <2>1, <2>4 DEF LadderInv, Exact
    <3> QED
      BY <1>0, <2>1, <3>1 DEF Fits
  <2> QED
    BY <1>0, <2>1, <2>2, <2>3, <2>4 DEF LadderInv
<1>7. CASE Release
  <2>1. /\ rung \in {"plan", "evict"}
        /\ UNCHANGED <<rung, garbage, live, reading, chosen>>
        /\ parked' = [i \in DOMAIN parked |-> 0] /\ failures' = failures + 1
        /\ failures < MaxFailures
    BY <1>7 DEF Release
  <2>2. parked' \in Seq(Nat) /\ DOMAIN parked' = DOMAIN parked
    BY <1>m, <2>1
  <2>3. LadderTypeOK'
    BY <1>0, <1>m, <2>1, <2>2 DEF LadderTypeOK
  <2>4. NewTokens > 0 /\ ~Exact'
    BY <1>m, <2>1 DEF LadderInv, Exact
  <2> QED
    BY <1>0, <2>1, <2>3, <2>4 DEF LadderInv
<1>8. CASE UNCHANGED ladder
  <2>1. UNCHANGED <<rung, garbage, live, parked, reading, chosen, failures>>
    BY <1>8 DEF ladder, memory
  <2>2. LadderTypeOK'
    BY <1>0, <2>1 DEF LadderTypeOK
  <2> QED
    BY <1>0, <2>1, <2>2 DEF LadderInv, Exact, Fits
<1> QED
  BY <1>1, <1>2, <1>3, <1>4, <1>5, <1>6, <1>7, <1>8 DEF LadderNext
LEMMA SpecLadder ==
  ASSUME AdmissionAssumption
  PROVE  LadderSpec => []LadderInv
BY InitLadder, LadderStep, PTL DEF LadderSpec

\* For every estimate, budget and set of slots: a guarded prefill whose
\* estimate was right and which met no failure fits, or nothing is left that
\* the guard could have given up.
THEOREM AdmittedPrefillsFit ==
  ASSUME AdmissionAssumption
  PROVE  LadderSpec => []AdmittedFits
<1>1. LadderInv => AdmittedFits
  <2> SUFFICES ASSUME LadderInv PROVE AdmittedFits
    OBVIOUS
  <2>1. LadderTypeOK
    BY DEF LadderInv
  <2>2. ASSUME rung = "admitted", failures = 0, real = PerToken, limit > 0
        PROVE  \/ 100 * (Wired + prefill.new * real + Reserve)
                  <= limit * Percent
               \/ Added(parked) = 0
    <3>1. Fits(DOMAIN parked)
      BY <2>2 DEF LadderInv, Exact
    <3>2. TokensIn(parked, DOMAIN parked) = Added(parked)
      BY <2>1, MemoryIs, HeldAll
    <3> QED
      BY <3>1, <3>2 DEF Fits, Wired
  <2> QED
    BY <2>1, <2>2 DEF AdmittedFits
<1> QED
  BY <1>1, SpecLadder, PTL

\* Taking the largest first gives up the fewest: no set of parked slots with
\* fewer members covers the deficit that the plan was made for.
THEOREM FewestEvicted ==
  ASSUME AdmissionAssumption
  PROVE  LadderSpec => EvictionIsLeast
<1> DEFINE Least == rung = "plan" /\ rung' = "evict" =>
                      /\ chosen' # {} => Deficit(reading') > 0
                      /\ \A set \in SUBSET DOMAIN parked:
                           Freed(set) >= Deficit(reading')
                           => Cardinality(set) >= Cardinality(chosen')
<1>1. LadderInv /\ [LadderNext]_ladder => Least
  <2> SUFFICES ASSUME LadderInv, [LadderNext]_ladder,
                      rung = "plan", rung' = "evict"
               PROVE  /\ chosen' # {} => Deficit(reading') > 0
                      /\ \A set \in SUBSET DOMAIN parked:
                           Freed(set) >= Deficit(reading')
                           => Cardinality(set) >= Cardinality(chosen')
    OBVIOUS
  <2>1. PlanEviction
    BY DEF LadderNext, ladder, DropLive, Unguarded, Consider, Evict, Proceed,
           Release
  <2>2. PICK seen \in {reading, Wired}:
               /\ reading' = seen
               /\ chosen' = IF Deficit(seen) > 0
                            THEN Plan(Deficit(seen)) ELSE {}
    BY <2>1 DEF PlanEviction
  <2>3. /\ seen \in Nat /\ Deficit(seen) \in Int /\ parked \in Seq(Nat)
    BY MemoryIs DEF LadderInv
  <2>4. CASE Deficit(seen) > 0
    <3>1. \A set \in SUBSET DOMAIN parked:
            Freed(set) >= Deficit(seen)
            => Cardinality(set) >= Cardinality(Plan(Deficit(seen)))
      BY <2>3, PlanIsLeast
    <3> QED
      BY <2>2, <2>4, <3>1
  <2>5. CASE ~(Deficit(seen) > 0)
    <3>1. chosen' = {} /\ Cardinality(chosen') = 0
      BY <2>2, <2>5, FS_EmptySet
    <3>2. \A set \in SUBSET DOMAIN parked: Cardinality(set) \in Nat
      BY <2>3, SizeOf
    <3> QED
      BY <3>1, <3>2
  <2> QED
    BY <2>4, <2>5
<1>2. LadderSpec => [][Least]_ladder
  <2> HIDE DEF Least
  <2> QED
    BY <1>1, SpecLadder, PTL DEF LadderSpec
<1> QED
  BY <1>2 DEF EvictionIsLeast
=============================================================================
