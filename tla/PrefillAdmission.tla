--------------------------- MODULE PrefillAdmission ---------------------------
(***************************************************************************)
(* The prefill admission guard (m3_prefill_admission.py and its callbacks  *)
(* in sharded_server.py).  Before a large prefill a rank compares what it  *)
(* has wired with what the prefill will add and, if that is over the       *)
(* budget, gives memory back in rungs: the stale live cache of a request   *)
(* without a cache (opt-in), the allocator's pool and Python's garbage,    *)
(* then parked slots, largest first.  It never refuses a request.          *)
(*                                                                         *)
(* One rank, one prefill: the guard sends nothing to the other rank, and   *)
(* PromptCache!Admit is what it may do to the caches of both.  Memory is   *)
(* in units of which a token's KV takes PerToken by the guard's estimate   *)
(* and "real" in truth.  Hundredths keep the budget fraction integral.     *)
(*                                                                         *)
(* The specification is LadderSpec: WiredMemoryProofs extends this module  *)
(* and RestartLoop, so that the two have no name in common.                *)
(***************************************************************************)
EXTENDS Integers, Sequences, FiniteSets

CONSTANTS MinPrompt,   \* MIN_PROMPT_TOKENS
          Percent,     \* SAFETY_FRACTION, of the wired limit
          PerToken,    \* DEFAULT_KV_BYTES_PER_TOKEN
          Reserve,     \* ACTIVATION_RESERVE_BYTES
          DirectIds,   \* PROMPT_CACHE_DIRECT_SUFFIX_IDS
          DropsStale,  \* MLX_M3_ADMISSION_DROP_STALE_LIVE
          Limits,      \* wired limits, 0 if unknown
          Reals,       \* what a token may really take
          Prefills,    \* [total, new: tokens, cache: whether it has one]
          Layouts,     \* [base, garbage: units, live: tokens, parked: lengths]
          MaxFailures    \* bound on failed reads, failed drops, releases

AdmissionAssumption ==
  /\ {MinPrompt, Percent, Reserve, MaxFailures} \subseteq Nat
  /\ PerToken \in Nat \ {0}
  /\ Limits \cup Reals \subseteq Nat
  /\ DirectIds \in BOOLEAN /\ DropsStale \in BOOLEAN
  /\ Prefills \subseteq [total: Nat, new: Nat, cache: BOOLEAN]
  /\ \A p \in Prefills: p.new \in 1 .. p.total /\ (~p.cache => p.new = p.total)
  /\ Layouts \subseteq [base: Nat, garbage: Nat, live: Nat, parked: Seq(Nat)]
ASSUME AdmissionAssumption

VARIABLES
  rung,     \* the next one
  limit, real, prefill,
  base,     \* units of the model and of this request
  garbage,  \* units that a collection frees
  live,     \* tokens of the live slot
  parked,   \* tokens of the resident slots, oldest first
  reading,  \* the last reading of the wired memory that is kept
  chosen,   \* the slots that are still to be dropped: a set of indices
  failures

memory == <<base, garbage, live, parked>>
ladder == <<rung, limit, real, prefill, memory, reading, chosen, failures>>

LadderInit ==
  /\ rung = "start"
  /\ limit \in Limits /\ real \in Reals /\ prefill \in Prefills
  /\ \E m \in Layouts: /\ base = m.base /\ garbage = m.garbage
                        /\ live = m.live /\ parked = m.parked
  /\ reading = 0
  /\ chosen = {}
  /\ failures = 0

-----------------------------------------------------------------------------
Added(seq) == LET Upto[n \in 0 .. Len(seq)] ==
                    IF n = 0 THEN 0 ELSE Upto[n - 1] + seq[n]
              IN  Upto[Len(seq)]

\* The tokens that some of the slots hold.
TokensIn(slots, set) == Added([i \in DOMAIN slots |->
                             IF i \in set THEN slots[i] ELSE 0])

\* What is in use; a slot that is dropped leaves a hole of length 0.
Wired == base + garbage + real * (live + Added(parked))

\* _prefill_admission_new_tokens: with suffix ids, what will be fed; without
\* them nothing if there is a cache object, and else the whole prompt.
NewTokens ==
  IF prefill.cache THEN IF DirectIds THEN prefill.new ELSE 0
  ELSE prefill.total

\* admission_deficit_bytes in hundredths; an unknown limit is no deficit.
Deficit(seen) ==
  IF limit = 0 THEN 0
  ELSE 100 * (seen + NewTokens * PerToken + Reserve) - limit * Percent

\* The slots that hold something.
Slots == {i \in DOMAIN parked: parked[i] > 0}

\* Mutant: in the order in which they were parked.
Sooner_Oldest(i, j) == i < j

\* The order in which slots are given up: the largest first, and of two equal
\* ones the older.
Sooner(i, j) == \/ parked[i] > parked[j]
                \/ parked[i] = parked[j] /\ i < j

\* The beginnings of that order, as sets, and those that cover a deficit.
InOrder == {set \in SUBSET Slots:
              \A i \in set, j \in Slots: Sooner(j, i) => j \in set}
Freed(set) == 100 * PerToken * TokensIn(parked, set)
Enough(deficit) == {set \in InOrder: Freed(set) >= deficit}

\* Mutant: stops one slot early.
Plan_Short(deficit) ==
  LET few == InOrder \ Enough(deficit)
  IN  CHOOSE set \in few: \A other \in few: other \subseteq set

\* plan_eviction: the shortest beginning that covers the deficit, else all.
Plan(deficit) ==
  IF Enough(deficit) = {} THEN Slots
  ELSE CHOOSE set \in Enough(deficit):
         \A other \in Enough(deficit): set \subseteq other

\* A reading of the memory, or 0, which the guard replaces by an older one.
Read(old, new) ==
  \/ new = Wired /\ UNCHANGED failures
  \/ new = old /\ failures < MaxFailures /\ failures' = failures + 1

-----------------------------------------------------------------------------
\* The rung before the guard: a prefill without a cache of its own saves and
\* releases the live slot, whatever the size of the prompt.
DropLive ==
  /\ rung = "start" /\ NewTokens > 0
  /\ \E seen \in {0, Wired}:
       /\ Read(0, seen)
       /\ IF DropsStale /\ ~prefill.cache /\ Deficit(seen) > 0
          THEN live' = 0 /\ garbage' = 0
          ELSE UNCHANGED <<live, garbage>>
  /\ rung' = "guard"
  /\ UNCHANGED <<limit, real, prefill, base, parked, reading, chosen>>

\* Nothing new, or not enough of it, to be guarded.
Unguarded ==
  /\ \/ rung = "start" /\ NewTokens = 0
     \/ rung = "guard" /\ NewTokens < MinPrompt
  /\ rung' = "unguarded"
  /\ UNCHANGED <<limit, real, prefill, memory, reading, chosen, failures>>

\* run_admission: a first reading; the prefill fits, or the pool is trimmed.
Consider ==
  /\ rung = "guard" /\ NewTokens >= MinPrompt
  /\ \E seen \in {0, Wired}:
       /\ Read(0, seen)
       /\ reading' = seen
       /\ IF Deficit(seen) <= 0
          THEN rung' = "admitted" /\ UNCHANGED garbage
          ELSE rung' = "plan" /\ garbage' = 0
  /\ UNCHANGED <<limit, real, prefill, base, live, parked, chosen>>

\* What is still missing after the trim is looked for among the parked slots.
PlanEviction ==
  /\ rung = "plan"
  /\ \E seen \in {reading, Wired}:
       /\ Read(reading, seen)
       /\ reading' = seen
       /\ chosen' = IF Deficit(seen) > 0 THEN Plan(Deficit(seen)) ELSE {}
  /\ rung' = "evict"
  /\ UNCHANGED <<limit, real, prefill, memory>>

\* The next slot is dropped, or its drop raises and the one after it follows.
Evict ==
  /\ rung = "evict"
  /\ \E i \in chosen:
       /\ \A j \in chosen: ~Sooner(j, i)
       /\ \/ parked' = [parked EXCEPT ![i] = 0] /\ UNCHANGED failures
          \/ /\ failures < MaxFailures /\ failures' = failures + 1
             /\ UNCHANGED parked
       /\ chosen' = chosen \ {i}
  /\ UNCHANGED <<rung, limit, real, prefill, base, garbage, live, reading>>

Proceed ==
  /\ rung = "evict" /\ chosen = {}
  /\ rung' = "admitted"
  /\ UNCHANGED <<limit, real, prefill, memory, reading, chosen, failures>>

\* The janitor, which decided before the request came, drops every slot.
Release ==
  /\ rung \in {"plan", "evict"} /\ failures < MaxFailures
  /\ parked' = [i \in DOMAIN parked |-> 0]
  /\ failures' = failures + 1
  /\ UNCHANGED <<rung, limit, real, prefill, base, garbage, live, reading,
                 chosen>>

LadderNext == DropLive \/ Unguarded \/ Consider \/ PlanEviction \/ Evict
              \/ Proceed \/ Release

LadderSpec == LadderInit /\ [][LadderNext]_ladder

-----------------------------------------------------------------------------
LadderTypeOK ==
  /\ rung \in {"start", "guard", "plan", "evict", "admitted", "unguarded"}
  /\ limit \in Limits /\ real \in Reals /\ prefill \in Prefills
  /\ {base, garbage, live, reading} \subseteq Nat
  /\ parked \in Seq(Nat)
  /\ chosen \subseteq DOMAIN parked
  /\ failures \in 0 .. MaxFailures

\* When nothing failed and the estimate is what a token takes, a guarded
\* prefill begins within the budget, or with no parked slot left to give up.
\* (With the type invariant.)
AdmittedFits ==
  /\ LadderTypeOK
  /\ rung = "admitted" /\ failures = 0 /\ real = PerToken /\ limit > 0 =>
       \/ 100 * (Wired + prefill.new * real + Reserve) <= limit * Percent
       \/ Added(parked) = 0

\* Parked slots are given up only for a prefill that did not fit, and no
\* smaller number of them would have made it fit by the guard's estimate.
EvictionIsLeast ==
  [][rung = "plan" /\ rung' = "evict" =>
       /\ chosen' # {} => Deficit(reading') > 0
       /\ \A set \in SUBSET DOMAIN parked:
            Freed(set) >= Deficit(reading')
            => Cardinality(set) >= Cardinality(chosen')]_ladder
=============================================================================
