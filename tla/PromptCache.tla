----------------------------- MODULE PromptCache -----------------------------
(***************************************************************************)
(* The prompt cache of the two ranks (sharded_server.py).  Each rank keeps *)
(* one live KV cache with the token ids it is known by, and parks others   *)
(* in resident slots.  Nothing but token ids is broadcast: every rank      *)
(* decides by itself what to reuse of what it has, and one vote before the *)
(* prefill compares lengths.  What is modelled: prepare, vote, generation  *)
(* and the ways it ends, the prewarm, expiry, resets and the janitor.      *)
(*                                                                         *)
(* A KV cache is the sequence of tokens that were fed into it.  The SSD    *)
(* tier is off (SsdCache models it), prompts are text and thinking is not  *)
(* "visible".  What a prefill on a cache feeds is the text of the suffix,  *)
(* tokenised again: that may give other tokens than the prompt has.        *)
(***************************************************************************)
EXTENDS TokenPrefix, SequencesExt

CONSTANTS Sessions,        \* session ids
          Derived,         \* those derived from the messages ("auto." source)
          Prompts,         \* requests: records of a session and its token ids
          Generations,     \* token sequences a generation may sample
          ResidentSlots,   \* PROMPT_CACHE_RESIDENT_SLOTS: live slot included
          ResidentTokens,  \* token cap of live and resident slots, 0: none
          MinReuse,        \* PROMPT_CACHE_MIN_REUSE
          ProtectMin,      \* PROMPT_CACHE_SESSION_PROTECT_MIN_TOKENS
          LargeMin,        \* PROMPT_CACHE_PROTECT_MIN_TOKENS
          BypassMax,       \* the two ..._BYPASS_MAX_TOKENS
          StaticMax,       \* PROMPT_CACHE_STATIC_PREFIX_REBUILD_MAX_TOKENS
          MinSuffix,       \* min_suffix_tokens
          Bucket,          \* PROMPT_CACHE_REUSE_BUCKET_TOKENS, 0: off
          KeyLimit,        \* PROMPT_CACHE_GENERATED_REUSE_MAX_TOKENS, 0: none
          MaxTokens,       \* PROMPT_CACHE_MAX_TOKENS, 0: none
          DropStale,       \* MLX_M3_ADMISSION_DROP_STALE_LIVE
          DirectIds,       \* PROMPT_CACHE_DIRECT_SUFFIX_IDS
          Prewarms,        \* VISIBLE_TRANSCRIPT_PREWARM_ENABLED
          Recoded,         \* the suffixes whose text gives other tokens: these
          MaxRequests,     \* bound on the requests of a behaviour
          NoKv, NoSession

Sequences == {p.ids: p \in Prompts} \cup Generations
             \cup {Recoded[s]: s \in DOMAIN Recoded}
Tokens == UNION {{s[i]: i \in DOMAIN s}: s \in Sequences}

SizesAssumption ==
  /\ Derived \subseteq Sessions /\ NoSession \notin Sessions
  /\ \A p \in Prompts: p.sess \in Sessions \cup {NoSession}
                      /\ p.ids \in Seq(Tokens) \ {<<>>}
  /\ Generations \subseteq Seq(Tokens) /\ NoKv \notin Seq(Tokens)
  /\ ResidentSlots \in Nat \ {0}
  /\ {ResidentTokens, MinReuse, ProtectMin, LargeMin, BypassMax, StaticMax,
      MinSuffix, Bucket, KeyLimit, MaxTokens, MaxRequests} \subseteq Nat
  /\ {DropStale, DirectIds, Prewarms} \subseteq BOOLEAN
  /\ \A s \in DOMAIN Recoded: Recoded[s] \in Seq(Tokens)
ASSUME SizesAssumption

VARIABLES
  holder,    \* per rank: the live slot, _prompt_cache_holder
  resident,  \* per rank: _prompt_cache_resident_slots, oldest first
  inUse,     \* per rank: holder["in_use"]
  preserve,  \* per rank: the last prepare event is one that preserves
  at,        \* per rank: its place in the request
  plan,      \* per rank: the cache it will prefill into, and how it starts
  req,       \* the request both ranks run, and how its generation goes
  janitor,   \* rank 0's janitor has seen an idle server
  causes,    \* what happened that the keys do not survive, for the properties
  count      \* requests so far

vars == <<holder, resident, inUse, preserve, at, plan, req, janitor, causes,
          count>>

Ranks == {0, 1}
\* A slot: the cache, its key, the length and input length on record.
Slot(kv, ids, len, input, sess) ==
  [kv |-> kv, ids |-> ids, len |-> len, input |-> input, sess |-> sess]
Empty == Slot(NoKv, <<>>, 0, 0, NoSession)
Fresh(sess) == Slot(<<>>, <<>>, 0, 0, sess)
NoPlan == [kv |-> NoKv, reuse |-> 0]
NoRequest == [kind |-> "none"]

Init ==
  /\ holder = [r \in Ranks |-> Empty]
  /\ resident = [r \in Ranks |-> <<>>]
  /\ inUse = [r \in Ranks |-> FALSE]
  /\ preserve = [r \in Ranks |-> FALSE]
  /\ at = [r \in Ranks |-> "idle"]
  /\ plan = [r \in Ranks |-> NoPlan]
  /\ req = NoRequest
  /\ janitor = "off"
  /\ causes = {}
  /\ count = 0

-----------------------------------------------------------------------------
(* Resident slots.  A memory is a record of a live slot and the parked      *)
(* ones; the operators return the memory after the call.                    *)

Total(h, parked) ==
  LET Others == {i \in DOMAIN parked: parked[i].sess # h.sess}
      Sum[n \in 0 .. Len(parked)] ==
        IF n = 0 THEN IF h.kv = NoKv THEN 0 ELSE h.len
        ELSE Sum[n - 1] + IF n \in Others THEN parked[n].len ELSE 0
  IN  Sum[Len(parked)]

\* A session has at most one slot.
IsParked(parked, sess) == \E i \in DOMAIN parked: parked[i].sess = sess
Place(parked, sess) == CHOOSE i \in DOMAIN parked: parked[i].sess = sess
Without(parked, sess) ==
  IF IsParked(parked, sess) THEN RemoveAt(parked, Place(parked, sess))
  ELSE parked

\* What the caps allow to be parked beside the live slot h.
Fits(h, parked) ==
  /\ Len(parked) < ResidentSlots
  /\ \/ ResidentTokens = 0 \/ parked = <<>>
     \/ Total(h, parked) <= ResidentTokens

\* Evict the oldest, as few as have to go.
Evicted(h, parked) ==
  LET Left(n) == SubSeq(parked, n + 1, Len(parked))
  IN  Left(CHOOSE n \in 0 .. Len(parked):
             /\ Fits(h, Left(n))
             /\ \A k \in 0 .. Len(parked): Fits(h, Left(k)) => n <= k)

\* Park the live slot under its session, newest last, and evict.
Stash(m) ==
  IF ResidentSlots <= 1 \/ m.live.kv = NoKv \/ m.live.ids = <<>> THEN m
  ELSE [m EXCEPT !.parked =
          Evicted(m.live, Append(Without(@, m.live.sess), m.live))]

\* Swap in the slot that is parked for the session, if there is one.
RestoreResident(m, sess) ==
  IF ResidentSlots > 1 /\ IsParked(m.parked, sess)
  THEN LET slot == m.parked[Place(m.parked, sess)]
           left == [m EXCEPT !.parked = Without(@, sess)]
       IN  [Stash(left) EXCEPT !.live = slot]
  ELSE m

\* A request of another session takes its slot back, or, with one slot only,
\* releases the live one (unless its session is derived).
SwitchSession(m, sess) ==
  IF sess = NoSession \/ m.live.kv = NoKv \/ m.live.sess = sess THEN m
  ELSE IF ResidentSlots > 1 THEN RestoreResident(m, sess)
  ELSE IF sess \in Derived THEN m ELSE [m EXCEPT !.live = Empty]

-----------------------------------------------------------------------------
(* _prepare_cached_prompt: what a rank makes of its memory for a prompt.    *)
(* The result adds whether the prompt uses the live cache and whether the   *)
(* event recorded is one that preserves it.                                 *)

Using(m) == [live |-> m.live, parked |-> m.parked, uses |-> TRUE,
             keeps |-> FALSE]
Bypass(m, keeps) == [live |-> m.live, parked |-> m.parked, uses |-> FALSE,
                     keeps |-> keeps]

Rebuild(m, sess) == Using([m EXCEPT !.live = Fresh(sess)])

\* The cache kept under an empty key is taken as it is.
Cold(m, sess) ==
  Using([m EXCEPT !.live =
           [Fresh(sess) EXCEPT !.kv = IF m.live.kv = NoKv THEN <<>>
                                      ELSE m.live.kv]])

Protected(h) == IF h.len > 0 THEN h.len ELSE Len(h.ids)
Mismatch(h, sess) == sess # NoSession /\ h.sess # NoSession /\ sess # h.sess

\* A derived session may only continue what it is an extension or a part of.
AutoRebuild(h, p, reuse) ==
  /\ (IF p.sess # NoSession THEN p.sess ELSE h.sess) \in Derived
  /\ h.sess = NoSession \/ h.sess # p.sess
  /\ h.input > 0
  /\ reuse < Smaller(h.input, Len(p.ids))

\* Two sessions that share nearly all of a small prompt.
StaticSwitch(h, p, reuse) ==
  /\ Mismatch(h, p.sess) /\ reuse >= MinReuse /\ Len(p.ids) <= BypassMax
  /\ Protected(h) <= Larger(Len(p.ids) + StaticMax, 4 * StaticMax)
  /\ reuse * 10 >= Len(p.ids) * 9

StaticRebuild(h, p, reuse) ==
  /\ Mismatch(h, p.sess) /\ Protected(h) < ProtectMin
  /\ Len(p.ids) <= StaticMax /\ reuse >= MinReuse
  /\ reuse * 10 <= Len(p.ids) * 8

\* How much to reuse after the backtracks: one token at an exact hit, down to
\* the bucket, and far enough for a suffix of the minimum length.
Backtracked(n, reuse) ==
  LET exact == IF reuse = n THEN reuse - 1 ELSE reuse
      down == IF Bucket = 0 THEN exact ELSE (exact \div Bucket) * Bucket
      bucketed == IF exact > MinReuse /\ down >= MinReuse THEN down ELSE exact
      more == IF n - bucketed < MinSuffix THEN MinSuffix - (n - bucketed)
              ELSE 0
  IN  IF bucketed > MinReuse THEN bucketed - Smaller(bucketed, more)
      ELSE bucketed

Trimmed(h, n) ==
  [h EXCEPT !.kv = SubSeq(@, 1, Len(@) - Smaller(h.len - n, Len(@))),
            !.len = n]

\* Trims fail at once ("first"), after the first one ("later") or not at all.
Reuse(m, p, reuse, trims) ==
  LET final == Backtracked(Len(p.ids), reuse)
      first == [m EXCEPT !.live = Trimmed(@, reuse)]
  IN  IF m.live.len < reuse \/ (m.live.len > reuse /\ trims = "first")
      THEN Rebuild(Stash(m), p.sess)
      ELSE IF final < reuse /\ trims = "later"
      THEN Rebuild(Stash(first), p.sess)
      ELSE Using([m EXCEPT !.live = Trimmed(@, final)])

Prepared(before, p, trims) ==
  LET m == SwitchSession(before, p.sess)
      reuse == Common(m.live.ids, p.ids)
      short == Len(p.ids) <= BypassMax
      big == Protected(m.live) >= ProtectMin
  IN  IF m.live.kv = NoKv \/ m.live.ids = <<>> THEN Cold(m, p.sess)
      ELSE IF AutoRebuild(m.live, p, reuse)
      THEN IF big /\ short THEN Bypass(m, FALSE)
           ELSE Rebuild(IF big THEN Stash(m) ELSE m, p.sess)
      ELSE IF Mismatch(m.live, p.sess) /\ big /\ ~StaticSwitch(m.live, p, reuse)
      THEN Rebuild(Stash(m), p.sess)
      ELSE IF Protected(m.live) >= LargeMin /\ short /\ reuse < LargeMin
      THEN Bypass(m, TRUE)
      ELSE IF StaticRebuild(m.live, p, reuse) THEN Rebuild(m, p.sess)
      ELSE IF reuse < MinReuse THEN Rebuild(Stash(m), p.sess)
      ELSE Reuse(m, p, reuse, trims)

-----------------------------------------------------------------------------
(* One rank's memory outside of prepare.                                    *)

\* What happened is remembered if it did.
Blame(cause, happened) ==
  causes' = IF happened THEN causes \cup {cause} ELSE causes

\* _drop_prompt_cache_unlocked: the parked slots go only with everything.
Drop(r, everything) ==
  /\ holder' = [holder EXCEPT ![r] = Empty]
  /\ resident' = [resident EXCEPT ![r] = IF everything THEN <<>> ELSE @]
  /\ inUse' = [inUse EXCEPT ![r] = FALSE]
  /\ preserve' = [preserve EXCEPT ![r] = FALSE]

DropBoth(everything) ==
  /\ holder' = [r \in Ranks |-> Empty]
  /\ resident' = IF everything THEN [r \in Ranks |-> <<>>] ELSE resident
  /\ inUse' = [r \in Ranks |-> FALSE]
  /\ preserve' = [r \in Ranks |-> FALSE]

\* An idle cache expires by the clock of its rank.
Expire(r) ==
  /\ holder[r].kv # NoKv /\ ~inUse[r]
  /\ Drop(r, TRUE)
  /\ UNCHANGED <<at, plan, req, janitor, causes, count>>

-----------------------------------------------------------------------------
(* A request: prepare on each rank, the vote, the generation, its end.      *)

Idle == req.kind = "none"

Arrive(kind, p) ==
  /\ Idle /\ count < MaxRequests
  /\ kind = "prewarm" => Prewarms
  /\ req' = [kind |-> kind, sess |-> p.sess, ids |-> p.ids, gen |-> <<>>,
             end |-> "open", full |-> FALSE]
  /\ at' = [r \in Ranks |-> "start"]
  /\ count' = count + 1
  /\ UNCHANGED <<holder, resident, inUse, preserve, plan, janitor, causes>>

Prepare(r) ==
  /\ at[r] = "start"
  /\ \E trims \in {"ok", "first", "later"}:
       LET new == Prepared([live |-> holder[r], parked |-> resident[r]],
                           req, trims)
       IN  /\ holder' = [holder EXCEPT ![r] = new.live]
           /\ resident' = [resident EXCEPT ![r] = new.parked]
           /\ preserve' = [preserve EXCEPT ![r] = new.keeps]
           /\ plan' = [plan EXCEPT ![r] =
                IF new.uses THEN [kv |-> new.live.kv, reuse |-> new.live.len]
                ELSE NoPlan]
             /\ Blame("bypassed", ~new.uses /\ ~new.keeps)
  /\ at' = [at EXCEPT ![r] = "prepared"]
  /\ inUse' = [inUse EXCEPT ![r] = TRUE]
  /\ UNCHANGED <<req, janitor, count>>

\* Prepare raised: the rank takes part in the vote, with a sentinel.
PrepareFails(r) ==
  /\ at[r] = "start"
  /\ at' = [at EXCEPT ![r] = "failed"]
  /\ inUse' = [inUse EXCEPT ![r] = FALSE]
  /\ UNCHANGED <<holder, resident, preserve, plan, req, janitor, causes, count>>

Physical(r) == IF plan[r].kv = NoKv THEN 0 ELSE Len(plan[r].kv)
Counter(r) == IF plan[r].kv = NoKv THEN 0 ELSE holder[r].len
Suffix(r) == Len(req.ids) - plan[r].reuse
Vote(r) == <<Physical(r), Counter(r), Suffix(r)>>
BothAt(where) == \A r \in Ranks: at[r] \in where

Close ==
  /\ req' = NoRequest
  /\ at' = [r \in Ranks |-> "idle"]
  /\ plan' = [r \in Ranks |-> NoPlan]

\* How the generation will go.  Both ranks sample and feed the same tokens.
\* Rank 0 alone knows of a forced EOS: by a client's stop, by a parser, by the
\* repetition guard.
Ends == {"done", "incomplete", "stop", "parser", "guard", "abandoned", "error"}
StartDecode(where, ends, gens) ==
  /\ \E end \in ends, gen \in gens, full \in BOOLEAN:
       req' = [req EXCEPT !.end = end, !.gen = gen, !.full = full]
  /\ at' = [r \in Ranks |-> where]

\* Mutant: only what is still to be fed is compared.
Agreed_SuffixOnly == Suffix(0) = Suffix(1)

\* _prefix_plan_consensus: go on only with the same lengths, else rebuild.
Agreed == Vote(0) = Vote(1) /\ \A r \in Ranks: Physical(r) = Counter(r)

Consensus ==
  /\ req.kind = "chat" /\ BothAt({"prepared"})
  /\ StartDecode("admit", Ends, Generations)
  /\ IF Agreed THEN UNCHANGED <<holder, resident, inUse, preserve, plan>>
     ELSE DropBoth(FALSE) /\ plan' = [r \in Ranks |-> NoPlan]
  /\ UNCHANGED <<janitor, causes, count>>

\* One rank's prepare failed: both abort the request.
Abort ==
  /\ req.kind = "chat" /\ BothAt({"prepared", "failed"}) /\ ~BothAt({"prepared"})
  /\ Close
  /\ inUse' = [r \in Ranks |-> FALSE]
  /\ UNCHANGED <<holder, resident, preserve, janitor, causes, count>>

\* _maybe_run_prefill_admission: under memory pressure a rank gives up parked
\* slots, and its live slot if the prefill has no cache (PrefillAdmission says
\* which).  The other rank may have no pressure.
Admit(r) ==
  /\ at[r] = "admit"
  /\ at' = [at EXCEPT ![r] = "decode"]
  /\ \E n \in 0 .. Len(resident[r]):
       \E left \in [1 .. n -> DOMAIN resident[r]]:
         /\ \A i, j \in 1 .. n: i < j => left[i] < left[j]
         /\ resident' = [resident EXCEPT ![r] = [i \in 1 .. n |-> @[left[i]]]]
  /\ \/ UNCHANGED holder
     \/ /\ DropStale /\ plan[r].kv = NoKv /\ holder[r].kv # NoKv
        /\ holder' = [holder EXCEPT ![r] = Empty]
  /\ UNCHANGED <<inUse, preserve, plan, req, janitor, causes, count>>

\* The rank's holder still has the cache that the generation works on.
Attached(r) == plan[r].kv # NoKv /\ holder[r].kv # NoKv

\* The suffix as it is fed.  A prompt without a cache was tokenised as it is; a
\* prewarm never sends token ids.
Fed(kind, reuse, suffix) ==
  IF (DirectIds /\ kind = "chat") \/ reuse = 0 \/ suffix \notin DOMAIN Recoded
  THEN suffix ELSE Recoded[suffix]
Feed(r) == Fed(req.kind, plan[r].reuse,
               SubSeq(req.ids, plan[r].reuse + 1, Len(req.ids)))

Recodes(r) ==
  Attached(r) /\ Feed(r) # SubSeq(req.ids, plan[r].reuse + 1, Len(req.ids))

After(r) == IF Attached(r) THEN plan[r].kv \o Feed(r) \o req.gen
            ELSE holder[r].kv

\* _update_prompt_cache_after_generation: the rank saw n generated tokens; if
\* that is not what the cache holds the cache is right.
Recorded(r, kv, n) ==
  LET seen == IF KeyLimit = 0 THEN n ELSE Smaller(n, KeyLimit)
      key == IF req.full THEN req.ids \o Take(req.gen, seen) ELSE req.ids
      sess == IF req.sess = NoSession THEN holder[r].sess ELSE req.sess
  IN  IF kv = NoKv
      THEN Slot(NoKv, key, Len(req.ids) + n, Len(req.ids), sess)
      ELSE Slot(kv, Take(key, Len(kv)), Len(kv), Len(req.ids), sess)

Record(r, kv, counts) ==
  /\ \E n \in counts:
       LET new == Recorded(r, kv, n)
       IN  IF MaxTokens > 0 /\ new.kv # NoKv /\ new.len > MaxTokens
           THEN /\ holder' = [holder EXCEPT ![r] = Empty]
                /\ resident' = [resident EXCEPT ![r] = <<>>]
                /\ preserve' = [preserve EXCEPT ![r] = FALSE]
           ELSE /\ holder' = [holder EXCEPT ![r] = new]
                /\ UNCHANGED <<resident, preserve>>
  /\ inUse' = [inUse EXCEPT ![r] = FALSE]

Leave(r, kv) ==
  /\ holder' = [holder EXCEPT ![r].kv = kv]
  /\ inUse' = [inUse EXCEPT ![r] = FALSE]
  /\ UNCHANGED <<resident, preserve>>

\* Mutant: a bypass is not looked for.
KeepPrefix_Blind(r, kv) ==
  IF kv # NoKv /\ Len(kv) >= Len(req.ids)
  THEN /\ holder' = [holder EXCEPT ![r] =
                       Slot(SubSeq(kv, 1, Len(req.ids)), req.ids, Len(req.ids),
                            Len(req.ids), @.sess)]
       /\ inUse' = [inUse EXCEPT ![r] = FALSE]
       /\ UNCHANGED <<resident, preserve>>
  ELSE Drop(r, FALSE)

\* _keep_prompt_prefix_after_cancel, or else a reset of the live slot.
KeepPrefix(r, kv) ==
  IF ~preserve[r] /\ kv # NoKv /\ Len(kv) >= Len(req.ids)
  THEN /\ holder' = [holder EXCEPT ![r] =
                       Slot(SubSeq(kv, 1, Len(req.ids)), req.ids, Len(req.ids),
                            Len(req.ids), @.sess)]
       /\ inUse' = [inUse EXCEPT ![r] = FALSE]
       /\ UNCHANGED <<resident, preserve>>
  ELSE Drop(r, FALSE)

\* A rank's generation loop ends, on rank 1 perhaps a token short of what was
\* decoded.  An abandoned prefill leaves the caller's cache as it was.
Finish(r) ==
  /\ at[r] = "decode" /\ req.kind = "chat"
  /\ LET end == IF r = 1 /\ req.end \in {"stop", "parser", "guard"} THEN "done"
                ELSE req.end
         seen == {Len(req.gen)} \cup {Len(req.gen) - r}
     IN  \/ /\ end = "done" /\ ~preserve[r] /\ Record(r, After(r), seen)
         \/ /\ end = "done" /\ preserve[r] /\ Leave(r, After(r))
         \/ /\ end \in {"stop", "parser"} /\ KeepPrefix(r, After(r))
         \/ /\ end = "guard" /\ Leave(r, After(r))
         \/ /\ end = "abandoned" /\ KeepPrefix(r, holder[r].kv)
         \/ /\ end = "abandoned" /\ r = 1 /\ ~preserve[r]
            /\ Record(r, holder[r].kv, {0})
         \/ /\ end \in {"incomplete", "error"} /\ Drop(r, FALSE)
  /\ at' = [at EXCEPT ![r] = "finished"]
  /\ Blame("recoded", Recodes(r))
  /\ UNCHANGED <<plan, req, janitor, count>>

\* A stop by a client resets the live slots of both ranks before it is over.
Complete ==
  /\ req.kind = "chat" /\ BothAt({"finished"})
  /\ Close
  /\ IF req.end \in {"stop", "abandoned"} THEN DropBoth(FALSE)
     ELSE UNCHANGED <<holder, resident, inUse, preserve>>
  /\ UNCHANGED <<janitor, causes, count>>

-----------------------------------------------------------------------------
(* _prewarm_prompt_cache: the visible transcript through the same prepare,  *)
(* a vote of its own and a one-token generation that is trimmed off again.  *)

Skips(r) == at[r] = "failed" \/ (plan[r].kv = NoKv /\ preserve[r])

PrewarmVote ==
  /\ req.kind = "prewarm" /\ BothAt({"prepared", "failed"})
  /\ IF \E r \in Ranks: Skips(r)
     THEN LET lost == {r \in Ranks: at[r] = "failed" /\ ~preserve[r]}
          IN  /\ Close
              /\ holder' = [r \in Ranks |-> IF r \in lost THEN Empty
                                            ELSE holder[r]]
              /\ inUse' = [r \in Ranks |-> FALSE]
              /\ UNCHANGED <<resident, preserve>>
     ELSE IF Physical(0) # Physical(1) \/ Suffix(0) # Suffix(1)
     THEN Close /\ DropBoth(TRUE)
     ELSE /\ StartDecode("decode", {"done"},
                      {g \in Generations: Len(g) = 1})
          /\ preserve' = [r \in Ranks |-> FALSE]
          /\ UNCHANGED <<holder, resident, inUse, plan>>
  /\ UNCHANGED <<janitor, causes, count>>

FinishPrewarm(r) ==
  /\ at[r] = "decode" /\ req.kind = "prewarm"
  /\ IF plan[r].kv = NoKv THEN Drop(r, FALSE)
     ELSE /\ LET kv == After(r)
                 left == IF kv = NoKv THEN kv ELSE SubSeq(kv, 1, Len(kv) - 1)
             IN  holder' = [holder EXCEPT ![r] =
                   Slot(left, req.ids, Len(req.ids), Len(req.ids), req.sess)]
          /\ inUse' = [inUse EXCEPT ![r] = FALSE]
          /\ UNCHANGED <<resident, preserve>>
  /\ at' = [at EXCEPT ![r] = "finished"]
  /\ Blame("recoded", Recodes(r))
  /\ UNCHANGED <<plan, req, janitor, count>>

CompletePrewarm ==
  /\ req.kind = "prewarm" /\ BothAt({"finished"})
  /\ Close
  /\ UNCHANGED <<holder, resident, inUse, preserve, janitor, causes, count>>

-----------------------------------------------------------------------------
(* Resets from outside of requests.                                         *)

\* /admin reset: the broadcast and rank 0's own half.
Reset ==
  /\ Idle
  /\ DropBoth(TRUE)
  /\ UNCHANGED <<at, plan, req, janitor, causes, count>>

\* The janitor finds the server idle and broadcasts, which may fail.
JanitorBroadcast ==
  /\ Idle /\ janitor = "off"
  /\ janitor' = "idle release"
  /\ \/ Drop(1, TRUE)
     \/ UNCHANGED <<holder, resident, inUse, preserve>>
  /\ UNCHANGED <<at, plan, req, causes, count>>

\* Its own half looks neither at the requests nor at the in-use flag.
JanitorRelease ==
  /\ janitor = "idle release"
  /\ janitor' = "off"
  /\ Drop(0, TRUE)
  /\ UNCHANGED <<at, plan, req, causes, count>>

Next ==
  \/ \E p \in Prompts, kind \in {"chat", "prewarm"}: Arrive(kind, p)
  \/ \E r \in Ranks: \/ Prepare(r) \/ PrepareFails(r) \/ Admit(r)
                     \/ Finish(r) \/ FinishPrewarm(r) \/ Expire(r)
  \/ Consensus \/ Abort \/ Complete \/ PrewarmVote \/ CompletePrewarm
  \/ Reset \/ JanitorBroadcast \/ JanitorRelease

Spec == Init /\ [][Next]_vars

-----------------------------------------------------------------------------
SlotType == [kv: Seq(Tokens) \cup {NoKv}, ids: Seq(Tokens), len: Nat,
             input: Nat, sess: Sessions \cup {NoSession}]

TypeOK ==
  /\ holder \in [Ranks -> SlotType]
  /\ resident \in [Ranks -> Seq(SlotType)]
  /\ inUse \in [Ranks -> BOOLEAN]
  /\ preserve \in [Ranks -> BOOLEAN]
  /\ \A r \in Ranks:
       /\ at[r] \in {"idle", "start", "prepared", "failed", "admit",
                     "decode", "finished"}
       /\ plan[r] \in [kv: Seq(Tokens) \cup {NoKv}, reuse: Nat]
       /\ Len(resident[r]) < ResidentSlots
  /\ Idle <=> BothAt({"idle"})
  /\ janitor \in {"off", "idle release"} /\ count \in 0 .. MaxRequests
  /\ causes \subseteq {"bypassed", "recoded"}

\* As long as no suffix has changed in its text form and no derived session was
\* kept off a cache that it then records as its own, the ranks may take keys and
\* lengths on trust.

\* A prefill that starts on a cache completes exactly the prompt: what each
\* rank reuses, whatever its expiries, evictions, retries and resets did to it
\* and whatever the other rank did, is the beginning of the prompt, and both
\* ranks have suffixes of the same length.
PlanIsSound ==
  causes = {} /\ BothAt({"admit", "decode"}) =>
    /\ Physical(0) = Physical(1) /\ Suffix(0) = Suffix(1)
    /\ \A r \in Ranks: plan[r].kv # NoKv =>
         plan[r].kv = SubSeq(req.ids, 1, plan[r].reuse)

\* A slot whose counter agrees with its cache is what its key says, as far as
\* both go; this is what a later request takes on trust, live or parked.
\* (With the type invariant.)
Honest(s) ==
  s.kv # NoKv /\ s.len = Len(s.kv) =>
    \A i \in DOMAIN s.kv \cap DOMAIN s.ids: s.kv[i] = s.ids[i]
KeysAreHonest ==
  /\ TypeOK
  /\ causes = {} => \A r \in Ranks:
       /\ at[r] \in {"idle", "start"} => Honest(holder[r])
       /\ \A i \in DOMAIN resident[r]: Honest(resident[r][i])
=============================================================================
