------------------------------ MODULE SsdCache -------------------------------
(***************************************************************************)
(* The SSD tier of the prompt cache (sharded_server.py).  Each rank saves  *)
(* the live cache of a session into a directory of its own disk and loads  *)
(* it again when the memory has nothing for that session.  Loads and saves *)
(* are rank-local; only the vote before the prefill compares what the two  *)
(* ranks have, and makes both forget it when they differ.                  *)
(*                                                                         *)
(* One live slot (RESIDENT_SLOTS=1), explicit sessions, text prompts       *)
(* without thinking, no bypass (BYPASS_MAX_TOKENS=0).  The slot, its key   *)
(* and its vote are PromptCache's, reduced to what the disk depends on,    *)
(* for a tokeniser that gives back the suffix that is sent as text.        *)
(*                                                                         *)
(* Sizes and caps are in tokens: the code's are bytes, and a token takes   *)
(* more of them on the rank with more layers, so the ranks' caps differ    *)
(* even where the setting is the same.  Rank 0's can be tuned at run time. *)
(*                                                                         *)
(* The specification is TierSpec: RankAgreementProofs extends this module  *)
(* and OpChannel, so that the two have no name in common.                  *)
(***************************************************************************)
EXTENDS TokenPrefix

CONSTANTS Sessions,
          Prompts,      \* requests: records of a session and its token ids
          Answer,       \* the tokens that a generation samples
          MinReuse,     \* PROMPT_CACHE_MIN_REUSE
          MinTokens,    \* PROMPT_CACHE_SSD_MIN_TOKENS
          MinDelta,     \* PROMPT_CACHE_SSD_AUTO_SAVE_MIN_DELTA_TOKENS
          Percent,      \* of an artifact that a partial restore keeps: 95
          EnvCap,       \* per rank: the disk cap it starts with, 0: none
          Tuned,        \* the caps that rank 0 may be tuned to
          MaxFaults,    \* bound on crashes, losses on one rank, failed saves
          MaxJunk,      \* bound on the left-over tokens of a session
          None

SsdAssumption ==
  /\ {MinReuse, MinTokens, MinDelta, Percent, MaxFaults, MaxJunk} \subseteq Nat
  /\ EnvCap \in [{0, 1} -> Nat] /\ Tuned \subseteq Nat
  /\ Prompts \subseteq [sess: Sessions, ids: Seq(Nat), full: BOOLEAN]
  /\ Answer \in Seq(Nat) /\ Answer # <<>>
  /\ None \notin Prompts
  /\ None \notin {"agreed", "diverged"}
  /\ \A p \in Prompts: p.ids # <<>>
ASSUME SsdAssumption

VARIABLES
  live,     \* per rank: the live slot
  anchor,   \* per rank and session: the key of the last save, <<>> if none
  cold,     \* per rank: _prompt_cache_post_divergence_cold_once
  art,      \* per rank and session: rank<r>/ on its disk, or Absent
  junk,     \* per rank and session: what crashes left in rank<r>.tmp.*
  order,    \* per rank: the sessions on disk by last_access_at, oldest first
  cap,      \* per rank: the disk cap in force
  at,       \* per rank: its place in the request
  req,      \* the request both ranks run
  verdict,  \* of the vote of this request
  faults    \* so far

tier == <<live, anchor, cold, art, junk, order, cap, at, req, verdict, faults>>

Ranks == {0, 1}
Slot(sess, ids, kv, tail) == [sess |-> sess, ids |-> ids, kv |-> kv,
                              tail |-> tail]
Fresh(sess) == Slot(sess, <<>>, <<>>, 0)
Absent == [ids |-> <<>>, kv |-> <<>>]

TierInit ==
  /\ live = [r \in Ranks |-> None]
  /\ anchor = [r \in Ranks |-> [s \in Sessions |-> <<>>]]
  /\ cold = [r \in Ranks |-> FALSE]
  /\ art = [r \in Ranks |-> [s \in Sessions |-> Absent]]
  /\ junk = [r \in Ranks |-> [s \in Sessions |-> 0]]
  /\ order = [r \in Ranks |-> <<>>]
  /\ cap = EnvCap
  /\ at = [r \in Ranks |-> "idle"]
  /\ req = None
  /\ verdict = None
  /\ faults = 0

-----------------------------------------------------------------------------
(* A node is the record of what a rank has in memory and on disk; the       *)
(* operators return the node after the call, or the set of nodes that a     *)
(* call may end in.                                                         *)

Node(r) == [live |-> live[r], anchor |-> anchor[r], cold |-> cold[r],
            art |-> art[r], junk |-> junk[r], order |-> order[r],
            cap |-> cap[r]]

Size(n, s) == n.junk[s] + Len(n.art[s].kv)
Total(size) ==
  LET Sum[T \in SUBSET DOMAIN size] ==
        IF T = {} THEN 0
        ELSE LET s == CHOOSE s \in T: TRUE IN size[s] + Sum[T \ {s}]
  IN  Sum[DOMAIN size]
Usage(n, kept) == Total([s \in kept |-> Size(n, s)])

Listed(seq) == {seq[i]: i \in DOMAIN seq}

Newest(seq, s) ==
  LET place == CHOOSE i \in DOMAIN seq: seq[i] = s
  IN  IF s \notin Listed(seq) THEN Append(seq, s)
      ELSE SubSeq(seq, 1, place - 1) \o SubSeq(seq, place + 1, Len(seq))
           \o <<s>>

\* Keep only the session directories of these places in the order.
Keep(n, first, last) ==
  LET kept == SubSeq(n.order, first, last)
  IN  [n EXCEPT !.order = kept,
                !.art = [s \in Sessions |->
                           IF s \in Listed(kept) THEN @[s] ELSE Absent],
                !.junk = [s \in Sessions |->
                            IF s \in Listed(kept) THEN @[s] ELSE 0]]

Fitting(n, first, last) ==
  n.cap = 0 \/ Usage(n, Listed(SubSeq(n.order, first, last))) <= n.cap

\* Mutant: the most recently used go first.
Prune_Newest(n, expired) ==
  Keep(n, expired + 1,
       CHOOSE k \in expired .. Len(n.order):
         /\ Fitting(n, expired + 1, k)
         /\ \A l \in expired .. Len(n.order):
              Fitting(n, expired + 1, l) => l <= k)

\* _prompt_cache_ssd_prune_unlocked: first what is past its TTL, so many of the
\* least recently used, then on in their order until the rest is within the cap.
Prune(n, expired) ==
  Keep(n, 1 + CHOOSE k \in expired .. Len(n.order):
                /\ Fitting(n, k + 1, Len(n.order))
                /\ \A l \in expired .. Len(n.order):
                     Fitting(n, l + 1, Len(n.order)) => k <= l,
       Len(n.order))

Savable(slot) ==
  /\ slot # None
  /\ Len(slot.ids) >= MinTokens /\ slot.ids # <<>>
  /\ Len(slot.ids) = Len(slot.kv) /\ slot.tail = 0

Artifact(slot) == [ids |-> slot.ids, kv |-> slot.kv]

\* The directory is written beside the old one, the old one is removed and the
\* new one renamed: what a crash or an exception finds on the way.
Written(n) ==
  LET s == n.live.sess
  IN  [n EXCEPT !.art[s] = Artifact(n.live), !.order = Newest(@, s)]

Removed(n) == [n EXCEPT !.art[n.live.sess] = Absent,
                        !.order = Newest(@, n.live.sess)]

LeftOver(n) ==
  LET s == n.live.sess
  IN  [n EXCEPT !.junk[s] = Smaller(MaxJunk, @ + Len(n.live.kv)),
                !.order = Newest(@, s)]

\* _prompt_cache_ssd_save_current_unlocked: the anchor moves with a save only,
\* and the save ends with a prune; by then all the others may be past their TTL.
Save(n, late) ==
  LET saved == [Written(n) EXCEPT !.anchor[n.live.sess] = n.live.ids]
  IN  IF ~Savable(n.live) THEN n
      ELSE Prune(saved, IF late THEN Len(saved.order) - 1 ELSE 0)
SaveFails(n) == {n, Removed(n)}
SaveCrashes(n) == {LeftOver(n), LeftOver(Removed(n)), Written(n)}

\* _prompt_cache_ssd_autosave_due_unlocked.
Due(n) ==
  LET ids == n.live.ids
      saved == n.anchor[n.live.sess]
  IN  \/ Len(ids) < MinTokens \/ saved = <<>>
      \/ /\ saved # <<>>
         /\ \/ Len(ids) < Len(saved)
            \/ Len(ids) = Len(saved) /\ ids # saved
            \/ Len(ids) > Len(saved) /\ Len(ids) >= Len(saved) + MinDelta

\* The generated tail that the key does not name is trimmed off for a save.
Checkpoint(n) ==
  LET slot == n.live
      extra == Len(slot.kv) - Len(slot.ids)
  IN  IF slot.tail > 0 /\ slot.ids # <<>> /\ Len(slot.kv) > Len(slot.ids)
         /\ extra = slot.tail
      THEN [n EXCEPT !.live.kv = Take(@, Len(slot.ids)), !.live.tail = 0]
      ELSE n

Wanted(n) == IF n.live = None THEN FALSE ELSE Due(n)
Autosave(n, late) == IF Wanted(n) THEN Save(Checkpoint(n), late) ELSE n

\* The nodes that are about to write their directory.
Writing(n) ==
  IF Wanted(n) THEN {m \in {Checkpoint(n)}: Savable(m.live)} ELSE {}

\* _prompt_cache_ssd_maybe_restore_unlocked: what can be loaded for a prompt,
\* after the vote has not just gone against it.
Loadable(n, p) ==
  LET a == n.art[p.sess]
      reuse == Common(a.ids, p.ids)
      least == Larger(MinReuse, Smaller(MinTokens, Len(a.ids)))
  IN  /\ Len(p.ids) >= MinTokens /\ a # Absent
      /\ reuse < Len(a.ids) =>
           reuse >= least /\ reuse * 100 >= Len(a.ids) * Percent

\* Mutant: the slot is known by the prompt it was loaded for.
Restored_Renamed(n, p) ==
  LET a == n.art[p.sess]
  IN  [n EXCEPT !.live = Slot(p.sess, Take(p.ids, Len(a.kv)), a.kv, 0),
                !.order = Newest(@, p.sess)]

Restored(n, p) ==
  LET a == n.art[p.sess]
      reuse == Common(a.ids, p.ids)
  IN  [n EXCEPT !.live = Slot(p.sess, Take(a.ids, reuse), Take(a.kv, reuse), 0),
                !.order = Newest(@, p.sess)]

ColdOnce(n, p) == Len(p.ids) >= MinTokens /\ n.cold
TakeCold(n, p) == IF ColdOnce(n, p) THEN [n EXCEPT !.cold = FALSE] ELSE n

-----------------------------------------------------------------------------
(* _prepare_cached_prompt with one slot.                                    *)

\* A request of another session saves the live one and releases it.
Outgoing(n, p) ==
  IF n.live = None \/ n.live.sess = p.sess THEN n
  ELSE [Autosave(n, FALSE) EXCEPT !.live = None]

\* The live cache is trimmed to what the prompt shares with its key.
Continued(n, p) ==
  LET reuse == Common(n.live.ids, p.ids)
      final == IF reuse = Len(p.ids) /\ reuse > MinReuse THEN reuse - 1
               ELSE reuse
  IN  IF Len(n.live.kv) < reuse THEN [n EXCEPT !.live = Fresh(p.sess)]
      ELSE [n EXCEPT !.live.kv = Take(@, final)]

Prepared(n, p) ==
  LET empty == n.live = None \/ n.live.ids = <<>>
      low == empty \/ Common(n.live.ids, p.ids) < MinReuse
      load == ~ColdOnce(n, p) /\ Loadable(n, p)
      next == TakeCold(n, p)
  IN  IF ~low THEN Continued(n, p)
      ELSE IF load THEN Continued(Restored(n, p), p)
      ELSE IF empty /\ n.live # None /\ n.live.kv # <<>>
      THEN [next EXCEPT !.live = Slot(p.sess, <<>>, n.live.kv, 0)]
      ELSE [next EXCEPT !.live = Fresh(p.sess)]

Become(r, n) ==
  /\ live' = [live EXCEPT ![r] = n.live]
  /\ anchor' = [anchor EXCEPT ![r] = n.anchor]
  /\ cold' = [cold EXCEPT ![r] = n.cold]
  /\ art' = [art EXCEPT ![r] = n.art]
  /\ junk' = [junk EXCEPT ![r] = n.junk]
  /\ order' = [order EXCEPT ![r] = n.order]
  /\ cap' = [cap EXCEPT ![r] = n.cap]

-----------------------------------------------------------------------------
(* A request.                                                               *)

Arrive(p) ==
  /\ req = None
  /\ req' = p
  /\ at' = [r \in Ranks |-> "start"]
  /\ UNCHANGED <<live, anchor, cold, art, junk, order, cap, verdict, faults>>

Prepare(r) ==
  /\ at[r] = "start"
  /\ \E n \in {Outgoing(Node(r), req)}:
       \E m \in {Prepared(n, req)}: Become(r, m)
  /\ at' = [at EXCEPT ![r] = "prepared"]
  /\ UNCHANGED <<req, verdict, faults>>

Reused(r) == Len(live[r].kv)
BothAt(where) == \A r \in Ranks: at[r] = where

\* Mutant: the next miss may load again.
Vote_Loads ==
  /\ BothAt("prepared")
  /\ at' = [r \in Ranks |-> "decode"]
  /\ IF Reused(0) = Reused(1)
     THEN /\ verdict' = "agreed"
          /\ UNCHANGED <<live, anchor, cold>>
     ELSE /\ verdict' = "diverged"
          /\ live' = [r \in Ranks |-> None]
          /\ cold' = cold
          /\ anchor' = [r \in Ranks |-> [s \in Sessions |-> <<>>]]
  /\ UNCHANGED <<art, junk, order, cap, req, faults>>

\* _prefix_plan_consensus: on a difference both forget their live caches and
\* anchors, and will not load for the next miss.
Vote ==
  /\ BothAt("prepared")
  /\ at' = [r \in Ranks |-> "decode"]
  /\ IF Reused(0) = Reused(1)
     THEN /\ verdict' = "agreed"
          /\ UNCHANGED <<live, anchor, cold>>
     ELSE /\ verdict' = "diverged"
          /\ live' = [r \in Ranks |-> None]
          /\ cold' = [r \in Ranks |-> TRUE]
          /\ anchor' = [r \in Ranks |-> [s \in Sessions |-> <<>>]]
  /\ UNCHANGED <<art, junk, order, cap, req, faults>>

\* _update_prompt_cache_after_generation: the answer enters the key if the
\* mode allows it, and the whole is saved when that is due.
Updated(r, full, lost) ==
  LET n == Node(r)
      kv == req.ids \o Answer
      key == IF full THEN Take(kv, Len(kv) - lost) ELSE req.ids
      tail == IF full THEN 0 ELSE Len(Answer) - lost
  IN  IF live[r] = None THEN n
      ELSE [n EXCEPT !.live = Slot(req.sess, key, kv, tail)]

Finish(r) ==
  /\ at[r] = "decode"
  /\ at' = [at EXCEPT ![r] = "finished"]
  /\ \E n \in {Updated(r, req.full, 0)}:
       \E m \in {Autosave(n, FALSE)}: Become(r, m)
  /\ UNCHANGED <<req, verdict, faults>>

Complete ==
  /\ BothAt("finished")
  /\ at' = [r \in Ranks |-> "idle"]
  /\ req' = None
  /\ verdict' = None
  /\ UNCHANGED <<live, anchor, cold, art, junk, order, cap, faults>>

-----------------------------------------------------------------------------
(* What both ranks do when rank 0 says so.                                  *)

\* The janitor or /admin reset.
Release ==
  /\ req = None
  /\ live' = [r \in Ranks |-> None]
  /\ UNCHANGED <<anchor, cold, art, junk, order, cap, at, req, verdict, faults>>

\* /admin/prompt-cache/ssd/clear leaves memory and anchors alone.
Clear ==
  /\ req = None
  /\ art' = [r \in Ranks |-> [s \in Sessions |-> Absent]]
  /\ junk' = [r \in Ranks |-> [s \in Sessions |-> 0]]
  /\ order' = [r \in Ranks |-> <<>>]
  /\ UNCHANGED <<live, anchor, cold, cap, at, req, verdict, faults>>

\* /admin/runtime-tuning: the storage caps stay out of the broadcast to rank 1.
Retune(c) ==
  /\ c \in Tuned
  /\ cap' = [cap EXCEPT ![0] = c]
  /\ UNCHANGED <<live, anchor, cold, art, junk, order, at, req, verdict,
                 faults>>

-----------------------------------------------------------------------------
(* Faults: what happens to one rank, or to both at an unlucky moment.       *)

Fault == faults < MaxFaults /\ faults' = faults + 1

\* A rank's cache expires by its own clock.
Expire(r) ==
  /\ Fault /\ at[r] \in {"idle", "start"} /\ live[r] # None
  /\ live' = [live EXCEPT ![r] = None]
  /\ UNCHANGED <<anchor, cold, art, junk, order, cap, at, req, verdict>>

\* Rank 1 counts one token less than the ranks have fed, a save fails,
\* or a TTL passes on one rank first.
FinishBadly(r) ==
  /\ Fault /\ at[r] = "decode"
  /\ at' = [at EXCEPT ![r] = "finished"]
  /\ \/ r = 1 /\ Become(r, Autosave(Updated(r, req.full, 1), FALSE))
     \/ Become(r, Autosave(Updated(r, req.full, 0), TRUE))
     \/ \E n \in Writing(Updated(r, req.full, 0)):
          \E m \in SaveFails(n): Become(r, m)
  /\ UNCHANGED <<req, verdict>>

\* Both processes die and are started again; one of them was saving, or not.
Restart(r, n) ==
  /\ live' = [q \in Ranks |-> None]
  /\ anchor' = [q \in Ranks |-> [s \in Sessions |-> <<>>]]
  /\ cold' = [q \in Ranks |-> FALSE]
  /\ art' = [art EXCEPT ![r] = n.art]
  /\ junk' = [junk EXCEPT ![r] = n.junk]
  /\ order' = [order EXCEPT ![r] = n.order]
  /\ cap' = EnvCap
  /\ at' = [q \in Ranks |-> "idle"]
  /\ req' = None
  /\ verdict' = None

Crash(r) ==
  /\ Fault
  /\ \/ Restart(r, Node(r))
     \/ /\ at[r] = "decode"
        /\ \E n \in Writing(Updated(r, req.full, 0)):
             \E m \in SaveCrashes(n): Restart(r, m)

TierNext ==
  \/ \E p \in Prompts: Arrive(p)
  \/ \E r \in Ranks: Prepare(r) \/ Finish(r)
  \/ Vote \/ Complete \/ Release \/ Clear
  \/ \E c \in Tuned: Retune(c)
  \/ \E r \in Ranks: Expire(r) \/ FinishBadly(r) \/ Crash(r)

TierSpec == TierInit /\ [][TierNext]_tier

\* The worker runs a request it has begun to its end: as long as there is one,
\* a step of it that is no fault is possible, and is taken.
Places == {"idle", "start", "prepared", "decode", "finished"}
Progress ==
  /\ req # None /\ at' \in [Ranks -> Places]
  /\ UNCHANGED faults
TierFairSpec == TierSpec /\ WF_at(Progress)

-----------------------------------------------------------------------------
Slots == [sess: Sessions, ids: Seq(Nat), kv: Seq(Nat), tail: Nat]
Artifacts == [ids: Seq(Nat), kv: Seq(Nat)]

TierTypeOK ==
  /\ live \in [Ranks -> {None} \cup Slots]
  /\ anchor \in [Ranks -> [Sessions -> Seq(Nat)]]
  /\ cold \in [Ranks -> BOOLEAN]
  /\ art \in [Ranks -> [Sessions -> Artifacts]]
  /\ junk \in [Ranks -> [Sessions -> 0 .. MaxJunk]]
  /\ order \in [Ranks -> Seq(Sessions)] /\ cap \in [Ranks -> Nat]
  /\ \A r \in Ranks, s \in Sessions:
       Size(Node(r), s) > 0 => s \in Listed(order[r])
  /\ at \in [Ranks -> Places] /\ req \in {None} \cup Prompts
  /\ \A r \in Ranks: at[r] = "idle" <=> req = None
  /\ verdict \in {None, "agreed", "diverged"} /\ faults \in 0 .. MaxFaults

\* What a prefill builds on is the start of its prompt, and of the same length
\* on both ranks: from memory, or from an artifact that may be old, partial,
\* that a crash interrupted or that only one rank could write. (With the type
\* invariant.)
PlanIsSound ==
  TierTypeOK /\ (BothAt("decode") /\ verdict = "agreed" =>
    /\ Reused(0) = Reused(1)
    /\ \A r \in Ranks: live[r].kv = Take(req.ids, Reused(r)))

\* A save leaves its rank's disk within that rank's cap, left-overs of crashes
\* included, and what it has just saved on it unless that alone is over the cap.
SavesWithinCap ==
  [][\A r \in Ranks, s \in Sessions:
       anchor'[r][s] # anchor[r][s] /\ anchor'[r][s] # <<>> =>
         /\ cap'[r] = 0 \/ Usage(Node(r), Listed(order[r]))' <= cap'[r]
         /\ (Size(Node(r), s) = 0)' =>
              Len(anchor'[r][s]) + junk[r][s] > cap'[r]]_tier

\* Nobody but session s sends requests, and both caps hold what it saves.
Alone(s) ==
  /\ req # None => req.sess = s
  /\ \A r \in Ranks: cap[r] = 0 \/ \A p \in Prompts: p.sess = s =>
                        Len(p.ids) + Len(Answer) <= cap[r]

\* When nothing goes wrong any more and one session is left, whose artifact both
\* caps hold, the two ranks' artifacts, anchors and memories come to agree,
\* however they differed and however different the caps are, and stay so: its
\* requests do not pay a full prefill again and again.
SkewHeals ==
  \A s \in Sessions: <>[]Alone(s) => <>[](verdict # "diverged")
=============================================================================
