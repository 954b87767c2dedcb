---------------------------- MODULE StopBoundary ----------------------------
(***************************************************************************)
(* How a stop request ends one generation on both ranks at the same point. *)
(*                                                                         *)
(* The handler of /v1/stop (or of a disconnect) computes boundaries from   *)
(* the progress it sees, writes them with the generation's nonce to rank   *)
(* 1's stop file (ssh), then to rank 0's.  A file is truncated before it   *)
(* is written, and an empty file is read as a stop without a nonce.  Rank  *)
(* 0 looks at its file every Poll tokens of decoding, insists on the       *)
(* nonce, and makes the next token, which both ranks share, EOS.  In       *)
(* prefill there are two ways, both content with no nonce: on the stream   *)
(* path each rank looks at its own file after every chunk and raises; on   *)
(* the batch path rank 0 puts one word per chunk into a collective that    *)
(* both read.                                                              *)
(*                                                                         *)
(* SAFE_DECODE_STOP is on and RANK1_SSH set.  The handler runs on the      *)
(* event loop and blocks it, so stops do not overlap and no slot is        *)
(* published meanwhile.                                                    *)
(***************************************************************************)
EXTENDS Integers

CONSTANTS Requests,    \* chat requests, each with a nonce of its own
          Paths,       \* generators: "batch" and/or "stream"
          Total,       \* tokens of a prompt
          Step,        \* tokens of a prefill chunk
          Every,       \* MLX_M3_PREFILL_CANCEL_EVERY; 0 is never
          Poll,        \* tokens between two looks at the file (8)
          Margin,      \* tokens between the stop and its boundary (16)
          Cap,         \* tokens are counted modulo Poll from here on
          MaxRetries,  \* tool retries of a request
          MaxStops,    \* bound on the stops that are requested
          SshFails,    \* whether ssh may fail
          Anyone,      \* what a stop without a nonce is for
          None

ASSUME SizesAssumption ==
  /\ {Total, Step, Poll} \subseteq Nat \ {0}
  /\ {Every, Margin, Cap, MaxRetries, MaxStops} \subseteq Nat
  /\ Cap >= Margin
  /\ SshFails \in BOOLEAN
  /\ Paths \subseteq {"batch", "stream"}
  /\ None \notin Requests /\ Anyone \notin Requests /\ Anyone # None

VARIABLES
  at,       \* per rank: where it is in the generation
  done,     \* per rank: prefill chunks it has processed
  tok,      \* tokens both ranks have decoded
  path,     \* the generator of this generation
  hit,      \* batch path: the chunk whose word was 1, or 0
  eos,      \* _FORCE_EOS["active"]
  nonce,    \* per rank: _STOP_NONCE
  file,     \* per rank: its stop file
  flag,     \* rank 0's _STOP_FLAG, with the request it is for
  active,   \* request_state["active"]
  attempt,  \* tool retries of the active request so far
  shown,    \* the progress published in the active record
  stop,     \* the handler: where it is, and the payload it writes
  stops,    \* stops requested so far
  asked,    \* requests that somebody asked to stop
  served    \* requests that are over

handler == <<stop, stops, asked>>
vars == <<at, done, tok, path, hit, eos, nonce, file, flag, active, attempt,
          shown, handler, served>>

Ranks == {0, 1}
Other(r) == 1 - r

Least(m, n) == IF m < n THEN m ELSE n
Most(m, n)  == IF m < n THEN n ELSE m

Payloads == [nonce: Requests, chunk: Nat, token: Nat]
NoFile == [nonce |-> None, chunk |-> 0, token |-> 0]
\* A file that is opened for writing: a stop at once, for whoever reads it.
Empty  == [nonce |-> Anyone, chunk |-> 0, token |-> 0]

TypeOK ==
  /\ at \in [Ranks -> {"idle", "published", "cleared", "received", "prefill",
                       "decode", "over", "cancelled", "retrying"}]
  /\ done \in [Ranks -> 0..(Total - 1)]
  /\ tok \in 0..(Cap + Poll)
  /\ path \in {"batch", "stream"}
  /\ hit \in 0..(Total - 1)
  /\ eos \in BOOLEAN
  /\ nonce \in [Ranks -> Requests \cup {None}]
  /\ file \in [Ranks -> Payloads \cup {NoFile, Empty}]
  /\ flag \in Requests \cup {None, Anyone}
  /\ active \in Requests \cup {None}
  /\ attempt \in 0..MaxRetries
  /\ shown \in [chunk: 0..(Total - 1), token: 0..(Cap + Poll)]
  /\ stop \in [pc: {"idle", "remote", "remoteOpen", "local", "localOpen"},
              payload: Payloads \cup {NoFile}]
  /\ stops \in 0..MaxStops
  /\ asked \in SUBSET Requests
  /\ served \in SUBSET Requests

Init ==
  /\ at = [r \in Ranks |-> "idle"]
  /\ done = [r \in Ranks |-> 0]
  /\ tok = 0 /\ path = "batch" /\ hit = 0 /\ eos = FALSE
  /\ nonce = [r \in Ranks |-> None]
  /\ file = [r \in Ranks |-> NoFile]
  /\ flag = None /\ active = None /\ attempt = 0
  /\ shown = [chunk |-> 0, token |-> 0]
  /\ stop = [pc |-> "idle", payload |-> NoFile]
  /\ stops = 0 /\ asked = {} /\ served = {}

-----------------------------------------------------------------------------
\* The request around its generation.

\* The slot is published, on the event loop: from here on a stop finds the
\* request.
Publish(q) ==
  /\ at[0] = "idle" /\ active = None /\ q \notin served
  /\ stop.pc = "idle"
  /\ active' = q
  /\ attempt' = 0
  /\ shown' = [chunk |-> 0, token |-> 0]
  /\ at' = [at EXCEPT ![0] = "published"]
  /\ UNCHANGED <<done, tok, path, hit, eos, nonce, file, flag, handler, served>>

\* The job starts: rank 0 forgets earlier stops, then warms up.
JobStart ==
  /\ at[0] = "published"
  /\ flag' = None
  /\ file' = [file EXCEPT ![0] = NoFile]
  /\ nonce' = [nonce EXCEPT ![0] = active]
  /\ eos' = FALSE
  /\ at' = [at EXCEPT ![0] = "cleared"]
  /\ UNCHANGED <<done, tok, path, hit, active, attempt, shown, handler, served>>

\* The request is broadcast and rank 0 starts to generate.
Broadcast ==
  /\ at[0] = "cleared" /\ at[1] = "idle"
  /\ at' = [r \in Ranks |-> IF r = 0 THEN "prefill" ELSE "received"]
  /\ done' = [r \in Ranks |-> 0]
  /\ tok' = 0 /\ hit' = 0 /\ eos' = FALSE
  /\ IF attempt = 0 THEN path' \in Paths ELSE UNCHANGED path
  /\ UNCHANGED <<nonce, file, flag, active, attempt, shown, handler, served>>

\* Rank 1 forgets earlier stops, takes over the nonce and starts to generate.
MirrorStart ==
  /\ at[1] = "received"
  /\ file' = [file EXCEPT ![1] = NoFile]
  /\ nonce' = [nonce EXCEPT ![1] = active]
  /\ at' = [at EXCEPT ![1] = "prefill"]
  /\ UNCHANGED <<done, tok, path, hit, eos, flag, active, attempt, shown,
                 handler, served>>

Ended(r) == at[r] \in {"over", "cancelled"}

\* Rank 1 is back at the head of its loop.
MirrorEnd ==
  /\ Ended(1)
  /\ at' = [at EXCEPT ![1] = "idle"]
  /\ UNCHANGED <<done, tok, path, hit, eos, nonce, file, flag, active, attempt,
                 shown, handler, served>>

\* An unusable tool turn that nobody asked to stop is generated again ...
Retry ==
  /\ Ended(0) /\ attempt < MaxRetries
  /\ flag \notin {active, Anyone}
  /\ at' = [at EXCEPT ![0] = "retrying"]
  /\ UNCHANGED <<done, tok, path, hit, eos, nonce, file, flag, active, attempt,
                 shown, handler, served>>

\* ... after rank 0 forgot the stops once more; the nonce stays.
RetryStart ==
  /\ at[0] = "retrying"
  /\ flag' = None
  /\ file' = [file EXCEPT ![0] = NoFile]
  /\ attempt' = attempt + 1
  /\ at' = [at EXCEPT ![0] = "cleared"]
  /\ UNCHANGED <<done, tok, path, hit, eos, nonce, active, shown, handler,
                 served>>

\* The mirror barrier, then the slot is released.
Finish ==
  /\ Ended(0) /\ at[1] = "idle"
  /\ at' = [at EXCEPT ![0] = "idle"]
  /\ served' = served \cup {active}
  /\ active' = None
  /\ UNCHANGED <<done, tok, path, hit, eos, nonce, file, flag, attempt, shown,
                 handler>>

-----------------------------------------------------------------------------
\* Prefill.

\* Prompt tokens in the first chunks; the last token of the prompt belongs to
\* the first decode step.
Tokens(chunks) == Least(chunks * Step, Total - 1)

\* There are tokens to prefill after that many chunks.
More(chunks) == chunks * Step < Total - 1
MoreChunks(r) == at[r] = "prefill" /\ More(done[r])

\* A chunk is a collective: rank r gets through its next one when the other
\* rank has got through the one before and is in this one, or further.
Joined(r) ==
  \/ done[Other(r)] > done[r]
  \/ done[Other(r)] = done[r] /\ at[Other(r)] = "prefill"

\* Mutant: any stop file counts.
Armed_AnyNonce(r) == file[r].nonce # None

\* The stop file is for the generation that the rank is in, or does not say
\* which one it is for.
Armed(r) == file[r].nonce # None /\ file[r].nonce \in {nonce[r], Anyone}

\* What rank r shows of its progress, and the flag that its look at the file
\* sets.  Tool retries publish no prefill progress.
Observe(r) ==
  /\ shown' = IF r = 0 /\ attempt = 0
              THEN [shown EXCEPT !.chunk = Tokens(done[0] + 1)] ELSE shown
  /\ flag' = IF r = 0 /\ Armed(0) THEN file[0].nonce ELSE flag

\* _check_prefill_stop, called after a chunk, raises at the boundary.
StreamChunk(r) ==
  /\ path = "stream" /\ MoreChunks(r) /\ Joined(r)
  /\ done' = [done EXCEPT ![r] = @ + 1]
  /\ Observe(r)
  /\ at' = IF Armed(r) /\ Tokens(done[r] + 1) >= file[r].chunk
           THEN [at EXCEPT ![r] = "cancelled"] ELSE at
  /\ UNCHANGED <<tok, path, hit, eos, nonce, file, active, attempt, handler,
                 served>>

\* Chunks that have a word, and what rank 0 contributes to it.
HasWord(chunk) == Every > 0 /\ chunk % Every = 0
Asks == HasWord(done[0] + 1) /\ (eos \/ Armed(0))

\* The word of rank r's last chunk was 1; reading it waits for the other
\* rank's part.
Abandoned(r) == done[r] > 0 /\ hit = done[r]
WordIsIn(r)  == HasWord(done[r]) => done[Other(r)] >= done[r]

\* A chunk with its word, to which only rank 0 contributes.  What the callback
\* raises is swallowed.
BatchChunk(r) ==
  /\ path = "batch" /\ MoreChunks(r) /\ Joined(r) /\ ~Abandoned(r)
  /\ done' = [done EXCEPT ![r] = @ + 1]
  /\ hit' = IF r = 0 /\ Asks THEN done[0] + 1 ELSE hit
  /\ Observe(r)
  /\ UNCHANGED <<at, tok, path, eos, nonce, file, active, attempt, handler,
                 served>>

\* Mutant: each rank goes by its own stop file.
BatchCancel_OwnFile(r) ==
  /\ path = "batch" /\ at[r] = "prefill" /\ done[r] > 0 /\ Armed(r)
  /\ at' = [at EXCEPT ![r] = "cancelled"]
  /\ UNCHANGED <<done, tok, path, hit, eos, nonce, file, flag, active, attempt,
                 shown, handler, served>>

\* Mutant: only the rank with the file reads the word.
BatchCancel_Rank0(r) ==
  /\ path = "batch" /\ at[r] = "prefill" /\ Abandoned(r) /\ WordIsIn(r) /\ r = 0
  /\ at' = [at EXCEPT ![r] = "cancelled"]
  /\ UNCHANGED <<done, tok, path, hit, eos, nonce, file, flag, active, attempt,
                 shown, handler, served>>

\* The word is read one chunk later, or after the last chunk.
BatchCancel(r) ==
  /\ path = "batch" /\ at[r] = "prefill" /\ Abandoned(r) /\ WordIsIn(r)
  /\ at' = [at EXCEPT ![r] = "cancelled"]
  /\ UNCHANGED <<done, tok, path, hit, eos, nonce, file, flag, active, attempt,
                 shown, handler, served>>

PrefillEnd(r) ==
  /\ at[r] = "prefill" /\ ~More(done[r])
  /\ path = "batch" => WordIsIn(r) /\ ~Abandoned(r)
  /\ at' = [at EXCEPT ![r] = "decode"]
  /\ UNCHANGED <<done, tok, path, hit, eos, nonce, file, flag, active, attempt,
                 shown, handler, served>>

-----------------------------------------------------------------------------
\* Decoding.

NextTok == IF tok + 1 < Cap + Poll THEN tok + 1 ELSE Cap

\* Mutant: the boundary must be met exactly.
StopDue_Exact == /\ file[0].nonce = nonce[0]
                 /\ NextTok = file[0].token

\* The decode poll insists on the nonce.
StopDue == /\ file[0].nonce # None /\ file[0].nonce = nonce[0]
           /\ NextTok >= file[0].token

\* One shared token.  It ends the generation when rank 0 forces EOS, and may do
\* so anyway; else rank 0 looks at its file when it is time.
Token ==
  /\ at[0] = "decode" /\ at[1] = "decode"
  /\ tok' = NextTok
  /\ \/ at' = [r \in Ranks |-> "over"] /\ UNCHANGED <<eos, shown>>
     \/ /\ ~eos
        /\ shown' = [shown EXCEPT !.token = NextTok]
        /\ eos' = (NextTok % Poll = 0 /\ StopDue)
        /\ UNCHANGED at
  /\ UNCHANGED <<done, path, hit, nonce, file, flag, active, attempt, handler,
                 served>>

-----------------------------------------------------------------------------
\* The stop.

\* _prefill_stop_at_from_active: two chunks ahead, within the prompt.
PrefillStopAt == Most(Step, Least(Total, shown.chunk + 2 * Step))
\* _stop_boundaries_from_active
DecodeStopAt  == Least(Cap, Most(Margin, shown.token + Margin))

\* The flag is set and the payload fixed.
Ask(q, chunk, token) ==
  /\ stop.pc = "idle" /\ stops < MaxStops
  /\ stop' = [pc |-> "remote",
              payload |-> [nonce |-> q, chunk |-> chunk, token |-> token]]
  /\ stops' = stops + 1
  /\ asked' = asked \cup {q}
  /\ flag' = q
  /\ UNCHANGED <<at, done, tok, path, hit, eos, nonce, file, active, attempt,
                 shown, served>>

\* /v1/stop, or a disconnect, for the active request.
StopRead == active # None /\ Ask(active, PrefillStopAt, DecodeStopAt)

\* The client of a request that is over disconnects before it has read all of
\* its answer.  The handler does not look whether the request still runs; the
\* boundaries come from its old record, and no rank reads them.
DisconnectRead(q) == q \in served /\ Ask(q, 0, 0)

\* The shell on rank 1, or the handler on rank 0, opens the file and truncates
\* it ...
StopOpens(r) ==
  /\ stop.pc = IF r = 1 THEN "remote" ELSE "local"
  /\ file' = [file EXCEPT ![r] = Empty]
  /\ stop' = [stop EXCEPT !.pc = IF r = 1 THEN "remoteOpen" ELSE "localOpen"]
  /\ UNCHANGED <<at, done, tok, path, hit, eos, nonce, flag, active, attempt,
                 shown, stops, asked, served>>

\* What a write leaves: a file that was unlinked since it was opened stays away.
Written(r) == IF file[r] = NoFile THEN file
              ELSE [file EXCEPT ![r] = stop.payload]

\* ... and writes it; ssh returns 0.
StopWrites(r) ==
  /\ stop.pc = IF r = 1 THEN "remoteOpen" ELSE "localOpen"
  /\ file' = Written(r)
  /\ stop' = [stop EXCEPT !.pc = IF r = 1 THEN "local" ELSE "idle"]
  /\ UNCHANGED <<at, done, tok, path, hit, eos, nonce, flag, active, attempt,
                 shown, stops, asked, served>>

\* ssh fails or times out, before, between or after the two: rank 0's file is
\* left alone.
StopRemoteFails ==
  /\ SshFails /\ stop.pc \in {"remote", "remoteOpen"}
  /\ file' \in {file} \cup (IF stop.pc = "remoteOpen" THEN {Written(1)} ELSE {})
  /\ stop' = [stop EXCEPT !.pc = "idle"]
  /\ UNCHANGED <<at, done, tok, path, hit, eos, nonce, flag, active, attempt,
                 shown, stops, asked, served>>

-----------------------------------------------------------------------------
Prefill(r) == \/ StreamChunk(r) \/ BatchChunk(r) \/ BatchCancel(r)
              \/ PrefillEnd(r)

Next ==
  \/ \E q \in Requests: Publish(q)
  \/ JobStart \/ Broadcast \/ MirrorStart \/ MirrorEnd
  \/ Retry \/ RetryStart \/ Finish
  \/ \E r \in Ranks: Prefill(r)
  \/ Token
  \/ StopRead \/ (\E q \in Requests: DisconnectRead(q))
  \/ (\E r \in Ranks: StopOpens(r) \/ StopWrites(r)) \/ StopRemoteFails

Spec == Init /\ [][Next]_vars

\* Both ranks work on and the handler's ssh returns; nobody has to send a
\* request or a stop, no turn has to be unusable, and the model need not find
\* an end of its own accord.
Fairness ==
  /\ WF_vars(JobStart) /\ WF_vars(Broadcast) /\ WF_vars(RetryStart)
  /\ WF_vars(MirrorStart) /\ WF_vars(MirrorEnd)
  /\ \A r \in Ranks: WF_vars(Prefill(r))
  /\ WF_vars(Token)
  /\ \A r \in Ranks: WF_vars(StopOpens(r)) /\ WF_vars(StopWrites(r))

FairSpec == Spec /\ Fairness

-----------------------------------------------------------------------------
(* The batch path's promise: both ranks act on the same word, so whatever    *)
(* the order of their chunks, their looks at the files and the stop's        *)
(* writes, they give up the prefill after the same chunk, and neither        *)
(* decodes (waiting for tokens in a collective) when the other has given up. *)
RanksStopTogether ==
    path = "batch" =>
      /\ at[0] = "cancelled" /\ at[1] = "cancelled" => done[0] = done[1]
      /\ \A r \in Ranks:
            at[r] = "decode" =>
                at[Other(r)] \in {"received", "prefill", "decode"}
      /\ \A r \in Ranks: at[r] = "cancelled" /\ at[Other(r)] = "prefill"
                            => done[Other(r)] <= done[r]

\* This step makes rank r give up, or puts the word for it: on the batch path
\* rank 0 does so for both.
Cuts(r) == \/ path = "stream" /\ at[r] = "prefill" /\ at'[r] = "cancelled"
           \/ path = "batch" /\ r = 0 /\ hit = 0 /\ hit' # 0
           \/ r = 0 /\ at[0] = "decode" /\ ~eos /\ eos'

(* The comment on the word (m3_batch_cancel.py:139-147) says that a stop     *)
(* file that is there during the prefill was written for this request, or    *)
(* carries another nonce; but the file that a late stop of an earlier        *)
(* request opens is empty for a moment, and an empty file is a stop for      *)
(* anyone.                                                                   *)
(*                                                                           *)
(* What the nonces do achieve: a request that nobody asked to stop is cut    *)
(* only in its prefill, and only by a look that finds a file between its     *)
(* truncation and its write.  On rank 0 that is while the handler of another *)
(* request's stop is at it; on rank 1, whose file only the stream path       *)
(* reads, an ssh that fails may leave it so for longer.  Stop files that are *)
(* written in full never cut the wrong request, and decoding never does.     *)
OthersAreSpared ==
    [][\A r \in Ranks: Cuts(r) /\ active \notin asked =>
          /\ at[r] = "prefill"
          /\ file[r] = Empty
          /\ r = 0 => stop.pc = "localOpen" /\ stop.payload.nonce \in served]_vars

\* On the batch path, rank 0 has the generation's stop in its file.
MustStop == /\ path = "batch" /\ at[0] \in {"prefill", "decode"}
            /\ file[0].nonce = active

(* On the batch path a stop that rank 0 has in its file while it generates   *)
(* ends that generation, in whichever phase it finds it: a stop that comes   *)
(* too late for the last word of the prefill is met by the decode poll.      *)
(* Only another request's late stop, written over it, may save it.           *)
StopTakesEffect ==
    MustStop ~> \/ at[0] \notin {"prefill", "decode"}
                \/ file[0].nonce \notin {active, Anyone}

(* On the batch path no stop leaves a rank waiting in a chunk or a word that *)
(* the other rank does not join.                                             *)
PrefillEnds ==
    \A r \in Ranks: (path = "batch" /\ at[r] = "prefill") ~> at[r] # "prefill"
=============================================================================
