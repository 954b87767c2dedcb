------------------------- MODULE StopBoundaryProofs -------------------------
(***************************************************************************)
(* What holds of stops for any prompt, chunk size, cadence of the words    *)
(* and number of requests, retries and stops: who was not asked to stop is *)
(* cut at most by a file caught between its truncation and its write, and  *)
(* on the batch path the ranks stop together.                              *)
(***************************************************************************)
EXTENDS StopBoundary, TLAPS

\* Where the ranks can be with respect to each other on either path.
Places ==
  /\ at[0] # "received" /\ at[1] \notin {"published", "cleared", "retrying"}
  /\ active = None <=> at[0] = "idle"
  /\ at[0] \in {"idle", "published"} => at[1] = "idle"
  /\ at[0] = "retrying" => attempt < MaxRetries

\* Nonces and files, and who was asked to stop.
Nonces ==
  /\ at[0] \notin {"idle", "published"} => nonce[0] = active
  /\ at[1] \notin {"idle", "received"} => nonce[1] = active
  /\ \A r \in Ranks: file[r].nonce \in asked \cup {None, Anyone}
  /\ eos => at[0] # "prefill"

\* The handler writes stops of the active request or of earlier ones, and only
\* in the midst of that is rank 0's file empty.
Writes ==
  /\ stop.pc # "idle" => /\ stop.payload \in Payloads
                         /\ stop.payload.nonce \in asked
                         /\ stop.payload.nonce \in served \cup {active}
  /\ file[0] = Empty => stop.pc = "localOpen"

\* Chunks are joined; a word is for rank 0's last chunk, and rank 1 is not
\* beyond it.
Chunks ==
  /\ \A r \in Ranks: done[r] <= done[Other(r)] + 1
  /\ \A r \in Ranks: done[r] > 0 => More(done[r] - 1)
  /\ path = "stream" => hit = 0
  /\ hit > 0 => hit = done[0] /\ done[1] <= done[0] /\ HasWord(hit)

\* Both ranks have got the word and made no chunk since.
Settled == hit > 0 /\ done[0] = done[1]

\* On the batch path a rank leaves the prefill early only when the word was 1,
\* and decodes only when it never will be.
Together ==
  /\ \A r \in Ranks: at[r] = "cancelled" => Settled
  /\ at[0] = "prefill" /\ at[1] = "idle" => Settled
  /\ at[1] \in {"received", "prefill"} /\ at[0] \notin {"prefill", "decode"}
       => Settled
  /\ at[1] = "received" => done[1] = 0
  /\ at[0] = "decode" => at[1] \in {"received", "prefill", "decode"} /\ hit = 0
  /\ at[0] = "decode" => ~More(done[0])
  /\ at[1] = "decode" => /\ at[0] \in {"prefill", "decode"} /\ hit = 0
                         /\ ~More(done[1]) /\ WordIsIn(1)
  /\ at[1] = "over" => at[0] \in {"over", "retrying", "cleared"}

IInv == /\ TypeOK /\ Places /\ Nonces /\ Writes /\ Chunks
        /\ path = "batch" => Together

-----------------------------------------------------------------------------
\* Arithmetic of chunks.

\* If there is more after a number of chunks, there was more after fewer.
LEMMA MoreIsDownwardClosed ==
  ASSUME NEW m \in Nat, NEW n \in Nat, m <= n, More(n)
  PROVE  More(m)
<1>1. m * Step <= n * Step
  BY SizesAssumption
<1>2. m * Step \in Nat /\ n * Step \in Nat /\ Total \in Nat
  BY SizesAssumption
<1> QED
  BY <1>1, <1>2 DEF More

\* There are never more chunks than tokens in the prompt.
LEMMA MoreIsBounded ==
  ASSUME NEW n \in Nat, More(n)
  PROVE  n + 1 \in 0..(Total - 1)
<1>1. n <= n * Step
  BY SizesAssumption
<1>2. n * Step \in Nat /\ Total \in Nat
  BY SizesAssumption
<1> QED
  BY <1>1, <1>2 DEF More

\* Progress stays within the prompt without its last token.
LEMMA TokensType ==
  ASSUME NEW n \in Nat
  PROVE  Tokens(n) \in 0..(Total - 1)
<1>1. n * Step \in Nat /\ Total \in Nat \ {0}
  BY SizesAssumption
<1> QED
  BY <1>1 DEF Tokens, Least

-----------------------------------------------------------------------------
\* Types, initially ...
LEMMA TypeInit == Init => TypeOK
<1>1. 0 \in 0..(Total - 1) /\ 0 \in 0..(Cap + Poll) /\ 0 \in 0..MaxStops
      /\ 0 \in 0..MaxRetries
  BY SizesAssumption
<1>2. ASSUME Init
      PROVE  /\ at \in [Ranks -> {"idle", "published", "cleared", "received",
                               "prefill", "decode", "over", "cancelled",
                               "retrying"}]
             /\ done \in [Ranks -> 0..(Total - 1)]
             /\ nonce \in [Ranks -> Requests \cup {None}]
             /\ file \in [Ranks -> Payloads \cup {NoFile, Empty}]
  BY <1>1, <1>2 DEF Init
<1>3. ASSUME Init
      PROVE  /\ shown \in [chunk: 0..(Total - 1), token: 0..(Cap + Poll)]
             /\ stop \in [pc: {"idle", "remote", "remoteOpen", "local",
                              "localOpen"},
                         payload: Payloads \cup {NoFile}]
  BY <1>1, <1>3 DEF Init
<1> QED
  BY <1>1, <1>2, <1>3 DEF Init, TypeOK

\* The types survive a chunk, whoever makes it.
LEMMA ObserveType ==
  ASSUME TypeOK, NEW r \in Ranks, Observe(r)
  PROVE  /\ shown' \in [chunk: 0..(Total - 1), token: 0..(Cap + Poll)]
         /\ flag' \in Requests \cup {None, Anyone}
<1>1. Tokens(done[0] + 1) \in 0..(Total - 1)
  BY TokensType, SizesAssumption DEF TypeOK, Ranks
<1>2. file[0].nonce \in Requests \cup {None, Anyone}
  BY DEF TypeOK, Ranks, Payloads, NoFile, Empty
<1> QED
  BY <1>1, <1>2 DEF TypeOK, Observe

\* What a stop writes is a payload.
LEMMA BoundariesType ==
  ASSUME TypeOK
  PROVE  PrefillStopAt \in Nat /\ DecodeStopAt \in Nat
  BY SizesAssumption DEF TypeOK, PrefillStopAt, DecodeStopAt, Least, Most

\* ... and after every step.
LEMMA TypeNext ==
  ASSUME TypeOK, Places, Writes, [Next]_vars
  PROVE  TypeOK'
<1> USE DEF TypeOK, handler
<1>1. CASE \E q \in Requests: Publish(q)
  BY <1>1, SizesAssumption DEF Publish, Ranks
<1>2. CASE JobStart
  BY <1>2, SizesAssumption DEF JobStart, Ranks, NoFile
<1>3. CASE Broadcast
  <2>1. 0 \in 0..(Total - 1) /\ 0 \in 0..(Cap + Poll)
    BY SizesAssumption
  <2>2. path' \in {"batch", "stream"}
    BY <1>3, SizesAssumption DEF Broadcast
  <2> QED
    BY <1>3, <2>1, <2>2 DEF Broadcast, Ranks
<1>4. CASE MirrorStart
  BY <1>4 DEF MirrorStart, Ranks, NoFile
<1>5. CASE MirrorEnd
  BY <1>5 DEF MirrorEnd, Ranks
<1>6. CASE Retry
  BY <1>6 DEF Retry, Ranks
<1>7. CASE RetryStart
  <2>1. attempt + 1 \in 0..MaxRetries
    BY <1>7, SizesAssumption DEF RetryStart, Places
  <2> QED
    BY <1>7, <2>1 DEF RetryStart, Ranks, NoFile
<1>8. CASE Finish
  BY <1>8 DEF Finish, Ranks, Places, Ended
<1>9. ASSUME NEW r \in Ranks, StreamChunk(r)
      PROVE  TypeOK'
  <2>1. done[r] + 1 \in 0..(Total - 1)
    BY <1>9, MoreIsBounded, SizesAssumption DEF StreamChunk, MoreChunks
  <2>2. /\ shown' \in [chunk: 0..(Total - 1), token: 0..(Cap + Poll)]
        /\ flag' \in Requests \cup {None, Anyone}
    BY <1>9, ObserveType DEF StreamChunk
  <2> QED
    BY <1>9, <2>1, <2>2 DEF StreamChunk
<1>10. ASSUME NEW r \in Ranks, BatchChunk(r)
       PROVE  TypeOK'
  <2>1. done[r] + 1 \in 0..(Total - 1)
    BY <1>10, MoreIsBounded, SizesAssumption DEF BatchChunk, MoreChunks
  <2>2. /\ shown' \in [chunk: 0..(Total - 1), token: 0..(Cap + Poll)]
        /\ flag' \in Requests \cup {None, Anyone}
    BY <1>10, ObserveType DEF BatchChunk
  <2> QED
    BY <1>10, <2>1, <2>2 DEF BatchChunk
<1>11. ASSUME NEW r \in Ranks, BatchCancel(r)
       PROVE  TypeOK'
  BY <1>11 DEF BatchCancel
<1>12. ASSUME NEW r \in Ranks, PrefillEnd(r)
       PROVE  TypeOK'
  BY <1>12 DEF PrefillEnd
<1>13. CASE Token
  <2>1. NextTok \in 0..(Cap + Poll)
    BY SizesAssumption DEF NextTok
  <2>2. /\ eos' \in BOOLEAN
        /\ shown' \in [chunk: 0..(Total - 1), token: 0..(Cap + Poll)]
    BY <1>13, <2>1 DEF Token
  <2> QED
    BY <1>13, <2>1, <2>2 DEF Token, Ranks
<1>14. ASSUME NEW q \in Requests, NEW chunk \in Nat, NEW token \in Nat,
              Ask(q, chunk, token)
       PROVE  TypeOK'
  <2>1. stops + 1 \in 0..MaxStops
    BY <1>14, SizesAssumption DEF Ask
  <2>2. stop'.payload \in Payloads /\ stop'.pc = "remote"
    BY <1>14 DEF Ask, Payloads
  <2>3. stop' \in [pc: {"idle", "remote", "remoteOpen", "local", "localOpen"},
                    payload: Payloads \cup {NoFile}]
    BY <1>14, <2>2 DEF Ask
  <2> QED
    BY <1>14, <2>1, <2>3 DEF Ask
<1>15. CASE StopRead \/ \E q \in Requests: DisconnectRead(q)
  BY <1>14, <1>15, BoundariesType DEF StopRead, DisconnectRead
<1>16. ASSUME NEW r \in Ranks, StopOpens(r)
       PROVE  TypeOK'
  BY <1>16 DEF StopOpens
<1>17. ASSUME NEW r \in Ranks, StopWrites(r)
       PROVE  TypeOK'
  BY <1>17 DEF StopWrites, Written
<1>18. CASE StopRemoteFails
  BY <1>18 DEF StopRemoteFails, Written
<1>19. CASE UNCHANGED vars
  BY <1>19 DEF vars
<1> QED
  BY <1>1, <1>2, <1>3, <1>4, <1>5, <1>6, <1>7, <1>8, <1>9, <1>10, <1>11, <1>12,
     <1>13, <1>14, <1>15, <1>16, <1>17, <1>18, <1>19 DEF Next, Prefill

-----------------------------------------------------------------------------
\* Where the ranks are, and whose nonces they have.

\* Every step keeps the places.
LEMMA PlacesNext ==
  ASSUME TypeOK, Places, [Next]_vars
  PROVE  Places'
<1> USE DEF TypeOK, handler, Places, Ranks, Ended
<1>1. CASE \E q \in Requests: Publish(q)
  <2>1. None \notin Requests
    BY SizesAssumption
  <2> QED
    BY <1>1, <2>1 DEF Publish
<1>2. CASE JobStart
  BY <1>2 DEF JobStart
<1>3. CASE Broadcast
  BY <1>3 DEF Broadcast
<1>4. CASE MirrorStart
  BY <1>4 DEF MirrorStart
<1>5. CASE MirrorEnd
  BY <1>5 DEF MirrorEnd
<1>6. CASE Retry
  BY <1>6 DEF Retry
<1>7. CASE RetryStart
  BY <1>7 DEF RetryStart
<1>8. CASE Finish
  BY <1>8 DEF Finish
<1>9. ASSUME NEW r \in Ranks, StreamChunk(r)
      PROVE  Places'
  <2>1. at[r] = "prefill" /\ (at' = at \/ at' = [at EXCEPT ![r] = "cancelled"])
    BY <1>9 DEF StreamChunk, MoreChunks
  <2> QED
    BY <1>9, <2>1 DEF StreamChunk
<1>10. ASSUME NEW r \in Ranks, BatchChunk(r)
       PROVE  Places'
  BY <1>10 DEF BatchChunk
<1>11. ASSUME NEW r \in Ranks, BatchCancel(r)
       PROVE  Places'
  BY <1>11 DEF BatchCancel
<1>12. ASSUME NEW r \in Ranks, PrefillEnd(r)
       PROVE  Places'
  BY <1>12 DEF PrefillEnd
<1>13. CASE Token
  BY <1>13 DEF Token
<1>14. CASE StopRead \/ \E q \in Requests: DisconnectRead(q)
  BY <1>14 DEF StopRead, DisconnectRead, Ask
<1>15. ASSUME NEW r \in Ranks, StopOpens(r)
       PROVE  Places'
  BY <1>15 DEF StopOpens
<1>16. ASSUME NEW r \in Ranks, StopWrites(r)
       PROVE  Places'
  BY <1>16 DEF StopWrites, Written
<1>17. CASE StopRemoteFails
  BY <1>17 DEF StopRemoteFails, Written
<1>18. CASE UNCHANGED vars
  BY <1>18 DEF vars
<1> QED
  BY <1>1, <1>2, <1>3, <1>4, <1>5, <1>6, <1>7, <1>8, <1>9, <1>10, <1>11, <1>12,
     <1>13, <1>14, <1>15, <1>16, <1>17, <1>18 DEF Next, Prefill

\* Every step keeps the nonces.
LEMMA NoncesNext ==
  ASSUME TypeOK, Places, Nonces, Writes, [Next]_vars
  PROVE  Nonces'
<1> USE DEF TypeOK, handler, Places, Nonces, Ranks, Ended
<1>1. CASE \E q \in Requests: Publish(q)
  BY <1>1 DEF Publish
<1>2. CASE JobStart
  BY <1>2 DEF JobStart, NoFile
<1>3. CASE Broadcast
  BY <1>3 DEF Broadcast
<1>4. CASE MirrorStart
  BY <1>4 DEF MirrorStart, NoFile
<1>5. CASE MirrorEnd
  BY <1>5 DEF MirrorEnd
<1>6. CASE Retry
  BY <1>6 DEF Retry
<1>7. CASE RetryStart
  BY <1>7 DEF RetryStart, NoFile
<1>8. CASE Finish
  BY <1>8 DEF Finish
<1>9. ASSUME NEW r \in Ranks, StreamChunk(r)
      PROVE  Nonces'
  <2>1. at[r] = "prefill" /\ (at' = at \/ at' = [at EXCEPT ![r] = "cancelled"])
    BY <1>9 DEF StreamChunk, MoreChunks
  <2> QED
    BY <1>9, <2>1 DEF StreamChunk
<1>10. ASSUME NEW r \in Ranks, BatchChunk(r)
       PROVE  Nonces'
  BY <1>10 DEF BatchChunk
<1>11. ASSUME NEW r \in Ranks, BatchCancel(r)
       PROVE  Nonces'
  BY <1>11 DEF BatchCancel
<1>12. ASSUME NEW r \in Ranks, PrefillEnd(r)
       PROVE  Nonces'
  BY <1>12 DEF PrefillEnd
<1>13. CASE Token
  BY <1>13 DEF Token
<1>14. CASE StopRead \/ \E q \in Requests: DisconnectRead(q)
  BY <1>14 DEF StopRead, DisconnectRead, Ask
<1>15. ASSUME NEW r \in Ranks, StopOpens(r)
       PROVE  Nonces'
  BY <1>15 DEF StopOpens, Empty
<1>16. ASSUME NEW r \in Ranks, StopWrites(r)
       PROVE  Nonces'
  BY <1>16 DEF StopWrites, Written, Writes
<1>17. CASE StopRemoteFails
  BY <1>17 DEF StopRemoteFails, Written, Writes
<1>18. CASE UNCHANGED vars
  BY <1>18 DEF vars
<1> QED
  BY <1>1, <1>2, <1>3, <1>4, <1>5, <1>6, <1>7, <1>8, <1>9, <1>10, <1>11, <1>12,
     <1>13, <1>14, <1>15, <1>16, <1>17, <1>18 DEF Next, Prefill

-----------------------------------------------------------------------------
\* What the handler writes.

\* Every step keeps what the handler writes.
LEMMA WritesNext ==
  ASSUME TypeOK, Places, Writes, [Next]_vars
  PROVE  Writes'
<1> USE DEF TypeOK, handler, Writes, Ranks
<1>1. CASE \E q \in Requests: Publish(q)
  BY <1>1 DEF Publish
<1>2. CASE JobStart \/ RetryStart
  <2>1. NoFile # Empty
    BY SizesAssumption DEF NoFile, Empty
  <2> QED
    BY <1>2, <2>1 DEF JobStart, RetryStart
<1>3. CASE Broadcast \/ MirrorStart \/ MirrorEnd \/ Retry
  BY <1>3 DEF Broadcast, MirrorStart, MirrorEnd, Retry
<1>4. CASE Finish
  BY <1>4 DEF Finish
<1>5. ASSUME NEW r \in Ranks, Prefill(r)
      PROVE  Writes'
  BY <1>5 DEF Prefill, StreamChunk, BatchChunk, BatchCancel, PrefillEnd
<1>6. CASE Token
  BY <1>6 DEF Token
<1>7. ASSUME NEW q \in Requests, NEW chunk \in Nat, NEW token \in Nat,
             q \in served \cup {active}, Ask(q, chunk, token)
      PROVE  Writes'
  <2>1. /\ stop'.payload = [nonce |-> q, chunk |-> chunk, token |-> token]
        /\ stop'.payload \in Payloads /\ stop'.payload.nonce = q
    BY <1>7 DEF Ask, Payloads
  <2>2. file[0] # Empty
    BY <1>7 DEF Ask
  <2> QED
    BY <1>7, <2>1, <2>2 DEF Ask
<1>8. CASE StopRead \/ \E q \in Requests: DisconnectRead(q)
  BY <1>7, <1>8, BoundariesType DEF StopRead, DisconnectRead
<1>9. ASSUME NEW r \in Ranks, StopOpens(r)
      PROVE  Writes'
  BY <1>9 DEF StopOpens
<1>10. ASSUME NEW r \in Ranks, StopWrites(r)
       PROVE  Writes'
  <2>1. NoFile # Empty
    BY SizesAssumption DEF NoFile, Empty
  <2>2. stop.payload # Empty
    BY <1>10, SizesAssumption DEF StopWrites, Payloads, Empty
  <2> QED
    BY <1>10, <2>1, <2>2 DEF StopWrites, Written
<1>11. CASE StopRemoteFails
  BY <1>11 DEF StopRemoteFails, Written
<1>12. CASE UNCHANGED vars
  BY <1>12 DEF vars
<1> QED
  BY <1>1, <1>2, <1>3, <1>4, <1>5, <1>6, <1>8, <1>9, <1>10, <1>11, <1>12 DEF Next

-----------------------------------------------------------------------------
\* Why the ranks stop together.

\* Every step keeps the chunks and words joined.
LEMMA ChunksNext ==
  ASSUME TypeOK, Chunks, [Next]_vars
  PROVE  Chunks'
<1> USE DEF TypeOK, handler, Chunks, Ranks
<1>1. CASE \E q \in Requests: Publish(q)
  BY <1>1 DEF Publish
<1>2. CASE JobStart
  BY <1>2 DEF JobStart
<1>3. CASE Broadcast
  BY <1>3 DEF Broadcast, Other
<1>4. CASE MirrorStart
  BY <1>4 DEF MirrorStart
<1>5. CASE MirrorEnd
  BY <1>5 DEF MirrorEnd
<1>6. CASE Retry
  BY <1>6 DEF Retry
<1>7. CASE RetryStart
  BY <1>7 DEF RetryStart
<1>8. CASE Finish
  BY <1>8 DEF Finish
<1>9. ASSUME NEW r \in Ranks, StreamChunk(r)
      PROVE  Chunks'
  <2>1. done[r] + 1 <= done[Other(r)] + 1 /\ path = "stream"
    BY <1>9 DEF StreamChunk, Joined, Other
  <2>2. done[r] + 1 - 1 = done[r] /\ More(done[r])
    BY <1>9 DEF StreamChunk, MoreChunks
  <2>3. done' = [done EXCEPT ![r] = @ + 1] /\ UNCHANGED <<hit, path>>
    BY <1>9 DEF StreamChunk
  <2> QED
    BY <1>9, <2>1, <2>2, <2>3 DEF Other
<1>10. ASSUME NEW r \in Ranks, BatchChunk(r)
       PROVE  Chunks'
  <2>1. done[r] + 1 <= done[Other(r)] + 1
    BY <1>10 DEF BatchChunk, Joined, Other
  <2>2. done[r] + 1 - 1 = done[r] /\ More(done[r])
    BY <1>10 DEF BatchChunk, MoreChunks
  <2>3. done' = [done EXCEPT ![r] = @ + 1] /\ path' = path /\ path = "batch"
    BY <1>10 DEF BatchChunk
  <2>4. hit' > 0 => hit' = done'[0] /\ done'[1] <= done'[0] /\ HasWord(hit')
    <3>1. CASE r = 0
      BY <3>1, <1>10, <2>1, <2>3 DEF BatchChunk, Abandoned, Asks, Other
    <3>2. CASE r = 1
      BY <3>2, <1>10, <2>1, <2>3 DEF BatchChunk, Abandoned, Joined, Other
    <3> QED
      BY <1>10, <3>1, <3>2
  <2> QED
    BY <1>10, <2>1, <2>2, <2>3, <2>4 DEF Other
<1>11. ASSUME NEW r \in Ranks, BatchCancel(r)
       PROVE  Chunks'
  BY <1>11 DEF BatchCancel
<1>12. ASSUME NEW r \in Ranks, PrefillEnd(r)
       PROVE  Chunks'
  BY <1>12 DEF PrefillEnd
<1>13. CASE Token
  BY <1>13 DEF Token
<1>14. CASE StopRead \/ \E q \in Requests: DisconnectRead(q)
  BY <1>14 DEF StopRead, DisconnectRead, Ask
<1>15. ASSUME NEW r \in Ranks, StopOpens(r)
       PROVE  Chunks'
  BY <1>15 DEF StopOpens
<1>16. ASSUME NEW r \in Ranks, StopWrites(r)
       PROVE  Chunks'
  BY <1>16 DEF StopWrites, Written
<1>17. CASE StopRemoteFails
  BY <1>17 DEF StopRemoteFails, Written
<1>18. CASE UNCHANGED vars
  BY <1>18 DEF vars
<1> QED
  BY <1>1, <1>2, <1>3, <1>4, <1>5, <1>6, <1>7, <1>8, <1>9, <1>10, <1>11, <1>12,
     <1>13, <1>14, <1>15, <1>16, <1>17, <1>18 DEF Next, Prefill

-----------------------------------------------------------------------------
\* Neither rank goes its own way.

\* A rank leaves the prefill as the other does.
LEMMA TogetherNext ==
  ASSUME TypeOK, Places, Chunks, path = "batch" => Together, [Next]_vars
  PROVE  path' = "batch" => Together'
<1> USE DEF TypeOK, handler, Places, Chunks, Together, Settled, Ranks, Ended,
           WordIsIn
<1>1. CASE \E q \in Requests: Publish(q)
  BY <1>1 DEF Publish
<1>2. CASE JobStart
  BY <1>2 DEF JobStart
<1>3. CASE Broadcast
  BY <1>3 DEF Broadcast, Other
<1>4. CASE MirrorStart
  BY <1>4 DEF MirrorStart
<1>5. CASE MirrorEnd
  BY <1>5 DEF MirrorEnd
<1>6. CASE Retry
  BY <1>6 DEF Retry
<1>7. CASE RetryStart
  BY <1>7 DEF RetryStart
<1>8. CASE Finish
  BY <1>8 DEF Finish
<1>9. ASSUME NEW r \in Ranks, StreamChunk(r)
      PROVE  path' = "batch" => Together'
  BY <1>9 DEF StreamChunk
<1>10. ASSUME NEW r \in Ranks, BatchChunk(r)
       PROVE  path' = "batch" => Together'
  <2>1. ~Settled
    BY <1>10 DEF BatchChunk, Abandoned
  <2>2. at[1] = "decode" /\ r = 0 => ~Asks
    BY <1>10 DEF BatchChunk, Joined, Other, Asks
  <2>3. /\ at' = at
        /\ done' = [done EXCEPT ![r] = done[r] + 1] /\ at[r] = "prefill"
    BY <1>10 DEF BatchChunk, MoreChunks
  <2>4. at[0] = "decode" \/ at[1] = "decode" => hit' = 0
    BY <1>10, <2>2 DEF BatchChunk, MoreChunks
  <2> QED
    BY <1>10, <2>1, <2>3, <2>4 DEF BatchChunk, Other
<1>11. ASSUME NEW r \in Ranks, BatchCancel(r)
       PROVE  path' = "batch" => Together'
  <2>1. Settled /\ at[r] = "prefill"
    BY <1>11 DEF BatchCancel, Abandoned, Other
  <2>2. at' = [at EXCEPT ![r] = "cancelled"] /\ UNCHANGED <<hit, done>>
    BY <1>11 DEF BatchCancel
  <2> QED
    BY <1>11, <2>1, <2>2 DEF BatchCancel, Other
<1>12. ASSUME NEW r \in Ranks, PrefillEnd(r)
       PROVE  path' = "batch" => Together'
  <2> SUFFICES ASSUME path = "batch"
               PROVE  Together'
    BY <1>12 DEF PrefillEnd
  <2>1. hit = 0
    <3>1. CASE r = 0
      BY <3>1, <1>12 DEF PrefillEnd, Abandoned
    <3>2. CASE r = 1
      <4>1. ASSUME hit > 0, done[1] < done[0]
            PROVE  More(done[1])
        BY <4>1, MoreIsDownwardClosed, SizesAssumption
      <4> QED
        BY <3>2, <4>1, <1>12 DEF PrefillEnd, Abandoned
    <3> QED
      BY <1>12, <3>1, <3>2
  <2>2. /\ at' = [at EXCEPT ![r] = "decode"] /\ UNCHANGED <<hit, done>>
        /\ at[r] = "prefill" /\ ~More(done[r]) /\ WordIsIn(r)
    BY <1>12 DEF PrefillEnd
  <2> QED
    BY <1>12, <2>1, <2>2 DEF Other
<1>13. CASE Token
  BY <1>13 DEF Token
<1>14. CASE StopRead \/ \E q \in Requests: DisconnectRead(q)
  BY <1>14 DEF StopRead, DisconnectRead, Ask
<1>15. ASSUME NEW r \in Ranks, StopOpens(r)
       PROVE  path' = "batch" => Together'
  BY <1>15 DEF StopOpens
<1>16. ASSUME NEW r \in Ranks, StopWrites(r)
       PROVE  path' = "batch" => Together'
  BY <1>16 DEF StopWrites, Written
<1>17. CASE StopRemoteFails
  BY <1>17 DEF StopRemoteFails, Written
<1>18. CASE UNCHANGED vars
  BY <1>18 DEF vars
<1> QED
  BY <1>1, <1>2, <1>3, <1>4, <1>5, <1>6, <1>7, <1>8, <1>9, <1>10, <1>11, <1>12,
     <1>13, <1>14, <1>15, <1>16, <1>17, <1>18 DEF Next, Prefill

-----------------------------------------------------------------------------
\* Who cuts.

\* A request that was not asked to stop is cut only by a file that counts.
LEMMA CutsAreArmed ==
  ASSUME IInv, Next, NEW r \in Ranks, Cuts(r), active \notin asked
  PROVE  at[r] = "prefill" /\ Armed(r)
<1> USE DEF handler, Ranks
<1>1. CASE \/ (\E q \in Requests: Publish(q)) \/ JobStart \/ MirrorStart
           \/ MirrorEnd \/ Retry \/ RetryStart \/ Finish
  BY <1>1 DEF Cuts, Publish, JobStart, MirrorStart, MirrorEnd, Retry,
              RetryStart, Finish, IInv, TypeOK
<1>2. CASE Broadcast
  BY <1>2 DEF Cuts, Broadcast
<1>3. ASSUME NEW o \in Ranks, StreamChunk(o)
      PROVE  at[r] = "prefill" /\ Armed(r)
  BY <1>3 DEF Cuts, StreamChunk, IInv, TypeOK
<1>4. ASSUME NEW o \in Ranks, BatchChunk(o)
      PROVE  at[r] = "prefill" /\ Armed(r)
  BY <1>4 DEF Cuts, BatchChunk, MoreChunks, Asks, IInv, Nonces, TypeOK
<1>5. ASSUME NEW o \in Ranks, BatchCancel(o) \/ PrefillEnd(o)
      PROVE  at[r] = "prefill" /\ Armed(r)
  BY <1>5 DEF Cuts, BatchCancel, PrefillEnd, IInv, TypeOK
<1>6. CASE Token
  <2>1. StopDue => active \in asked
    BY <1>6, SizesAssumption DEF Token, StopDue, IInv, Nonces, Places, TypeOK
  <2> QED
    BY <1>6, <2>1 DEF Cuts, Token
<1>7. CASE \/ StopRead \/ (\E q \in Requests: DisconnectRead(q))
           \/ (\E o \in Ranks: StopOpens(o) \/ StopWrites(o))
           \/ StopRemoteFails
  BY <1>7 DEF Cuts, StopRead, DisconnectRead, Ask, StopOpens, StopWrites,
              StopRemoteFails
<1> QED
  BY <1>1, <1>2, <1>3, <1>4, <1>5, <1>6, <1>7 DEF Next, Prefill

-----------------------------------------------------------------------------
\* The invariant is inductive.
LEMMA IInvInit == Init => IInv
<1> SUFFICES ASSUME Init
             PROVE  IInv
  OBVIOUS
<1>1. TypeOK
  BY TypeInit
<1>2. Places /\ Writes
  <2>1. NoFile # Empty
    BY SizesAssumption DEF NoFile, Empty
  <2> QED
    BY <2>1 DEF Init, Places, Writes, Ranks
<1>3. Nonces
  BY DEF Init, Nonces, NoFile, Ranks
<1>4. Chunks
  BY DEF Init, Chunks, Ranks, Other
<1>5. Together
  BY DEF Init, Together, Ranks
<1> QED
  BY <1>1, <1>2, <1>3, <1>4, <1>5 DEF IInv

\* Every step keeps it.
LEMMA IInvNext == IInv /\ [Next]_vars => IInv'
  BY TypeNext, PlacesNext, NoncesNext, WritesNext, ChunksNext, TogetherNext
     DEF IInv

\* It holds in every reachable state.
THEOREM Invariance == Spec => []IInv
  BY IInvInit, IInvNext, PTL DEF Spec

(* Type correctness: no chunk goes beyond the prompt's last token but one,   *)
(* and the retries, stops and tokens stay within their bounds.               *)
THEOREM TypeCorrect == Spec => []TypeOK
<1>1. IInv => TypeOK
  BY DEF IInv
<1> QED
  BY <1>1, Invariance, PTL

(* A request that nobody asked to stop is cut in its prefill only, and only  *)
(* while a file is between its truncation and its write; on rank 0 that is   *)
(* while the handler of an earlier request's stop is at it.                  *)
THEOREM OthersSpared == Spec => OthersAreSpared
<1>1. IInv /\ [Next]_vars =>
        [\A r \in Ranks: Cuts(r) /\ active \notin asked =>
          /\ at[r] = "prefill"
          /\ file[r] = Empty
          /\ r = 0 => stop.pc = "localOpen" /\ stop.payload.nonce \in served]_vars
  <2> SUFFICES ASSUME IInv, Next, NEW r \in Ranks, Cuts(r), active \notin asked
               PROVE  /\ at[r] = "prefill" /\ file[r] = Empty
                      /\ r = 0 => /\ stop.pc = "localOpen"
                                  /\ stop.payload.nonce \in served
    BY DEF Cuts, vars
  <2>1. at[r] = "prefill" /\ Armed(r)
    BY CutsAreArmed
  <2>2. nonce[r] = active /\ file[r].nonce \in asked \cup {None, Anyone}
    BY <2>1 DEF IInv, Nonces, Ranks
  <2>3. file[r].nonce = Anyone
    BY <2>1, <2>2 DEF Armed
  <2>4. file[r] = Empty
    BY <2>3, SizesAssumption DEF IInv, TypeOK, Payloads, NoFile
  <2> QED
    BY <2>1, <2>4 DEF IInv, Writes
<1> QED
  BY <1>1, Invariance, PTL DEF Spec, OthersAreSpared

(* On the batch path both ranks give up the prefill after the same chunk, or *)
(* neither does, for every prompt, chunk size and cadence of the words.      *)
THEOREM StoppingTogether == Spec => []RanksStopTogether
<1>1. ASSUME IInv, path = "batch", NEW r \in Ranks, at[r] = "decode"
      PROVE  at[Other(r)] \in {"received", "prefill", "decode"}
  BY <1>1 DEF IInv, Together, Ranks, Other
<1>2. ASSUME IInv, path = "batch", NEW r \in Ranks, at[r] = "cancelled"
      PROVE  done[0] = done[1] /\ done[Other(r)] <= done[r]
  BY <1>2 DEF IInv, TypeOK, Together, Settled, Ranks, Other
<1>3. IInv => RanksStopTogether
  BY <1>1, <1>2 DEF RanksStopTogether, Ranks
<1> QED
  BY <1>3, Invariance, PTL
=============================================================================
