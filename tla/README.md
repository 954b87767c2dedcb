# Verification of ThunderMLX

TLA+ models of ThunderMLX, the two-Mac, pipeline-parallel server of
MiniMax-M3: rank 0 serves HTTP and broadcasts every operation to rank 1, both
run the same collectives in the same order, and any disagreement between the
two ranks about which operation comes next hangs the RDMA link. The modules
here model the control of that program: who may run when, what a request may
observe, which state the two ranks must agree on. TLC checks them on small
instances; TLAPS proves the most important properties for every instance.

Every definition names the code it models in `PROJECT.json` ("map"). Line
numbers below are those of the same commit.

## 1. Inventory

| Component | State | Operations | What is hard |
|---|---|---|---|
| Non-stream requests and their coalescer (`sharded_server.py` 244-407, 22108-24227) | table of entries by fingerprint, each with clients, event, payload, age | claim, disconnect, should_cancel, complete, purge; handler polling loop; stop | retries race completion, expiry and eviction; the stop flag is process-wide |
| Generation slot (20385-20895, 21144-21480) | `generation_lock`, its owner record, `request_state`, stop target, op mutex, job queue | acquire, publish, release, recover a stale lock, keepwarm, control job | a lock without an owner, released by whoever asks; recovery by age; cancellation |
| Op channel (20163-20242, 24243-24489) | one stream of collectives between the ranks | `_bcast`, mirror receive and dispatch, barrier, keepwarm ops, admin ops | two threads of rank 0 broadcasting at once; rank 1 has to run exactly what rank 0 runs |
| Stop boundaries (1873-2477, 7920-7962, 18848-18877) | nonce, stop files of the two ranks, published progress | arm remote then local, check at chunk, check at token, clear | both ranks must stop at the same token although they see the file at different times |
| Prompt cache, resident slots, session manifest (2581-2898, 4647-4779, 6011-7490) | live slot, resident slots, in-use marker on each rank | prepare, consensus, keep/drop/abort, update, cancel, reset, expire | rank divergence of what is cached; cancelled prefixes |
| SSD tier (2952-4493) | files and manifest per rank | scan, prune, autosave, restore, clear | a crash between tensors and manifest; deltas; two ranks |
| Janitor (4799-4904) | idle clock, HTTP view | coordinated drop | decides on state read before taking the slot |
| Prefill admission (`m3_prefill_admission.py`, 18105-18266) | probe results, budget | admit, downgrade, refuse | fail-open ladder |
| Generation loop and streaming (18366-19944, 22774-23655) | tokens, stop state, stream queue | prefill, decode, forced EOS, producer/consumer | consumer gone, producer running |
| Tool calling and output parsing (7963-18100, `constrained_tools.py`) | parser state, grammar automaton | parse, repair, retry, constrain | long sequences of fragments |
| Gateway (`model_gateway.py`) | current backend, in-flight counts, switch lock | auto-switch, proxy, Responses stream | switch while requests run; two backends share the memory |
| Watchdog and restart (`run_with_watchdog.py`, `auto_restart.sh`, `launch_cluster.sh`, `stop_cluster.sh`) | heartbeat ages, child processes, restart budget | observe, kill, restart | crash of one rank only; restart during stop |
| Batch-path generator (`m3_batch_cancel.py`) | warm batch caches, a pending cancel word | prefill a chunk, contribute and read a word, abandon, drain | both ranks must leave the prefill after the same chunk; caches of an abandoned prefill |
| EAGLE-3 speculation (`m3_eagle3.py`) | draft tokens, caches | draft, verify, roll back | cache trimmed to what was accepted |
| Multimodal cache (`m3_multimodal_cache.py`) | image features | lookup, store, evict | key collisions, limits |
| Dashboard jobs (`cluster_gui.py`, `dashboard.html`) | job table | start, poll, cancel | double start |
| Runtime scripts (`scripts/`, `runtime_patches/`, `start_gateway.sh`, `sync_rank1.sh`, `M3_*.command`) | files, processes | update, roll back | partial update |
| Kernels and model (`MSA Support/`, `m3_pipeline_patch.py`) | tensors | forward | numerics: not for TLC |
| Probes, benchmarks, quantisation, lab (`probes/`, `ops/`, `tools/`, `overthink/`) | none of the server's | offline tools and tests | not part of the running system |

Interactions: HTTP handlers (one asyncio loop) submit jobs to one generation
worker thread; the worker, the keepwarm threads, the janitor and some admin
handlers broadcast on the op channel; rank 1's mirror loop executes what it
receives; stop requests travel outside the channel, as files on both hosts;
the gateway talks HTTP to the server; the watchdogs kill and restart processes.

## 2. Plan

Done: 1 `RequestCoalescer`, 2 `GenerationSlot`, 3 `OpChannel` with its
abstraction `ReplicatedOps`, 4 `StopBoundary`, 5 `PromptCache`, 6 `SsdCache`,
7 `PrefillAdmission` and `ChatStream`, 8 `Gateway`, 9 `RestartLoop`. Every
safety property that a passing run checks is also a theorem. A module of
proofs belongs to one component, or to two that serve one purpose:
`RankAgreementProofs` (`OpChannel` and `SsdCache`: what keeps the ranks
together) and `WiredMemoryProofs` (`RestartLoop` and `PrefillAdmission`: what
may begin on the memory that is wired). `SsdCache` and `PrefillAdmission` name
their specifications `TierSpec` and `LadderSpec`, and their operators, so that
one module can extend two.

Left, in this order:

10. The Responses stream of the gateway (3605-3992) as the consumer of
    `ChatStream`.
11. The grammar automaton (`constrained_tools.py`), EAGLE-3 rounds, the
    multimodal cache, the overlapped prefill loop, dashboard jobs.

What composes: `OpChannel` leaves the generation lock out and assumes nothing
about it; `GenerationSlot` shows what it is worth. `StopBoundary` refines what
`ChatStream` and `RequestCoalescer` call a stop. `PrefillAdmission` says which
slots `PromptCache!Admit` gives up, and `SsdCache` reduces `PromptCache` to
what the disk depends on; both take their prefixes from `TokenPrefix`.

## 3. RequestCoalescer

One handler per request (`pc`), one entry object per owner (`entry`), the
dictionary as the set of owners whose entry it still holds (`table`). Entries
outlive their place in the dictionary, as the objects do. The generation is a
job (`job`) that ends with the full text, a cut text or an error. Instants are
ages that saturate one tick past what the code compares them with.

| Run | Shows |
|---|---|
| `coalescer` | one unfinished generation per fingerprint; retries get the owner's response; only fresh successes are replayed; a generation is stopped for disconnection only when nobody waits; every accepted request is answered |

Bounds: three requests, two of them identical, so that expiry, eviction (the
table's limit is 2, so that a finished entry is replayed, or evicted by a
third) and a retry in each phase of its owner occur; graces of one tick, so
that "before", "at" and "after" exist; the client of one of the
identical requests may leave. What the run shows of safety is proved for any
number of leavers.

The models assume two switches on: `STOP_ON_CLIENT_DISCONNECT=1`, as in
`.env.example` and `launch_cluster.sh`, and `SAFE_DECODE_STOP=1` (its default
is 0, and then `/v1/stop` only answers "drain_only" and arms nothing).

Fairness: the event loop runs ready handlers and the worker its job, and a
generation ends, max_tokens bounds it. Time, clients, `/v1/stop` and `/health`
are not fair. The polling loop need not be fair: its exit is.

Proved in `RequestCoalescerProofs`, for all sets of requests, all fingerprint
functions, graces and limits: types, one generation per key, retry answers and
fresh replays, and `CancelOnlyWhenAbandoned`. The inductive invariant adds that
every pending entry is in the table (eviction cannot touch it), that two
entries of the table have different keys, and that a finished entry's owner is
answered with the entry's reply; for the orphan guard (`ClientInv`), that
whoever holds an unfinished entry with an open connection is counted among its
clients, and that the grace of a deserted entry runs only while nobody is.
Only checked: `EveryRequestAnswered`.

## 4. GenerationSlot

`holder` is who acquired `generation_lock`, which the code cannot see: a
`threading.Lock` is released by whoever asks. `owner` is the record the code
can see, with an age. Requests wait on a helper thread and resume on the event
loop (`granted`, then `Publish`), which is the gap the recoveries fall into.
The three keepwarms are one actor kind with a parameter `Guarded`: the
coordinated keepwarm releases only what it still owns, the idle heartbeat and
the post-response touch release in any case.

| Run | Shows |
|---|---|
| `slot` | exact queue counter; live slot records; exclusive channel, all with recoveries, steals and cancellations; a waiting request is served although the lock leaks or a keepwarm sits on it |

Bounds: two requests, one of which may be cancelled while it waits, one
keepwarm that releases blindly and one control job are a thief, a victim and a
third that profits. Ages saturate at the longest grace. Deadlock is not
checked: the system may stop when all requests are served.

Fairness: threads run, waits time out, time passes; no request, control job,
cancellation or keepwarm has to begin. `EveryRequestServed` exempts behaviours
in which a control job sits on the worker for ever (`ControlSits`), waiting
for a lock whose holder needs that worker: see section 13.

Proved in `GenerationSlotProofs` for any actors and graces, with every recovery,
steal and blind release: types, exclusive channel, live records and exact
queue. Of the lock itself nothing is proved: no property of whose turn it is
survives the recoveries by age and the blind releases (section 13), and one
whose hypothesis excludes them would say nothing of this code. The op mutex is
what keeps the transactions apart.

## 5. OpChannel and ReplicatedOps

An operation is a run of collectives: the size word and the body word of
`_bcast`, then for some operations the collectives of a prefill, of decoding
or of a ping. A word is a rendezvous of the two ranks. `pc[a]` and `plan[a]`
say which word a thread of rank 0 sends next and which operations it still has
to broadcast; `mirror` is rank 1's place in its loop, and whose operation it is
in; `turn` is `_RANK0_OP_MUTEX`; `log` holds, per rank, the changes of caches,
files and tuning that it has applied. Rank 1 cannot see who sends a word: one
that does not continue what it is in is a `Shred`, after which it is wedged.
The event loop and the single worker are the guards `LoopFree` and
`WorkerFree`: a handler that broadcasts blocks the loop. The generation lock is
left out (GenerationSlot shows that it may be stolen), so that any number of
requests may be active here. `ReplicatedOps` is what the channel promises:
unmixed turns, one sequence of changes, the ranks at most one change apart.

| Run | Shows |
|---|---|
| `channel` | no shredded words; refinement of `ReplicatedOps`; every transaction ends |
| `channel_faults` | when a generation fails on one rank only, the channel may get stuck, but the ranks do not go on with different state, at rest and at a request's barrier; the shutdown, broadcast without the mutex, never meets a request's transaction; the admin handlers without the mutex are kept apart from each other and from the SSD handlers by the event loop |

`channel_faults` starts in one of two states (`MCInit`): with requests, a
keepwarm and an SSD save, or with the handlers of the event loop only. Between
a request and an unlocked handler nothing holds (section 13).

Bounds: two requests, so that one is active while another is queued or closes;
every other actor acts once; an operation has at most `MaxSteps` = 2 follow-up
collectives (one goes on, one is the last); a request retries at most once
after a tool call it cannot use, as in the code.

Fairness (`channel`): accepted requests are published, the mutex is acquired or
given up, words are exchanged, both ranks run their halves. Nobody has to
begin, and no rank has to fail.

Proved in `RankAgreementProofs`, for any actors, any step bound and either rank
failing: no shredded words (without failures), `AgreeAtRest`, `BarrierAgrees`
and the refinement, all under the assumption `EverybodyLocks` that nobody
broadcasts without the mutex. The code does not satisfy it (section 13); the
theorems say that taking the mutex there would be enough. Their invariant says
who is in a transaction (`Mutex`), that a request's plan ends with the barrier
(`Planned`), and, case by case of where the mutex holder is, where rank 1 can be
and which rank has already applied the current operation (`InStep`).

Without that assumption, so for the code as it is: types,
`ShutdownMeetsNoRequest`, and `LoopKeepsApart` if there is no janitor (`Janitors
= {}`, as in the runs: the janitor is a thread of its own). The invariant
`Basics` says that the worker runs one job and the event loop one handler at a
time, that a plan is of its actor's role, that whoever has sent the shutdown
word has stopped rank 1 and that no request is active from the idle check on;
`Apart`, that a handler in the middle of an operation has rank 1 with it unless
one of the other threads is stuck among the words. `KindsAssumption` says that
the actor kinds are disjoint: the shutdown is broadcast by none of the admin
handlers and not by the janitor.

## 6. StopBoundary

A stop travels outside the channel. The handler computes boundaries from the
progress it sees (`shown`), fixes a payload with the generation's nonce
(`StopRead`, `DisconnectRead`), and writes it to rank 1's file over ssh and then
to rank 0's, each in two steps: `StopOpens` truncates the file, `StopWrites`
fills it. A file that is empty or half written (`Empty`) is read as a stop that
names no generation: decoding ignores it, prefill obeys it. `at[r]` is where a
rank is, `done[r]` its prefill chunks, `tok` the shared tokens, `eos`
`_FORCE_EOS`. Decoding has one path: rank 0's poll makes the next shared token
EOS (`Token`). Prefill has two, chosen per generation by `path`: with
`stream_generate` (`StreamChunk`) the callback of each rank looks at the rank's
own file and raises; in the batch-path generator what it raises is swallowed,
and rank 0 contributes a word per chunk (`BatchChunk`) that both ranks read one
chunk later (`BatchCancel`). The chunk and the word are collectives: `Joined`
and `WordIsIn` are where a rank waits.

| Run | Shows |
|---|---|
| `stop` | on the batch path the ranks stop together and neither is left waiting; a request that nobody asked to stop is cut at most by a look at a file between its truncation and its write (`OthersAreSpared`); a stop that rank 0 has takes effect |

Bounds: two requests, so that the stop of one, whose client leaves late, can
meet the other; one tool retry; two stops, so that one can overwrite the other;
three chunks, the last one shorter; a poll every two tokens and a margin of two
(8 and 16 in the code). Tokens from `Cap` on count modulo `Poll`, so that a
generation may be endless; a boundary beyond `Cap` is one at `Cap`. Ssh may
fail before, between or after the two steps on rank 1's file; rank 0's file is
then left alone.

Fairness: both ranks get on with their chunks, words and tokens, and the
handler's ssh returns (it has a timeout). Nobody need send a request or a stop,
no turn need be retried, the model need not end of its own accord.

Proved in `StopBoundaryProofs`, for any prompt, chunk size, cadence of the
words (0, never, included) and number of requests, retries and stops: types,
`RanksStopTogether` and `OthersAreSpared` (theorem `OthersSpared`): what the
nonces do achieve although files are torn. The invariant says that chunks are
joined and a word that is 1 is for rank 0's last chunk (`Chunks`), that a rank
leaves the prefill early only when both have got that word and made no chunk
since (`Settled`), and decodes only when there is none and, if the last chunk
has a word, rank 0 has contributed to it (`Together`); that nonces are the
generation's own, and that a file is empty or of a stop that was asked for
(`Nonces`); and that rank 0's file is empty only while a handler is at it
(`Writes`).
`StopTakesEffect` and `PrefillEnds` are checked only. On the stream path
`RanksStopTogether` does not hold and is not claimed: if ssh is slow, or a stop
comes between the two ranks' clearing of their files, one rank may pass the
boundary before its file is there.

## 7. PromptCache and TokenPrefix

A KV cache is the sequence of tokens that were fed into it. Each rank has one
live slot (`holder`: the cache, the key it is known by, the length and input
length on record, the session) and parked ones (`resident`). A request runs
through `Arrive`, `Prepare(r)` or `PrepareFails(r)` on each rank, the vote
(`Consensus`, `Abort`; `PrewarmVote` for a prewarm), `Admit(r)`, `Finish(r)`
and `Complete`. `Prepared` is `_prepare_cached_prompt` with its branches in the
code's order. Ranks differ by their clocks (`Expire`), by trims that fail on
one of them, by what memory pressure takes (`Admit`), by a forced end of which
rank 0 alone knows (`Finish`), and by the janitor, which releases rank 0's half
without looking whether a request has begun in between.

What is fed after a reused prefix is `Fed`: the prompt's own tokens if the suffix
is sent as token ids (`DirectIds`, the code's default, not for prewarms), or
what the tokeniser makes of its text alone, as the launcher ships it
(`DIRECT_SUFFIX_IDS=0`). `Recoded` are the suffixes that come back different,
also in length: a cut inside a character, or between what would be one token.

| Run | Shows |
|---|---|
| `prompt` | in the setting that is shipped, until one of the `causes` below: a prefill that starts on a cache completes exactly its prompt, with suffixes of the same length on both ranks; a slot whose counter agrees with its cache is what its key says |

The code does not keep its keys honest whatever happens. `causes` records the
two ways in which a key goes wrong, and the properties are about behaviours in
which neither has happened: there is no third.

- "recoded": a suffix that came back from its text as other tokens was fed and
  recorded; the cache holds those, the key the prompt's (7322-7342).
- "bypassed": a request of a derived session left the live cache of another one
  alone (6436), by an event that is missing from the list at 5788, so that its
  end treats that cache as its own.

The vote compares lengths, never contents: that equal lengths mean equal
prefixes is what `PlanIsSound` says. Bounds: three requests (the first fills a
slot, the second diverges the ranks, the third profits), two sessions whose
prompts share a first token, one parked slot, every limit between the lengths
of the prompts so that each branch is taken. One session is named by the client,
the other derived; one suffix comes back from its text with other tokens, one
more than it had; prewarms are on. Either cause alone breaks `KeysAreHonest` in
this instance. Safety only, so no fairness.
Left out: images and "visible" thinking.

Proved in `PromptCacheProofs`, for any sessions, prompts and generations, all
limits, any tokeniser and any number of requests: types, always, and honest keys
and sound plans until one of the causes, without any hypothesis. Of the
constants `SizesAssumption` asks no more than their types and that no prompt is
empty. Neither property is inductive, because both are about what a later
request makes of a slot. `IInv` says of every slot at any time that its counter
is at most the length of its cache, that a slot without a key counts nothing,
and that a cache of the counted length is what its key says (`GoodSlots`). A
rank that has prepared either keeps off its live slot or has it in use for its
plan (`Ready`): the plan counts at most what its cache holds and less than the
prompt, and if it counts exactly that, the cache is the beginning of the prompt.
Only rank 0 can have a slot that counts less than it holds, since only there the
repetition guard leaves one (`Leave`): this is what the length comparison of the
prewarm's vote rests on, as it does not compare the counters (`EqualIsSound`;
the chat's vote does, `CountedIsSound`). After the vote the plans are equally
long and sound (`Voted`), so what was decoded begins with the prompt, and what
every way to end makes of it is a good slot again (`Ended`). The operators of a
memory get one lemma each (`StashType`, `SwitchType`, `RebuildOutcome`,
`ColdOutcome`, `ReuseOutcome`), and `PreparedOutcome` sums them up.

## 8. SsdCache

The live slot again, reduced to what the disk depends on, with the artifacts
(`art`), the left-overs of crashes (`junk`), their access order and the cap in
force (`cap`) per rank. A save writes a directory beside the old one, removes
the old one and renames: `SaveCrashes` and `SaveFails` are what a crash or an
exception finds on the way. `cold` is the global flag that makes the next miss
rebuild from nothing. Caps and sizes are in tokens of the rank's own layers: the
bytes of the code divided by what a token takes there, which is more on rank 0
(38 of the 60 layers, `.env.example`:82-87), so that equal caps in bytes are
different ones here. `EnvCap` is what a rank starts with, `Retune` the admin
tuning, which moves rank 0's cap alone (1700-1707, 3591-3593). Each rank prunes
by its own cap and order.

| Run | Shows |
|---|---|
| `ssd` | what a prefill builds on, from memory or from an old, partial or interrupted artifact, is the start of its prompt and of equal length on both ranks; a save leaves the disk within the rank's cap and keeps what it saved; a session that goes on alone, and whose artifacts both caps hold, stops diverging once nothing fails (`SkewHeals`) |

Bounds: two sessions whose artifacts do not fit together under rank 0's cap,
which may be tuned below the longest of them; two faults, so that one makes the
ranks differ and another hits the repair. Suffixes are fed as the prompt's own
tokens; what else they may be is `PromptCache`'s subject. Fairness: a request
that has begun goes on, by steps that are no faults (`Progress`). `SkewHeals`
needs no client: it speaks of what happens if the session goes on.

Proved in `RankAgreementProofs`, for any sessions, prompts, answer, caps of the
two ranks, tunings and number of faults: types (`TierTypes`), `PlanIsSound` and
`SavesWithinCap`.
`SsdAssumption` says what the constants are, that no prompt is empty and that a
generation samples at least one token (an end-of-text token counts). The
invariant `TierInv` cannot speak of the two ranks together before the vote,
because nothing compares them: it says of each rank alone that a live cache
holds what its key names and that a keyless one is empty (`Keyed`), that an
artifact names all it holds and that a directory that takes any place has one
in the access order (`Sound`); of a rank that has prepared, that its cache is
the start of the prompt (`Start`); and of an agreed vote, that the lengths are
equal. Two starts of one prompt of equal length are the same tokens, which is
why a vote on lengths is enough, however different the disks are. What a save
leaves is a relation between the node before and after (`Fine`): the prune
exists because dropping everything fits (`PruneIs`, by the least of the
counts that fit), and if it drops even the directory just written, then
because that one alone is over the cap. The sums over sessions are needed only
of none, of one, and of equal sizes (`UsageNone`, `UsageOne`, `UsageSame`).
`SkewNeedsFaultOrPrune` says where skew comes from: with no fault
(`MaxFaults = 0`), and as long as every save finds room under its rank's cap
(`RoomToSave`), whatever the two caps are and are tuned to, no vote diverges,
and between requests the two memories and disks are equal. Its invariant
`AlikeInv` says that whatever one rank has done the other
is about to do, so that the lockstep is broken and restored step by step; it
needs `None` to be none of the verdicts. Without room the two disks part
without a fault (section 13).
Only checked: `SkewHeals`.

## 9. PrefillAdmission

One rank's ladder before one prefill: the stale live cache, the allocator's
pool, the parked slots, largest first. The readings may fail, a drop may raise,
the janitor may release every slot in between. The guard sends nothing to the
other rank; that the two may evict differently is `PromptCache!Admit`.

| Run | Shows |
|---|---|
| `admission` | a guarded prefill begins within the budget or with no parked slot left, if nothing failed and the estimate is right; slots are given up only for a deficit, and no fewer would have covered it |

Bounds: prompts just below, at and above the threshold, memories around the
budget, known and unknown limits, three parked slots of which two may tie, one
fault. `admission` uses direct suffix ids, the default of the code: what the
guard does when it is reached does not depend on them, only whether it is
(section 13).

Proved in `WiredMemoryProofs`, for any slots and sizes, prompts, threshold,
limits, number of faults and either setting of the suffix ids: `AdmittedFits`
and `EvictionIsLeast`. The assumption on the constants is that they are numbers,
and that a token takes memory. The invariant `LadderInv` says that only a
prefill with tokens to feed climbs the ladder, and that past the plan the
prefill fits beside what is to stay, or everything goes. The rest is about sums
along a sequence, by the least place where two of them would go apart (`Climb`),
and an exchange argument: the first k of the slots in order of size hold at
least as much as any k slots (`LargestFirst`), so no smaller set covers the
deficit.

## 10. ChatStream

The producer of a streamed chat (`pc`), the queue, the consumer (`reader`) and
its client (`got`, `ending`). `text` is what the generation has still to say;
`Decode` says a piece of any length. On a turn with tools `Filtered` releases it
up to tool markup or what may become markup, and holds `Holdback` letters back;
`Deliver` parses the whole and adds what is missing (`Remainder`). A turn that
ends a loop of tool calls has its tools taken away (`kind` "final"): it streams
unfiltered and is parsed all the same, and `Deliver` puts the whole content, or
a fallback (`Sorry`), once more. Parsing strips, cuts at markup or drops the
content altogether (`Answers`). `Judge` is the look at the stop after the last
token, `Retry` and `Retried` the second attempt at a turn whose call is not
usable.

| Run | Shows |
|---|---|
| `stream` | on a turn with tools no letter of tool markup goes out live, and no text without markup is held back beyond the limit; a client that stays has the whole answer; a cut attempt resets both ranks' live slots before the request closes; the stream ends whatever is raised, stopped or retried |

`WholeAnswer` says exactly what a client that stays and is told of success has:
without tools, the content; on a turn with tools, the content, or what went out
live if the parse dropped the rest, or, after a retry or if what went out begins
or ends with white space, what went out, a separator and the content again; on a
forced final turn, what went out and the content again, always. The second and
the last are not what the comments say (section 13): the property
is that nothing is lost and that nothing else is repeated.

Bounds: nine texts of at most seven letters cut into pieces in every way:
prose, prose with angle brackets, half a marker at the end, a marker inside
another, white space around it, nothing at all. Three markers stand for the
seven: one begins with `<` at once, one with `<]`, one with `]<]` and contains
the second. `Holdback` is 2 for 24, one retry, one exception. A client may
leave, and anybody stop, at any moment. Left out: reasoning deltas (their own
channel), keepalives, `TOOL_COMPAT_OVERLAY` and `TOOL_STREAM_BUFFER_ALL` (off by
default), the prewarm after the answer.

Fairness: the worker runs the job, whose generations max_tokens and the retry
budget bound, and the event loop runs the consumer. Nobody need leave, stop or
fail.

Proved in `ChatStreamProofs`, for every set of texts and markers, however the
texts are cut, and any holdback, number of retries and faults: types,
`NoMarkupLeaks`, `CutMeansReset` and `WholeAnswer`. `StreamAssumption` says that
texts and markers are sequences, and of a marker that it has two letters at
least and does not begin with white space. The first property rests on `Told`:
a letter went out only where no marker can begin whatever follows (`Ruled`),
which stays true when the text grows; the last one on `Owed`: while a client
reads, the queue carries exactly the difference between what it has and what
was put (`Brings`), and no end that does not fit (`Settled`), stated with a
function from places in the queue to contents instead of a recursion. That a
repetition needs a retry or white space is `AgainIsExcused`: stripping a text
keeps what went out of it a prefix unless that ends in white space
(`StripKeeps`).

## 11. Gateway

One asyncio process; an action runs from one await to the next. `lock` is
`SWITCH_LOCK`, `stamp` the traffic notes, `m3` and `queue` the cluster,
`loaded` and `serving` oMLX. A caller goes through its route's checks
(`Arrive`), the switch (`StopM3ForOmlx`, `StopM3`, `M3Stopped`, or
`StartM3ForRequest`, `StartM3`, `M3Started`) and the forwarding (`Deliver`,
`Finish`), which is outside the lock: what protects a forwarded request is its
time stamp. A look at `/health` may go unanswered (`Unanswered`), which reads
as a cluster that is down, wherever the code looks; the list of oMLX's models
and the unload may fail, which the caller only records (`Unloads`). Each is a
fault. `causes` collects what has happened that may bring the two backends
together, and nothing else does:

- "unwatched": a start or stop went on that no caller with the lock waited for
  (an operator's, that of a caller who timed out or left, of a restarted gateway);
- "unseen": M3 was up, its health did not answer, and a request for oMLX or its
  switch took it for stopped (2893-2894, 779-781);
- "raced": a forced start came while a request was on its way to oMLX;
- "kept": M3 was started although the model was not unloaded (2947-2950).

A fifth, "unlisted", does not: oMLX did not list its models after a restart, so
that nothing was seeded and a model in use may be unloaded.

| Run | Shows |
|---|---|
| `gateway` | a switch takes M3 down only when no noted request is on its way or being answered, lost answers included, unless it is unwatched (`SwitchSparesM3`); M3 and an oMLX model are in memory together only after one of the four causes (`OneBackend`); an unforced start does not unload a model in use, even after a restart of the gateway, unless its models went unlisted (`ModelIsKept`); every request ends |

Bounds: one request of each kind that behaves differently (a chat, an Anthropic
client that may leave, a request for oMLX) and an operator who either stops M3,
which does not take the lock, or forces a switch, which does (`OneCommand`);
graces of one and two ticks; two of restarts, failed commands and unloads and
lost answers, so that a lost answer meets what a restart has forgotten.
`/v1/messages` notes no traffic and is exempt from `SwitchSparesM3`; a POST
arrives within a tick (`Tick` waits for it). Fairness is weak fairness of
everything the gateway, the backends and the clock do of themselves; each can
run only finitely often, so none is needed among them.

Proved in `GatewayProofs`, for any callers, graces and number of faults, from
the assumptions of `Gateway`: the three safety properties of the runs,
`OneBackend` (theorem `NeverBoth`) if the grace for oMLX is not zero and
`SwitchSparesM3` if that for M3 is not zero (with a zero grace nothing protects
a request between the lock and its arrival). `NeverBoth` does not say that the
backends never meet: it says that the four causes are all the ways they can. The
invariant says who has the lock (`Turns`, `Sides`), that a
request on its way has a fresh stamp (`Fresh`), that what M3 serves is in its
queue (`InQueue`, `Queued`, `Serving`), that a command under way is watched
by the holder of the lock (`Watched`), and on top of these that a decision
still stands when it is carried out, although the gateway awaits in between:
`StartStands` (nobody on the way to oMLX), `StopStands` (nobody at M3) and
`KeepStands`, which rests on the stamp being no older than the traffic
(`StampBounds`), also after `SeedDue` has made one up.

## 12. RestartLoop

The loop of `auto_restart.sh` (`pc`, its counters), the launcher, the guard that
runs beside it, the two ranks under their watchdogs, the memory that is wired
on each machine, the stop file and the operator's scripts. Time is abstracted:
a window that elapses is an action that may be taken. The guard is a subshell
of the loop, which kills it when the launcher has ended, wherever it is.

| Run | Shows |
|---|---|
| `restart` | nothing is launched on wired memory or after a stop; short laps stay within the two budgets together; the cluster serves again or the loop gives up; a stop ends |
| `restart_backoff` | violated: a stop that comes while the loop sleeps before its next lap ends, and the cluster is launched again |

Bounds: four faults (crash, wedge, a blocked clear, a failed sync), four starts
or stops, budgets and memory waits of two. The memory limits are set as in
`.env.example` (525-526), both readings answer, there is one loop. In
`restart` a stop comes only where the loop looks at the stop file before it
launches again: while the cluster runs or has just ended ("wait", "over") and in
the two waits for orphaned memory ("topWait", "endWait"). It leaves out "top",
"launch", "end", "count" and "sleep", from where the loop may launch, or is
already launching, without another look; `restart_backoff` adds the sleep, the
longest of them. Two
exceptions are in the properties: a rank whose watchdog blocks in its clear
(`Lost`), and an operator who starts again.

Fairness: each script goes on, ranks boot, finish and exit when asked, their
watchdogs fire, the keepwarm generates now and then (which is how a wedged
partner is noticed); the shutdown is strongly fair, it waits for the end of a
generation again and again. No fault, start or stop has to happen, and nothing
has to reclaim memory.

Proved in `WiredMemoryProofs`, for any budgets and any number of faults and
operations: `LaunchBudget`, and `LaunchesAreSafe` under the hypothesis
`StopPlaces \subseteq Watched \cup {"gone"}`: the loop is stopped only where it
will look at the stop file again. The run meets it, `restart_backoff` does not.
The invariant says that a living rank holds its memory (`Held`), that short laps
are charged (`Budgets`) and that the memory check still holds at the launch
(`Clear`); with the hypothesis, that a stop has ended the loop or is going to be
seen (`Noticed`).

## 13. Disagreements met while modelling

What a document, comment or message says and the code does not do. One has a run
that finds it violated, `restart_backoff`. The others are excluded by a
parameter, an exemption or a cause named above, so that the properties say
something about the rest.

- A cut generation can be answered, and replayed to retries, as a success: the
  stop flag is process-wide and read at 24189, after the next job's start may
  have erased it (the comment at 22706 expects each job to clear its own).
- The idle heartbeat and the post-response touch release the lock blindly
  (20610, 20785-20876), what the comment at 20770 warns of for a keepwarm that
  lost it: two requests are published at once.
- The recovery of an ownerless lock decides on a record that does not change when
  a helper thread acquires the lock (21144-21214): between its grant and its
  publication a request may lose the lock to the next one, against "never erase
  or release that newer turn" (21167).
- A control job waits without a limit for the lock on the only worker (20638),
  whose holder may need that worker: "self-healing generation locks"
  (`README.md`:99) and the bounded waits of 21203 do not reach it.
- Admin handlers and the janitor broadcast without the op mutex (21684,
  21870, 4883) after an idle check; the comment at 2217-2226 says what that does.
- The start of a job (23773) and of a tool retry (14792) clears a stop that was
  just answered for it, against 2438; a stream's start likewise (22812), so a
  client that leaves while its job is queued is not cut. When ssh fails no file
  is written, though the warning at 2463 says the decode stop remains armed.
- On the stream path each rank goes by its own file (7920): they may stop apart.
- A stop file that is empty or half written counts as a stop for whoever
  prefills (2269-2278, 2303-2305, 2337, `m3_batch_cancel.py`:136-149), so a late
  stop of a finished request may cut the next one, against "was written for THIS
  request".
- With `DIRECT_SUFFIX_IDS=0`, as `launch_cluster.sh`:302 sets it, a suffix is
  decoded and tokenised again (7117, 18531-18535). If it comes back different the
  cache holds other tokens than its key, which 2503 calls the "full token sequence
  currently held".
- A bypass for an automatic session records `bypass_preserve_auto_isolation`
  (6436), which is not among the events that preserve the cache (5788): the
  request's end re-keys or drops the preserved session (7407, 6421).
- The cold rebuild that heals a divergence is one flag for all sessions (4342):
  a miss of another session consumes it. And each rank prunes to its own cap, in
  bytes of its own layers, so that two sessions in turn may diverge for ever
  without a fault (3591-3599), against "one true cold rebuild" (4343).
- `docs/PERSISTENT_CACHE.md`:108 gives rank 1 the larger artifact of the 38/22
  setup; the counts are rank 0's and rank 1's, in this order
  (`.env.example`:82-87).
- With `DIRECT_SUFFIX_IDS=0` a rebuild hands over a fresh cache object and counts as
  an incremental prefill of 0 new tokens: no cold prefill is guarded ("Cold
  prefill = full prompt", 18106; `.env.example`:311).
- `/v1/stop` during a tool retry of a client that stays is not followed by the
  reset that the comment at 23136 calls necessary.
- A turn with tools sends its answer twice when what went out live begins or
  ends with white space, or ends with white space before a dropped block: the parsed
  content is stripped, so it does not begin with the streamed text and follows
  in full, where 23382 says "send only the remainder". A forced-final turn does
  the same, always (23341).
- Without tools, or on a forced-final turn, a stream puts each piece as it comes
  (23116-23137): "raw MiniMax markup must never reach a client" (24172) holds of
  buffered answers.
- With `SSE_KEEPALIVE_SECONDS` not above 0 a consumer that was cancelled leaves
  its executor thread in `out_q.get`, since None is put for a connected client only.
- A poller's GET can boot M3 (`model_gateway.py`:4233 looks at `active_backend`,
  which stops and deaths of the cluster do not update) against 4229.
- A `/health` that does not answer in time reads as a cluster that is down
  (703-711, 726-730, 2893) and a failed unload is only recorded (2947-2950): both
  bring oMLX's model and M3 into memory together, against `README.md`:245-246.
- A disconnect posts a bare `/v1/stop` (3205), which cuts whoever is active.
- The watchdog's clear before its exit (`run_with_watchdog.py`:372) is under no
  alarm, against 118.
- The dashboard's start removes `.stop_requested`, not the `STOP_FILE` of the
  loop (`cluster_gui.py`:1085). Two starts within the window of the sync make two
  loops (`M3_Start.command`:278), and the loop's TERM trap (`auto_restart.sh`:57)
  removes the lock without leaving.
- When ssh fails rank 1's wired memory reads as 0 and counts as free
  (`auto_restart.sh`:83).

## 14. What is not proved, and what is not modelled

Liveness stays with TLC: the prover handles neither fairness nor ENABLED. So do
inductions over data and recursive operators, of which the proved modules have
none. Only model-checked are the ten liveness properties:
`EveryRequestAnswered`, `EveryRequestServed`, `EveryTransactionEnds`,
`StopTakesEffect`, `PrefillEnds`, `SkewHeals`, `StreamEnds`, `EveryRequestEnds`,
`Recovers` and `StopEnds`. These hypotheses narrow theorems: `EverybodyLocks`
and `OneSided = {}` (section 5), no fault and room to save in
`SkewNeedsFaultOrPrune` (section 8), graces above zero (section 11) and where a
stop comes (section 12). Where the code does not meet one, the property fails
without it, as section 13 shows; no theorem says what holds there instead. The
theorems on keys and plans (section 7) and on the backends (section 11) have no
hypothesis but name, in `causes`, what they do not survive. The type invariants
of the modules of sections 3 to 6 are proved and in no run; those of the others
are conjoined to one of their safety properties.

Not modelled yet: the grammar automaton and tool parsing, EAGLE-3, the
multimodal cache, the gateway's stream translations, the overlapped prefill
loop, dashboard jobs (section 2). Not to be modelled: kernels and numerics
(`MSA Support/`, most of its lines), HTML, offline probes, benchmarks and
quantisation, and the recognition of text (tool-call repair, leaked-reasoning
classifiers), which has no state.
