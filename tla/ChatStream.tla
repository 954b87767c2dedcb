------------------------------ MODULE ChatStream ------------------------------
(***************************************************************************)
(* One streamed chat request (sharded_server.py): the producer, a job of   *)
(* the generation worker, decodes and puts server-sent events into a       *)
(* queue; the consumer, a coroutine of the event loop, sends them to the   *)
(* client until it meets None.  A client that leaves clears a flag that    *)
(* the producer looks at before each put, and asks for a stop.             *)
(*                                                                         *)
(* On a turn with tools the text goes out live only as far as it cannot be *)
(* tool markup; what the client gets in the end is put together from what  *)
(* went out and from a parse of the whole.  A turn that ends a loop of     *)
(* tool calls has its tools taken away: it goes out like one without       *)
(* tools, and is parsed like one with tools.  Text is a sequence of        *)
(* letters; a piece is what one yield of the generator adds.  Reasoning    *)
(* has its own channel and is left out.  The slot, the op channel and the  *)
(* stop's way to the ranks are GenerationSlot, OpChannel and StopBoundary. *)
(* TOOL_COMPAT_OVERLAY and TOOL_STREAM_BUFFER_ALL are off, as by default.  *)
(***************************************************************************)
EXTENDS Integers, SequencesExt

CONSTANTS Kinds,       \* "plain", "tools" and "final", the forced final turn
          Texts,       \* what a generation may say
          Markers,     \* the beginnings of tool markup, _markers
          Space, NL,   \* white space, and the separator before a new text
          Sorry,       \* the fallback of a forced final turn, as one letter
          Holdback,    \* TOOL_STREAM_HOLDBACK_CHARS
          MaxRetries,  \* NATIVE_TOOL_ACTION_RETRY_ATTEMPTS
          MaxFaults    \* bound on exceptions

StreamAssumption ==
  /\ Kinds \subseteq {"plain", "tools", "final"}
  /\ \A s \in Texts \cup Markers: s \in Seq(Range(s))
  /\ \A m \in Markers: Len(m) > 1 /\ m[1] # Space
  /\ {Holdback, MaxRetries, MaxFaults} \subseteq Nat
ASSUME StreamAssumption

VARIABLES
  kind,       \* whether the turn has tools, or had them
  pc,         \* the producer
  text,       \* what the generation has still to say
  said,       \* what it has said at the first attempt
  full,       \* full_output: what will be parsed
  pending,    \* tool_stream_pending: said, but held back
  silenced,   \* tool_stream_silenced
  live,       \* the content that was put while decoding
  final,      \* the content that the parse has found
  tries,      \* tool retries
  cut,        \* a stop has ended an attempt: "no", "first", "retry"
  reset,      \* both ranks' live slots were reset
  queue,      \* out_q
  connected,  \* client_connected
  stop,       \* a stop is requested
  reader,     \* the consumer: "reading", "ended", "leaving" or "gone"
  got,        \* the content that the client has
  ending,     \* what the client was told at the end
  faults

textVars == <<text, said, full, pending, silenced, live, final>>
clientVars == <<reader, got, ending>>
vars == <<kind, pc, textVars, tries, cut, reset, queue, connected, stop,
          clientVars, faults>>

Init ==
  /\ kind \in Kinds
  /\ pc = "queued"
  /\ text = <<>> /\ said = <<>> /\ full = <<>>
  /\ pending = <<>> /\ silenced = FALSE /\ live = <<>> /\ final = <<>>
  /\ tries = 0 /\ cut = "no" /\ reset = FALSE
  /\ queue = <<>> /\ connected = TRUE /\ stop = FALSE
  /\ reader = "reading" /\ got = <<>> /\ ending = "none"
  /\ faults = 0

-----------------------------------------------------------------------------
(* Text.                                                                    *)

Rest(s, n) == SubSeq(s, n + 1, Len(s))
Least(set) == CHOOSE i \in set: \A j \in set: i <= j

\* Where tool markup begins.
Marks(s) ==
  {i \in DOMAIN s: \E m \in Markers: IsPrefix(m, Rest(s, i - 1))}

\* _strip_raw_tool_blocks for a block that nothing follows.
Before(s) == IF Marks(s) = {} THEN s ELSE SubSeq(s, 1, Least(Marks(s)) - 1)

\* The strip() with which split_thinking_text ends.
Strip(s) ==
  LET ink == {i \in DOMAIN s: s[i] # Space}
  IN  IF ink = {} THEN <<>>
      ELSE SubSeq(s, Least(ink), CHOOSE i \in ink: \A j \in ink: j <= i)

\* Markup may turn out to be a call, a block that is dropped, or prose, and
\* the text an echo of the client's state or leaked reasoning, which is dropped.
Answers(s) == {Strip(s), Strip(Before(s)), <<>>}

\* _tool_loop_forced_final_fallback stands in for an answer that is not there.
Forced(s) == (Answers(s) \ {<<>>}) \cup {<<Sorry>>}

\* Where a text must stop for now: at a marker, or at what may become one.
Doubts(s) ==
  {i \in DOMAIN s: \E m \in Markers: \/ IsPrefix(m, Rest(s, i - 1))
                                     \/ IsPrefix(Rest(s, i - 1), m)}

\* The letters after the last one that a marker may begin with.
Calm(s) ==
  LET bad == {i \in DOMAIN s: \E m \in Markers: m[1] = s[i]}
  IN  IF bad = {} THEN Len(s)
      ELSE Len(s) - CHOOSE i \in bad: \A j \in bad: j <= i

Release(s, n, silent) ==
  [out |-> SubSeq(s, 1, n), held |-> IF silent THEN <<>> ELSE Rest(s, n),
   silent |-> silent]

\* Mutant: only what begins with a whole marker is stopped.
Filtered_Whole(s) ==
  IF Marks(s) # {} THEN Release(s, Least(Marks(s)) - 1, TRUE)
  ELSE Release(s, Len(s) - IF Calm(s) < Holdback THEN Calm(s) ELSE Holdback,
               FALSE)

\* The loop over the pending text of a turn with tools.
Filtered(s) ==
  IF Doubts(s) # {}
  THEN LET i == Least(Doubts(s)) IN Release(s, i - 1, i \in Marks(s))
  ELSE Release(s, Len(s) - IF Calm(s) < Holdback THEN Calm(s) ELSE Holdback,
               FALSE)

-----------------------------------------------------------------------------
(* The producer.                                                            *)

Item(what, content) == [what |-> what, content |-> content]

\* _put_sse.
Put(items) == queue' = IF connected THEN queue \o items ELSE queue
Content(s) == IF s = <<>> THEN <<>> ELSE <<Item("delta", s)>>
Bye(why) == <<Item(why, <<>>), Item("[DONE]", <<>>)>>

\* The job takes the op mutex, clears the stop state and broadcasts.
Start ==
  /\ pc = "queued"
  /\ pc' = "decode"
  /\ \E t \in Texts: text' = t
  /\ stop' = FALSE
  /\ Put(<<Item("delta", <<>>)>>)
  /\ UNCHANGED <<kind, said, full, pending, silenced, live, final, tries, cut,
                 reset, connected, clientVars, faults>>

\* Without tools a piece goes out as it is, also on a forced final turn, whose
\* tools were taken away; with tools it goes through the filter.  Nothing goes
\* out when the client is gone.
Emit(piece) ==
  IF ~connected THEN UNCHANGED <<pending, silenced, live, queue>>
  ELSE IF kind # "tools"
  THEN /\ live' = live \o piece
       /\ Put(Content(piece))
       /\ UNCHANGED <<pending, silenced>>
  ELSE IF silenced THEN UNCHANGED <<pending, silenced, live, queue>>
  ELSE LET f == Filtered(pending \o piece)
       IN  /\ live' = live \o f.out
           /\ pending' = f.held
           /\ silenced' = f.silent
           /\ Put(Content(f.out))

\* run_generation_stream yields.
Decode ==
  /\ pc = "decode" /\ text # <<>>
  /\ \E n \in 1 .. Len(text):
       /\ said' = said \o SubSeq(text, 1, n)
       /\ text' = Rest(text, n)
       /\ Emit(SubSeq(text, 1, n))
  /\ UNCHANGED <<kind, pc, full, final, tries, cut, reset, connected, stop,
                 clientVars, faults>>

\* It is over: everything is said, or the stop has forced an EOS.  A stop in
\* the prefill is a cancellation.
EndOfStream ==
  /\ pc = "decode"
  /\ text = <<>> \/ stop
  /\ pc' = "judge"
  /\ full' = said
  /\ cut' = IF text = <<>> THEN "no" ELSE "first"
  /\ UNCHANGED <<kind, text, said, pending, silenced, live, final, tries, reset,
                 queue, connected, stop, clientVars, faults>>

\* Mutant: only a cancellation in the prefill counts.
Stopped_Prefill == stop /\ said = <<>>

\* generation_cancelled or _user_stop_requested.
Stopped == stop

\* Either both ranks forget their live slots and the stream ends here.
Judge ==
  /\ pc = "judge"
  /\ IF Stopped
     THEN pc' = "close" /\ reset' = TRUE /\ Put(Bye("stopped"))
     ELSE pc' = "parse" /\ UNCHANGED <<reset, queue>>
  /\ UNCHANGED <<kind, textVars, tries, cut, connected, stop, clientVars,
                 faults>>

\* _ensure_usable_tool_turn: another attempt, which clears the stop state.
Retry ==
  /\ pc = "parse" /\ kind = "tools"
  /\ connected /\ ~stop /\ tries < MaxRetries
  /\ Marks(full) # {} \/ Strip(full) = <<>>
  /\ pc' = "retry"
  /\ tries' = tries + 1
  /\ stop' = FALSE
  /\ UNCHANGED <<kind, textVars, cut, reset, queue, connected, clientVars,
                 faults>>

\* Its output replaces the first one; none of it goes out live.
Retried ==
  /\ pc = "retry"
  /\ pc' = "parse"
  /\ \/ (\E t \in Texts: full' = t) /\ UNCHANGED <<cut, faults>>
     \/ /\ stop
        /\ \E t \in Texts: full' = SubSeq(t, 1, Len(t) \div 2)
        /\ cut' = "retry" /\ UNCHANGED faults
     \/ faults < MaxFaults /\ faults' = faults + 1 /\ UNCHANGED <<full, cut>>
  /\ UNCHANGED <<kind, text, said, pending, silenced, live, final, tries, reset,
                 queue, connected, stop, clientVars>>

\* Mutant: what is held back is taken for sent.
Remainder_Held(answer) ==
  IF IsPrefix(live \o pending, answer)
  THEN Rest(answer, Len(live) + Len(pending))
  ELSE IF live = <<>> THEN answer ELSE <<NL>> \o answer

\* What is to be sent after what went out live: the rest of the answer, or all
\* of it again when it does not begin with that.
Remainder(answer) ==
  IF live = <<>> \/ answer = <<>> THEN answer
  ELSE IF IsPrefix(live, answer) THEN Rest(answer, Len(live))
  ELSE <<NL>> \o answer

\* The whole output is parsed, and the client gets what it lacks; on a forced
\* final turn, whose calls are suppressed, it gets the whole, once more.
Deliver ==
  /\ pc = "parse"
  /\ pc' = "close"
  /\ IF ~connected THEN reset' = TRUE /\ UNCHANGED <<final, queue>>
     ELSE /\ UNCHANGED reset
          /\ \/ kind = "plain" /\ final' = full /\ Put(Bye("complete"))
             \/ /\ kind = "final"
                /\ \E answer \in Forced(full):
                     /\ final' = answer
                     /\ Put(Content(answer) \o Bye("complete"))
             \/ /\ kind = "tools" /\ Marks(full) # {}
                /\ final' = <<>>
                /\ Put(Bye("calls"))
             \/ /\ kind = "tools"
                /\ \E answer \in Answers(full):
                     /\ final' = answer
                     /\ Put(Content(Remainder(answer)) \o Bye("complete"))
  /\ UNCHANGED <<kind, text, said, full, pending, silenced, live, tries, cut,
                 connected, stop, clientVars, faults>>

\* An exception on rank 0, or on both ranks.
Raise ==
  /\ pc \in {"queued", "decode", "judge", "parse"} /\ faults < MaxFaults
  /\ faults' = faults + 1
  /\ pc' = "close"
  /\ Put(Bye("error"))
  /\ UNCHANGED <<kind, textVars, tries, cut, reset, connected, stop,
                 clientVars>>

\* Mutant: the end of the queue is put by the successful path only.
Close_Success ==
  /\ pc = "close"
  /\ pc' = "done"
  /\ IF faults > 0 THEN UNCHANGED queue ELSE Put(<<Item("None", <<>>)>>)
  /\ UNCHANGED <<kind, textVars, tries, cut, reset, connected, stop, clientVars,
                 faults>>

\* The finally clause: barrier, mutex, slot, and the end of the queue.
Close ==
  /\ pc = "close"
  /\ pc' = "done"
  /\ Put(<<Item("None", <<>>)>>)
  /\ UNCHANGED <<kind, textVars, tries, cut, reset, connected, stop, clientVars,
                 faults>>

-----------------------------------------------------------------------------
(* The consumer, its client, and whoever calls /v1/stop.                    *)

Read ==
  /\ reader = "reading" /\ queue # <<>>
  /\ queue' = Tail(queue)
  /\ LET item == Head(queue)
     IN  /\ reader' = IF item.what = "None" THEN "ended" ELSE reader
         /\ got' = got \o item.content
         /\ ending' = IF item.what \in {"delta", "[DONE]", "None"} THEN ending
                      ELSE item.what
  /\ UNCHANGED <<kind, pc, textVars, tries, cut, reset, connected, stop,
                 faults>>

\* The client disconnects: the consumer clears client_connected, ...
Leave ==
  /\ reader = "reading"
  /\ reader' = "leaving"
  /\ connected' = FALSE
  /\ UNCHANGED <<kind, pc, textVars, tries, cut, reset, queue, stop, got,
                 ending, faults>>

\* ... asks for a stop and is gone.
Ask ==
  /\ reader = "leaving"
  /\ reader' = "gone"
  /\ stop' = TRUE
  /\ UNCHANGED <<kind, pc, textVars, tries, cut, reset, queue, connected, got,
                 ending, faults>>

StopRequest ==
  /\ pc # "done" /\ ~stop
  /\ stop' = TRUE
  /\ UNCHANGED <<kind, pc, textVars, tries, cut, reset, queue, connected,
                 clientVars, faults>>

Produce == \/ Start \/ Decode \/ EndOfStream \/ Judge \/ Retry \/ Retried
           \/ Deliver \/ Close

Consume == Read \/ Ask

Next == Produce \/ Consume \/ Raise \/ Leave \/ StopRequest

Spec == Init /\ [][Next]_vars

\* The worker runs the job, which is bounded by max_tokens and the retries;
\* the event loop runs the consumer.  Nobody need leave, stop or fail.
FairSpec == Spec /\ WF_vars(Produce) /\ WF_vars(Consume)

-----------------------------------------------------------------------------
Letters == {NL, Sorry} \cup UNION {{t[i]: i \in DOMAIN t}: t \in Texts}
Whys == {"stopped", "complete", "calls", "error"}

TypeOK ==
  /\ kind \in Kinds
  /\ pc \in {"queued", "decode", "judge", "parse", "retry", "close", "done"}
  /\ {text, said, full, pending, live, final, got} \subseteq Seq(Letters)
  /\ {silenced, reset, connected, stop} \subseteq BOOLEAN
  /\ tries \in 0 .. MaxRetries /\ cut \in {"no", "first", "retry"}
  /\ queue \in Seq([what: Whys \cup {"delta", "[DONE]", "None"},
                    content: Seq(Letters)])
  /\ reader \in {"reading", "ended", "leaving", "gone"}
  /\ ending \in Whys \cup {"none"}
  /\ faults \in 0 .. MaxFaults

\* However the text of a turn with tools is cut into pieces, no letter of tool
\* markup goes out live, everything before it does, and of a text without
\* markup no more is held back than the limit or the beginning of a marker.
\* (With the type invariant.)
NoMarkupLeaks ==
  TypeOK /\ (kind = "tools" =>
    /\ IsPrefix(live, Before(said))
    /\ silenced => live = Before(said)
    /\ ~silenced /\ connected =>
         /\ said = live \o pending
         /\ Len(pending) <= Holdback \/ \E m \in Markers: IsPrefix(pending, m))

\* A client that stays has the whole answer when it is told that it has.  What
\* went out live and what the parse added make up the answer, once.  It is sent
\* again after what went out only on a forced final turn, and on a turn with
\* tools that was retried or whose live text begins or ends with the white space
\* that the parse strips.  An answer that was dropped leaves what went out.
WholeAnswer ==
  /\ ending = "complete" =>
       \/ kind # "final" /\ got = final
       \/ kind = "final" /\ got = live \o final
       \/ kind = "tools" /\ final = <<>> /\ got = live
       \/ /\ kind = "tools" /\ ~IsPrefix(live, final)
          /\ tries > 0 \/ Space \in {live[1], live[Len(live)]}
          /\ got = live \o <<NL>> \o final
  /\ ending = "calls" => got = live
  /\ ending = "stopped" => IsPrefix(got, said)

\* A request is never closed without an error while the ranks may differ in the
\* live slots that they kept: when a stop, by whomever and at whatever moment,
\* has cut the first attempt, or a retry whose client has left, both have
\* forgotten them.
CutMeansReset ==
  [][pc # "close" /\ pc' = "close" /\ faults' = faults
       /\ (cut = "first" \/ (cut = "retry" /\ ~connected)) => reset']_vars

\* Every stream ends, with its transaction closed and its client told so or
\* gone, whatever was raised, stopped or retried on the way.
StreamEnds == <>(pc = "done" /\ reader \in {"ended", "gone"})
=============================================================================
