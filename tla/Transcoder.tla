---------------------------- MODULE Transcoder ----------------------------
(***************************************************************************)
(* A streamed answer on its way to the client (crates/gateway/src/adapter, *)
(* the SseTranscoder of each protocol, with the UsageScanner of relay.rs): *)
(* the upstream's bytes arrive in chunks cut anywhere, the transcoder      *)
(* turns them into OpenAI frames, and the scanner reads usage from those.  *)
(***************************************************************************)
EXTENDS Protocols

CONSTANTS
  Protocol,     \* the protocols of this instance
  Event,        \* for each protocol, the events an upstream may send
  MaxEvents,    \* bound: events of a stream
  MaxChunk,     \* the longest chunk, in pieces
  Pieces        \* the lengths a line may have, in pieces

TranscoderAssumption ==
  /\ MaxEvents \in Nat /\ MaxChunk \in Nat \ {0} /\ Pieces \subseteq Nat \ {0}
  /\ \E n \in Pieces : n + MaxChunk <= MaxBuf

VARIABLES
  protocol, events,   \* the stream: what the upstream sends,
  lengths,            \* in how many pieces each line,
  upstream,           \* its bytes still to arrive
  state,              \* the transcoder
  sent,               \* bytes given to the client
  scanner,
  finished            \* finish has run

vars == <<protocol, events, lengths, upstream, state, sent, scanner, finished>>

-----------------------------------------------------------------------------
(* The loop of stream_response. *)

Wire(evs, ls) == FlattenSeq([i \in DOMAIN evs |-> Line(evs[i], ls[i])])

Init ==
  /\ protocol \in Protocol
  /\ events \in SeqOf(Event[protocol], MaxEvents)
  /\ lengths \in [DOMAIN events -> Pieces]
  /\ upstream = Wire(events, lengths)
  /\ state = Fresh /\ sent = <<>>
  /\ scanner = [buf |-> <<>>, usage |-> None]
  /\ finished = FALSE

Passes(r) ==
  /\ state' = r.st /\ sent' = sent \o r.out
  /\ scanner' = IF r.out = <<>> THEN scanner ELSE feed(scanner, r.out)

Chunk ==
  /\ ~finished /\ upstream # <<>>
  /\ \E n \in 1..MaxChunk :
       /\ n <= Len(upstream)
       /\ Passes(push(protocol, state, SubSeq(upstream, 1, n)))
       /\ upstream' = SubSeq(upstream, n + 1, Len(upstream))
  /\ UNCHANGED <<protocol, events, lengths, finished>>

\* The upstream ends, or breaks off: what has not arrived never does.
Finish ==
  /\ ~finished /\ finished' = TRUE
  /\ Passes(finish(protocol, state))
  /\ UNCHANGED <<protocol, events, lengths, upstream>>

Next == Chunk \/ Finish
Spec == Init /\ [][Next]_vars

-----------------------------------------------------------------------------
(* Properties. *)

\* Lines that can be lost: those longer than the buffer.  A line that fits
\* with a chunk to spare is never lost.
Fitting == SelectSeq([i \in DOMAIN events |-> [ev |-> events[i], n |-> lengths[i]]],
                     LAMBDA e : e.n <= MaxBuf)
Kept == [i \in DOMAIN Fitting |-> Fitting[i].ev]
Sent == payloads(split(sent).lines)
Complete == finished /\ upstream = <<>>

Direct ==
  IF protocol = "openai_compatible" THEN events
  ELSE LET r == handle(protocol, Fresh, Kept)
       IN r.out \o (IF r.st.done THEN <<>> ELSE <<FinalFrame(protocol, r.st), sse_done>>)

\* How the bytes were cut into chunks does not show: the client gets the
\* frames the events say, and a line longer than the buffer costs no other
\* line (sse.rs:3-6, 22-41).
ChunkingInvisible == Complete => Sent = Direct

Ending(f) == f.kind \in {"done", "error"}

\* A converted stream ends once, with its usage and [DONE] or with an error
\* after which nothing comes, and the role is sent once (anthropic.rs:532-556).
EndsOnce ==
  protocol # "openai_compatible" =>
    /\ \A i \in DOMAIN Sent : Ending(Sent[i]) => i = Len(Sent)
    /\ finished => Sent # <<>> /\ Ending(Last(Sent))
    /\ \A i \in DOMAIN Sent : Sent[i].kind = "done" => i > 1 /\ Sent[i - 1].kind = "final"
    /\ Len(SelectSeq(Sent, LAMBDA f : f.kind = "role")) <= 1

\* Tool calls are numbered from 0 without a gap, and arguments always go to a
\* call that was opened before them: an OpenAI client appends them by index.
ToolsAddressed ==
  protocol # "openai_compatible" =>
    LET tools == SelectSeq(Sent, LAMBDA f : f.kind = "tool")
    IN /\ \A i \in DOMAIN tools : tools[i].index = i - 1
       /\ \A i \in DOMAIN Sent : Sent[i].kind = "args" =>
            \E j \in 1..(i - 1) : Sent[j].kind = "tool" /\ Sent[j].index = Sent[i].index

LastOf(evs, Has(_), Value(_), default) ==
  LET with == SelectSeq(evs, Has) IN IF with = <<>> THEN default ELSE Value(Last(with))

\* The usage an upstream's events add up to: Anthropic tells the input when
\* the message starts and the output so far with each delta, Gemini both.
AnthropicUsage ==
  <<LastOf(Kept, LAMBDA e : e.type = "message_start", LAMBDA e : e.input, 0),
    LastOf(Kept, LAMBDA e : e.type \in {"message_start", "message_delta"} /\ e.output > 0,
           LAMBDA e : e.output, 0)>>
GeminiUsage ==
  LastOf(Kept, LAMBDA e : e.usage # None, LAMBDA e : <<e.usage.prompt, e.usage.candidates>>, <<0, 0>>)
Failed == \E i \in DOMAIN Kept :
            IF protocol = "anthropic" THEN Kept[i].type = "error" ELSE Kept[i].error

\* What is billed for a stream is the usage its upstream reported: the scanner
\* finds in the frames what the events said (relay.rs:512-524).
BilledUsage ==
  Complete =>
    IF protocol = "openai_compatible"
    THEN scanner.usage = latest_usage(None, Kept)
    ELSE IF Failed THEN scanner.usage = None
    ELSE <<scanner.usage.prompt, scanner.usage.completion>> =
           IF protocol = "anthropic" THEN AnthropicUsage ELSE GeminiUsage
=============================================================================
