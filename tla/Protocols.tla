----------------------------- MODULE Protocols -----------------------------
(***************************************************************************)
(* The stream transcoders of crates/gateway/src/adapter: what each event   *)
(* of an Anthropic or Gemini stream does to the transcoder, and the OpenAI *)
(* frames it sends; an OpenAI upstream's bytes pass through.               *)
(***************************************************************************)
EXTENDS Sse, FiniteSets

Fresh == [buf |-> <<>>, input |-> 0, output |-> 0, total |-> 0, stop |-> None, role |-> FALSE,
          tools |-> <<>>, next |-> 0, done |-> FALSE]

Role == Frame("role", None, None, None)
Text == Frame("text", None, None, None)
ErrorFrame == Frame("error", None, None, None)
tool_start_chunk(i) == Frame("tool", i, None, None)
tool_args_chunk(i) == Frame("args", i, None, None)

Step(st, frames) == [st |-> st, out |-> frames]
Positive(new, old) == IF new > 0 THEN new ELSE old

message_start(st, ev) ==
  Step([st EXCEPT !.input = ev.input, !.output = Positive(ev.output, @), !.role = TRUE],
       IF st.role THEN <<>> ELSE <<Role>>)

\* Only tool_use blocks get an OpenAI index, in the order they start.
content_block_start(st, ev) ==
  IF ~ev.tool THEN Step(st, <<>>)
  ELSE Step([st EXCEPT !.next = @ + 1,
                       !.tools = [i \in DOMAIN @ \cup {ev.index} |->
                                    IF i = ev.index THEN st.next ELSE @[i]]],
            <<tool_start_chunk(st.next)>>)

input_json_delta(st, ev) ==
  Step(st, IF ev.index \in DOMAIN st.tools THEN <<tool_args_chunk(st.tools[ev.index])>> ELSE <<>>)

message_delta(st, ev) ==
  Step([st EXCEPT !.stop = IF ev.stop = None THEN @ ELSE ev.stop,
                  !.output = Positive(ev.output, @)], <<>>)

anthropic(st, ev) ==
  CASE ev.type = "message_start" -> message_start(st, ev)
    [] ev.type = "content_block_start" -> content_block_start(st, ev)
    [] ev.type = "text_delta" -> Step(st, <<Text>>)
    [] ev.type = "input_json_delta" -> input_json_delta(st, ev)
    [] ev.type = "message_delta" -> message_delta(st, ev)
    [] ev.type = "error" -> Step([st EXCEPT !.done = TRUE], <<ErrorFrame>>)
    [] OTHER -> Step(st, <<>>)

\* totalTokenCount defaults to the sum.
usage_metadata(u) == [u EXCEPT !.total = IF @ = None THEN u.prompt + u.candidates ELSE @]

Calls(parts) == Len(Among(parts, {"call"}))

gemini_parts(st, parts) ==
  [i \in DOMAIN parts |-> IF parts[i] = "text" THEN Text
                          ELSE tool_start_chunk(st.next + Calls(SubSeq(parts, 1, i - 1)))]

gemini(st, ev) ==
  IF ev.error THEN Step([st EXCEPT !.done = TRUE], <<ErrorFrame>>)
  ELSE LET u == IF ev.usage = None THEN None ELSE usage_metadata(ev.usage)
       IN Step([st EXCEPT !.role = TRUE, !.next = @ + Calls(ev.parts),
                          !.stop = IF ev.finish = None THEN @ ELSE ev.finish,
                          !.input = IF u = None THEN @ ELSE u.prompt,
                          !.output = IF u = None THEN @ ELSE u.candidates,
                          !.total = IF u = None THEN @ ELSE u.total],
               (IF st.role THEN <<>> ELSE <<Role>>) \o gemini_parts(st, ev.parts))

HandleEvent(p, st, ev) == IF p = "anthropic" THEN anthropic(st, ev) ELSE gemini(st, ev)

\* After an error frame nothing more is handled.
handle(p, st, payload) ==
  FoldLeft(LAMBDA acc, ev :
             IF acc.st.done THEN acc
             ELSE LET r == HandleEvent(p, acc.st, ev) IN Step(r.st, acc.out \o r.out),
           Step(st, <<>>), payload)

Encoded(frames) == FlattenSeq([i \in DOMAIN frames |-> sse_frame(frames[i])])

push(p, st, bytes) ==
  IF p = "openai_compatible" THEN Step(st, bytes)
  ELSE IF st.done THEN Step(st, <<>>)
  ELSE LET taken == take_lines(st.buf, bytes)
           r == handle(p, [st EXCEPT !.buf = taken.buf], payloads(taken.lines))
       IN Step(r.st, Encoded(r.out))

map_stop_reason(reason) ==
  CASE reason = "max_tokens" -> "length" [] reason = "tool_use" -> "tool_calls" [] OTHER -> "stop"
map_finish_reason(reason) ==
  CASE reason = "MAX_TOKENS" -> "length" [] reason = "SAFETY" -> "content_filter" [] OTHER -> "stop"

FinalFrame(p, st) ==
  Frame("final", None,
        [prompt |-> st.input, completion |-> st.output,
         total |-> IF p = "gemini" /\ st.total > 0 THEN st.total ELSE st.input + st.output],
        IF p = "gemini" THEN map_finish_reason(st.stop) ELSE map_stop_reason(st.stop))

\* One final frame with the usage, once, and not after an error.
finish(p, st) ==
  IF p = "openai_compatible" \/ st.done THEN Step(st, <<>>)
  ELSE Step([st EXCEPT !.done = TRUE], Encoded(<<FinalFrame(p, st), sse_done>>))

=============================================================================
