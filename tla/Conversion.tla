----------------------------- MODULE Conversion -----------------------------
(***************************************************************************)
(* Requests and whole answers between OpenAI and the other protocols       *)
(* (crates/gateway/src/adapter/anthropic.rs and gemini.rs).                *)
(*                                                                         *)
(* A message is [role, parts, calls, id, name]: the parts of its content   *)
(* (none for a missing or empty one), the tool calls of an assistant as    *)
(* [id, name], and the call a tool message answers.  A part is [type, ref].*)
(***************************************************************************)
EXTENDS Protocols

Block(type, ref) == [type |-> type, ref |-> ref]
Message(role, blocks) == [role |-> role, blocks |-> blocks]

\* convert_content and convert_parts keep text and images.
OfType(parts, types) == Among(parts, {p \in ToSet(parts) : p.type \in types})
convert_content(parts) == OfType(parts, {"text", "image"})
content_to_text(parts) == OfType(parts, {"text"})

\* The last message, when it is made of tool results, takes one more.
EndsWith(out, type) ==
  out # <<>> /\ Last(out).role = "user" /\ Last(out).blocks # <<>> /\ Last(Last(out).blocks).type = type

AddedTo(out, block) == [out EXCEPT ![Len(out)].blocks = Append(@, block)]

AppendResult(out, block) ==
  IF EndsWith(out, block.type) THEN AddedTo(out, block)
  ELSE Append(out, Message("user", <<block>>))

-----------------------------------------------------------------------------
(* Anthropic. *)

tool_uses(calls) == [i \in DOMAIN calls |-> Block("tool_use", calls[i].id)]

anthropic_message(acc, msg) ==
  CASE msg.role \in {"system", "developer"} -> [acc EXCEPT !.system = @ \o content_to_text(msg.parts)]
    [] msg.role = "user" ->
         [acc EXCEPT !.out = Append(@, Message("user", convert_content(msg.parts)))]
    [] msg.role = "assistant" ->
         [acc EXCEPT !.out = Append(@, Message("assistant",
                                               convert_content(msg.parts) \o tool_uses(msg.calls)))]
    [] msg.role = "tool" -> [acc EXCEPT !.out = AppendResult(@, Block("tool_result", msg.id))]
    [] OTHER -> acc

convert_messages(msgs) ==
  FoldLeft(anthropic_message, [out |-> <<>>, system |-> <<>>], msgs)

\* Blocks of an answer: text, or a tool_use with its id.
anthropic_response(res) ==
  LET calls == OfType(res.blocks, {"tool_use"})
  IN [text |-> OfType(res.blocks, {"text"}),
      calls |-> [i \in DOMAIN calls |-> calls[i].ref],
      finish |-> map_stop_reason(res.stop),
      usage |-> [prompt |-> res.input, completion |-> res.output, total |-> res.input + res.output]]

-----------------------------------------------------------------------------
(* Gemini. *)

ensure_nonempty_parts(parts) == IF parts = <<>> THEN <<Block("text", "")>> ELSE parts

\* Names by call id: a later call with the same id takes the name over.
Insert(names, id, name) ==
  [i \in DOMAIN names \cup {id} |-> IF i = id THEN name ELSE names[i]]
\* Slip: the first call with an id keeps the name.
or_insert(names, calls) ==
  FoldLeft(LAMBDA n, c : IF c.id \in DOMAIN n THEN n ELSE Insert(n, c.id, c.name), names, calls)

Named(names, calls) == FoldLeft(LAMBDA n, c : Insert(n, c.id, c.name), names, calls)

response_name(acc, msg) ==
  IF msg.name # None THEN msg.name
  ELSE IF msg.id \in DOMAIN acc.names THEN acc.names[msg.id] ELSE ""

function_calls(calls) == [i \in DOMAIN calls |-> Block("functionCall", calls[i].name)]

gemini_message(acc, msg) ==
  CASE msg.role \in {"system", "developer"} -> [acc EXCEPT !.system = @ \o content_to_text(msg.parts)]
    [] msg.role = "user" ->
         [acc EXCEPT !.out =
            Append(@, Message("user", ensure_nonempty_parts(convert_content(msg.parts))))]
    [] msg.role = "assistant" ->
         [acc EXCEPT !.names = Named(@, msg.calls),
                     !.out = Append(@, Message("model",
                       ensure_nonempty_parts(convert_content(msg.parts) \o function_calls(msg.calls))))]
    [] msg.role = "tool" ->
         [acc EXCEPT !.out = AppendResult(@, Block("functionResponse", response_name(acc, msg)))]
    [] OTHER -> acc

convert_contents(msgs) ==
  FoldLeft(gemini_message, [out |-> <<>>, system |-> <<>>, names |-> <<>>], msgs)

\* Gemini has no call ids: they are made from the position.
call_id(i) == i - 1

gemini_response(res) ==
  LET calls == OfType(res.blocks, {"functionCall"})
      u == usage_metadata(res.usage)
  IN [text |-> OfType(res.blocks, {"text"}),
      calls |-> [i \in DOMAIN calls |-> call_id(i)],
      finish |-> IF res.blocked THEN "content_filter" ELSE map_finish_reason(res.stop),
      usage |-> [prompt |-> u.prompt, completion |-> u.candidates, total |-> u.total]]

=============================================================================
