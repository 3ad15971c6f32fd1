---------------------------- MODULE ConversionCases ----------------------------
(***************************************************************************)
(* Conversion over all small conversations and answers: Init chooses them, *)
(* Convert runs the code on them.                                          *)
(***************************************************************************)
EXTENDS Conversion, TLC

CONSTANTS
  MaxMessages, MaxBlocks,  \* bounds: messages of a conversation, blocks of an answer
  Names,                   \* the functions called
  Calling,                 \* how many calls a turn of the assistant makes
  Asked, Said              \* the contents a user and an assistant may send

ConversionAssumption ==
  /\ MaxMessages \in Nat /\ MaxBlocks \in Nat /\ Calling \subseteq Nat
  /\ None \notin [prompt : Nat, candidates : Nat, total : Nat \cup {None}]
  /\ \A c \in Asked \cup Said :
       c \in Seq([type : {"text", "image", "other"}, ref : {c[i].ref : i \in DOMAIN c}])

VARIABLES msgs, answer, out
vars == <<msgs, answer, out>>

NoCalls == <<>>
CallsOf(ids, name) == [i \in 1..ids |-> [id |-> i - 1, name |-> name]]
M(role, parts, calls, id) == [role |-> role, parts |-> parts, calls |-> calls, id |-> id, name |-> None]

Messages ==
  {M("user", p, NoCalls, None) : p \in Asked}
    \cup {M("system", <<Block("text", "s")>>, NoCalls, None)}
    \cup {M("assistant", p, CallsOf(n, name), None) : p \in Said, n \in Calling, name \in Names}
    \cup {M("tool", <<>>, NoCalls, n - 1) : n \in Calling \ {0}}

Stops == {"max_tokens", "tool_use", None}
GeminiStops == {"MAX_TOKENS", "SAFETY", None}

AnthropicAnswers ==
  {[api |-> "anthropic", blocks |-> b, stop |-> s, input |-> 3, output |-> 5] :
     b \in SeqOf({Block("text", "t"), Block("tool_use", "x"), Block("tool_use", "y"),
                  Block("thinking", "h")}, MaxBlocks), s \in Stops}
GeminiAnswers ==
  {[api |-> "gemini", blocks |-> b, stop |-> s, blocked |-> FALSE,
    usage |-> [prompt |-> 3, candidates |-> 5, total |-> t]] :
     b \in SeqOf({Block("text", "t"), Block("functionCall", "f")}, MaxBlocks), s \in GeminiStops,
     t \in {None, 9}}

\* The stream a vendor sends for an answer.
AnthropicStream(res) ==
  <<[type |-> "message_start", input |-> res.input, output |-> 1]>>
    \o FlattenSeq([i \in DOMAIN res.blocks |->
         <<[type |-> "content_block_start", index |-> i, tool |-> res.blocks[i].type = "tool_use"]>>
           \o (CASE res.blocks[i].type = "text" -> <<[type |-> "text_delta"]>>
                 [] res.blocks[i].type = "tool_use" -> <<[type |-> "input_json_delta", index |-> i]>>
                 [] OTHER -> <<[type |-> "ping"]>>)])
    \o <<[type |-> "message_delta", stop |-> res.stop, output |-> res.output]>>

GeminiStream(res) ==
  [i \in DOMAIN res.blocks |->
     [error |-> FALSE, finish |-> None, usage |-> None,
      parts |-> <<IF res.blocks[i].type = "text" THEN "text" ELSE "call">>]]
    \o <<[error |-> FALSE, finish |-> res.stop, usage |-> res.usage, parts |-> <<>>]>>

\* What an OpenAI client puts together from the frames.
Assembled(api, evs) ==
  LET r == handle(api, Fresh, evs)
      final == FinalFrame(api, r.st)
      Of(kind) == Among(r.out, {f \in ToSet(r.out) : f.kind = kind})
  IN [texts |-> Len(Of("text")), calls |-> Len(Of("tool")),
      args |-> [i \in DOMAIN Of("args") |-> Of("args")[i].index],
      finish |-> final.reason, usage |-> final.usage]

Init ==
  /\ \/ msgs \in SeqOf(Messages, MaxMessages) /\ answer = None
     \/ msgs = <<>> /\ answer \in AnthropicAnswers \cup GeminiAnswers
  /\ out = None

Convert ==
  /\ out = None
  /\ out' = IF answer = None
            THEN [anthropic |-> convert_messages(msgs), gemini |-> convert_contents(msgs)]
            ELSE [whole |-> IF answer.api = "anthropic" THEN anthropic_response(answer)
                            ELSE gemini_response(answer),
                  stream |-> Assembled(answer.api, IF answer.api = "anthropic"
                                                   THEN AnthropicStream(answer)
                                                   ELSE GeminiStream(answer))]
  /\ UNCHANGED <<msgs, answer>>

Next == Convert
Spec == Init /\ [][Next]_vars

-----------------------------------------------------------------------------
Requested == out # None /\ answer = None

\* The conversation without its system messages, and the places in it that open
\* a message of the request: users, assistants, and tool results that do not
\* follow another one.
Spoken(conversation) == Among(conversation, {m \in Messages : m.role # "system"})
Opens(s) == {i \in DOMAIN s : ~(s[i].role = "tool" /\ i > 1 /\ s[i - 1].role = "tool")}

BlocksOf(m) ==
  IF m.role = "tool" THEN <<Block("tool_result", m.id)>>
  ELSE convert_content(m.parts) \o tool_uses(m.calls)
Contents(made) == FlattenSeq([i \in DOMAIN made |-> made[i].blocks])

\* Text, images, calls and results reach Anthropic once each and in order, and
\* system messages reach it outside the conversation (anthropic.rs:187-230).
NothingLost ==
  Requested =>
    LET s == Spoken(msgs)
    IN /\ Contents(out.anthropic.out) = FlattenSeq([i \in DOMAIN s |-> BlocksOf(s[i])])
       /\ Len(out.anthropic.system) = Len(msgs) - Len(s)

Rounds(made, kind) ==
  /\ Len(made) = Cardinality(Opens(Spoken(msgs)))
  /\ \A i \in DOMAIN made :
       (\E b \in ToSet(made[i].blocks) : b.type = kind)
         => \A b \in ToSet(made[i].blocks) : b.type = kind

\* The results of one round of calls make one message, and never join what a
\* user said (anthropic.rs:219-222, 233-255).
ResultsTogether ==
  Requested => /\ Rounds(out.anthropic.out, "tool_result")
               /\ Rounds(out.gemini.out, "functionResponse")

\* Every message for Gemini has a part (gemini.rs:298-303).
NonEmptyParts ==
  Requested => \A i \in DOMAIN out.gemini.out : out.gemini.out[i].blocks # <<>>

\* The assistant message a tool message answers, in a conversation where each
\* answers a call of the turn before it.
Turn(s, i) == {j \in 1..(i - 1) : s[j].role = "assistant" /\
                                  \A k \in (j + 1)..(i - 1) : s[k].role = "tool"}
CallNames(s, i) ==
  UNION {{c.name : c \in {x \in ToSet(s[j].calls) : x.id = s[i].id}} : j \in Turn(s, i)}
Tools(s) == Among([i \in DOMAIN s |-> i], {i \in DOMAIN s : s[i].role = "tool"})
Answering(s) == \A i \in DOMAIN s : s[i].role = "tool" => CallNames(s, i) # {}
Responses(made) == OfType(Contents(made), {"functionResponse"})

\* A result goes back to Gemini under the name of the function that was called
\* in the turn it answers, although the ids the gateway makes up (call_0,
\* call_1) come again in every turn (gemini.rs:196-245, 401-411).
ResponsesNamed ==
  Requested =>
    LET s == Spoken(msgs)
        tools == Tools(s)
        responses == Responses(out.gemini.out)
    IN Answering(s) =>
         /\ Len(responses) = Len(tools)
         /\ \A n \in DOMAIN tools : responses[n].ref \in CallNames(s, tools[n])

\* An answer is the same streamed or whole: as many texts and calls, every
\* call's arguments in order, the same finish reason and usage.
StreamAgrees ==
  out # None /\ answer # None =>
    LET calls == Len(out.whole.calls)
    IN /\ out.stream.texts = Len(out.whole.text)
       /\ out.stream.calls = calls
       /\ answer.api = "anthropic" => out.stream.args = [i \in 1..calls |-> i - 1]
       /\ out.stream.finish = out.whole.finish
       /\ out.stream.usage = out.whole.usage
=============================================================================
