---------------------------- MODULE MCFunctions ----------------------------
(* What the gateway computes, for TLC: a behaviour is one price, one order of *)
(* channels, one conversion or one streamed answer; the rest stands still.    *)
EXTENDS Routing, TLC

CONSTANTS
  MaxBuf,
  PricedRows, PricedGroup, PricedAsked, PricedFrom, PricedTill, PricedAt, PricedVersion,
  PricedAmounts, PricedTokens,
  MaxDiscounts, DiscountPrices, DiscountGroup, DiscountAsked, DiscountModel, DiscountFrom,
  DiscountTill, DiscountAt, DiscountVersion, DiscountPriority, DiscountAmounts, DiscountTenths,
  DiscountTokens,
  RoutedChannel, RoutedPriority, OwnPriority, RoutedWeight, OwnWeight,
  MaxMessages, MaxBlocks, CalledNames, CallCounts, AskedContents, SaidContents

VARIABLES
  example,   \* which of the parts below the behaviour is
  prices, discounts, group, at, tokens, bill,
  routes, channels, failover,
  msgs, reply, converted,
  protocol, events, lengths, upstream, state, sent, scanner, finished

\* Two prices of one model: of two groups, one deleted, or the default.
Selecting == INSTANCE PricingCases WITH
  MaxPrices <- PricedRows, MaxDiscounts <- 0, Group <- PricedGroup, Asked <- PricedAsked, Model <- {1},
  From <- PricedFrom, Till <- PricedTill, At <- PricedAt, Version <- PricedVersion,
  Priority <- {}, Amounts <- PricedAmounts, Tenths <- {}, Tokens <- PricedTokens,
  usage <- tokens, out <- bill

\* One price and two discounts of any scope.
Discounting == INSTANCE PricingCases WITH
  MaxPrices <- DiscountPrices, Group <- DiscountGroup, Asked <- DiscountAsked, Model <- DiscountModel,
  From <- DiscountFrom, Till <- DiscountTill, At <- DiscountAt, Version <- DiscountVersion,
  Priority <- DiscountPriority, Amounts <- DiscountAmounts, Tenths <- DiscountTenths,
  Tokens <- DiscountTokens, usage <- tokens, out <- bill

ASSUME PricesAssumption == Selecting!PricingAssumption /\ Discounting!PricingAssumption

\* For a configuration: a count of tokens and a weight below zero, and amounts of both keys or
\* none for the output.
SignedTokens == {None, -4, 3}
SignedWeights == {None, -1, 1}
OneAmount == {[input |-> 2, output |-> 5]}
TwoAmounts == {[input |-> 2, output |-> 5], [input |-> 7]}

\* The channels of a model, with and without weights and priorities of their routes.
Tiers == INSTANCE RoutingCases WITH
  Channel <- RoutedChannel, Priority <- RoutedPriority, RoutePriority <- OwnPriority,
  ChannelWeight <- RoutedWeight, RouteWeight <- OwnWeight, out <- failover

ASSUME RoutesAssumption == Tiers!RoutingAssumption

\* Whole conversations and answers.
Conversions == INSTANCE ConversionCases WITH
  Names <- CalledNames, Calling <- CallCounts, Asked <- AskedContents, Said <- SaidContents,
  answer <- reply, out <- converted

ASSUME ConversionsAssumption == Conversions!ConversionAssumption

\* For a configuration: contents with nothing, with text, and with a part that is dropped.
SomeContents == {<<>>, <<[type |-> "text", ref |-> "t"]>>,
                 <<[type |-> "image", ref |-> "i"], [type |-> "other", ref |-> "x"]>>}
FewContents == {<<>>, <<[type |-> "text", ref |-> "a"]>>}

AnthropicEvents ==
  {[type |-> "message_start", input |-> 3, output |-> 1],
   [type |-> "content_block_start", index |-> 1, tool |-> TRUE],
   [type |-> "content_block_start", index |-> 2, tool |-> TRUE],
   [type |-> "content_block_start", index |-> 0, tool |-> FALSE],
   [type |-> "text_delta"],
   [type |-> "input_json_delta", index |-> 1],
   [type |-> "message_delta", stop |-> "tool_use", output |-> 5],
   [type |-> "message_delta", stop |-> None, output |-> 0],
   [type |-> "error"]}

GeminiEvent(parts, why, used) ==
  [error |-> FALSE, blocked |-> FALSE, parts |-> parts, finish |-> why, usage |-> used]
GeminiEvents ==
  {GeminiEvent(<<"text">>, None, None),
   GeminiEvent(<<"call", "text", "call">>, "MAX_TOKENS", None),
   GeminiEvent(<<>>, None, [prompt |-> 3, candidates |-> 2, total |-> None]),
   GeminiEvent(<<"text">>, "SAFETY", [prompt |-> 3, candidates |-> 5, total |-> 9]),
   [GeminiEvent(<<>>, None, None) EXCEPT !.error = TRUE]}

OpenAiFrame(kind, used) == [kind |-> kind, index |-> None, usage |-> used, reason |-> None]
OpenAiEvents ==
  {OpenAiFrame("text", None), OpenAiFrame("final", 1), OpenAiFrame("final", 2),
   OpenAiFrame("done", None)}

Events == ("anthropic" :> AnthropicEvents) @@ ("gemini" :> GeminiEvents)
            @@ ("openai_compatible" :> OpenAiEvents)

\* Four events, each a line that chunks cut in the middle.
Chunking == INSTANCE Transcoder WITH
  Protocol <- DOMAIN Events, Event <- Events, MaxEvents <- 4, MaxChunk <- 3, Pieces <- {2}

\* Two events, of which one may be longer than the buffer.
Limits == INSTANCE Transcoder WITH
  Protocol <- DOMAIN Events, Event <- Events, MaxEvents <- 2, MaxChunk <- 2, Pieces <- {1, 9}

ASSUME Chunking!TranscoderAssumption /\ Limits!TranscoderAssumption

priceVars == <<prices, discounts, group, at, tokens, bill>>
routeVars == <<routes, channels, failover>>
convertVars == <<msgs, reply, converted>>
streamedVars == <<protocol, events, lengths, upstream, state, sent, scanner, finished>>
functionVars == <<example, priceVars, routeVars, convertVars, streamedVars>>

-----------------------------------------------------------------------------
NoPrice == /\ prices = <<>> /\ discounts = <<>> /\ group = None /\ at = 1
           /\ tokens = [prompt |-> None, completion |-> None] /\ bill = None
NoRoute == routes = <<>> /\ channels = <<>> /\ failover = None
NoMessage == msgs = <<>> /\ reply = None /\ converted = None
NoStream == /\ protocol = "gemini" /\ events = <<>> /\ lengths = <<>> /\ upstream = <<>>
            /\ state = Chunking!Fresh /\ sent = <<>>
            /\ scanner = [buf |-> <<>>, usage |-> None] /\ finished = FALSE

FunctionsInit ==
  \/ example = "selecting" /\ Selecting!Init /\ NoRoute /\ NoMessage /\ NoStream
  \/ example = "discounting" /\ Discounting!Init /\ NoRoute /\ NoMessage /\ NoStream
  \/ example = "routes" /\ NoPrice /\ Tiers!Init /\ NoMessage /\ NoStream
  \/ example = "conversions" /\ NoPrice /\ NoRoute /\ Conversions!Init /\ NoStream
  \/ example = "chunking" /\ NoPrice /\ NoRoute /\ NoMessage /\ Chunking!Init
  \/ example = "limits" /\ NoPrice /\ NoRoute /\ NoMessage /\ Limits!Init

FunctionsNext ==
  \/ /\ \/ example = "selecting" /\ Selecting!Next
        \/ example = "discounting" /\ Discounting!Next
     /\ UNCHANGED <<example, routeVars, convertVars, streamedVars>>
  \/ example = "routes" /\ Tiers!Next /\ UNCHANGED <<example, priceVars, convertVars, streamedVars>>
  \/ example = "conversions" /\ Conversions!Next /\ UNCHANGED <<example, priceVars, routeVars, streamedVars>>
  \/ /\ \/ example = "chunking" /\ Chunking!Next
        \/ example = "limits" /\ Limits!Next
     /\ UNCHANGED <<example, priceVars, routeVars, convertVars>>

FunctionsSpec == FunctionsInit /\ [][FunctionsNext]_functionVars

-----------------------------------------------------------------------------
(* Promises of several parts. *)

\* The price billed is the newest valid one of the caller's tier, whatever became
\* of its group and in whatever order the rows come (resolve.rs:47-70); the SQL
\* conditions and the filters in memory agree, the discounts logged explain the
\* factor, and none raises a bill or makes it negative (lib.rs, charge.rs).
PricesAreRight ==
  /\ example = "selecting" =>
       /\ Selecting!BilledAtBestPrice /\ Selecting!NeverFree
       /\ Selecting!OrderFree /\ Selecting!PrefilterAgrees
  /\ example = "discounting" =>
       /\ Discounting!BilledAtBestPrice /\ Discounting!NeverFree
       /\ Discounting!OrderFree /\ Discounting!PrefilterAgrees
       /\ Discounting!AppliedExplainsFactor /\ Discounting!NeverDearer

\* Channels are tried in tiers by priority, every one once; who comes first is
\* drawn in proportion to the weights, and the two ways to draw agree (route.rs).
ChannelsInTiers == Tiers!OrdersAreTiered /\ Tiers!PickAgrees /\ Tiers!Proportional

\* A conversation reaches Anthropic and Gemini whole and in order, with the results
\* of a round of calls together and under the names of the functions called, and
\* an answer is the same streamed or whole (anthropic.rs, gemini.rs).
ConversionIsFaithful ==
  /\ Conversions!NothingLost /\ Conversions!ResultsTogether
  /\ Conversions!NonEmptyParts /\ Conversions!ResponsesNamed
  /\ Conversions!StreamAgrees

\* How the bytes of a stream were cut does not show; it ends once, arguments go
\* to a call that was opened before, and what is billed is the usage the upstream
\* reported (sse.rs, the adapters, relay.rs:512-524).
StreamIsFaithful ==
  /\ Chunking!ChunkingInvisible /\ Chunking!EndsOnce
  /\ Chunking!ToolsAddressed /\ Chunking!BilledUsage
=============================================================================
