------------------------------- MODULE Relay -------------------------------
(***************************************************************************)
(* A chat completion (crates/gateway/src/relay.rs): it is admitted, reads  *)
(* its routes, then the channel rows, and tries the channels one by one    *)
(* until one answers; it is settled from the usage the answer reports,     *)
(* before the answer goes out, or, when it streams, by the guard dropped   *)
(* with the stream.  The client may hang up at any time.                   *)
(***************************************************************************)
EXTENDS Routing

CONSTANTS
  Request,
  Channel,      \* channel ids: 1..n
  Routes,       \* the routes of the model: a function on some channels
  Base,         \* priority, weight and adapter of the channels
  Usage,        \* usage values an upstream reports
  MaxChunks,    \* bound: pieces of output of a stream
  MaxEdits,     \* bound: status changes by administrators
  MaxFaults     \* bound: failed settlements and restarts

\* Ids, priorities and weights are columns of type integer, those of a route
\* nullable; a route is a row that refers to a channel (foreign key).
ASSUME RelayAssumption ==
  /\ IsFiniteSet(Channel) /\ None \notin Channel \cup Usage
  /\ DOMAIN Routes \subseteq Channel
  /\ \A c \in DOMAIN Routes :
       Routes[c].priority \in Int \cup {None} /\ Routes[c].weight \in Int \cup {None}
  /\ \A c \in Channel : Base[c].priority \in Int /\ Base[c].weight \in Int
  /\ MaxChunks \in Nat /\ MaxEdits \in Nat /\ MaxFaults \in Nat

VARIABLES
  status,              \* channels.status, "Deleted" when the row is gone
  stream,              \* what is_stream_requested found in the body
  pc,                  \* where the handler is
  order,               \* candidates left to try, the current one first
  rows,                \* channel ids the second query returned
  attempt,             \* attempts of send_with_retry
  received,            \* history: upstreams the body was sent to, by channel
  worked,              \* history: channels that may have done the work
  tried,               \* history: candidates given up
  answer,              \* the channel whose answer the handler returned
  usage,               \* usage of the answer in hand, None when it has none
  chunks, shown,       \* pieces pushed; pieces the client was given
  reported,            \* history: the latest usage the OpenAI frames carried
  scanned, shared,     \* UsageScanner.usage; ScanShared.usage
  source,              \* of a stream: "open", "cut" after an error, "closed"
  settling,            \* "none", "spawned", "logged", "failed"
  log,                 \* usage_logs rows of the request
  edits, faults

handVars == <<order, rows, attempt, answer, usage>>
wireVars == <<received, worked, tried>>
streamVars == <<chunks, shown, reported, scanned, shared, source>>
billVars == <<settling, log>>
vars == <<status, stream, pc, handVars, wireVars, streamVars, billVars, edits, faults>>

Adapters == {"openai_compatible", "anthropic", "gemini"}
Statuses == {"Enabled", "Disabled", "CircuitBroken", "Deleted"}

TypeOK ==
  /\ status \in [Channel -> Statuses]
  /\ stream \in [Request -> BOOLEAN]
  /\ pc \in [Request -> {"idle", "routed", "next", "sending", "body", "settling",
                         "streaming", "done"}]
  /\ rows \in [Request -> SUBSET Channel]
  /\ attempt \in [Request -> 0..2]
  /\ worked \in [Request -> SUBSET Channel] /\ tried \in [Request -> SUBSET Channel]
  /\ answer \in [Request -> Channel \cup {None}]
  /\ usage \in [Request -> Usage \cup {None}]
  /\ chunks \in [Request -> 0..MaxChunks] /\ shown \in [Request -> 0..(MaxChunks + 1)]
  /\ reported \in [Request -> Usage \cup {None}]
  /\ scanned \in [Request -> Usage \cup {None}] /\ shared \in [Request -> Usage \cup {None}]
  /\ source \in [Request -> {"none", "open", "cut", "closed"}]
  /\ settling \in [Request -> {"none", "spawned", "logged", "failed"}]
  /\ \A r \in Request :
       /\ order[r] # <<>> => order[r] \in Seq([channel : Channel, priority : Int, weight : Int])
       /\ Len(log[r]) <= 1 /\ received[r] \in [Channel -> 0..2]
  /\ edits \in 0..MaxEdits /\ faults \in 0..MaxFaults

Init ==
  /\ status \in [Channel -> {"Enabled", "CircuitBroken"}]
  /\ stream \in [Request -> BOOLEAN]
  /\ pc = [r \in Request |-> "idle"]
  /\ order = [r \in Request |-> <<>>]
  /\ rows = [r \in Request |-> {}]
  /\ attempt = [r \in Request |-> 0]
  /\ received = [r \in Request |-> [c \in Channel |-> 0]]
  /\ worked = [r \in Request |-> {}] /\ tried = [r \in Request |-> {}]
  /\ answer = [r \in Request |-> None] /\ usage = [r \in Request |-> None]
  /\ chunks = [r \in Request |-> 0] /\ shown = [r \in Request |-> 0]
  /\ reported = [r \in Request |-> None]
  /\ scanned = [r \in Request |-> None] /\ shared = [r \in Request |-> None]
  /\ source = [r \in Request |-> "none"]
  /\ settling = [r \in Request |-> "none"]
  /\ log = [r \in Request |-> <<>>]
  /\ edits = 0 /\ faults = 0

Fault == faults < MaxFaults /\ faults' = faults + 1
Current(r) == Head(order[r]).channel

-----------------------------------------------------------------------------
(* Before an upstream is chosen. *)

\* 401, 400, 403, 402, 404 or 503: bearer_token, verify_key, the model, its whitelist, ensure_funds and
\* resolve_route each end the request with an error.
Refuse(r) ==
  /\ pc[r] = "idle"
  /\ pc' = [pc EXCEPT ![r] = "done"]
  /\ UNCHANGED <<status, stream, handVars, wireVars, streamVars, billVars, edits, faults>>

ChannelRows == [c \in Channel |-> [status |-> status[c], priority |-> Base[c].priority,
                                   weight |-> Base[c].weight]]

resolve_route(r) ==
  /\ pc[r] = "idle"
  /\ LET cands == Candidates(Routes, ChannelRows)
     IN /\ cands # {}
        /\ \E o \in weighted_failover_order(cands) : order' = [order EXCEPT ![r] = o]
  /\ pc' = [pc EXCEPT ![r] = "routed"]
  /\ UNCHANGED <<status, stream, rows, attempt, answer, usage, wireVars, streamVars, billVars,
                 edits, faults>>

\* By id, whatever their status is by now.
ReadChannels(r) ==
  /\ pc[r] = "routed"
  /\ pc' = [pc EXCEPT ![r] = "next"]
  /\ rows' = [rows EXCEPT ![r] = {c \in Channel : status[c] # "Deleted"}]
  /\ UNCHANGED <<status, stream, order, attempt, answer, usage, wireVars, streamVars, billVars,
                 edits, faults>>

-----------------------------------------------------------------------------
(* Failover. *)

\* The next candidate.
Failover(r) ==
  /\ pc' = [pc EXCEPT ![r] = "next"]
  /\ order' = [order EXCEPT ![r] = Tail(@)]
  /\ tried' = [tried EXCEPT ![r] = @ \cup {Current(r)}]
  /\ UNCHANGED <<stream, rows, answer, streamVars, billVars, status, edits, faults>>

adapter_for(c) == Base[c].adapter \in Adapters

Skip(r) ==
  /\ pc[r] = "next" /\ order[r] # <<>>
  /\ Current(r) \notin rows[r] \/ ~adapter_for(Current(r))
  /\ Failover(r)
  /\ UNCHANGED <<attempt, usage, received, worked>>

\* 503.
AllFailed(r) ==
  /\ pc[r] = "next" /\ order[r] = <<>>
  /\ pc' = [pc EXCEPT ![r] = "done"]
  /\ UNCHANGED <<status, stream, handVars, wireVars, streamVars, billVars, edits, faults>>

Send(r) ==
  /\ pc[r] = "next" /\ order[r] # <<>>
  /\ Current(r) \in rows[r] /\ adapter_for(Current(r))
  /\ pc' = [pc EXCEPT ![r] = "sending"]
  /\ attempt' = [attempt EXCEPT ![r] = 1]
  /\ UNCHANGED <<status, stream, order, rows, answer, usage, wireVars, streamVars, billVars,
                 edits, faults>>

\* Slip: the attempts have no limit.
RetriesForEver(r) ==
  /\ pc[r] = "sending"
  /\ attempt' = [attempt EXCEPT ![r] = 3 - @]
  /\ UNCHANGED <<pc, order, tried, stream, rows, answer, streamVars, billVars, status, edits,
                 faults, usage, received, worked>>

\* An error before the body is on the wire: once more, then the next channel.
ConnectError(r) ==
  /\ pc[r] = "sending"
  /\ IF attempt[r] < 2
     THEN /\ attempt' = [attempt EXCEPT ![r] = @ + 1]
          /\ UNCHANGED <<pc, order, tried, stream, rows, answer, streamVars, billVars, status,
                         edits, faults>>
     ELSE Failover(r) /\ UNCHANGED attempt
  /\ UNCHANGED <<usage, received, worked>>

Delivered(r) == received' = [received EXCEPT ![r][Current(r)] = @ + 1]
Worked(r) == worked' = [worked EXCEPT ![r] = @ \cup {Current(r)}]

\* Slip: a timeout is retried like a failed connection.
LostAnswerRetried(r) ==
  /\ pc[r] = "sending" /\ Delivered(r) /\ Worked(r)
  /\ IF attempt[r] < 2
     THEN /\ attempt' = [attempt EXCEPT ![r] = @ + 1]
          /\ UNCHANGED <<pc, order, tried, stream, rows, answer, streamVars, billVars, status,
                         edits, faults>>
     ELSE Failover(r) /\ UNCHANGED attempt
  /\ UNCHANGED usage

\* The 120 s timeout, or a connection lost after the body was sent.
LostAnswer(r) ==
  /\ pc[r] = "sending" /\ Delivered(r) /\ Worked(r)
  /\ Failover(r)
  /\ UNCHANGED <<attempt, usage>>

ServerError(r) ==
  /\ pc[r] = "sending" /\ Delivered(r)
  /\ Failover(r)
  /\ UNCHANGED <<attempt, usage, worked>>

\* A 4xx: its body is read, then it is the answer (and may disable the
\* channel, see ChannelHealth).
ClientError(r) ==
  /\ pc[r] = "sending" /\ Delivered(r)
  /\ \/ /\ pc' = [pc EXCEPT ![r] = "done"]
        /\ answer' = [answer EXCEPT ![r] = Current(r)]
        /\ UNCHANGED <<stream, order, rows, tried, streamVars, billVars, status, edits, faults>>
     \/ Failover(r)
  /\ UNCHANGED <<attempt, usage, worked>>

\* A 2xx to a request that does not stream: the body is still to be read.
Success(r) ==
  /\ pc[r] = "sending" /\ ~stream[r] /\ Delivered(r) /\ Worked(r)
  /\ pc' = [pc EXCEPT ![r] = "body"]
  /\ UNCHANGED <<status, stream, handVars, tried, streamVars, billVars, edits, faults>>

BodyLost(r) ==
  /\ pc[r] = "body"
  /\ Failover(r)
  /\ UNCHANGED <<attempt, usage, received, worked>>

-----------------------------------------------------------------------------
(* Settling an answer that does not stream. *)

\* A body that is not JSON, or has no usage, is passed on unbilled.
BodyRead(r) ==
  /\ pc[r] = "body"
  /\ \E u \in Usage \cup {None} :
       /\ usage' = [usage EXCEPT ![r] = u]
       /\ pc' = [pc EXCEPT ![r] = IF u = None THEN "done" ELSE "settling"]
       /\ answer' = [answer EXCEPT ![r] = IF u = None THEN Current(r) ELSE None]
  /\ UNCHANGED <<status, stream, order, rows, attempt, wireVars, streamVars, billVars, edits, faults>>

Row(r, c, u) == [channel |-> c, usage |-> u]

\* do_settle within the handler; an error is logged and swallowed.
settle(r) ==
  /\ pc[r] = "settling"
  /\ \/ /\ log' = [log EXCEPT ![r] = Append(@, Row(r, Current(r), usage[r]))]
        /\ settling' = [settling EXCEPT ![r] = "logged"]
        /\ UNCHANGED faults
     \/ Fault /\ settling' = [settling EXCEPT ![r] = "failed"] /\ UNCHANGED log
  /\ pc' = [pc EXCEPT ![r] = "done"]
  /\ answer' = [answer EXCEPT ![r] = Current(r)]
  /\ UNCHANGED <<status, stream, order, rows, attempt, usage, wireVars, streamVars, edits>>

-----------------------------------------------------------------------------
(* Streaming. *)

StreamStarts(r) ==
  /\ pc[r] = "sending" /\ stream[r] /\ Delivered(r) /\ Worked(r)
  /\ pc' = [pc EXCEPT ![r] = "streaming"]
  /\ answer' = [answer EXCEPT ![r] = Current(r)]
  /\ source' = [source EXCEPT ![r] = "open"]
  /\ UNCHANGED <<status, stream, order, rows, attempt, usage, tried, chunks, shown, reported,
                 scanned, shared, billVars, edits, faults>>

Converts(r) == Base[answer[r]].adapter # "openai_compatible"

\* Slip: the usage is mirrored before the frame is scanned.
PushesThenMirrors(r, u) ==
  /\ reported' = [reported EXCEPT ![r] = IF u = None THEN @ ELSE u]
  /\ scanned' = [scanned EXCEPT ![r] = IF u = None THEN @ ELSE u]
  /\ shared' = [shared EXCEPT ![r] = IF scanned[r] = None THEN @ ELSE scanned[r]]
  /\ shown' = [shown EXCEPT ![r] = @ + 1]

\* Frames with usage u (None: none) go through the scanner, the shared state
\* and out, without an await between the three.
Emits(r, u) ==
  /\ reported' = [reported EXCEPT ![r] = IF u = None THEN @ ELSE u]
  /\ scanned' = [scanned EXCEPT ![r] = IF u = None THEN @ ELSE u]
  /\ shared' = [shared EXCEPT ![r] = scanned'[r]]
  /\ shown' = [shown EXCEPT ![r] = @ + 1]

streamRest == <<status, stream, pc, handVars, wireVars, billVars, edits, faults>>

\* A converting transcoder reports no usage before it finishes, and may hold
\* back a piece that completes no frame.
Chunk(r) ==
  /\ pc[r] = "streaming" /\ source[r] = "open" /\ chunks[r] < MaxChunks
  /\ chunks' = [chunks EXCEPT ![r] = @ + 1]
  /\ \/ \E u \in (IF Converts(r) THEN {} ELSE Usage) \cup {None} : Emits(r, u)
     \/ Converts(r) /\ UNCHANGED <<reported, scanned, shared, shown>>
  /\ UNCHANGED <<source, streamRest>>

\* An error of the upstream, or its timeout: the error is yielded.
StreamError(r) ==
  /\ pc[r] = "streaming" /\ source[r] = "open"
  /\ source' = [source EXCEPT ![r] = "cut"]
  /\ UNCHANGED <<chunks, shown, reported, scanned, shared, streamRest>>

\* After the end of the upstream, or when the body is polled once more after
\* an error, the transcoder's tail; none after an error event (or from a
\* transcoder that passes bytes through).
Finish(r) ==
  /\ pc[r] = "streaming" /\ source[r] \in {"open", "cut"}
  /\ source' = [source EXCEPT ![r] = "closed"]
  /\ \/ Converts(r) /\ \E u \in Usage : Emits(r, u)
     \/ UNCHANGED <<reported, scanned, shared, shown>>
  /\ UNCHANGED <<chunks, streamRest>>

\* Slip: the guard settles whenever usage is there, not once.
SettlesWithEveryFrame(r) ==
  /\ pc[r] = "streaming"
  /\ pc' = [pc EXCEPT ![r] = IF source[r] = "closed" THEN "done" ELSE "streaming"]
  /\ usage' = [usage EXCEPT ![r] = shared[r]]
  /\ settling' = [settling EXCEPT ![r] = IF shared[r] # None THEN "spawned" ELSE "none"]
  /\ UNCHANGED <<status, stream, order, rows, attempt, answer, wireVars, streamVars, log, edits,
                 faults>>

\* The stream is dropped: at its end, or because the client is gone.
Drop(r) ==
  /\ pc[r] = "streaming"
  /\ pc' = [pc EXCEPT ![r] = "done"]
  /\ shared' = [shared EXCEPT ![r] = None]
  /\ usage' = [usage EXCEPT ![r] = shared[r]]
  /\ settling' = [settling EXCEPT ![r] = IF shared[r] # None THEN "spawned" ELSE "none"]
  /\ UNCHANGED <<status, stream, order, rows, attempt, answer, wireVars, chunks, shown, reported,
                 scanned, source, log, edits, faults>>

\* The spawned settlement.
do_settle(r) ==
  /\ settling[r] = "spawned"
  /\ \/ /\ log' = [log EXCEPT ![r] = Append(@, Row(r, answer[r], usage[r]))]
        /\ settling' = [settling EXCEPT ![r] = "logged"]
        /\ UNCHANGED faults
     \/ Fault /\ settling' = [settling EXCEPT ![r] = "failed"] /\ UNCHANGED log
  /\ UNCHANGED <<status, stream, pc, handVars, wireVars, streamVars, edits>>

-----------------------------------------------------------------------------
(* Around the requests. *)

\* The client hangs up before an answer: the handler's future is dropped.
HangUp(r) ==
  /\ pc[r] \in {"routed", "next", "sending", "body", "settling"}
  /\ pc' = [pc EXCEPT ![r] = "done"]
  /\ UNCHANGED <<status, stream, handVars, wireVars, streamVars, billVars, edits, faults>>

SetStatus(c) ==
  /\ edits < MaxEdits /\ edits' = edits + 1
  /\ status[c] # "Deleted"
  /\ \E s \in Statuses \ {status[c]} :
       (s = "Deleted" => c \notin DOMAIN Routes) /\ status' = [status EXCEPT ![c] = s]
  /\ UNCHANGED <<stream, pc, handVars, wireVars, streamVars, billVars, faults>>

\* The process dies: no guard runs, and spawned settlements are lost.
Restart ==
  /\ Fault
  /\ pc' = [r \in Request |-> IF pc[r] = "idle" THEN "idle" ELSE "done"]
  /\ settling' = [r \in Request |-> IF settling[r] = "spawned" \/ pc[r] = "streaming"
                                    THEN "failed" ELSE settling[r]]
  /\ UNCHANGED <<status, stream, handVars, wireVars, streamVars, log, edits>>

\* The handler and the generator go on by themselves: every upstream call and
\* every stream ends within the client's timeout of 120 s.
Progress(r) ==
  \/ Refuse(r) \/ resolve_route(r) \/ ReadChannels(r)
  \/ Skip(r) \/ AllFailed(r) \/ Send(r)
  \/ ConnectError(r) \/ LostAnswer(r) \/ ServerError(r) \/ ClientError(r)
  \/ Success(r) \/ BodyLost(r) \/ BodyRead(r) \/ settle(r)
  \/ StreamStarts(r) \/ Chunk(r) \/ StreamError(r) \/ Finish(r)

Next ==
  \/ \E r \in Request : Progress(r) \/ Drop(r) \/ do_settle(r) \/ HangUp(r)
  \/ \E c \in Channel : SetStatus(c)
  \/ Restart

Spec == Init /\ [][Next]_vars

Fairness ==
  \A r \in Request :
    /\ WF_vars(pc[r] # "idle" /\ Progress(r))
    /\ WF_vars(source[r] = "closed" /\ Drop(r))
    /\ WF_vars(do_settle(r))

FairSpec == Spec /\ Fairness

-----------------------------------------------------------------------------
(* Properties. *)

\* A request is billed once, for the channel whose answer the client got and
\* with the latest usage that answer carried, whatever other channels were
\* tried before.
BilledAsAnswered ==
  \A r \in Request : log[r] # <<>> =>
    /\ Len(log[r]) = 1
    /\ log[r][1].channel = answer[r]
    /\ log[r][1].usage = IF stream[r] THEN reported[r] ELSE usage[r]

\* Usage that reached the OpenAI side is settled however the stream ends, by
\* itself, by an error or by a client that leaves in the middle: only a failed
\* settlement or a restart loses it (relay.rs:354-355).
ReportedIsSettled ==
  \A r \in Request : pc[r] = "done" /\ reported[r] # None =>
    /\ settling[r] # "none"
    /\ settling[r] \in {"spawned", "logged"} => usage[r] = reported[r]

\* An answer that does not stream is settled before it goes out.
SettledBeforeAnswered ==
  \A r \in Request : ~stream[r] /\ answer[r] \in Channel /\ usage[r] # None =>
    settling[r] \in {"logged", "failed"}

\* One upstream never gets a request twice: only an error before the body is
\* sent is retried (relay.rs:317-319).
SentOnce == \A r \in Request, c \in Channel : received[r][c] <= 1

\* Once the client has an answer, or a stream has begun, no other channel sees
\* the request (implementation.md:234).
NoFailoverAfterAnswer ==
  [][\A r \in Request : answer[r] # None =>
       answer'[r] = answer[r] /\ received'[r] = received[r]]_vars

EffectivePriority(c) == Effective(Routes[c].priority, Base[c].priority)

\* A channel gets the request only after every other candidate of a higher
\* priority has been given up (data-model.md:163).
PriorityRespected ==
  \A r \in Request, c \in DOMAIN Routes :
    received[r][c] > 0 =>
      \A i \in DOMAIN order[r] :
        EffectivePriority(order[r][i].channel) <= EffectivePriority(c)

\* A request that reached its channels ends, and a spawned settlement is
\* written or fails.
Ends == \A r \in Request : (pc[r] = "routed") ~> (pc[r] = "done" /\ settling[r] # "spawned")

\* What was used is charged: an answer that does not stream is settled before it
\* goes out, and usage a stream has reported is settled however the stream ends
\* (settle and the guard of relay.rs); with the types of the relay.
AnsweredIsSettled == TypeOK /\ ReportedIsSettled /\ SettledBeforeAnswered

\* A request goes from channel to channel in turn: by priority, to each at most
\* once, and to no other once the client has an answer (relay.rs, route.rs).
InTurn == [](SentOnce /\ PriorityRespected) /\ NoFailoverAfterAnswer

=============================================================================
