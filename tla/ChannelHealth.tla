--------------------------- MODULE ChannelHealth ---------------------------
(***************************************************************************)
(* Who writes channels.status (crates/gateway): the administrator's CRUD   *)
(* (channel.rs), the probe loop (health.rs) and the relay's automatic      *)
(* disabling (relay.rs).  The loop and the relay decide on a copy of the   *)
(* row and then update it by id, so their writes may land on a row that    *)
(* was edited meanwhile.                                                   *)
(***************************************************************************)
EXTENDS Integers, FiniteSets

CONSTANTS
  Channel,     \* channel ids
  Request,     \* chat requests that may disable the channel they used
  None,        \* stands for NULL / Option::None
  Condition,   \* the ways an upstream may answer in this instance
  Routed,      \* channels with a route to take a test model from
  MaxEdits,    \* bound: administrator operations
  MaxTurns,    \* bound: times an upstream changes how it answers
  MaxFaults    \* bound: failing database calls of the loop and the relay

\* What a probe can meet, and the five layers that judge it: no answer, a
\* status outside 2xx, a body that is not JSON, an error inside a 200 body,
\* no content; past them an answer is slow (above rt_threshold_ms) or fine.
Conditions == {"unreachable", "http error", "not json", "error in body",
               "empty", "slow", "fine"}

\* The copy of a row the loop works on: what it later reads of it.
Copy == [id : Channel, ban : BOOLEAN, model : BOOLEAN]

ChannelAssumption ==
  /\ IsFiniteSet(Channel) /\ Routed \subseteq Channel
  /\ None \notin Channel \cup Conditions \cup Copy
  /\ Condition \subseteq Conditions
  /\ MaxEdits \in Nat /\ MaxTurns \in Nat /\ MaxFaults \in Nat

VARIABLES
  status, autoBan, testModel, reason,  \* columns of the channels row
  condition,                           \* how the upstream of a channel answers now
  phase, todo, probed, answer,         \* the loop: list in hand, row in hand, its answer
  loopEdits,                           \* history: rows edited since the list was read
  rpc, rchan, rstatus, rban,           \* a request: position, channel, its copied row
  requestEdits,                        \* history: rows edited since it read its routes
  edits, turns, faults

rowVars == <<status, autoBan, testModel, reason>>
loopVars == <<phase, todo, probed, answer>>
relayVars == <<rpc, rchan, rstatus, rban>>
vars == <<rowVars, condition, loopVars, loopEdits, relayVars, requestEdits,
          edits, turns, faults>>

Live == {"Enabled", "Disabled", "CircuitBroken"}
Status == Live \cup {"Absent", "Deleted"}
Reason == {None, "probe", "slow", "relay"}
TypeOK ==
  /\ status \in [Channel -> Status]
  /\ autoBan \in [Channel -> BOOLEAN]
  /\ testModel \in [Channel -> BOOLEAN]
  /\ reason \in [Channel -> Reason]
  /\ condition \in [Channel -> Condition]
  /\ phase \in {"sleep", "enabled", "broken"}
  /\ todo \subseteq Copy
  /\ probed \in Copy \cup {None}
  /\ answer \in Condition \cup {None}
  /\ (probed = None) <=> (answer = None)
  /\ loopEdits \subseteq Channel
  /\ rpc \in [Request -> {"idle", "routed", "sent", "disabling", "done"}]
  /\ rchan \in [Request -> Channel \cup {None}]
  /\ rstatus \in [Request -> Live \cup {None}]
  /\ rban \in [Request -> BOOLEAN]
  /\ requestEdits \in [Request -> SUBSET Channel]
  /\ edits \in 0..MaxEdits /\ turns \in 0..MaxTurns /\ faults \in 0..MaxFaults

Init ==
  /\ status \in [Channel -> {"Absent", "Enabled"}]
  /\ autoBan = [c \in Channel |-> TRUE]
  /\ testModel = [c \in Channel |-> FALSE]
  /\ reason = [c \in Channel |-> None]
  /\ condition \in [Channel -> Condition]
  /\ phase = "sleep" /\ todo = {} /\ probed = None /\ answer = None
  /\ loopEdits = {}
  /\ rpc = [r \in Request |-> "idle"]
  /\ rchan = [r \in Request |-> None]
  /\ rstatus = [r \in Request |-> None]
  /\ rban = [r \in Request |-> FALSE]
  /\ requestEdits = [r \in Request |-> {}]
  /\ edits = 0 /\ turns = 0 /\ faults = 0

Fault == faults < MaxFaults /\ faults' = faults + 1

-----------------------------------------------------------------------------
(* The administrator. *)

Edited(c) ==
  /\ edits < MaxEdits /\ edits' = edits + 1
  /\ loopEdits' = loopEdits \cup {c}
  /\ requestEdits' = [r \in Request |-> requestEdits[r] \cup {c}]
  /\ UNCHANGED <<condition, loopVars, relayVars, turns, faults>>

Create(c) ==
  /\ status[c] = "Absent"
  /\ \E s \in Live, b \in BOOLEAN, m \in BOOLEAN :
       /\ status' = [status EXCEPT ![c] = s]
       /\ autoBan' = [autoBan EXCEPT ![c] = b]
       /\ testModel' = [testModel EXCEPT ![c] = m]
  /\ UNCHANGED reason
  /\ Edited(c)

\* Only the columns the request names are written; disabled_reason is not
\* among them.
Update(c) ==
  /\ status[c] \in Live
  /\ \/ \E s \in Live \ {status[c]} :
          status' = [status EXCEPT ![c] = s] /\ UNCHANGED <<autoBan, testModel>>
     \/ autoBan' = [autoBan EXCEPT ![c] = ~@] /\ UNCHANGED <<status, testModel>>
     \/ testModel' = [testModel EXCEPT ![c] = ~@] /\ UNCHANGED <<status, autoBan>>
  /\ UNCHANGED reason
  /\ Edited(c)

\* A channel with a route is refused.
Delete(c) ==
  /\ status[c] \in Live /\ c \notin Routed
  /\ status' = [status EXCEPT ![c] = "Deleted"]
  /\ UNCHANGED <<autoBan, testModel, reason>>
  /\ Edited(c)

-----------------------------------------------------------------------------
(* Judging an answer. *)

Passes(a) == a \in {"slow", "fine"}
exceeds_rt_threshold(a) == a = "slow"
\* A 401 is an http error; a key word can be in any error body.
should_disable(a, ban) == ban /\ a = "http error"
Testable(copy) == copy.model \/ copy.id \in Routed

ProbeReason(a) ==
  IF ~Passes(a) THEN "probe" ELSE IF exceeds_rt_threshold(a) THEN "slow" ELSE None

(* The probe loop. *)

Listed(s) == {[id |-> c, ban |-> autoBan[c], model |-> testModel[c]] :
                c \in {d \in Channel : status[d] = s}}

loopRest == <<rowVars, condition, relayVars, requestEdits, edits, turns>>

Abandon ==
  /\ phase' = "sleep" /\ todo' = {} /\ probed' = None /\ answer' = None
  /\ UNCHANGED loopEdits

ReadEnabled ==
  /\ phase = "sleep"
  /\ phase' = "enabled" /\ todo' = Listed("Enabled") /\ loopEdits' = {}
  /\ UNCHANGED <<probed, answer, loopRest, faults>>

\* Slip: the second list takes in what operators disabled.
ReadNotEnabled ==
  /\ phase = "enabled" /\ todo = {} /\ probed = None
  /\ phase' = "broken" /\ todo' = Listed("CircuitBroken") \cup Listed("Disabled")
  /\ loopEdits' = {}
  /\ UNCHANGED <<probed, answer, loopRest, faults>>

ReadBroken ==
  /\ phase = "enabled" /\ todo = {} /\ probed = None
  /\ phase' = "broken" /\ todo' = Listed("CircuitBroken") /\ loopEdits' = {}
  /\ UNCHANGED <<probed, answer, loopRest, faults>>

RoundEnds ==
  /\ phase = "broken" /\ todo = {} /\ probed = None
  /\ Abandon
  /\ UNCHANGED <<loopRest, faults>>

\* The next row of the list is tested, or skipped for want of a test model or
\* because the look-up of one among its routes failed.
Probe ==
  /\ phase # "sleep" /\ probed = None
  /\ \E copy \in todo :
       /\ todo' = todo \ {copy}
       /\ \/ Testable(copy) /\ probed' = copy /\ answer' = condition[copy.id] /\ UNCHANGED faults
          \/ ~Testable(copy) /\ UNCHANGED <<probed, answer, faults>>
          \/ ~copy.model /\ Fault /\ UNCHANGED <<probed, answer>>
  /\ UNCHANGED <<phase, loopEdits, loopRest>>

\* The second list or an update that fails, or finds its row deleted, ends the round.
RoundFails ==
  /\ \/ probed # None /\ Fault
     \/ phase = "enabled" /\ todo = {} /\ Fault
     \/ probed # None /\ status[probed.id] = "Deleted" /\ UNCHANGED faults
  /\ Abandon
  /\ UNCHANGED loopRest

WritesBack(c) ==
  /\ probed # None /\ probed.id = c /\ status[c] \in Live
  /\ probed' = None /\ answer' = None
  /\ UNCHANGED <<phase, todo, loopEdits, autoBan, testModel, condition, relayVars,
                 requestEdits, edits, turns, faults>>

BreakAfterProbe(c) ==
  /\ phase = "enabled" /\ WritesBack(c)
  /\ IF ProbeReason(answer) # None /\ probed.ban
     THEN /\ status' = [status EXCEPT ![c] = "CircuitBroken"]
          /\ reason' = [reason EXCEPT ![c] = ProbeReason(answer)]
     ELSE UNCHANGED <<status, reason>>

\* Slip: a channel that answers slowly is recovered too.
RecoverAlsoSlow(c) ==
  /\ phase = "broken" /\ WritesBack(c)
  /\ IF Passes(answer)
     THEN /\ status' = [status EXCEPT ![c] = "Enabled"]
          /\ reason' = [reason EXCEPT ![c] = None]
     ELSE UNCHANGED <<status, reason>>

RecoverAfterProbe(c) ==
  /\ phase = "broken" /\ WritesBack(c)
  /\ IF Passes(answer) /\ ~exceeds_rt_threshold(answer)
     THEN /\ status' = [status EXCEPT ![c] = "Enabled"]
          /\ reason' = [reason EXCEPT ![c] = None]
     ELSE UNCHANGED <<status, reason>>

LoopStep ==
  \/ ReadEnabled \/ ReadBroken \/ RoundEnds \/ Probe
  \/ \E c \in Channel : BreakAfterProbe(c) \/ RecoverAfterProbe(c)

-----------------------------------------------------------------------------
(* A chat request, as far as it concerns the channel it is answered by. *)

relayRest == <<condition, loopVars, loopEdits, edits, turns>>

RouteRead(r) ==
  /\ rpc[r] = "idle"
  /\ \E c \in {d \in Channel \cap Routed : status[d] = "Enabled"} :
       rchan' = [rchan EXCEPT ![r] = c]
  /\ rpc' = [rpc EXCEPT ![r] = "routed"]
  /\ requestEdits' = [requestEdits EXCEPT ![r] = {}]
  /\ UNCHANGED <<rowVars, rstatus, rban, relayRest, faults>>

\* The full rows are read by a second query, which does not filter on status.
ChannelRead(r) ==
  /\ rpc[r] = "routed"
  /\ LET c == rchan[r]
     IN IF status[c] \in Live
        THEN /\ rpc' = [rpc EXCEPT ![r] = "sent"]
             /\ rstatus' = [rstatus EXCEPT ![r] = status[c]]
             /\ rban' = [rban EXCEPT ![r] = autoBan[c]]
        ELSE /\ rpc' = [rpc EXCEPT ![r] = "done"]
             /\ UNCHANGED <<rstatus, rban>>
  /\ UNCHANGED <<rowVars, rchan, requestEdits, relayRest, faults>>

\* maybe_disable_channel up to its tokio::spawn.
Answered(r) ==
  /\ rpc[r] = "sent"
  /\ rpc' = [rpc EXCEPT ![r] =
               IF /\ rstatus[r] # "CircuitBroken"
                  /\ should_disable(condition[rchan[r]], rban[r])
               THEN "disabling" ELSE "done"]
  /\ UNCHANGED <<rowVars, rchan, rstatus, rban, requestEdits, relayRest, faults>>

\* The spawned update: by id, whatever the row has become.
Disable(r) ==
  /\ rpc[r] = "disabling"
  /\ rpc' = [rpc EXCEPT ![r] = "done"]
  /\ LET c == rchan[r]
     IN \/ /\ status[c] \in Live
           /\ status' = [status EXCEPT ![c] = "CircuitBroken"]
           /\ reason' = [reason EXCEPT ![c] = "relay"]
           /\ UNCHANGED faults
        \/ Fault /\ UNCHANGED <<status, reason>>
  /\ UNCHANGED <<autoBan, testModel, rchan, rstatus, rban, requestEdits, relayRest>>

RelayStep(r) == RouteRead(r) \/ ChannelRead(r) \/ Answered(r) \/ Disable(r)

-----------------------------------------------------------------------------
\* The upstream of a channel starts to answer differently.
Turn(c) ==
  /\ turns < MaxTurns /\ turns' = turns + 1
  /\ \E a \in Condition \ {condition[c]} : condition' = [condition EXCEPT ![c] = a]
  /\ UNCHANGED <<rowVars, loopVars, loopEdits, relayVars, requestEdits, edits, faults>>

\* A restart: the loop starts over, requests and spawned updates are gone.
Restart ==
  /\ Fault
  /\ Abandon
  /\ rpc' = [r \in Request |-> IF rpc[r] = "idle" THEN "idle" ELSE "done"]
  /\ UNCHANGED <<rowVars, condition, rchan, rstatus, rban, requestEdits, edits, turns>>

AdminStep == \E c \in Channel : Create(c) \/ Update(c) \/ Delete(c)

Next ==
  \/ AdminStep
  \/ LoopStep \/ RoundFails
  \/ \E r \in Request : RelayStep(r)
  \/ \E c \in Channel : Turn(c)
  \/ Restart

Spec == Init /\ [][Next]_vars

\* The loop runs for ever on its timer, and a spawned update is scheduled.
Fairness ==
  /\ WF_vars(LoopStep)
  /\ WF_vars(RoundFails /\ UNCHANGED faults)
  /\ \A r \in Request : WF_vars(Disable(r))

FairSpec == Spec /\ Fairness

-----------------------------------------------------------------------------
(* Properties. *)

\* Channels the writer of a status in this step might have an old copy of:
\* the row the loop probed or the request used was edited after the read.
Outdated(c) ==
  \/ probed # None /\ probed.id = c /\ c \in loopEdits
  \/ \E r \in Request : rpc[r] = "disabling" /\ rchan[r] = c /\ c \in requestEdits[r]

Automatic == edits' = edits

\* The loop and the relay overrule a manual Disabled only when it was set after
\* they read the row: a channel that was off when a round or a request began
\* stays off (health.rs:100).
OffStaysOff ==
  [][\A c \in Channel :
       Automatic /\ status[c] = "Disabled" /\ status'[c] # "Disabled" => Outdated(c)]_vars

\* auto_ban = false is a veto (health.rs:37-40): an automatic step breaks a
\* channel whose auto_ban is off only if it was switched off after the read.
AutoBanVeto ==
  [][\A c \in Channel :
       Automatic /\ ~autoBan[c] /\ status[c] # "CircuitBroken"
         => status'[c] # "CircuitBroken" \/ Outdated(c)]_vars

\* An upstream that answers well again gets its traffic back: a channel whose
\* upstream stays fine and that can be tested is not CircuitBroken for ever,
\* whatever rounds were cut short (health.rs:146-166).
Recovers ==
  \A c \in Channel :
    <>[](condition[c] = "fine" /\ (c \in Routed \/ testModel[c]))
      => []<>(status[c] # "CircuitBroken")

\* An upstream that keeps failing, or is steadily slow, ends up out of service
\* and stays there: the loop does not switch it back and forth.
Breaks ==
  \A c \in Channel :
    <>[](condition[c] # "fine" /\ autoBan[c] /\ (c \in Routed \/ testModel[c]))
      => <>[](status[c] # "Enabled")

=============================================================================
