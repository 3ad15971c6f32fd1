----------------------------- MODULE MCGateway -----------------------------
(* Relay and ChannelHealth for TLC.  A behaviour is one of a request through *)
(* the relay or one of the channels' health: the other module stands still.  *)
EXTENDS Relay, TLC

CONSTANTS
  HealthChannel, HealthRequest, HealthRouted, Condition, MaxHealthEdits, MaxTurns,
  ch2, q2   \* the second channel and request, which TwoChannelsOrRequests bounds

VARIABLES
  part,   \* "relay" or "health"
  healthStatus, autoBan, testModel, reason, condition,
  phase, todo, probed, healthAnswer, loopEdits,
  rpc, rchan, rstatus, rban, requestEdits,
  healthEdits, turns, healthFaults

Health == INSTANCE ChannelHealth WITH
  Channel <- HealthChannel, Request <- HealthRequest, Routed <- HealthRouted,
  MaxEdits <- MaxHealthEdits,
  status <- healthStatus, answer <- healthAnswer, edits <- healthEdits, faults <- healthFaults

ASSUME HealthAssumption == Health!ChannelAssumption

healthVars == <<healthStatus, autoBan, testModel, reason, condition,
                phase, todo, probed, healthAnswer, loopEdits,
                rpc, rchan, rstatus, rban, requestEdits, healthEdits, turns, healthFaults>>
allVars == <<part, vars, healthVars>>

-----------------------------------------------------------------------------
\* Channel 2 is preferred by its route, channel 3 serves tasks only.
Route == [enabled |-> TRUE, priority |-> None, weight |-> None]
AllRoutes == <<Route, [Route EXCEPT !.priority = 2], Route>>

ChannelRow(p, w, a) == [priority |-> p, weight |-> w, adapter |-> a]
ThreeBase == <<ChannelRow(1, 1, "openai_compatible"), ChannelRow(1, 0, "gemini"),
               ChannelRow(2, 1, "mock_task")>>

\* Two channels and a request, or one channel that is edited twice while two
\* requests use it.  Administrators, clients and failures are bounded by this,
\* and nothing that is fair.
TwoChannelsOrRequests ==
  \/ rpc[q2] = "idle" /\ healthEdits <= 1
  \/ healthStatus[ch2] = "Absent" /\ condition[ch2] = "fine" /\ healthFaults = 0

GatewayInit ==
  /\ part \in {"relay", "health"}
  /\ Init
  /\ part = "health" => /\ status = [c \in Channel |-> "Enabled"]
                        /\ stream = [r \in Request |-> FALSE]
  /\ Health!Init
  /\ part = "relay" => \A c \in HealthChannel : healthStatus[c] = "Absent" /\ condition[c] = "fine"

GatewayNext ==
  \/ part = "relay" /\ Next /\ UNCHANGED <<part, healthVars>>
  \/ part = "health" /\ Health!Next /\ TwoChannelsOrRequests' /\ UNCHANGED <<part, vars>>

\* The relay at rest has no fair step.
GatewayFairness ==
  /\ Fairness
  /\ WF_healthVars(part = "health" /\ Health!LoopStep)
  /\ WF_healthVars(part = "health" /\ Health!RoundFails /\ UNCHANGED healthFaults)
  /\ \A q \in HealthRequest : WF_healthVars(part = "health" /\ Health!Disable(q))

GatewaySpec == GatewayInit /\ [][GatewayNext]_allVars /\ GatewayFairness

-----------------------------------------------------------------------------
(* Promises of several parts. *)

\* Administrators have the last word on a channel: switched off it stays off but
\* for a write that was decided on before (health.rs:100), and auto_ban = false
\* vetoes automatic disabling, on the same condition (health.rs:37-40).
OperatorsWin == Health!OffStaysOff /\ Health!AutoBanVeto

\* The status of a channel follows its upstream: fine again, it is recovered
\* (health.rs:146-166); failing or slow for good, it ends up out of service; with
\* the types of the loop and its copies.
HealthFollows ==
  /\ []Health!TypeOK
  /\ part = "health" => Health!Recovers /\ Health!Breaks
=============================================================================
