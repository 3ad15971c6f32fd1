----------------------------- MODULE ReportCron -----------------------------
(***************************************************************************)
(* The monthly margin report by mail (billing/src/email_cron.rs, email.rs):*)
(* a loop that wakes every minute, asks whether this month's report is due *)
(* and not sent, sends it, and then records in cron_state that it did.     *)
(*                                                                         *)
(* Sending and recording are two steps.  Either may fail, the mail server  *)
(* may take a mail and still report an error, and the process may crash    *)
(* and start again anywhere.  A tick of time is longer than the loop's     *)
(* minute: it passes only when the loop has looked at it without an error. *)
(* Reading cron_state is short, at most one tick passes during it; while a *)
(* mail is on its way time may pass as it likes.                           *)
(***************************************************************************)
EXTENDS Periods, FiniteSets

CONSTANTS
  Day, Hour,           \* ticks from the start of a month to the report's day and hour, in CST
  DryRun, HasSmtp, HasRecipients,
  None,
  FirstTick, LastTick, \* bounds: the instants of the run
  MaxFaults,           \* bound: failures and crashes
  MaxManual            \* bound: reports asked for by hand

ReportCronAssumption ==
  /\ Day \in Nat /\ Hour \in Nat /\ Day + Hour < MonthTicks
  /\ {DryRun, HasSmtp, HasRecipients} \subseteq BOOLEAN
  /\ {FirstTick, LastTick, MaxFaults, MaxManual} \subseteq Nat /\ FirstTick <= LastTick
  /\ None \notin Nat \cup [at : FirstTick..LastTick, sent : BOOLEAN]

VARIABLES
  now,       \* UTC
  looked,    \* the last instant the loop has looked at without an error
  pos,       \* "asleep", "send", "record", "down"
  job,       \* the tick's own clock, and what it has sent
  last,      \* cron_state["billing.monthly.last_sent"]
  mails,     \* reports delivered: [id, due: the month it was due in, period, at, by]
  faults, manual,
  lost       \* months of which a delivery was not recorded

vars == <<now, looked, pos, job, last, mails, faults, manual, lost>>

MonthOf(t) == PeriodAt(cst(t))
scheduled(t) == Start(MonthOf(t)) + Day + Hour

\* Slip: the very instant and not the month it lies in.
sent_just_now(l, t) == l # None /\ l = t

sent_this_month(l, t) == l # None /\ MonthOf(l) = MonthOf(t)

\* Slip: an exact match of the hour.
on_the_hour(t, l) == cst(t) = scheduled(t) /\ ~sent_this_month(l, t)

should_send(t, l) == cst(t) >= scheduled(t) /\ ~sent_this_month(l, t)

\* What run_send reports on: the month before the one it runs in.
Reported == prev_period(MonthOf(now))
Mail(due, by) == 
  [id |-> Cardinality(mails), due |-> due, period |-> Reported, at |-> now, by |-> by]
\* A dry run and a missing configuration end before the mail server is asked.
Mailable == ~DryRun /\ HasSmtp /\ HasRecipients

TypeOK ==
  /\ now \in FirstTick..LastTick
  /\ looked \in (FirstTick..now) \cup {None}
  /\ pos \in {"asleep", "send", "record", "down"}
  /\ (job = None) = (pos \in {"asleep", "down"})
  /\ job # None => job.at \in FirstTick..now /\ (pos = "send" => ~job.sent)
  /\ last \in (FirstTick..now) \cup {None}
  /\ \A m \in mails : m.at \in FirstTick..now /\ m.by \in {"cron", "hand"} /\ Mailable
  /\ faults \in 0..MaxFaults /\ manual \in 0..MaxManual

Init ==
  /\ now = FirstTick /\ looked = None /\ pos = "asleep" /\ job = None
  /\ last = None /\ mails = {} /\ faults = 0 /\ manual = 0 /\ lost = {}

TimePasses ==
  /\ now < LastTick
  /\ pos = "asleep" => looked = now
  /\ pos = "send" => now = job.at
  /\ now' = now + 1
  /\ UNCHANGED <<looked, pos, job, last, mails, faults, manual, lost>>

\* The loop wakes: get_state and should_send.
Look ==
  /\ pos = "asleep" /\ looked # now
  /\ looked' = now
  /\ IF should_send(now, last) THEN pos' = "send" /\ job' = [at |-> now, sent |-> FALSE]
                               ELSE UNCHANGED <<pos, job>>
  /\ UNCHANGED <<now, last, mails, faults, manual, lost>>

\* run_send, with a clock of its own; in a dry run there is nothing to deliver.
Send ==
  /\ pos = "send"
  /\ IF Mailable THEN mails' = mails \cup {Mail(MonthOf(job.at), "cron")} ELSE UNCHANGED mails
  /\ IF DryRun \/ Mailable THEN pos' = "record" /\ job' = [job EXCEPT !.sent = Mailable]
                           ELSE pos' = "asleep" /\ job' = None
  /\ UNCHANGED <<now, looked, last, faults, manual, lost>>

Fault == faults < MaxFaults /\ faults' = faults + 1

\* The margin cannot be read, or the mail server fails; it may have taken the mail.
SendFails ==
  /\ pos = "send" /\ Fault
  /\ \/ UNCHANGED <<mails, lost>>
     \/ /\ Mailable /\ mails' = mails \cup {Mail(MonthOf(job.at), "cron")}
        /\ lost' = lost \cup {[month |-> MonthOf(job.at), fault |-> faults]}
  /\ pos' = "asleep" /\ job' = None /\ looked' = None
  /\ UNCHANGED <<now, last, manual>>

\* set_state, with the instant the tick began at.
Record ==
  /\ pos = "record"
  /\ last' = job.at
  /\ pos' = "asleep" /\ job' = None
  /\ UNCHANGED <<now, looked, mails, faults, manual, lost>>

Losing == IF job # None /\ job.sent THEN {[month |-> MonthOf(job.at), fault |-> faults]} ELSE {}

RecordFails ==
  /\ pos = "record" /\ Fault
  /\ lost' = lost \cup Losing
  /\ pos' = "asleep" /\ job' = None /\ looked' = None
  /\ UNCHANGED <<now, last, mails, manual>>

Crash ==
  /\ pos # "down" /\ Fault
  /\ lost' = lost \cup Losing
  /\ pos' = "down" /\ job' = None
  /\ UNCHANGED <<now, looked, last, mails, manual>>

\* Nothing is remembered but cron_state.
Restart ==
  /\ pos = "down"
  /\ pos' = "asleep" /\ looked' = None
  /\ UNCHANGED <<now, job, last, mails, faults, manual, lost>>

\* POST /api/billing/email/test sends at once and records nothing.
EmailTest ==
  /\ manual < MaxManual /\ pos # "down"
  /\ manual' = manual + 1
  /\ IF Mailable THEN mails' = mails \cup {Mail(MonthOf(now), "hand")} ELSE UNCHANGED mails
  /\ UNCHANGED <<now, looked, pos, job, last, faults, lost>>

Next == \/ TimePasses \/ Look \/ Send \/ SendFails \/ Record \/ RecordFails
        \/ Crash \/ Restart \/ EmailTest

Spec == Init /\ [][Next]_vars
\* The loop goes on after every error, an await ends, a supervisor restarts the
\* process, and clocks do not stop.
FairSpec == Spec /\ WF_vars(Look) /\ WF_vars(Send) /\ WF_vars(Record) /\ WF_vars(Restart)
                 /\ WF_vars(TimePasses)

-----------------------------------------------------------------------------
ByCron(due) == {m \in mails : m.by = "cron" /\ m.due = due}
Months == {MonthOf(t) : t \in FirstTick..LastTick}

\* A month's report is sent again only because a delivery could not be recorded:
\* deliveries of the loop for a month are one and one more for each crash or
\* failure between the mail server taking it and cron_state.  Reports sent by
\* hand neither count nor suppress one.
DuplicatesAreLosses ==
  \A m \in Months : Cardinality(ByCron(m)) <= 1 + Cardinality({l \in lost : l.month = m})

\* A recorded month is finished: cron_state names an instant of a month only
\* when that month's report has been delivered, or the configuration only rehearses.
RecordedIsSent ==
  last # None /\ ~DryRun => ByCron(MonthOf(last)) # {}

\* Self-healing: a report that is due is delivered some time in its month,
\* through outages and failures, unless the month ends first; in the last month
\* of the run, where time stops, it is delivered.
DueIsSent ==
  \A m \in Months :
    (MonthOf(now) = m /\ cst(now) >= scheduled(now)) ~> (ByCron(m) # {} \/ MonthOf(now) # m)
=============================================================================
