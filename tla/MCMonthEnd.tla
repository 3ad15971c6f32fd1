----------------------------- MODULE MCMonthEnd -----------------------------
(* Closing and ReportCron for TLC, at the turn of the year 2026.  A behaviour *)
(* is one of the books or one of the mail loop: the other stands still.       *)
EXTENDS Closing, TLC

CONSTANTS
  alpha, beta,                          \* models, channels and organisations
  Day, Hour, DryRun, HasSmtp, HasRecipients,
  CronFirst, CronLast, MaxFaults, MaxManual   \* the mail loop's

VARIABLES
  part,   \* "books" or "cron"
  cronNow, looked, cronPos, cronJob, last, mails, faults, manual, lost

Call(i, m, ch, o, charged, cost) ==
  [id |-> i, model |-> m, channel |-> ch, org |-> o, charged |-> charged, cost |-> cost]
TwoCalls == {Call(1, alpha, alpha, alpha, 1, 1), Call(2, beta, alpha, beta, 2, None)}
FourCalls == TwoCalls \cup {Call(3, alpha, beta, alpha, 2, 2), Call(4, beta, beta, alpha, 1, 0)}

December == <<2026, 12>>
January == <<2027, 1>>
TwoMonths == {December, January}
EveOfJanuary == Start(January) - 1
NewYear == Start(January)
\* Months of four ticks, from December into February.
FirstOfDecember == Start(December)
MidFebruary == Start(<<2027, 2>>) + 2

Cron == INSTANCE ReportCron WITH
  FirstTick <- CronFirst, LastTick <- CronLast,
  now <- cronNow, pos <- cronPos, job <- cronJob

ASSUME CronAssumption == Cron!ReportCronAssumption

cronVars == <<cronNow, looked, cronPos, cronJob, last, mails, faults, manual, lost>>
allVars == <<part, vars, cronVars>>

-----------------------------------------------------------------------------
\* Two calls, and clerks that ask for December.
Races ==
  /\ Begun \subseteq TwoCalls
  /\ \A c \in Clerk : job[c].period \in {None, December} /\ (answer[c] # None => answer[c].period = December)
\* Four calls, and nobody asks for a reconciliation.
Settling == DOMAIN recs = {} /\ \A c \in Clerk : pos[c] = "idle" /\ answer[c] = None

MonthEndInit == part \in {"books", "cron"} /\ Init /\ Cron!Init
MonthEndNext ==
  \/ part = "books" /\ Next /\ (Races \/ Settling)' /\ UNCHANGED <<part, cronVars>>
  \/ part = "cron" /\ Cron!Next /\ UNCHANGED <<part, vars>>

MonthEndSpec ==
  /\ MonthEndInit /\ [][MonthEndNext]_allVars
  /\ WF_cronVars(part = "cron" /\ Cron!Look) /\ WF_cronVars(part = "cron" /\ Cron!Send)
  /\ WF_cronVars(part = "cron" /\ Cron!Record) /\ WF_cronVars(part = "cron" /\ Cron!Restart)
  /\ WF_cronVars(part = "cron" /\ Cron!TimePasses)

-----------------------------------------------------------------------------
(* Promises of several parts. *)

\* A month is recorded as sent only when its report was delivered, and is sent
\* again only when a delivery could not be recorded (email_cron.rs); with the
\* types of the loop, of cron_state and of the mails.
MailsAreRecorded == Cron!TypeOK /\ Cron!RecordedIsSent /\ Cron!DuplicatesAreLosses

\* A report that is due is delivered in its month (the loop of email_cron.rs).
DueIsSent ==
  \A m \in Cron!Months :
    (part = "cron" /\ Cron!MonthOf(cronNow) = m /\ Cron!cst(cronNow) >= Cron!scheduled(cronNow))
      ~> (Cron!ByCron(m) # {} \/ Cron!MonthOf(cronNow) # m)
=============================================================================
