SPECIFICATION MonthEndSpec
CONSTANTS
  MonthTicks = 4
  CstAhead = 1
  alpha = alpha
  beta = beta
  Day = 0
  Hour = 2
  DryRun = FALSE
  HasSmtp = TRUE
  HasRecipients = TRUE
  CronFirst <- FirstOfDecember
  CronLast <- MidFebruary
  MaxFaults = 2
  MaxManual = 1
  None = None
  Calls <- FourCalls
  Clerk = {c1, c2}
  Month <- TwoMonths
  FirstTick <- EveOfJanuary
  LastTick <- NewYear
CHECK_DEADLOCK FALSE
INVARIANTS BooksAreTrue MailsAreRecorded
PROPERTIES LockedFrozen DueIsSent
