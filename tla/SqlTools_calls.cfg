SPECIFICATION Spec
CONSTANTS
  None = None
  Requests <- MCRequests
  NotAnInt = NotAnInt
  Omitted = Omitted
  Groups <- MCGroups
  Words <- MCWords
  Star = "*"
  Cards <- MCCards
  Malformed = Malformed
  NotANumber = NotANumber
  InitialUsage <- MCUsage
  Posts <- MCPosts
  NoRecord = NoRecord
  Days = 4
  HoursPerDay = 3
  DaysPerWeek = 1
  MaxHours = 7
  MaxLimit = 5
  MaxDays = 3
  MaxWeeks = 2
  DefaultRowLimit = 1
  HardRowLimit = 6
  ListRowLimit = 3
  BillingRowLimit = 2
  MaxChanges = 1
CONSTRAINT Relevant
INVARIANTS
  TypeOK
  WindowComplete
  PriorPeriodIsTrue
