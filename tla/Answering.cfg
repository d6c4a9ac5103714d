CONSTANTS
  Jobs <- MCJobs
  ItemOf <- MCItemOf
  Instructions <- MCInstructions
  MaxAttempts = 3
SPECIFICATION Spec
INVARIANTS
  SearchesAreRight
  AnswersAreGrounded
  HistoryIsKept
  RetryDiscipline
  ConversionsFit
