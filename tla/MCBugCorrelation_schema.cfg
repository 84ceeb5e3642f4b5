SPECIFICATION CorrelationSpec
CONSTANTS
  SourceOrder <- TwoSources
  Signatures <- SomeSignatures
  Inputs <- Failures
  Similar <- Alike
  OpenBugs <- OpenAnswers
  ClosedBugs <- ClosedAnswers
CHECK_DEADLOCK FALSE
INVARIANT ResultsMatchSchema
