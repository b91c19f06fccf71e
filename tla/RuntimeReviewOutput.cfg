SPECIFICATION Spec
CONSTANTS
  Absent = Absent
  None = None
  Version = "1"
  StepDts <- MCStepDts
  RepeatIds <- MCRepeatIds
  Classes <- MCClasses
  Decision <- MCDecision
  Documents <- MCDocuments
  Generations = {1, 2}
  IdentityForms = {TRUE, FALSE}
  MaxRivals = 2
INVARIANT SuccessIsWhole
INVARIANT UndisturbedReviewSucceeds
PROPERTY ExposedIsConsistent
