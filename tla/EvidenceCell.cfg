SPECIFICATION Spec
CONSTANTS
  ControlDt = 2
  Horizon = 4
  StepDts <- MCStepDts
  NoComponent = NoComponent
  NoIdentity = NoIdentity
  IterationLimit = 2
  Infinite = 2
  Scientific = {1}
  Manifests <- MCManifests
  Drafts <- MCDrafts
  Xmls <- MCXmls
  OtherFiles <- MCOtherFiles
  FixtureId = "subject"
  Grids = {1, 2}
INVARIANTS CompletedIsAdmitted AdmittedIsOneGeneration ProfileIsTheAdmittedOne ContactsAreWhatHappened
