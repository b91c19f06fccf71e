\* Four cells, two acts of other processes, one failing call.
CONSTANTS
    StepDts = 1
    RepeatIds = 2
    MaxRival = 2
    MaxFaults = 1
SPECIFICATION Spec
INVARIANT BoundToAdmittedInputs
INVARIANT DecisionRestsOnRecord
INVARIANT RecordBindsEveryFile
