SPECIFICATION Spec
CONSTANTS
    Plans <- MCPlans
    MaxItems = 3
    AnswersAsInputs = FALSE
INVARIANTS
    TypeOK
    ExactlyOnce
    OwnAnswers
PROPERTIES
    CheckpointGrows
    RunEnds
