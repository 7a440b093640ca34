SPECIFICATION Spec
CONSTANTS
    Plans <- LoopPlans
    MaxItems = 3
    AnswersAsInputs = TRUE
INVARIANTS
    OwnAnswers
