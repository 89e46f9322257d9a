SPECIFICATION Spec
CONSTANTS
    Starts <- AllStarts
INVARIANTS RestoresTerminal AnswersTheQuestion EditsAsTyped HandlerFinishes
PROPERTIES EndsInTime
\* A program may wait for a key for ever, or has ended.
CHECK_DEADLOCK FALSE
