SPECIFICATION BlocksSpec
CONSTANTS
    MaxLen = 5
    MaxThreads = 3
INVARIANT CountsAllWords
