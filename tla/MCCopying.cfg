SPECIFICATION Spec
CONSTANTS
    Starts <- AllStarts
    MaxInos = 13
INVARIANTS SuccessMeansCopied UntouchedIfSubdirectory NothingInvented
