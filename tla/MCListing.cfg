SPECIFICATION Spec
CONSTANTS
    Starts <- AllStarts
    Names = {"a", "b", "e"}
    MaxRenames = 4
INVARIANTS PathIsTrue ListsTheWay
