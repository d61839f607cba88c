SPECIFICATION Spec
CONSTANTS
    NoCaller = NoCaller
    Callers = {depth, minute}
    Candidates = {c1}
    Quantity = 3
    Ratios <- DefaultLegs
    MaxTime = 11
INVARIANTS
    LegsAccount
    TPlusOne
    EntryAtomic
