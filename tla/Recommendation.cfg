SPECIFICATION Spec
CONSTANTS
    c1 = c1
    c2 = c2
    Clients = {c1, c2}
    Entries <- MCEntries
    DefaultRegistry <- MCDefaultRegistry
    Workers = 2
    Facts <- MCFacts
    Raises = Raises
    Weights <- MCWeights
    Ttl = 1
    MaxTime = 2
    MaxDay = 2
    MaxRevision = 1
    MaxChanges = 1
    MaxLookups = 3
    Nothing = Nothing
INVARIANTS
    AnswersAreSequential
    AnswersAreFresh
SYMMETRY Alike
CHECK_DEADLOCK FALSE
