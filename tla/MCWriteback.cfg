CONSTANTS
    i1 = i1
    i2 = i2
    a1 = a1
    a2 = a2
    k1 = k1
    k2 = k2
    k3 = k3
    d1 = d1
    d2 = d2
    c1 = c1
    c2 = c2
    None = None
    Intents <- MCTwoIntents
    Actors <- MCActors
    Keys <- MCKeys
    ProviderKeys <- MCProviderKeys
    CompensationKey <- MCCompensationKey
    Payloads <- MCPayloads
    Proposals <- MCProposals
    Calls <- MCCalls
    MaximumAttempts = 2
    ExchangeBound = 3
SPECIFICATION Spec
INVARIANTS
    TypeOK
    HistoryIsLegal
    OneEffectPerKey
    RecordedWasApplied
    EffectsWereAuthorised
CHECK_DEADLOCK FALSE
SYMMETRY
    MCSymmetry
