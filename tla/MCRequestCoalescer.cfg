SPECIFICATION FairSpec
CONSTANTS
    a1 = a1
    a2 = a2
    b1 = b1
    ka = ka
    kb = kb
    Requests <- MCRequests
    Keys <- MCKeys
    KeyOf <- MCKeyOf
    None = None
    ReplayGrace = 1
    DisconnectGrace = 1
    MaxEntries = 2
    Impatient <- MCLeaver
    Stoppable <- MCStoppable
INVARIANTS
    OneGenerationPerKey
    RetriesGetTheOwnersResponse
PROPERTIES
    EveryRequestAnswered
    ReplaysFreshSuccess
    CancelOnlyWhenAbandoned
