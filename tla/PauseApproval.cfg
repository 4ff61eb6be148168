SPECIFICATION Spec
CONSTANTS
    a1 = a1
    a2 = a2
    n1 = n1
    n2 = n2
    NoBody = NoBody
    Ids <- MCIds
    Nonces <- MCNonces
    Bodies <- MCBodies
    Times <- MCTimes
    Freshness = 1
INVARIANTS
    AtMostOnce
    RepliesAgree
PROPERTIES
    ImplementsPromise
