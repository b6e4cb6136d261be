SPECIFICATION Spec
CONSTANT
    Scopes <- MCScopes
INVARIANTS
    CausallyClosed
    DeferredOnlyIfBlocked
    Convergence
    VisibilityCached
    NobodyWaitsInVain
    CatchesUp
