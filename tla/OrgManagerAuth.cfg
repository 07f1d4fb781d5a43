SPECIFICATION Spec
CONSTANTS
    Requests = {r1, r2}
    CacheTTL = 2
    TokenLife = 1
    MaxCheck = 1
    None = None
SYMMETRY Symmetry
INVARIANTS
    CachedAnswerIsReal
    RetryCarriesNewToken
PROPERTY RevocationTakesEffect
