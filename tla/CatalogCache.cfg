CONSTANTS
    Callers = {c1, c2}
    Keys = {k1}
    Nobody = Nobody
    Interval = 1
    Retained = 2
    Life = 2
    MaxTime = 2
SPECIFICATION CatalogLiveSpec
INVARIANTS OneFetchPerIdentity AnswersAreFresh ReusedTokensAreAccepted
 
