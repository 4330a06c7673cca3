CONSTANTS
    None = None
    Docs <- DocSet
    MaxRepeats = 3
    Cases <- CaseSet

SPECIFICATION Spec
 
INVARIANT AllPages
INVARIANT OneStepPerRequest
INVARIANT ScrapedOnce
INVARIANT UnconfirmedNeverUsed
INVARIANT UploadedIsLogged
 
INVARIANT FloodIsOfTheCounty
PROPERTY RunEnds
