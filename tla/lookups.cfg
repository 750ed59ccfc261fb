SPECIFICATION FairLookupSpec
CONSTANTS
    Addrs = {a}
    Nobody = Nobody
    Loops = {"consume", "reclaim"}
    Paid = {"abuseipdb", "virustotal"}
    Quota <- OneEach
    Setups <- SomeSetups
    Verdicts <- FewVerdicts
    Aging = {"abuseipdb", "virustotal"}
    MaxFaults = 1
INVARIANTS
    LookupTypeOK
    BudgetBounded
    OneAtATime
    ListedIsVerdict
PROPERTIES
    DeferredForCause
    DeferralsEnd
