SPECIFICATION MCSpec
CONSTANTS
    Scopes = {s, t}
    Branches = {"main", "topic"}
    Findings = {"f"}
    Lines = {1}
    Limit = 1
    DeferExpiry = 1
    ScopeTTL = 2
    MaxClock = 3
    MaxEdits = 4
    Brief = {t}
    MaxFailures = 1
PROPERTY RegressionWasFixed
CHECK_DEADLOCK FALSE
