SPECIFICATION MCSpec
CONSTANTS
    Subjects = {u1}
    Channels = {in_app, webhook}
    Lifecycles = {"OBSERVING", "STARTING", "EXPANDING"}
    Evidence <- MCEvidence
    Callers = {c1, c2}
    MaxSnapshots = 3
    Null = Null
    Guardian <- MCGuardian
    Scout <- MCScout
    Approved <- MCSeeded
    Demo = {"gd", "sd"}
    Document <- MCDocument
    Seeded <- MCSeeded
    Reported <- MCReported
    Key = {1, 2, 3, 4, 5, 6}
    MaxTime = 6
    MaxValidations = 1
    MaxEvidence = 2
    MaxActivations = 6
    MaxCycles = 1
    c1 = c1
    c2 = c2
INVARIANTS
    StateFollowsLedger
    EventsFollowLedger
    CommittedOnce
    ThresholdsSound
    CommitOfOnePair
CHECK_DEADLOCK FALSE
