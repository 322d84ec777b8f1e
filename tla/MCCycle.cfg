SPECIFICATION CycleSpec
CONSTANTS
    Subjects = {u1}
    Channels = {in_app, webhook}
    Lifecycles = {"OBSERVING"}
    Evidence <- MCEvidence
    MaxMinute = 3
    MaxRuns = 4
    Null = Null
    w1 = w1
    w2 = w2
INVARIANTS
    JournalSound
    RebuildIsFaithful
PROPERTIES
    CompletedIsFinal
    EventuallySettled
