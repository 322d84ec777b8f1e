SPECIFICATION Spec
CONSTANTS
    Subjects = {u1}
    Channels = {in_app, webhook}
    Lifecycles = {"OBSERVING"}
    Evidence <- MCEvidence
    MaxMinute = 1
    MaxRuns = 2
    Null = Null
INVARIANTS
    RetryFindsItsCommit
