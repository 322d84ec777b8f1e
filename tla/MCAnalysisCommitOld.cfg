SPECIFICATION Spec
CONSTANTS
    Subjects = {u1}
    Channels = {in_app, webhook}
    Lifecycles = {"OBSERVING"}
    Evidence <- MCRaceEvidence
    Callers = {c1, c2}
    MaxSnapshots = 3
    Null = Null
INVARIANTS
    NewerStateStands
SYMMETRY Symmetry
