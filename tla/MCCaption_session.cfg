SPECIFICATION Spec
CONSTANTS
    t1 = t1
    Targets = {t1}
    Artifacts <- MCArtifacts
    Earlier <- MCEarlier
    MaxLeft = 1
    States = {"running", "cancelled", "completed"}
INVARIANTS
    SessionSound Watched CaptionsGoWithBook
PROPERTIES
    StartsOnlyAsAsked StoredOnlyImproves
CHECK_DEADLOCK FALSE
