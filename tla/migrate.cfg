\* Two runs and one that drops the schema first, killed at any step.
CONSTANTS
    m1 = m1
    m2 = m2
    m3 = m3
    Migrators = {m1, m2, m3}
    Refreshers = {m3}
    NumFiles = 3
    Versions = {1, 2, 3}
    VersionOf <- RepoVersions
    Needs <- RepoNeeds
    Rerunnable = {3}
    SelfCommitting = {1}
    Preloaded = {}

SPECIFICATION Spec

INVARIANTS
    RecordedIffApplied
    AppliedInOrder
    SomeoneCompletes

PROPERTIES
    CompleteMeansAll
    MigratorsEnd

CHECK_DEADLOCK FALSE
