SPECIFICATION Spec
CONSTANTS
    Shape <- MCShape
    LowerCase <- MCLowerCase
    Namespace <- MCNamespace
    Programs <- MCPrograms
    Issues <- MCIssues
    MaxEmitted = 2
INVARIANTS
    SummariesExact
    PlainReleasesReported
CHECK_DEADLOCK FALSE
