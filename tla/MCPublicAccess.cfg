SPECIFICATION Spec
CONSTANTS
    p1 = p1
    p2 = p2
    f1 = f1
    r1 = r1
    a1 = a1
    a2 = a2
    a3 = a3
    a4 = a4
    None = None
    Photos = {p1, p2}
    Foreign = {f1}
    Requests = {r1}
    Admins = {a1, a2, a3, a4}
    Memberships <- MCMemberships
    Commands <- MCCommands
    MaxTime = 1
    MaxVersions = 3
    MaxResults = 2
    MaxBulk = 2
SYMMETRY MCSymmetry
INVARIANTS
    TypeOK
    AnswersAreVisible
    AnswersComeFromAnOpenEvent
    AllOrNothing
    LinkSurvives
PROPERTIES
    ArchiveIsFinal
    EditsOnlyRestore
