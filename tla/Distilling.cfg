SPECIFICATION Spec
CONSTANTS
    salary = salary
    Salary = Salary
    job = job
    f1 = f1
    f2 = f2
    f3 = f3
    Rows = 2
    Previews = 1
    Changes = 1
    Note = {n1, n2, n3}
    NoNote = NoNote
    Title = {salary, Salary, job}
    Norm <- MCNorm
    Fact = {f1, f2, f3, Undefined}
    Undefined = Undefined
    Offers <- MCOffers
    Edits <- MCEdits
    Ratio = 34
SYMMETRY Symmetry
INVARIANTS
    TypeOK
    TargetJustified
    MergeLosesOnlyUnseen
    NewIsCandidate
CHECK_DEADLOCK FALSE
