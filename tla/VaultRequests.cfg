CONSTANTS
    NoRow = NoRow
    Foreign = Foreign
    Absent = Absent
    NoValue = NoValue
    Name = {n1}
    Request = {q1, q2, q3}
    Maintenance = TRUE
    Budget <- MCBudget
    Crash = 1
    RegistryN = 1
    MasterN = 0
SPECIFICATION Spec
SYMMETRY Interchangeable
INVARIANTS TypeOK NoValueReturns RefsResolve JobSecretsSound
PROPERTY SlotsChangeByRequest
