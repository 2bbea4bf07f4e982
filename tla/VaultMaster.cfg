CONSTANTS
    NoRow = NoRow
    Foreign = Foreign
    Absent = Absent
    NoValue = NoValue
    Name = {n1}
    Request = {q1, q2, q3}
    Maintenance = TRUE
    Budget <- MCBudget
    Crash = 1
    RegistryN = 0
    MasterN = 2
SPECIFICATION Spec
SYMMETRY Interchangeable
INVARIANTS EveryEntryOpens SwapCompletes
