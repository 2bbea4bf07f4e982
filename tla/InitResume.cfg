CONSTANTS
    None = None
    Placeholder = Placeholder
    MaxRun = 4
    MaxVersion = 2
    Failures = 2
SPECIFICATION PatientSpec
INVARIANTS WizardInv BaseIsWhole
PROPERTIES KeysAreDurable Finishes
CHECK_DEADLOCK FALSE
