\* A factory reset after the user has set parameters; NVS never fails.
SPECIFICATION Spec
CONSTANTS
    Periods = {1000}
    PressMs = {500}
    MaxErrors = 0
    MaxJobs = 2
INVARIANT FactoryResetRestoresDefaults
