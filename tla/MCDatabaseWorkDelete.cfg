CONSTANTS
    Tests = {t1}
    Restores = {r1}
    Policies = {"files"}
    Modes = {"internal"}
    MaxCrashes = 0
SPECIFICATION Spec
PROPERTIES
    InternalDeleteIsCarriedOut
