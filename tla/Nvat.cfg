\* Up to five boxes at a time, and two devices.  A crash ends the process.
CONSTANTS
    null = null
    MaxBoxes = 5
    MaxDevices = 2
SPECIFICATION Spec
INVARIANTS HandlesAreSound VerifiersHaveClients
PROPERTY LossesAreFailures
VIEW WithoutCode
CHECK_DEADLOCK FALSE
