SPECIFICATION SetupSpec
CONSTANTS
    MaxVersion = 3
    MaxSetups = 2
CHECK_DEADLOCK FALSE
INVARIANTS SetupTypeOK ExeWhole
PROPERTIES OnlySetupDowngrades NotStranded LaunchesNew
