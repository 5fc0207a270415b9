SPECIFICATION SetupSpec
CONSTANTS
    MaxVersion = 1
    MaxSetups = 2
CHECK_DEADLOCK FALSE
PROPERTY SetupBindsDriver
