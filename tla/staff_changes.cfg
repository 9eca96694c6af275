SPECIFICATION MCSpec
CONSTANTS
    Users = {ann, bob, eve}
    Browsers = {ann, bob}
    Managers = {ann, bob}
    Life = 1
    MaxTime = 0
    None = None
    Devices = {}
    Shared = {}
PROPERTIES
    DeactivationStays
    OthersGiveRoles
CHECK_DEADLOCK FALSE
