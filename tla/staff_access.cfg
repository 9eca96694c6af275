SPECIFICATION MCSpec
CONSTANTS
    Users = {ann, bob}
    Browsers = {ann, bob}
    Managers = {ann}
    Life = 1
    MaxTime = 2
    None = None
    Devices = {desk, phone}
    Shared = {desk}
INVARIANTS
    Types
    AccessExpires
    AuthorityExpires
    PushesAreHonest
CHECK_DEADLOCK FALSE
