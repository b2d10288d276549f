SPECIFICATION Spec
CONSTANTS
    None = None
    Users = {u1, u2}
    MaxSubmits = 2
    MaxRestarts = 2
    MaxStack = 3
INVARIANTS
    DeviceFollowsUser
PROPERTIES
    LogoutEnds
    HomeForSignedIn
CHECK_DEADLOCK FALSE
