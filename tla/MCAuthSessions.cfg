\* Two processes and the script start together; one account and its successor.
CONSTANTS
    s1 = s1
    s2 = s2
    Servers = {s1, s2}
    Names = {"admin"}
    Admin = "admin"
    Expiry = 2
    Window = 3
    Throttle = 1
    MaxIds = 2
    MaxTime = 4
SPECIFICATION FairSpec
INVARIANTS
    RevokedAtOnce
    PresenceIsTight
PROPERTIES
    ProcessesServe
CHECK_DEADLOCK FALSE
