\* Two lines, two clients.
CONSTANTS
    Configs <- MCConfigs
    MaxClients = 2
    MaxLog = 2
    MaxAge = 3
SPECIFICATION Spec
INVARIANTS
    MissedIsUnseen
    MovedOrReplayed
