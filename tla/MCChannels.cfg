\* Two channels, one of them named in miaurc; a line holds both names.
CONSTANTS
    Channel = {a, b}
    Safe = {b}
    Configured = {a}
    Configs <- MCConfigs
    LineCap = 2
    MaxClients = 1
    MaxTries = 2
    MaxOld = 1
    MaxOut = 2
    MaxIn = 2
SPECIFICATION FairSpec
INVARIANTS
    OneHome
    Agreement
PROPERTIES
    Settles
