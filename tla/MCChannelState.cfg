\* One channel, one other person on it, no quicklog.
CONSTANTS
    Channel = {a}
    Safe = {}
    Configured = {a}
    Configs <- MCStateConfigs
    LineCap = 1
    MaxClients = 1
    MaxTries = 1
    MaxOld = 0
    MaxOut = 2
    MaxIn = 2
    n = n
    me = me
    Nick = {n}
    Me = me
    ModeLines <- MCModeLines
    MaxModes = 2
    Rules <- MCLogRules
    MaskNames <- MCMaskNames
    RuleLists <- MCRuleLists
    Hosts <- MCHosts
SPECIFICATION StateSpec
INVARIANTS
    Covered
    OperKnown
    ActiveIsLogged
    MasksDecide
PROPERTIES
    AreGiven
