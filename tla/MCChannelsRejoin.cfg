\* leave and rejoin, with a client attached when the server comes back.
CONSTANTS
    Channel = {a, b}
    Safe = {b}
    Configured = {a}
    Configs <- MCLeaving
    LineCap = 2
    MaxClients = 1
    MaxTries = 2
    MaxOld = 1
    MaxOut = 2
    MaxIn = 2
SPECIFICATION FairSpec
PROPERTIES
    RejoinsAfterLoss
