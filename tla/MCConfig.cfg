\* Two clients, five files; an int of three bits and a long of four.
CONSTANTS
    default = default
    lunch = lunch
    None = None
    Null = Null
    Text = {default, lunch}
    Configs <- MCConfigs
    MaxClients = 2
    secret = secret
    Password = {secret}
    host = host
    other = other
    chan = chan
    Item = {host, other, chan}
    Files <- MCFiles
    IntMax = 3
    LongMax = 7
SPECIFICATION ConfigSpec
INVARIANTS
    Truth
    OwnWords
PROPERTIES
    AttendedIsHere
    GoodFileIsRead
