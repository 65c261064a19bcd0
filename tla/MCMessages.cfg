\* Two nicks.  A check every two seconds, files are closed after one and
\* finished after three; messages are forwarded after two.
CONSTANTS
    Nick = {bob, eve}
    Configs <- MCConfigs
    ForwardTime = 2
    MaxLines = 2
    MaxWait = 3
    TimeOpen = 1
    TimeGrace = 3
    CheckPeriod = 2
    MaxIdle = 6
SPECIFICATION Spec
INVARIANTS
    Bracketed
    IdleIsClosed
PROPERTIES
    ForwardedInTheEnd
