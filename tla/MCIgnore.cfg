\* Five blocks of memory, shared by two lists and the ignore list; three hosts.
CONSTANTS
    Node = {n1, n2, n3, n4, n5}
    NULL = NULL
    Junk = Junk
    Host = {h1, h2, h3}
    Ttl = 4
    ReplyTime = 2
SYMMETRY MCAlike
SPECIFICATION AllSpec
PROPERTIES
    ImplementsSequences
    ImplementsIgnored
    RepliesSpaced
