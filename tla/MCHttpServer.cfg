SPECIFICATION FairSpec
CONSTANTS
    Conns = {c1, c2, c3}
    ShutdownGrace = 6
    StopGrace = 7
INVARIANTS
    TypeOK
    CleanExitLosesNothing
    FullGrace
PROPERTIES
    NoAcceptInShutdown
    ShutdownEnds
    DeafServerEnds
