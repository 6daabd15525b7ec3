SPECIFICATION Spec
CONSTANTS
    Sockets = {s1, s2}
    Errors = {noSong}
INVARIANT ErrorReachesPages
