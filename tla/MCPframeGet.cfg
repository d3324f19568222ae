CONSTANTS
    Client = {w, r}
    Writer = w
    Pageoutd = p
    Syncer = s
    Key = {k1, k2, k3}
    Frame = {f1, f2}
    TARGET = 1
    NULL = NULL
SPECIFICATION Spec
INVARIANT GetReturnsItsPage
