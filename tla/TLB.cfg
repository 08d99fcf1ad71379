CONSTANTS
    TlbSize = 3
    Levels = 2
    VAddrs <- Pages
    Global = {2}
    Asids = {1, 2}
    x = x
    y = y
    Leaves = {x, y}
    None = None
    Dir = Dir
    Invalid = Invalid
    All = All
    Tables <- Start
    Writable <- Rewritten
SPECIFICATION Spec
INVARIANTS
    NoStaleTranslation
    OneMatchWhenFenced
