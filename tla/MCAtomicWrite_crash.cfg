SPECIFICATION Spec
CONSTANTS
    Writer = {w1, w2}
    Value = {v1, v2}
    Inode = {i1, i2, i3}
    NoInode = NoInode
    Size = 2
    MaxFailures = 1
SYMMETRY Symmetry
INVARIANTS
    FileWhole
    LastSaveRead
