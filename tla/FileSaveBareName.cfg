SPECIFICATION Spec
CONSTANTS
    Content = {c1, c2}
    Inode = {i1, i2, i3, i4}
    None = none
    Path = {"no slash"}
INVARIANTS
    Durable
