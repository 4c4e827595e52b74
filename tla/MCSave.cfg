SPECIFICATION Spec
CONSTANTS
    k1 = k1
    k2 = k2
    k3 = k3
    Key <- Keys
    MaxItems <- MCMaxItems
    Value = {v1}
    Capacity = 1
    Blank = Blank
    Junk = Junk
    Garbage = {Junk}
INVARIANT
    TypeOK
PROPERTIES
    LoadIsWhole
    LoadOnlyAdds
    AckedSaveLoads
VIEW MCView

SYMMETRY Symmetry
