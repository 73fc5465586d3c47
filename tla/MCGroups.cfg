\* The Groups library on its own: four groups, lifetimes that grow and shrink.
SPECIFICATION GroupsSpec
CONSTANTS
    MaxBlock = 5
    None = None
    GroupKeys = {k1, k2, k3, k4}
    Members = {m1}
    Lifetimes <- MCLifetimes
INVARIANTS
    SelectionIsUniform
SYMMETRY KeySymmetry
