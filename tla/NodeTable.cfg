SPECIFICATION MCSpec
CONSTANTS
    Files = {"file"}
    Dirs = {"directory"}
    Handles = {h1, h2}
    Updaters = {u1, u2}
    Indices = {i1, i2}
    None = None
SYMMETRY Alike
INVARIANTS
    TableInv
    FaultsHaveCauses
