\* Three handles are the fewest in which one handle releases between the
\* onlyOwner() test of a second and its fetch_sub while a third still shares.
SPECIFICATION Spec
CONSTANTS
    Handles = {h1, h2, h3}
    Buffers = {b1, b2, b3, b4}
    Blank = Blank
    Data = {Blank, d1}
    NoBuffer = NoBuffer
SYMMETRY Symmetry
INVARIANTS
    Inv
PROPERTIES
    CopyOnWrite
    OnlyWritesChange
