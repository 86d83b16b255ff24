\* Three clients and a table of three: a failed accept() among them makes a
\* fourth registration, which writes over count.
SPECIFICATION Spec
CONSTANTS
    c1 = c1
    c2 = c2
    c3 = c3
    None = None
    Conns <- All
    Fds = {1, 2}
    Capacity = 3
    Cells = 4
    Quota <- OneTalks
SYMMETRY Symmetry
INVARIANTS IndInv NobodyHears SlotsSuffice
CHECK_DEADLOCK FALSE
