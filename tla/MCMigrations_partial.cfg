CONSTANTS
    p1 = p1
    p2 = p2
    Procs = {p1, p2}
    Statements <- MCStatements
SPECIFICATION Spec
SYMMETRY Symmetry
INVARIANTS AllOrNothing
