SPECIFICATION Spec
CONSTANTS
    Ids = {n1, n2, n3}
    n1 = n1
    n2 = n2
    n3 = n3
    Positions = {p1}
    p1 = p1
    Costs = {c1, c2}
    c1 = c1
    c2 = c2
    MaxEdges = 3
CONSTRAINT FewEdges
VIEW View
SYMMETRY Symmetry
INVARIANT TypeOK
PROPERTY ImplementsMap
