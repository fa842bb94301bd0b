CONSTANT Nodes = {1, 2, 3, 4, 5, 6, 7, 8, 9}
SPECIFICATION Spec
INVARIANT Balanced
PROPERTY ImplementsOrderedSet
