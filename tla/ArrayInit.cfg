CONSTANT Shapes <- MCShapes
SPECIFICATION Spec
INVARIANTS TypeOK PlacedByTheRule SameImage
PROPERTIES Ends
