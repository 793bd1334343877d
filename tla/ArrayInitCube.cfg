CONSTANT Shapes <- MCCube
SPECIFICATION Spec
INVARIANT OnAnElement
