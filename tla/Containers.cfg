\* The tree's root may be deleted at any time; equal keys and both orders.
SPECIFICATION Spec
CONSTANTS
  Keys = {1, 2}
  Attrs = {1, 2}
  MaxLength = 5
INVARIANTS
  StructureSound
PROPERTIES
  Implements
