SPECIFICATION Spec
CONSTANTS
  None = None
INVARIANTS TypeOK NothingBroken SchemaOfItsRevisions HeadReachable HeadServesTheCode
