CONSTANTS
  a = a
  b = b
  Span = Span
  Empty = Empty
  NoName = NoName
  Names <- MCNames
  Nodes <- MCNodes
  Roots <- MCRoots
  Grammar <- AnyTree
  Required <- NoneRequired
  NodeRules <- RustNodeRules
  EdgeRules <- RustEdgeRules
  RootKind <- RustRootKind
  MaxNodes = 5
SPECIFICATION Spec
SYMMETRY WordPermutations
INVARIANTS
  TypeOK
  ScopeMatchesCalls
  NodesExact
  EdgesExact
\* visit of the root returns and the program goes on elsewhere
CHECK_DEADLOCK FALSE
