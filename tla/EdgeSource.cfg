CONSTANTS
  a = a
  b = b
  Span = Span
  Empty = Empty
  NoName = NoName
  Names <- MCNames
  Nodes <- ModNodes
  Roots <- MCRoots
  Grammar <- ModGrammar
  Required <- ModRequired
  NodeRules <- RustNodeRules
  EdgeRules <- RustEdgeRules
  RootKind <- RustRootKind
  MaxNodes = 6
SPECIFICATION Spec
SYMMETRY WordPermutations
INVARIANT
  EdgeSourcesAreNodes
\* visit of the root returns and the program goes on elsewhere
CHECK_DEADLOCK FALSE
