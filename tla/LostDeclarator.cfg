CONSTANTS
  a = a
  b = b
  Span = Span
  Empty = Empty
  NoName = NoName
  Names <- MCNames
  Nodes <- JavaNodes
  Roots <- JavaRoots
  Grammar <- JavaGrammar
  Required <- JavaRequired
  NodeRules <- JavaNodeRules
  EdgeRules <- JavaEdgeRules
  RootKind <- JavaRootKind
  MaxNodes = 7
SPECIFICATION Spec
SYMMETRY WordPermutations
INVARIANT
  DeclaredNamesExtracted
\* visit of the root returns and the program goes on elsewhere
CHECK_DEADLOCK FALSE
