----------------------------- MODULE Extractor -----------------------------
(***************************************************************************)
(* Extractor::visit of ci-parser/src/extractor.rs: the recursive walk over *)
(* a syntax tree that interprets the rules of a LanguageSpec, keeps a      *)
(* stack of lexical scopes (ScopeKey, ci-core/src/lang_spec.rs) and        *)
(* appends the graph nodes and edges it finds to one list.                 *)
(*                                                                         *)
(* tree-sitter hands over the tree; here it is chosen node by node, as the *)
(* walk gets to it, among the children that Grammar lets a parent have.  A *)
(* name is a member of Names or Empty, a qualified name the sequence of    *)
(* the names that the separator joins; a name that contains the separator  *)
(* is not told apart.  open is the call stack of visit, seen the part of   *)
(* the tree that was handed over, for the properties.  The bound is        *)
(* MaxNodes; a walk that would need more nodes stops halfway.              *)
(***************************************************************************)
EXTENDS LanguageSpec, FiniteSets

CONSTANTS
  NodeRules, EdgeRules, RootKind,  \* the LanguageSpec
  Names, Empty, NoName,            \* source text; no text at all; None
  Nodes,                           \* what tree-sitter may hand over below the root
  Roots,                           \* and as the root
  Grammar,                         \* the kinds a parent and its child may have,
  Required,                        \* and those of a parent and a child it must have
  MaxNodes                         \* no tree has more nodes

Text == Names \cup {Empty}

\* A node as visit sees it.  field is the text of its "identifier", "name",
\* "type_identifier" or "field" child, typed that of its first
\* type_identifier, and token the kind of the child that has that text.
Node ==
  [kind : STRING, named : BOOLEAN, leaf : BOOLEAN, text : Text,
   field : Names \cup {NoName}, typed : Text \cup {NoName}, token : STRING]

\* The kinds that are names; no specification makes one a scope.
NameKinds == {"identifier", "type_identifier", "scoped_identifier"}

\* The texts that ResolveSpecial takes as they are.
Special == {"super", "self", "Self"}

ASSUME RulesAssumption ==
  /\ NodeRules \in Seq(NodeRule)
  /\ EdgeRules \in Seq(EdgeRule)
  /\ \A i \in DOMAIN NodeRules : NodeRules[i].scope_anchor => NodeRules[i].ts_kind \notin NameKinds
  /\ \A i, j \in DOMAIN NodeRules : NodeRules[i].ts_kind = NodeRules[j].ts_kind => i = j
ASSUME NodesAssumption ==
  /\ Nodes \subseteq Node
  /\ Roots \subseteq Node
  /\ \A r \in Roots : r.named
  /\ \A n \in Nodes \cup Roots : n.typed # NoName => n.kind = "impl_item"  \* nothing else is asked
ASSUME GrammarAssumption == Grammar \subseteq STRING \X STRING /\ Required \subseteq Grammar
ASSUME SentinelAssumption == Empty \notin Names \cup Special /\ NoName \notin Text
ASSUME BoundAssumption == MaxNodes \in Nat \ {0}

VARIABLES
  open,   \* the calls of visit that have not returned, outermost first
  scope,  \* the names of the segments of ScopeKey
  out,    \* the items extracted
  seen    \* every node so far in the order of its visit, with its parent

vars == <<open, scope, out, seen>>

-----------------------------------------------------------------------------
(* LanguageSpec and ScopeKey *)

get_node_rule(kind) == {NodeRules[i] : i \in {j \in DOMAIN NodeRules : NodeRules[j].ts_kind = kind}}

Anchors(kind) == \E r \in get_node_rule(kind) : r.scope_anchor

\* Variant of get_edge_rule: the last rule of the kind.
LastEdgeRule(kind) ==
  LET matches == {j \in DOMAIN EdgeRules : EdgeRules[j].source_kind = kind}
  IN  {EdgeRules[i] : i \in {j \in matches : \A k \in matches : k <= j}}

\* The first rule of the kind: at most one edge for each node.
get_edge_rule(kind) ==
  LET matches == {j \in DOMAIN EdgeRules : EdgeRules[j].source_kind = kind}
  IN  {EdgeRules[i] : i \in {j \in matches : \A k \in matches : j <= k}}

\* Variant of qualify: anonymous segments are kept.
QualifyAll(name) == Append(scope, name)

\* Segments without a name are skipped; name is appended even if empty.
qualify(name) ==
  LET joined[k \in 0..Len(scope)] ==
        IF k = 0 THEN <<>>
        ELSE IF scope[k] = Empty THEN joined[k - 1] ELSE Append(joined[k - 1], scope[k])
  IN  Append(joined[Len(scope)], name)

-----------------------------------------------------------------------------
(* extract_identifier, resolve_target, and what a named node adds to out   *)

extract_identifier(n) ==
  CASE n.field # NoName -> n.field
    [] n.field = NoName /\ n.kind = "impl_item" /\ n.typed # Empty -> n.typed
    [] n.field = NoName /\ n.kind \in NameKinds /\ n.text # Empty -> n.text
    [] OTHER -> NoName

resolve_target(n, pattern) ==
  CASE pattern = "FromNodeText" -> IF n.text = Empty THEN NoName ELSE n.text
    [] pattern = "ResolveSpecial" /\ n.text \in Special -> n.text
    [] OTHER -> extract_identifier(n)

\* The text of the node is its own name.
Suppressed(n) == n.text = extract_identifier(n) /\ n.kind # "field_identifier"

NodeItems(n, pos) ==
  {[item |-> "node", label |-> r.label, pos |-> pos,
    qualified_name |-> qualify(IF extract_identifier(n) = NoName THEN n.text
                               ELSE extract_identifier(n))] :
     r \in {s \in get_node_rule(n.kind) : ~s.skip_node /\ ~Suppressed(n)}}

EdgeItems(n) ==
  IF Suppressed(n) \/ \E s \in get_node_rule(n.kind) : s.skip_edges THEN {}
  ELSE {[item |-> "edge", edge_type |-> r.edge_type, source_qualified |-> qualify(Empty),
         target_qualified |-> resolve_target(n, r.target_pattern)] :
          r \in {s \in get_edge_rule(n.kind) : resolve_target(n, s.target_pattern) # NoName}}

\* At most one item.
Items(set) == IF set = {} THEN <<>> ELSE <<CHOOSE x \in set : TRUE>>

-----------------------------------------------------------------------------
(* The tree, as tree-sitter hands it over                                   *)

Started == seen # <<>>
Top == IF open = <<>> THEN 0 ELSE open[Len(open)].pos

NameOf(n) == IF n.field # NoName THEN n.field ELSE n.typed
HasToken(n) == NameOf(n) # NoName

\* The child that holds the name of a node comes first.
Owes(pos) ==
  pos # 0 /\ HasToken(seen[pos].node) /\ \A i \in DOMAIN seen : seen[i].parent # pos

IsTokenOf(n, p) == n.named /\ n.leaf /\ n.kind = p.token /\ n.text = NameOf(p)

\* A node has the children that its kind requires.
Complete(pos) ==
  \A r \in Required : r[1] = seen[pos].node.kind =>
    \E i \in DOMAIN seen : seen[i].parent = pos /\ seen[i].node.kind = r[2]

HandOver(n) ==
  /\ IF ~Started THEN n \in Roots
     ELSE /\ n \in Nodes /\ Top # 0 /\ ~seen[Top].node.leaf
          /\ <<seen[Top].node.kind, n.kind>> \in Grammar
  /\ Owes(Top) => IsTokenOf(n, seen[Top].node)
  /\ Len(seen) + (IF HasToken(n) THEN 1 ELSE 0) < MaxNodes
  /\ seen' = Append(seen, [node |-> n, parent |-> Top])

-----------------------------------------------------------------------------
Init ==
  /\ open = <<>>
  /\ scope = <<>>
  /\ out = <<>>
  /\ seen = <<>>

\* The call of visit for a token such as a bracket: only its children count.
VisitUnnamed(n) ==
  /\ ~n.named
  /\ HandOver(n)
  /\ open' = Append(open, [pos |-> Len(seen'), is_scope |-> FALSE])
  /\ UNCHANGED <<scope, out>>

\* Variant of Segment: no name stays no name.
SegmentOrNone(n) == extract_identifier(n)

\* What a scope anchor pushes: no name becomes the empty one.
Segment(n) == IF extract_identifier(n) = NoName THEN Empty ELSE extract_identifier(n)

\* The call of visit for a named node, up to the loop over its children.
Visit(n) ==
  /\ n.named
  /\ HandOver(n)
  /\ out' = out \o Items(NodeItems(n, Len(seen'))) \o Items(EdgeItems(n))
  /\ LET is_scope == Anchors(n.kind) /\ n.kind # RootKind
     IN  /\ scope' = IF is_scope THEN Append(scope, Segment(n)) ELSE scope
         /\ open' = Append(open, [pos |-> Len(seen'), is_scope |-> is_scope])

\* Variant of Return: a scope without a name is not popped.
ReturnKeepsAnonymous ==
  /\ open # <<>>
  /\ ~Owes(Top) /\ Complete(Top)
  /\ scope' = IF open[Len(open)].is_scope /\ scope[Len(scope)] # Empty
              THEN SubSeq(scope, 1, Len(scope) - 1) ELSE scope
  /\ open' = SubSeq(open, 1, Len(open) - 1)
  /\ UNCHANGED <<out, seen>>

\* The loop over the children ends, the scope is popped, and visit returns.
Return ==
  /\ open # <<>>
  /\ ~Owes(Top) /\ Complete(Top)
  /\ scope' = IF open[Len(open)].is_scope THEN SubSeq(scope, 1, Len(scope) - 1) ELSE scope
  /\ open' = SubSeq(open, 1, Len(open) - 1)
  /\ UNCHANGED <<out, seen>>

Next ==
  \/ Return
  \/ \E n \in Nodes \cup Roots : Visit(n) \/ VisitUnnamed(n)

Spec == Init /\ [][Next]_vars

-----------------------------------------------------------------------------
QualifiedName == Seq(Text)
Item ==
  [item : {"node"}, label : NodeLabels, pos : Nat \ {0}, qualified_name : QualifiedName]
    \cup [item : {"edge"}, edge_type : EdgeTypes, source_qualified : QualifiedName,
          target_qualified : Text]

TypeOK ==
  /\ seen \in Seq([node : Nodes \cup Roots, parent : Nat])
  /\ open \in Seq([pos : 1..Len(seen), is_scope : BOOLEAN])
  /\ scope \in Seq(Text)
  /\ out \in Seq(Item)

Done == Started /\ open = <<>>

-----------------------------------------------------------------------------
(* What a node is called, and in what scope, from the tree alone            *)

HasName(n) == NameOf(n) \notin {NoName, Empty}

\* The name a node bears; of an identifier, its text.
OwnName(n) == IF HasName(n) THEN NameOf(n) ELSE IF n.kind \in NameKinds THEN n.text ELSE Empty

\* A node that is nothing but a name, its own or that of the node around it.
IsName(n) == n.text # Empty /\ n.text = OwnName(n) /\ n.kind # "field_identifier"

IsAnchor(n) == n.named /\ n.kind # RootKind /\ Anchors(n.kind)

\* The names of the anchors around node i, outermost first.
ScopeNames(i) ==
  LET within[j \in 0..Len(seen)] ==
        IF j = 0 THEN <<>>
        ELSE IF IsAnchor(seen[j].node) /\ HasName(seen[j].node)
             THEN Append(within[seen[j].parent], NameOf(seen[j].node))
             ELSE within[seen[j].parent]
  IN  within[seen[i].parent]

\* The members of the set S of numbers up to n, in their order.
Listed(S, n) ==
  LET listed[k \in 0..n] ==
        IF k = 0 THEN <<>> ELSE IF k \in S THEN Append(listed[k - 1], k) ELSE listed[k - 1]
  IN  listed[n]

\* Where the items of one sort are.
Positions(sort) == Listed({k \in DOMAIN out : out[k].item = sort}, Len(out))

\* How many of the first k calls pushed a segment.
Height(visits, k) == Cardinality({j \in 1..k : visits[j].is_scope})

(* "each scope-anchor node pushes a ScopeSegment onto the stack"            *)
(* (lang_spec.rs:37), and pops it: at every moment the stack holds one      *)
(* segment for each anchor whose visit has not returned, in their order,    *)
(* so that nothing is left of a subtree that was walked, named or not.      *)
ScopeMatchesCalls ==
  /\ Len(scope) = Height(open, Len(open))
  /\ \A k \in DOMAIN open :
       open[k].is_scope => scope[Height(open, k)] = Segment(seen[open[k].pos].node)

\* A named node with a rule that emits, and more than a name.
Declares(i) ==
  LET n == seen[i].node
  IN  n.named /\ ~IsName(n) /\ \E r \in get_node_rule(n.kind) : ~r.skip_node

\* The label that the rule of its kind gives a node.
LabelOf(n) == NodeRules[CHOOSE j \in DOMAIN NodeRules : NodeRules[j].ts_kind = n.kind].label

(* "yielding ExtractedItem values in pre-order" (extractor.rs:4): the nodes *)
(* extracted so far are, in the order of the source and once each, those of *)
(* the nodes visited so far that declare something; each has the label of   *)
(* its rule and is qualified by the named anchors around it, whatever was   *)
(* walked before.                                                           *)
NodesExact ==
  LET nodes == Positions("node")
      expected == Listed({i \in DOMAIN seen : Declares(i)}, Len(seen))
  IN  /\ Len(nodes) = Len(expected)
      /\ \A k \in DOMAIN nodes :
           LET n == seen[expected[k]].node IN
           /\ out[nodes[k]].pos = expected[k] /\ out[nodes[k]].label = LabelOf(n)
           /\ out[nodes[k]].qualified_name =
                Append(ScopeNames(expected[k]), IF HasName(n) THEN NameOf(n) ELSE n.text)

HasRule(n) == \E j \in DOMAIN EdgeRules : EdgeRules[j].source_kind = n.kind

FirstRule(n) ==
  EdgeRules[CHOOSE j \in DOMAIN EdgeRules :
    /\ EdgeRules[j].source_kind = n.kind
    /\ \A k \in 1..(j - 1) : EdgeRules[k].source_kind # n.kind]

\* What the rule takes for the target: all of the text, or the name.
TargetOf(n) ==
  LET pattern == FirstRule(n).target_pattern IN
  IF pattern = "FromNodeText" \/ (pattern = "ResolveSpecial" /\ n.text \in Special)
  THEN n.text ELSE OwnName(n)

\* A named node with a rule and a target, and more than a name.
Links(i) ==
  LET n == seen[i].node
  IN  /\ n.named /\ ~IsName(n) /\ HasRule(n) /\ TargetOf(n) # Empty
      /\ \A r \in get_node_rule(n.kind) : ~r.skip_edges

(* "Returns the first matching rule" (lang_spec.rs:458): the edges so far   *)
(* are, in the order of the source, one for each node visited that has an   *)
(* edge rule and a target: of the type its first rule gives, from the scope *)
(* around the node, to what that rule takes for its target.                 *)
EdgesExact ==
  LET edges == Positions("edge")
      expected == Listed({i \in DOMAIN seen : Links(i)}, Len(seen))
  IN  /\ Len(edges) = Len(expected)
      /\ \A k \in DOMAIN edges :
           LET n == seen[expected[k]].node IN
           /\ out[edges[k]].edge_type = FirstRule(n).edge_type
           /\ out[edges[k]].source_qualified = Append(ScopeNames(expected[k]), Empty)
           /\ out[edges[k]].target_qualified = TargetOf(n)

(* "Fully qualified name of the source node" (lang_spec.rs:234): an edge    *)
(* extracted inside a named scope starts at a node of the extraction.       *)
EdgeSourcesAreNodes ==
  Done => \A i \in DOMAIN out :
            out[i].item = "edge" /\ out[i].source_qualified # <<Empty>> =>
              \E j \in DOMAIN out : out[j].item = "node" /\ out[j].qualified_name = out[i].source_qualified

(* "The parent already emits the qualified name" (extractor.rs:84), and, of *)
(* Java, "Suppression handles the case where the parent already emitted"    *)
(* (specs/java.rs:76): a node that names itself by a child and has a rule   *)
(* that emits is suppressed only where its name is extracted all the same.  *)
DeclaredNamesExtracted ==
  Done => \A i \in DOMAIN seen :
            /\ seen[i].node.named /\ seen[i].node.field # NoName
            /\ \E r \in get_node_rule(seen[i].node.kind) : ~r.skip_node
            => \E j \in DOMAIN out :
                 out[j].item = "node" /\ out[j].qualified_name = Append(ScopeNames(i), seen[i].node.field)
=============================================================================
