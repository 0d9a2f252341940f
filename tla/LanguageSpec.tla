---------------------------- MODULE LanguageSpec ----------------------------
(***************************************************************************)
(* The rules that Extractor interprets: NodeRule, EdgeRule and             *)
(* LanguageSpec of ci-core/src/lang_spec.rs with their constructors.  The  *)
(* separator of qualified names is left out: names are sequences here.     *)
(***************************************************************************)
EXTENDS CoreTypes

NodeRule == [ts_kind : STRING, label : NodeLabels, scope_anchor : BOOLEAN,
             skip_edges : BOOLEAN, skip_node : BOOLEAN]

leaf(kind, label) ==
  [ts_kind |-> kind, label |-> label,
   scope_anchor |-> FALSE, skip_edges |-> FALSE, skip_node |-> FALSE]

container(kind, label) == [leaf(kind, label) EXCEPT !.scope_anchor = TRUE]

scope_only(kind) == [container(kind, "Namespace") EXCEPT !.skip_node = TRUE]

TargetPattern == {"FromChildType", "FromNodeText", "ResolveSpecial"}

EdgeRule == [source_kind : STRING, edge_type : EdgeTypes, target_pattern : TargetPattern]

LOCAL Edges(type, kind, pattern) ==
  [source_kind |-> kind, edge_type |-> type, target_pattern |-> pattern]

calls(kind, pattern) == Edges("Calls", kind, pattern)
imports(kind, pattern) == Edges("Imports", kind, pattern)
inherits(kind, pattern) == Edges("Inherits", kind, pattern)
implements(kind, pattern) == Edges("Implements", kind, pattern)
decorates(kind, pattern) == Edges("Decorates", kind, pattern)
uses(kind, pattern) == Edges("Uses", kind, pattern)

LanguageSpec ==
  [root_kind : STRING, node_rules : Seq(NodeRule), edge_rules : Seq(EdgeRule)]

\* The languages that get_spec has a specification for.
Registered == {"C", "Cpp", "Go", "Java", "Kotlin", "Python", "Rust", "TypeScript"}
=============================================================================
