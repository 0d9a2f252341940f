---------------------------- MODULE MCExtractor ----------------------------
(* Small Rust and Java files for Extractor.  A node of more than one token   *)
(* has the text Span.  The Rust files hold modules, impl blocks of a named   *)
(* and of an unnamed type, functions, calls, paths, fields, bare identifiers *)
(* and one that error recovery made up.                                      *)
EXTENDS Extractor, Specs, TLC

CONSTANTS a, b, Span

Words == {a, b}
MCNames == Words \cup {Span}

Tree(kind, field, typed, token) ==
  [kind |-> kind, named |-> TRUE, leaf |-> FALSE, text |-> Span,
   field |-> field, typed |-> typed, token |-> token]
Token(kind, text) ==
  [kind |-> kind, named |-> TRUE, leaf |-> TRUE, text |-> text,
   field |-> NoName, typed |-> NoName, token |-> ""]

Kinds(nodes) == {n.kind : n \in nodes}

MCRoots == {Tree("source_file", NoName, NoName, "")}

MCNodes ==
  {Tree("mod_item", w, NoName, "identifier") : w \in Words}
    \cup {Tree("impl_item", NoName, w, "type_identifier") : w \in Words}
    \cup {Tree("function_item", w, NoName, "identifier") : w \in Words}
    \cup {Tree("scoped_identifier", w, NoName, "identifier") : w \in Words}
    \cup {Tree(kind, NoName, NoName, "") : kind \in {"impl_item", "call_expression"}}
    \cup {[Tree("{}", NoName, NoName, "") EXCEPT !.named = FALSE]}
    \cup {Token("identifier", w) : w \in Words \cup {Empty}}
    \cup {Token(kind, w) : kind \in {"type_identifier", "field_identifier"}, w \in Words}

\* Any kind within any: more trees than the grammar has.
AnyTree == Kinds(MCRoots \cup MCNodes) \X Kinds(MCNodes)

\* Modules that hold use declarations.  The keywords and brackets are left out.
ModNodes ==
  {Tree("mod_item", w, NoName, "identifier") : w \in Words}
    \cup {Tree(kind, NoName, NoName, "") : kind \in {"declaration_list", "use_declaration"}}
    \cup {Token("identifier", w) : w \in Words}

ModGrammar ==
  {<<"source_file", "mod_item">>, <<"source_file", "use_declaration">>,
   <<"mod_item", "identifier">>, <<"mod_item", "declaration_list">>,
   <<"declaration_list", "mod_item">>, <<"declaration_list", "use_declaration">>,
   <<"use_declaration", "identifier">>}

ModRequired == {<<"use_declaration", "identifier">>}
NoneRequired == {}

RustNodeRules == Rust.node_rules
RustEdgeRules == Rust.edge_rules
RustRootKind == Rust.root_kind

\* Java classes with fields, with and without initializers.  The types, the
\* keywords and the punctuation are left out.
JavaRoots == {Tree("program", NoName, NoName, "")}
JavaNodes ==
  {Tree("class_declaration", w, NoName, "identifier") : w \in Words}
    \cup {Tree(kind, NoName, NoName, "") : kind \in {"class_body", "field_declaration"}}
    \cup {Tree("variable_declarator", w, NoName, "identifier") : w \in Words}
    \cup {[Tree("variable_declarator", w, NoName, "identifier") EXCEPT !.text = w] : w \in Words}
    \cup {Token("identifier", w) : w \in Words}

JavaGrammar ==
  {<<"program", "class_declaration">>, <<"class_declaration", "identifier">>,
   <<"class_declaration", "class_body">>, <<"class_body", "class_declaration">>,
   <<"class_body", "field_declaration">>, <<"field_declaration", "variable_declarator">>,
   <<"variable_declarator", "identifier">>}

JavaRequired ==
  {<<"class_declaration", "class_body">>, <<"field_declaration", "variable_declarator">>}

JavaNodeRules == Java.node_rules
JavaEdgeRules == Java.edge_rules
JavaRootKind == Java.root_kind

WordPermutations == Permutations(Words)

\* The tables of all eight languages fit what Extractor assumes of its rules.
ASSUME TablesFit ==
  \A l \in Registered :
    LET rules == Compiled[l].node_rules
    IN  \A i \in DOMAIN rules : rules[i].scope_anchor => rules[i].ts_kind \notin NameKinds
=============================================================================
