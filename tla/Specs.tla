------------------------------- MODULE Specs -------------------------------
(***************************************************************************)
(* The specifications compiled into ci-core, one for each module of        *)
(* ci-core/src/specs, and the set that get_spec registers.                 *)
(***************************************************************************)
EXTENDS LanguageSpec

LOCAL Own == "FromNodeText"
LOCAL Child == "FromChildType"

C == [root_kind |-> "translation_unit",
  node_rules |-> <<
    leaf("declaration", "Variable"), leaf("enum_specifier", "Class"),
    leaf("field_identifier", "Field"), leaf("function_definition", "Function"),
    leaf("identifier", "Variable"), container("struct_specifier", "Class"),
    container("translation_unit", "Namespace"), leaf("type_definition", "TypeAlias"),
    container("union_specifier", "Class")>>,
  edge_rules |-> <<
    calls("call_expression", Own), calls("identifier", Own),
    uses("type_identifier", Own), uses("field_declaration", Own)>>]

Cpp == [root_kind |-> "translation_unit",
  node_rules |-> <<
    container("class_specifier", "Class"), leaf("enum_specifier", "Class"),
    leaf("field_identifier", "Field"), leaf("function_definition", "Function"),
    leaf("identifier", "Variable"), container("namespace_definition", "Namespace"),
    container("struct_specifier", "Class"), container("translation_unit", "Namespace")>>,
  edge_rules |-> <<
    calls("call_expression", Own), calls("identifier", Own),
    inherits("base_class_clause", Child),
    uses("field_declaration", Own), uses("type_identifier", Own)>>]

Go == [root_kind |-> "source_file",
  node_rules |-> <<
    leaf("function_declaration", "Function"), leaf("identifier", "Variable"),
    leaf("import_declaration", "Variable"), leaf("method_declaration", "Method"),
    container("package_clause", "Namespace"), container("source_file", "Namespace"),
    scope_only("type_declaration")>>,
  edge_rules |-> <<
    calls("call_expression", Own), calls("identifier", Own), imports("import_declaration", Own)>>]

Java == [root_kind |-> "program",
  node_rules |-> <<
    container("annotation_type_declaration", "Interface"),
    container("class_declaration", "Class"), container("enum_declaration", "Class"),
    leaf("field_declaration", "Field"), leaf("identifier", "Variable"),
    leaf("import_declaration", "Variable"), container("interface_declaration", "Interface"),
    leaf("method_declaration", "Method"), container("program", "Namespace"),
    container("record_declaration", "Class"), leaf("variable_declarator", "Variable")>>,
  edge_rules |-> <<
    calls("method_invocation", Own), calls("identifier", Own),
    imports("import_declaration", Own), inherits("superclass", Child),
    implements("super_interfaces", Child),
    decorates("annotation", Own), decorates("marker_annotation", Own)>>]

Kotlin == [root_kind |-> "source_file",
  node_rules |-> <<
    leaf("annotation", "Function"), container("class_declaration", "Class"),
    container("companion_object", "Namespace"), leaf("function_declaration", "Function"),
    leaf("identifier", "Variable"), leaf("import", "Variable"),
    container("object_declaration", "Class"), leaf("property_declaration", "Field"),
    container("source_file", "Namespace"), leaf("type_alias", "TypeAlias")>>,
  edge_rules |-> <<
    calls("call_expression", Own), calls("identifier", Own), imports("import", Own),
    decorates("annotation", Own), inherits("delegation_specifiers", Child)>>]

Python == [root_kind |-> "module",
  node_rules |-> <<
    leaf("alias", "Variable"), leaf("assignment", "Variable"),
    container("async_function_definition", "Function"),
    container("class_definition", "Class"), leaf("decorated_definition", "Function"),
    container("function_definition", "Function"), leaf("identifier", "Variable"),
    leaf("import_from_statement", "Variable"), leaf("import_statement", "Variable"),
    container("module", "Namespace"), leaf("type_alias", "TypeAlias")>>,
  edge_rules |-> <<
    calls("attribute", Own), calls("call", Own), calls("identifier", Own),
    imports("dotted_name", Own), imports("import_from_statement", Own),
    imports("import_statement", Own), inherits("argument_list", Own),
    inherits("class_definition", Child), decorates("decorated_definition", Own),
    decorates("identifier", Own)>>]

Rust == [root_kind |-> "source_file",
  node_rules |-> <<
    leaf("const_item", "Variable"), container("enum_item", "Class"),
    leaf("field_identifier", "Field"), leaf("function_item", "Function"),
    leaf("identifier", "Variable"), scope_only("impl_item"),
    container("mod_item", "Namespace"), leaf("scoped_identifier", "Variable"),
    container("source_file", "Namespace"), leaf("static_item", "Variable"),
    container("struct_item", "Class"), container("trait_item", "Trait"),
    leaf("type_alias_item", "TypeAlias"), leaf("type_item", "TypeAlias"),
    container("union_item", "Class")>>,
  edge_rules |-> <<
    calls("call_expression", Own), calls("identifier", Own), calls("scoped_identifier", Own),
    imports("scoped_identifier", Own), imports("use_declaration", Own),
    implements("impl_item", Child), inherits("generic_type", Child),
    inherits("type_identifier", Child), uses("field_identifier", Own),
    uses("generic_type", Child), uses("type_identifier", Own),
    decorates("attribute_item", Own)>>]

TypeScript == [root_kind |-> "program",
  node_rules |-> <<
    container("abstract_class_declaration", "Class"), container("class_declaration", "Class"),
    container("function_declaration", "Function"), leaf("identifier", "Variable"),
    leaf("import_statement", "Variable"), container("interface_declaration", "Interface"),
    container("program", "Namespace"), leaf("property_identifier", "Field"),
    leaf("type_alias_declaration", "TypeAlias")>>,
  edge_rules |-> <<
    calls("call_expression", Own), calls("member_expression", Own), calls("identifier", Own),
    imports("import_statement", Own), inherits("extends_clause", Child),
    inherits("extends_type_clause", Child), implements("implements_clause", Child),
    decorates("decorator", Own)>>]

\* What get_spec inserts for each language.
Compiled ==
  [C |-> C, Cpp |-> Cpp, Go |-> Go, Java |-> Java, Kotlin |-> Kotlin,
   Python |-> Python, Rust |-> Rust, TypeScript |-> TypeScript]

ASSUME SpecsAssumption ==
  DOMAIN Compiled = Registered /\ \A l \in Registered : Compiled[l] \in LanguageSpec

\* What check_sorted requires of a specification, apart from the order: with
\* two rules for one kind the binary search could find either.
OneRulePerKind(spec) ==
  \A i, j \in DOMAIN spec.node_rules :
    spec.node_rules[i].ts_kind = spec.node_rules[j].ts_kind => i = j

ASSUME CheckSortedGuard == \A l \in Registered : OneRulePerKind(Compiled[l])
=============================================================================
