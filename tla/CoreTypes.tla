----------------------------- MODULE CoreTypes -----------------------------
(***************************************************************************)
(* The enumerations of ci-core that the rest of the system indexes by      *)
(* (ci-core/src/lib.rs, ci-core/src/language.rs).  An enum whose           *)
(* discriminant is used as an index is a sequence of its variants; the     *)
(* discriminant of a variant is its place in it, counted from zero.        *)
(***************************************************************************)
EXTENDS Integers, Sequences

Variants(enum) == {enum[i] : i \in DOMAIN enum}

NodeLabel == <<"Project", "Package", "Directory", "File", "Class", "Interface", "Trait",
               "Function", "Method", "TypeAlias", "Variable", "Field", "Namespace">>

NodeLabels == Variants(NodeLabel)

LabelCount == 13

\* The guard that the compiler evaluates.
ASSUME LabelCountGuard == Len(NodeLabel) = LabelCount

\* label as usize
Discriminant(label) == CHOOSE i \in 0..(LabelCount - 1) : NodeLabel[i + 1] = label

EdgeTypes == {"Contains", "Calls", "CallsHttp", "Imports", "ReExports", "Inherits",
              "Implements", "Decorates", "Uses", "Tests"}

Language == <<"Rust", "C", "Cpp", "Go", "Java", "Python", "TypeScript", "JavaScript", "CSharp",
              "Swift", "Kotlin", "Ruby", "Scala", "Php", "Shell", "Zig", "Html", "Css", "Json",
              "Yaml", "Toml", "Markdown", "Sql", "Unknown">>

Languages == Variants(Language)

ASSUME LanguageCountGuard == Len(Language) = 24

\* The arms of from_extension, for an extension in lower case.
Extensions ==
  [Shell |-> {"bash", "csh", "ps1", "sh", "zsh"}, C |-> {"c"},
   Cpp |-> {"cc", "cpp", "cxx", "h", "hpp"}, Scala |-> {"clj", "scala"}, CSharp |-> {"cs"},
   Css |-> {"css", "scss"}, Go |-> {"go"}, Html |-> {"htm", "html", "vue"}, Java |-> {"java"},
   JavaScript |-> {"js", "jsx", "mjs"}, Json |-> {"json"}, Kotlin |-> {"kt", "kts"},
   Markdown |-> {"md", "markdown", "txt"}, Php |-> {"php"}, Python |-> {"py"}, Ruby |-> {"rb"},
   Rust |-> {"rs"}, Sql |-> {"sql"}, Swift |-> {"swift"}, Toml |-> {"toml"},
   TypeScript |-> {"ts", "tsx"}, Yaml |-> {"yaml", "yml"}, Zig |-> {"zig"}]

\* Every arm is reachable: no extension stands for two languages.
ASSUME ExtensionsAssumption ==
  /\ DOMAIN Extensions = Languages \ {"Unknown"}
  /\ \A l, m \in DOMAIN Extensions : l # m => Extensions[l] \cap Extensions[m] = {}

\* An Option is a set of at most one value.
from_extension(ext) == {l \in DOMAIN Extensions : ext \in Extensions[l]}
=============================================================================
