------------------------------ MODULE Discover ------------------------------
(***************************************************************************)
(* discover of ci-discover/src/lib.rs: which of the entries that the       *)
(* directory walker yields are source files, under a DiscoverConfig, with  *)
(* the language that from_path (ci-core/src/language.rs) gives them.       *)
(*                                                                         *)
(* The walker (crate ignore) is external: it yields entries in any order,  *)
(* without those that are ignored or too deep.  A name says whether it     *)
(* starts with a dot, whether it is Unicode, and what is behind its last   *)
(* dot, in lower case.                                                     *)
(***************************************************************************)
EXTENDS CoreTypes, FiniteSets

CONSTANTS
  Entries,     \* what the walker may yield
  MaxEntries   \* and how many of them at most

Name == [dot : BOOLEAN, unicode : BOOLEAN, extension : STRING]

\* below is the path behind the root, empty when the root itself is the file;
\* name is the last name of the whole path.
Entry ==
  [type : {"file", "other", "error"}, below : Seq(Name), name : Name]

Config == [skip_hidden : BOOLEAN, skip_dotdirs : BOOLEAN]

VARIABLES
  config,   \* the argument of discover
  pending,  \* what the walker has still to yield
  walked,   \* history: what it has yielded
  found     \* the entries collected; pending is empty before they are used

-----------------------------------------------------------------------------
new == [skip_hidden |-> TRUE, skip_dotdirs |-> TRUE]
include_hidden(c) == [c EXCEPT !.skip_hidden = FALSE, !.skip_dotdirs = FALSE]

\* The two constructors, and the fields set by hand.
Configs == {new, include_hidden(new),
            [new EXCEPT !.skip_hidden = FALSE], [new EXCEPT !.skip_dotdirs = FALSE]}

from_path(name) == IF name.unicode THEN from_extension(name.extension) ELSE {}

entry_to_file(e) == e.type = "file" /\ from_path(e.name) # {}

\* A name that is not Unicode is never taken for a dot name.
StartsWithDot(name) == name.unicode /\ name.dot

\* Variant of Keep: the whole path is looked at and not what is below root.
KeepWholePath(e) ==
  /\ ~(config.skip_hidden /\ StartsWithDot(e.name))
  /\ ~(config.skip_dotdirs /\
         (StartsWithDot(e.name) \/ \E i \in DOMAIN e.below : StartsWithDot(e.below[i])))

Keep(e) ==
  /\ ~(config.skip_hidden /\ StartsWithDot(e.name))
  /\ ~(config.skip_dotdirs /\ \E i \in DOMAIN e.below : StartsWithDot(e.below[i]))

-----------------------------------------------------------------------------
Init ==
  /\ config \in Configs
  /\ pending \in {S \in SUBSET Entries : Cardinality(S) <= MaxEntries}
  /\ walked = {}
  /\ found = {}

\* The walker yields e; an error is dropped, like what is no source file.
Yield(e) ==
  /\ pending' = pending \ {e}
  /\ walked' = walked \cup {e}
  /\ found' = IF e.type # "error" /\ entry_to_file(e) /\ Keep(e) THEN found \cup {e} ELSE found
  /\ UNCHANGED config

Next == \E e \in pending : Yield(e)

Collected == pending = {}

-----------------------------------------------------------------------------
TypeOK ==
  /\ config \in Configs
  /\ pending \subseteq Entries /\ walked \subseteq Entries /\ found \subseteq walked

(* "Skip hidden files" (lib.rs:38), "Skip directories starting with `.`"    *)
(* (lib.rs:40) and "Check only components relative to root" (lib.rs:143):   *)
(* the constructors give what they say.  With skip_dotdirs alone, dot files *)
(* go with the dot directories, except when the root itself is one; with    *)
(* skip_hidden alone, dot directories are searched.  A name that is not     *)
(* Unicode hides nothing.                                                   *)
FoundExact ==
  Collected =>
    \A e \in walked :
      LET dirs == {e.below[i] : i \in 1..(Len(e.below) - 1)}
          InDotDirectory == \E d \in dirs : d.dot /\ d.unicode
          Source == e.type = "file" /\ e.name.unicode /\ from_extension(e.name.extension) # {}
          IsRoot == e.below = <<>>
      IN  e \in found <=>
            /\ Source
            /\ e.name.dot => ~config.skip_hidden /\ (IsRoot \/ ~config.skip_dotdirs)
            /\ InDotDirectory => ~config.skip_dotdirs
=============================================================================
