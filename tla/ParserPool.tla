----------------------------- MODULE ParserPool -----------------------------
(***************************************************************************)
(* ParserPool of ci-parser/src/pool.rs: each thread keeps a map from       *)
(* languages to parsers, filled on first use, and get_parser_mut hands out *)
(* a `&'static mut` to a parser in it that lives across the call of parse. *)
(* The map is thread-local, so that no step of another thread falls inside *)
(* get_parser_mut; the use of the reference is a step of its own.          *)
(* tree-sitter is external: it accepts every grammar there is, and may     *)
(* give a tree or none.                                                    *)
(***************************************************************************)
EXTENDS CoreTypes, FiniteSets

CONSTANT Threads

VARIABLES
  call,      \* what each thread is in, shared with the callers of other components
  parsers,   \* PARSERS: for each thread, the grammar each cached parser is set to
  used       \* history: the languages parsed by each thread since its last clear_cache

Idle == [op |-> "idle"]

\* ParserPool::parse, which the function parse calls on the pool of the thread,
\* and parse_result.
Functions == {"parse", "parse_result"}

\* What they return for a language without a grammar, and without a tree.
NoGrammar(fn) == IF fn = "parse" THEN "None" ELSE "Unsupported"
NoTree(fn) == IF fn = "parse" THEN "None" ELSE "ParseFailed"

Calls ==
  {Idle} \cup [op : {"parse"}, fn : Functions, lang : Languages]
    \cup [op : {"parsed"}, lang : Languages, result : {"tree", "None", "Unsupported", "ParseFailed"}]

\* The languages with a grammar.  get_language has no arm for a language whose
\* feature is off, so that every build that compiles has all of them.
Grammars == Languages \ {"Toml", "Markdown", "Sql", "Unknown"}

-----------------------------------------------------------------------------
Init ==
  /\ parsers = [t \in Threads |-> <<>>]
  /\ used = [t \in Threads |-> {}]

get_language(lang) == {lang} \cap Grammars
is_supported(lang) == get_language(lang) # {}

Cached(t, lang) == lang \in DOMAIN parsers[t]

Asking(t, fn, lang) == call' = [call EXCEPT ![t] = [op |-> "parse", fn |-> fn, lang |-> lang]]
Answering(t, lang, result) ==
  call' = [call EXCEPT ![t] = [op |-> "parsed", lang |-> lang, result |-> result]]

\* get_parser_mut, fast path.
ReuseParser(t, fn, lang) ==
  /\ call[t] = Idle
  /\ Cached(t, lang)
  /\ Asking(t, fn, lang)
  /\ used' = [used EXCEPT ![t] = @ \cup {lang}]
  /\ UNCHANGED parsers

\* get_parser_mut, slow path.
CreateParser(t, fn, lang) ==
  /\ call[t] = Idle
  /\ ~Cached(t, lang)
  /\ \E grammar \in get_language(lang) :
       parsers' = [parsers EXCEPT ![t] =
                     [l \in DOMAIN @ \cup {lang} |-> IF l = lang THEN grammar ELSE @[l]]]
  /\ Asking(t, fn, lang)
  /\ used' = [used EXCEPT ![t] = @ \cup {lang}]

\* Variant of Unsupported: an entry without a parser is reserved first.
ReserveEntry(t, fn, lang) ==
  /\ call[t] = Idle
  /\ ~Cached(t, lang) /\ ~is_supported(lang)
  /\ Answering(t, lang, NoGrammar(fn))
  /\ parsers' = [parsers EXCEPT ![t] =
                   [l \in DOMAIN @ \cup {lang} |-> IF l = lang THEN "None" ELSE @[l]]]
  /\ UNCHANGED used

\* get_parser_mut, slow path without a grammar.
Unsupported(t, fn, lang) ==
  /\ call[t] = Idle
  /\ ~Cached(t, lang) /\ ~is_supported(lang)
  /\ Answering(t, lang, NoGrammar(fn))
  /\ UNCHANGED <<parsers, used>>

\* The parser is used and the reference to it dropped.
Parse(t) ==
  /\ call[t].op = "parse"
  /\ \E result \in {"tree", NoTree(call[t].fn)} : Answering(t, call[t].lang, result)
  /\ UNCHANGED <<parsers, used>>

Answered(t) ==
  /\ call[t].op = "parsed"
  /\ call' = [call EXCEPT ![t] = Idle]
  /\ UNCHANGED <<parsers, used>>

cached_count(t) == Cardinality({lang \in DOMAIN parsers[t] : parsers[t][lang] # "None"})

\* Variant of clear_cache: the parsers of all threads are dropped.
ClearAllCaches(t) ==
  /\ call[t] = Idle
  /\ parsers' = [u \in Threads |-> <<>>]
  /\ used' = [used EXCEPT ![t] = {}]
  /\ UNCHANGED call

clear_cache(t) ==
  /\ call[t] = Idle
  /\ parsers' = [parsers EXCEPT ![t] = <<>>]
  /\ used' = [used EXCEPT ![t] = {}]
  /\ UNCHANGED call

Next(lang) ==
  \E t \in Threads :
    \/ \E fn \in Functions :
         ReuseParser(t, fn, lang) \/ CreateParser(t, fn, lang) \/ Unsupported(t, fn, lang)
    \/ Parse(t) \/ Answered(t) \/ clear_cache(t)

-----------------------------------------------------------------------------
TypeOK ==
  /\ DOMAIN parsers = Threads
  /\ \A t \in Threads :
       DOMAIN parsers[t] \subseteq Languages /\ \A l \in DOMAIN parsers[t] : parsers[t][l] \in Languages
  /\ used \in [Threads -> SUBSET Languages]

(* "points into TLS on the current thread" (pool.rs:131), "at most one      *)
(* `Parser` per language it has ever processed" (pool.rs:9) and "Drops all  *)
(* cached parsers on the current thread" (pool.rs:87): a thread caches, and *)
(* cached_count counts, a parser for each language it parsed since it last  *)
(* cleared its cache and for no other, each set to the grammar of its       *)
(* language; while parse uses a reference, its parser is still there,       *)
(* whatever the other threads do meanwhile; and a language is unsupported   *)
(* if and only if it has no grammar.                                        *)
PoolsIsolated ==
  \A t \in Threads :
    /\ DOMAIN parsers[t] = used[t] /\ cached_count(t) = Cardinality(used[t])
    /\ \A lang \in used[t] : parsers[t][lang] = lang
    /\ call[t].op = "parse" => Cached(t, call[t].lang)
    /\ call[t].op = "parsed" =>
         IF call[t].lang \in Grammars THEN call[t].result # "Unsupported"
         ELSE call[t].result \in {"None", "Unsupported"}
=============================================================================
