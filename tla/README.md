# Verification of codebase-mem

TLA+ models of the code graph of `codebase-mem`, the TLC runs that check them
on small instances, and TLAPS proofs for every instance. Paths below are
relative to `src/`.

## 1. The system

The repository builds a graph of the symbols of a code base. Four crates have
source; the design document names eight more that do not exist yet
(pipeline, query, storage, protocol, watcher, server, CLI, FFI).

| Component | State | Operations | Correct when |
|---|---|---|---|
| `StringInterner`, `FrozenInterner` (`crates/ci-core/src/interner.rs`) | 16 shards behind poisoning mutexes, each a byte buffer and a map; one merged buffer once frozen | `intern`, `compact`, the `remap` closure, `resolve` | one handle per string and one string per handle under any race; every remapped handle resolves to its string |
| `MutableGraph` (`crates/ci-graph/src/mutable_graph.rs`) | five node columns and three edge columns, each behind its own mutex; two atomic counters | `add_node`, `add_edge`, `into_parts` | a row is what one call added, at the index that call returned |
| `freeze`: adjacency (`crates/ci-graph/src/frozen_graph.rs`) | sorted edges, two compressed sparse row layouts, uninitialized memory | `sort_edges`, `build_forward_csr`, `build_reverse_csr` | unsafe writes stay in bounds and fill everything; the layouts hold exactly the edges |
| `freeze`: secondary indexes (same file) | label bitmaps packed in bytes, name map, file map, bare-name FST with side table | the loops of `freeze`, `build_bare_name_index` | each index answers what a scan of the columns would |
| `FrozenGraph` (same file) | none that changes | the accessors | they read what `freeze` laid out, and nothing else |
| Persistence (`crates/ci-graph/src/persistence.rs`) | a file, a temporary file, the page cache, a mapping | `save`, `load` | readers and crashes see the old or the new whole graph; damage is refused |
| Parser pool (`crates/ci-parser/src/pool.rs`) | a thread-local map of parsers | `parse`, `parse_result`, `cached_count`, `clear_cache` | one live parser per language and thread, no reference outlives its entry |
| Extractor (`crates/ci-parser/src/extractor.rs`, `crates/ci-core/src/lang_spec.rs`) | a scope stack and the items emitted | `visit` | qualified names name the enclosing scopes; no declared name is lost |
| Language specifications (`crates/ci-core/src/specs/`) | none | eight tables of rules | the extractor finds the rule of a kind |
| Specification registry (`crates/ci-core/src/specs/mod.rs`) | a `OnceLock` map | `get_spec` | all threads see one complete registry |
| Discovery (`crates/ci-discover/src/lib.rs`), language table (`crates/ci-core/src/language.rs`) | none | `discover`, `from_path`, `from_extension` | the files that the filters let through, each with its language |
| Identifiers and enums (`crates/ci-core/src/lib.rs`) | none | conversions | a discriminant is an index in range |

How they interact: discovery yields files, the pool parses them, the extractor
turns trees into items, whose strings are interned by many threads; `compact`
consumes the interner; handles are remapped; nodes and edges are added to the
mutable graph; `freeze` consumes it together with the frozen interner; `save`
writes the result and `load` reads it back. Only the benchmark
(`crates/ci-graph/benches/benchmarks.rs:57`) runs that sequence from interning
on, and it adds nodes and edges from a single thread.

What is hard: threads that race inside `intern`, `add_node` and `add_edge`;
locks that are poisoned; 28-bit offsets and 32-bit sums at their limits;
unchecked node identifiers; unsafe writes at computed positions; saves that
fail half way, race one another or are cut off by a crash; a file that changes
while it is mapped; storage that damages a header; a suppression rule that
relies on another node having been emitted. `PROJECT.json` lists each of these
at its line under `hazards`.

## 2. Modules

| Module | Models | Used by |
|---|---|---|
| `CoreTypes` | the enums of ci-core, their counts, and the languages of file extensions | `FreezeParts`, `FrozenGraph`, `LanguageSpec`, `Discover`, `ParserPool`, `Frontend` |
| `MutableGraph` | concurrent construction | `SerialBuild`, `MutableGraphProofs` |
| `RowLog` | abstract: a log of whole rows | `SerialBuild` |
| `SerialBuild` | the same graph when calls do not overlap | `MCMutableGraph`, `SerialBuildProofs` |
| `StringTable` | abstract: one handle per string | `StringInterner` |
| `StringInterner` | sharded interning, compaction, remapping, resolving | `MCStringInterner`, `StringInternerProofs` |
| `FreezeParts` | what the halves of `freeze` share: its inputs and the loop it is in | `CsrBuild`, `FreezeIndexes` |
| `CsrBuild` | the edge part of `freeze` | `Freeze` |
| `FreezeIndexes` | the index part of `freeze` | `Freeze` |
| `FrozenGraph` | the accessors of the frozen graph | `Freeze` |
| `GraphStore` | abstract: freezing in one step | `Freeze` |
| `Freeze` | the two halves one after the other, and the graph they make | `MCFreeze`, `FreezeProofs`, `FreezeIndexProofs` |
| `LanguageSpec` | rules and their constructors | `Specs`, `Extractor`, `SpecRegistry` |
| `Specs` | the eight tables of rules, as data | `MCExtractor` |
| `Extractor` | the walk of `visit` over a syntax tree | `MCExtractor`, `ExtractorProofs` |
| `Discover` | the filters of `discover` | `Frontend` |
| `ParserPool` | the parser cache of each thread | `Frontend` |
| `SpecRegistry` | the specification table behind a `OnceLock` | `Frontend` |
| `Frontend` | the three as one program | `MCFrontend`, `FrontendProofs` |
| `AtomicFile` | abstract: files that change in one step | `GraphFile` |
| `GraphFile` | `save` and `load` over a caching file system | `MCGraphFile`, `GraphFileProofs` |

A module named `...Proofs` extends the component it proves something about; a
module named `MC...` gives its constants small values. An operator whose comment
begins "Variant of" is a plausible mistake in the definition it precedes. No
specification uses these operators: each shows that a property can tell the
code from a wrong one.

### MutableGraph

`column` holds the eight vectors, `nextId` the two counters, `call` the
arguments, the identifier and the next statement of the call each thread is
in. `Claim` is the `fetch_add`; `Push` is one `lock().push()`. No lock spans
two pushes, so a push is atomic and calls interleave anywhere between pushes.
`fetch_add` is relaxed, but it is a single atomic read-modify-write, and the
values pushed are ordered by the mutexes. `Freeze` needs the graph by value:
the borrow checker lets it start only when no call is left (`Quiet`).
`returned` is history.

What holds for concurrent callers is less than the documentation says.
Columns keep the right multisets, counters match, identifiers are unique; but
rows tear (run `TornRow`). `SerialBuild` adds the discipline of the benchmark
and gets whole rows back: it implements `RowLog`. The row counts from the push
into the last column on; rows that are partly pushed are invisible.

### StringInterner

One action for each step between lock and unlock. The lock is a real one
(`holder`), because a panic under it poisons the shard. A buffer is its length
and its records `<<string, offset>>`; `Resolve` reads the record that starts at
an offset, and nothing otherwise, so a wrong offset cannot resolve by luck.
`ShardOf` is an arbitrary function, as the hash is. A sum that does not fit 32
bits either wraps (`AddOffset`) or panics (`OffsetOverflows`): the build
decides. `compact` takes the interner by value, so no thread is inside
`intern`; a thread that panicked has left it.

### Freeze: CsrBuild, FreezeIndexes, FrozenGraph

`phase` names the loop that `freeze` is in and `next` the place of its next
iteration; every loop takes one step for each iteration. `Freeze` runs the
steps of `CsrBuild`, then those of `FreezeIndexes`, then `Assemble`, which
moves what was built into `frozen`. What callers may rely on is stated of
`frozen`, through the accessors of `FrozenGraph`; what the unsafe code relies
on is stated of the loops. `node_count` of a graph is at most `IdSpace`, the
number of values of a `u32`, and an index of a node becomes an identifier as
`idx as u32` does (`NodeId`, modulo `IdSpace`).

The inputs are any edges, since `add_edge` checks nothing. `SortEdges` is the
stable sort. `slots` starts as `Uninit` everywhere, which stands for the
`MaybeUninit` vectors; the code only has them from `build_reverse_csr` on, and
no earlier step touches them. Release and debug builds agree here: the index
into `in_counts` is always checked. The packed label index keeps its length and
the offset, size and contents of every block, so that the walk of
`nodes_with_label` has to find the blocks by their sizes. The bare-name index
is the sorted pairs, the groups and the keys given to the FST builder, which
refuses a key that is not greater than the last. `Resolve` is defined on the
handles that the frozen interner holds; a node named by another handle makes
`freeze` panic before it sorts the names (`ResolvePanics`). The debug assertion
of `edge_count` is the operator `edge_count_asserted`, and `EdgeCountExact` says
when it fails.

`GraphStore` is the promise: in one step the graph becomes a store with every
row, and with every edge out of its source and into its target as often as it
was added, or freezing panics because a target names no node or because a name
cannot be resolved. The refinement
maps `frozen` to what its accessors answer for each node.

### GraphFile

`cache` and `names` are what processes see; `disk` and `diskNames` are what a
crash leaves. `Write` puts one block at the saver's own position in whichever
file its descriptor names, `Sync` flushes that file, `Rename` moves the name.
The kernel may write back any subset of the blocks (`WriteBack`) and the
directory (`WriteBackNames`) at any time. `Fail` is an error of any call, or
the death of the process: both leave what was written. `load` reads a mapping
that shows the file as it is at each of its reads; touching what the file has
lost kills the process. Opening a path that does not exist changes nothing and
is left out.

A block knows the graph it belongs to and the bytes of it that storage has
damaged (`rot`). The header is the first block. `Layout` says which bytes
`to_bytes` gives to each field and `ReadLayout` which bytes `from_bytes` reads
it from, so that a field read from the wrong place is a field whose damage is
reported under another name, or not at all. `claim` is what a damaged
`payload_len` reads as: shorter or longer than the payload, or so large that
`payload_end` overflows. `Validate` compares the fields in the order of
`validate` and stops at the first that differs. Checksums have no collisions,
and bytes that fail the checksum could deserialize into anything (`wrong`).
`Rot` damages a file that no reader has mapped: the pages of a mapping stay as
they were read. A loaded graph is an owned copy, so nothing that happens to the
file later reaches its accessors.

### Extractor, LanguageSpec, Specs

tree-sitter is external: `Nodes` is what it may hand over, and the tree is
chosen as the walk goes (`HandOver`), so that every tree within the bound is
walked that fits `Grammar` (which kinds a kind may hold) and `Required` (which
kinds it must hold one of). The run `Extractor` lets any kind hold any, which is
more than the grammar of Rust allows and covers all that it does, for the node
shapes listed. The violated runs use grammars of their own, modules with `use`
declarations and Java classes with fields, so that their traces are trees of
real files; types, keywords and punctuation are left out. A node carries what `visit` asks of it: its kind, its text, and the
text its name fields or its first `type_identifier` give, which a later child
must then hold. `open` is the call stack of `visit`; `Visit` is the call up to
its loop over the children, `Return` what follows the loop. `out` is the list
of items; a node keeps its place in the order of visits instead of its bytes,
line and column. `seen` is history, the tree so far. The rules are constants:
`Specs` holds the eight tables that are compiled in, written with the
constructors of `LanguageSpec`, and the runs walk trees of Rust and of Java.
In Rust, identifiers are always suppressed, so their node and edge rules never
apply; identifiers of no text, which error recovery makes up, are extracted
with an empty name.

### Discover, ParserPool, SpecRegistry, Frontend

`Frontend` composes what runs before extraction: `discover` collects its files
on one thread, and the threads of the parallel iterator it returns then make
any calls of `parse`, `parse_result`, `cached_count`, `clear_cache` and
`get_spec`, one at a time each (`call` is shared by the two components), for
the languages of the files found. The closure is the client's; the repository
has none.

`Discover` takes the entries of the external walker one by one (`Yield`),
through `entry_to_file` and the two dot filters (`Keep`). A name is whether it
starts with a dot, whether it is Unicode, and its extension, whose language
`from_extension` gives. `ParserPool!parsers` is the thread-local map; the two
paths of `get_parser_mut` are `ReuseParser` and `CreateParser`, and the
reference they hand out is in use until `Parse`. The languages with a grammar
are all but `Toml`, `Markdown`, `Sql` and `Unknown`: the `match` of
`get_language` (`crates/ci-parser/src/grammar.rs:19`) has no arm for a language
whose feature is off, so a build without one does not compile. `SpecRegistry` tests, fills and
publishes the table in separate steps.

## 3. Runs

| Run | Question | Bounds |
|---|---|---|
| `MutableGraphConcurrent` | what survives two threads adding nodes and edges at once | 2 threads, 2 nodes, 2 edges; calls in flight may exceed them by one per thread |
| `SerialBuild` | does the graph, built serially, implement `RowLog` | the same |
| `TornRow` (violated) | `mutable_graph.rs:16`, `:155`: calls may overlap, and each column is in identifier order | the same |
| `StringInterner` | races, full and poisoned shards, compaction, refinement, the release of every lock | 2 threads, 4 strings, 2 shards of 16 bytes; two strings fill shard 0 exactly, one string fills shard 1 |
| `Freeze` | layouts and indexes against the graph, the refinement of `GraphStore`, the assertion of `edge_count`, the end of every loop | all graphs of up to 2 nodes and 3 edges with endpoints one past the end (two edge types up to 2 edges), and of 3 nodes and 4 edges between nodes; all tables of 2 nodes over 3 labels and 4 names, one of another interner, and of 3 nodes over 2 labels and 3 names, two of which resolve alike, in 2 files; 3 identifiers |
| `GraphFile` | atomicity through failure and crash, whole reads | 2 savers, 2 destinations with one temporary name, 2 saves, 1 crash, payloads of 1 and 2 blocks, 4 inodes |
| `GraphFileRot` | what `load` does with damage | 2 damaged blocks, each header field damaged at its first byte, 1 saver, 1 save, 1 crash, 3 inodes |
| `SharedTmp` (violated) | `persistence.rs:350`: readers never see a partial file | 2 savers, 2 saves, no crash |
| `Extractor` | the items of a walk against the tree that was walked | all trees of up to 5 nodes over the node shapes of a small Rust grammar, 2 words |
| `EdgeSource` (violated) | `lang_spec.rs:234`: qualified name of the source node | all trees of up to 6 nodes of modules and `use` declarations |
| `LostDeclarator` (violated) | `extractor.rs:84`, `java.rs:76`: what is suppressed was emitted by its parent | all trees of up to 7 nodes of Java classes and fields |
| `Frontend` | filters against the documented switches; isolation of the caches; racing to build the registry | 2 threads, any 2 of 12 kinds of entry, 4 configurations, languages with a grammar and a specification, with a grammar only and with neither |

Why the bounds are enough. Tearing needs two calls and two columns; a third
thread adds interleavings of the same pairs. The counter of the passing runs
is larger than the rows can reach, as it is for any graph of fewer than 2^32
nodes. The interner's shards are small enough to be filled to the last byte,
so the boundary `offset + 4 + len <= MAX_SHARD_BYTES` and the sum of all
shards at exactly 2^32 occur. Three nodes and four edges contain empty rows at
the start, in the middle and at the end, parallel edges and self-loops; the
smaller graphs add both kinds of dangling endpoint. The labels of the tables
are the first, the last and one between, so the walk over the bitmaps starts at
a full, at an empty and after an empty block. Two saves let a leftover
temporary file of one be found by the next; four inodes suffice for the old
file, the file a reader keeps open, the name on disk and the new file. Two
damaged blocks are two damaged fields in the headers of two files, or a header
and a payload.

The filters look at one entry at a time; the second entry is there for two
languages in one cache. Five tree nodes are two named scopes, one in the other,
or a named scope with an item or an anonymous scope in it and something after
it.

Deadlock is not checked in any run: each model ends where the code returns,
where the input is consumed, or where the allowed saves run out.

Fairness. `StringInterner!FairSpec` is weak fairness of each thread's steps
inside `intern`: a running thread goes on. No fairness is assumed between the
waiters of a mutex, and none for starting a call; the property is therefore
about threads that hold the lock. No other specification states fairness.
`freeze` is one sequential call, and that its loops end is an action property,
`EveryLoopEnds`: a measure of what is left of the loop falls with every step.

## 4. What the violated runs show

* `TornRow`. Two `add_edge` calls, of an edge 0 to 1 of type `Calls` and of one
  from 1 to 0 of type `Uses`, push their endpoints in one order and their types
  in the other. Both return, the graph is frozen, and its edges are 0 to 1 of
  type `Uses` and 1 to 0 of type `Calls`, which nobody added. `add_node` pushes
  its five columns in the same way. The concurrent tests
  (`crates/ci-graph/src/lib.rs:306`) compare lengths, which
  `CountersCoverColumns` shows to be right.
* `SharedTmp`. Two savers of one destination. One renames the file the other
  has just truncated. Serialized by temporary name, saving is atomic
  (`GraphFile`).
* `EdgeSource`. `mod foo { use x; }` gives a node `foo` and an edge from
  `foo::`. `EdgesExact` says what the code does: an edge starts at the scope
  around its node, with an empty name appended.
* `LostDeclarator`. `class A { int x; }` gives no node named `x`. The text of a
  declarator without initializer is its name, so `visit` suppresses it as
  something its parent emitted; its parent, a `field_declaration`, has no name
  field and is emitted under its whole text, and the identifier below is
  suppressed in turn. The tree of the trace is `program`, `class_declaration`,
  `class_body`, `field_declaration`, `variable_declarator`, `identifier`.

Disagreements between code and documentation without a run of their own:

* `frozen_graph.rs:450` says that the sentinel of the forward offsets is the
  number of edges, and `edge_count` asserts it (`frozen_graph.rs:114`). An edge
  from a source that is no node is laid out after the last node's rows; the rows
  of real nodes stay exact (`ForwardRowsExact`), but the sentinel does not count
  it: `freeze` succeeds, and `edge_count` of the frozen graph panics where debug
  assertions are compiled in and is right where they are not
  (`EdgeCountExact`). A bad target panics in `freeze` (`NoDanglingTarget`).
* A name handle of another interner makes `freeze` panic
  (`frozen_graph.rs:571`) when it points past the buffer; when it does not, it
  reads some other string, which the model does not distinguish from a name.
* `frozen_graph.rs:338` says that `freeze` panics past `u32::MAX` nodes, and
  `mutable_graph.rs:83` that `add_node` does. `idx as u32` truncates and
  `fetch_add` wraps, both silently. A graph of more than 2^32 nodes is
  outside the model of `freeze` (`IdSpaceAssumption`), and so is one of 2^32
  edges: the offsets of the model have no width, where `targets.len() as u32`
  (`frozen_graph.rs:468`) truncates.
* A `payload_len` near 2^64 overflows `payload_end` (`persistence.rs:306`):
  where overflow is checked, `load` panics instead of reporting damage.
  `ErrorsNameDamage` allows the panic for that damage only.
* `validate` ignores the second reserved field, where `persistence.rs:38` says
  that it must be 0. `WrongGraphNeverLoaded` says that this is the one damage a
  loaded graph may come from.
* `skip_dotdirs` drops dot files too, `skip_hidden` or not, where
  `ci-discover/src/lib.rs:40` speaks of directories; `FoundExact` says what it
  does.
* `ci-parser/src/lib.rs:70` speaks of a process-wide pool behind a mutex; the
  pool is thread-local.
* `rust.rs:19` says that a function inside an `impl` is labelled `Method`; no
  code does that. `python.rs:22` says that base classes are inherited from, but
  the rule of `class_definition` (`python.rs:63`) makes the class its own
  target. `typescript.rs:65` relies on a suppression of `property_identifier`
  that `visit` does not have.
* `lang_spec.rs:329` says that the target of `use foo::bar;` is "bar", and `:332`
  that `super` resolves to the enclosing type. The code takes the whole text of
  the node, `use foo::bar;` itself, and keeps `super` as it is; `EdgesExact` says
  what the code does.
* `ci-parser/Cargo.toml:13` says that all grammars are optional, and
  `grammar.rs:10` that a language whose feature is off has none. The `match`
  below it has no other arm for such a language, so it does not compile.
* `EdgeType::ReExports` prints as `REEXPORTS` where `ci-core/src/lib.rs:236`
  promises SCREAMING_SNAKE_CASE.

## 5. Proofs

Every invariant and action property that a passing run checks, and every
refinement, is also proved,
for all values of the constants up to the assumptions in the modules: any number
of threads, rows, edges, strings, files and tree nodes. Where a theorem needs
more than those assumptions, it says so in its `ASSUME`: `NoWrap` and
`MaxRows < IdSpace` for the counters of the graph under construction, and
`MaxRot = 0` for the two results about readers and atomic replacement.

**`MutableGraphProofs`** proves `TypeOK` of `Spec`, then `CountersCoverColumns`,
`IdsUnique` and `NothingLostOrInvented` under the hypothesis that the counters
do not wrap, stated as the assumption `NoWrap` on the constants: the rows
allowed and one call in flight per thread fit the identifiers. The first two are
proved together (`CountInv`): that a new identifier is fresh needs a bound on
every identifier handed out, which the counter gives. The third counts, for each
column and value, the places of the value (`Places`) against the calls that put
it there (`Givers`). A push adds one of each, and the caller is a giver that was
not there before because its identifier is its own; without `IdsUnique` two
equal calls would be one giver with two places.

**`SerialBuildProofs`** proves `RowsIntact` and the refinement of `RowLog` for any
number of callers and rows with `MaxRows < IdSpace`. The inductive invariant
(`SerialInv`) says what the code never writes down: at most one call is in
progress; columns before its next push hold one row more than the others; the
identifier it carries is the number of complete rows; every complete row was
returned by some call under its index. `RowsIntact` alone is not inductive, as
it says nothing of the row that is being pushed. For the refinement, a push
into the last column is `RowLog!Add`, a return is `Acknowledge`, `Freeze` is
`Close`, and everything else stutters.

**`StringInternerProofs`** proves every invariant of the interner and its
refinement of `StringTable`. Handles are a mixed-radix number of shard and
offset (`Row`), so equal handles mean equal shards and equal offsets.
`InternInv` gives each shard its records, disjoint and within its buffer, and
each thread inside `intern` what it has found so far: the lock makes a miss
remain a miss until the string is inserted. `LayoutInv` says how far `compact`
has got: prefix sums that grow with the shards, and a merged buffer that holds
the records of the shards before `index`, each moved by the start of its shard.
`PanicInv` adds that nobody is inside a poisoned shard, so that the shard stays
too full for the string that poisoned it.

**`FreezeProofs`** proves `ForwardRowsExact`, `EdgeCountExact`,
`SlotsWrittenOnce`, `NoDanglingTarget` and `ReverseRowsExact` for any graph,
dangling endpoints included; the sentinel is the number of edges where every
source is a node. `FwdInv` is the loop invariant of the forward pass: the rows before
`current` are closed, and an edge lies before `offsets[n]` exactly when its
source is smaller than n. `SentinelInv` adds that the pass closes no row beyond
the nodes and the largest source (`Reached`), hence the last offset is the number
of edges, or leaves out the edges of the largest source if that lies beyond the
nodes. `RevInv` is that of the counting sort: after the
counts and the prefix sums, `writePos[n]` is the number of edges that go before
the next edge into n, either because their target is smaller or because they
were placed already (`Ahead`). Two edges differ in that number, hence every
write is to a fresh slot; as many writes as slots leave no slot unwritten.
`RowsPlacedInv` adds which edge went where: each edge placed is in the slot its
rank gives (`Filled`), and a row starts at the number of edges with a smaller
target, so the i-th edge into n is the i-th entry of the row of n.

**`FreezeIndexProofs`** proves the properties of the indexes, the type invariant
of `Freeze` and the refinement.

* `HighestNodeWins` from `QnInv`: the map holds the highest node below `next` of
  each name.
* `FilesPartitionNodes` from `FilesInv`: the list of each file holds the nodes
  below `next` that are in it, ascending.
* `LabelWalkExact` from `LabelsInv`: the bitmap of a label is the set of its
  nodes, and the packed index is a chain of blocks, each behind its size and at
  the end of the one before (`PackedAt`). The walk of `nodes_with_label` is a
  recursive function; `WalkEnds` shows by induction over the blocks that it
  arrives at block l after l of them.
* `KeysAscend` from `KeysInv`, and `BareNamesExact` from `BareInv`: the sorted
  pairs name every node; the key of the open group is larger than the last key
  accepted; every pair consumed is in the open group or in the side table, under
  the key its name resolves to; entry t of the FST points to slot t. `KeysInv`
  also carries that every name resolves from the sort on, so that `freeze` panics
  over a dangling target or an unknown name and over nothing else.
* `EveryLoopEnds` from `OpenedInv`: a group is opened at a node that joins it, so
  that the inner loop over a group takes a node before it ends. With the bound of
  the forward pass on the rows it closes, a measure falls with every step.
* `TypeOK` from `TypesInv`, which rests on the above: that a list under
  construction holds nodes is part of what it must hold.
* `ImplementsGraphStore`: `Assemble` is `GraphStore!Freeze`, a panic is its
  other outcome, and every other step stutters. The sort changes the sequence of
  edges and not the bag (`SortKeepsBag`); that a row of the arrays is the bag of
  the edges of its node is a bijection between the places of the row and the
  edges (`EndsBag`), taken from `ForwardRowsExact` and `RowsPlacedInv`
  (`PromisedInv`).

**`FrontendProofs`** proves `PoolsIsolated` (`PoolInv`: a thread's cache is what
it parsed, under the right grammar, and an entry in use stays), `SpecsRight`
(`RegistryInv`: the `OnceLock` is empty or holds the whole table, and nobody
reads it while it is empty), `FoundExact` (`FoundInv`: what is found is what
the filters let through of what was walked; `DotNames` relates the filters to
the dot names of a path) and `TypeOK`, across the components that share `call`
(`CallsInv`).

**`ExtractorProofs`** proves all of `Extractor`, for any rules, any nodes and trees
of any size. `ScopeMatchesCalls` is an argument about heights (`ScopeInv`):
`Height(open, k)` is the number of segments that the outermost k calls pushed. A
call that is entered leaves the heights below it alone and is the only one at
its own (`Enter`); a call that returns takes off the segment at its own height,
which no other call can own because heights grow with the calls (`Leave`,
`HeightMonotone`). `PathInv` says that the calls of `visit` are a path of the
tree, so the text that `qualify` joins from the scope stack is that of the
anchors around the node, found by going up its parents (`JoinedIsWithin`); this
is where a leftover or missing segment would show. `ItemInv` then matches items
with nodes: after each visit the items of either sort are, in order and one for
one, those that the nodes visited so far call for (`Agrees`). `NodesExact` and
`EdgesExact` follow at every moment of the walk, not only at its end. That no
name kind is a scope anchor is an assumption on the rules; `MCExtractor` checks
it of all eight tables.

**`GraphFileProofs`** proves five results, for any number of savers, readers,
destinations, files and crashes. `TypeOK` holds of every schedule (`TypeInv`).
The others are about `SerialSpec`, where the savers of one temporary name take
turns; `SharedTmp` shows why. `NamesInv` is about names only: a temporary file
is named by nothing else, in memory or on disk, no reader has it mapped, and
the file a saver writes is the one its temporary name leads to. `FilesInv` adds
contents: every file that a destination names, now or after a crash, and every
mapped file holds one whole graph in memory and on disk; this is where `Sync`
before `Rename` is needed. From it follow `ReadersSeeWholeFiles` and the
refinement of `AtomicFile`, both where storage damages nothing (`MaxRot = 0`).
`DamageInv` carries what each check of `load` has established to the point
where the graph is returned, and gives `WrongGraphNeverLoaded` for any damage.
`ImageInv` is `FilesInv` with damage allowed: the same files hold every block of
one graph in its place, where a block that is not as it was saved has damaged
bytes, also while the file is being written, and a reader that gave up has its
reason in the file it mapped. It gives `ErrorsNameDamage`, and with it that
failures of `save`, late writes and crashes alone never make a `load` fail.

Induction. The provers cannot use the library's induction theorems, which take
an operator as a parameter. Where a recursive function had to be reasoned about
(the joined names, the scopes around a node, the list of the nodes that call for
an item, the walk over the label blocks), the modules prove the induction they
need from the well-foundedness of strict inclusion of finite sets (`Induct`),
and with it, in `ExtractorProofs`, that the function exists (`CanBeMade`) and
that two functions which take the same steps agree (`Agree`).

Model-checked only:

* Liveness, which needs fairness and ENABLED: `LocksReleased`.
* The violated runs of section 4, which are counterexamples.
* The data of the eight tables in `Specs`, which the assumptions there check.

## 6. Plan

1. A pipeline from interning to loading in which handles are remapped, or not,
   before the nodes are added: today nothing in the code checks that the handles
   of a graph are those of the frozen interner it is frozen with.
2. Proofs: that the names a frozen graph was given are the strings that were
   interned, once that pipeline is there, from the refinements of `StringTable`
   and `GraphStore`.

## 7. Not modelled

* The formats of rkyv, roaring and FST bytes; the hash of the interner;
  checksums, which have no collisions here.
* tree-sitter and the `ignore` walker, which are external: `Extractor` and
  `Discover` take any tree and any entries within their bounds.
* `load_from`, which reads a window of a file the caller manages, and
  `serialized_size`, which repeats the serialization of `save`.
* The accessors that clone a column of a graph under construction, which only
  tests call; conversions between identifiers and the integers they wrap;
  `Display`, logging and formatting.
* The depth of the call stack of `visit`: a source nested deeply enough
  overflows it, where the model has no limit.
* The crates that the design document names and the repository does not hold.
