------------------------------ MODULE Frontend ------------------------------
(***************************************************************************)
(* Discovery, the parser pools and the specification registry as one       *)
(* program: discover collects the files (it is sequential), then the       *)
(* threads of the parallel iterator it returned work on them.  What they   *)
(* do is the client's: here any calls of parse, get_spec and clear_cache,  *)
(* one at a time on each thread, for the languages of the files found.     *)
(***************************************************************************)
EXTENDS CoreTypes, FiniteSets

CONSTANTS Threads, Entries, MaxEntries, NotSet

VARIABLES config, pending, walked, found, call, parsers, used, SPECS

Walk == INSTANCE Discover
Pool == INSTANCE ParserPool
Registry == INSTANCE SpecRegistry

\* An empty OnceLock is not one that holds the table.
ASSUME NotSetAssumption == NotSet # Registry!Registered

ASSUME EntriesAssumption ==
  /\ IsFiniteSet(Entries) /\ Entries \subseteq Walk!Entry /\ MaxEntries \in Nat
  /\ \A e \in Entries : e.below # <<>> => e.name = e.below[Len(e.below)]

vars == <<config, pending, walked, found, call, parsers, used, SPECS>>

Init ==
  /\ Walk!Init
  /\ Pool!Init
  /\ Registry!Init
  /\ call = [t \in Threads |-> Pool!Idle]

Found == UNION {Walk!from_path(e.name) : e \in found}

Next ==
  \/ Walk!Next /\ UNCHANGED <<call, parsers, used, SPECS>>
  \/ /\ Walk!Collected
     /\ \E lang \in Found : Pool!Next(lang)
     /\ UNCHANGED <<config, pending, walked, found, SPECS>>
  \/ /\ Walk!Collected
     /\ \E lang \in Found : Registry!Next(lang)
     /\ UNCHANGED <<config, pending, walked, found, parsers, used>>

Spec == Init /\ [][Next]_vars

-----------------------------------------------------------------------------
TypeOK ==
  /\ Walk!TypeOK
  /\ Pool!TypeOK
  /\ Registry!TypeOK
  /\ call \in [Threads -> Pool!Calls \cup Registry!Calls]

(* What discover collects, once the threads see it: Discover!FoundExact,    *)
(* for lib.rs:120-159 of ci-discover.                                       *)
FoundExact == Walk!FoundExact

(* The parsers of a thread are its own, and a reference stays valid until   *)
(* its parse is over: ParserPool!PoolsIsolated, for get_parser_mut and      *)
(* clear_cache.                                                             *)
PoolsIsolated == Pool!PoolsIsolated

(* get_spec answers right while threads race to build the registry:         *)
(* SpecRegistry!SpecsRight.                                                 *)
SpecsRight == Registry!SpecsRight
=============================================================================
