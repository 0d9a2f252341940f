--------------------------- MODULE FrontendProofs ---------------------------
(***************************************************************************)
(* Discovery, the parser pools and the specification registry, for any     *)
(* threads and entries.                                                    *)
(***************************************************************************)
EXTENDS Frontend, TLAPS

\* What is true of the cache of a thread and of the parse it is in.
ThreadInv(t) ==
  /\ DOMAIN parsers[t] = used[t]
  /\ used[t] \subseteq Pool!Grammars \cap DOMAIN Extensions
  /\ \A lang \in used[t] : parsers[t][lang] = lang
  /\ call[t].op = "parse" => call[t].lang \in used[t]
  /\ call[t].op = "parsed" =>
       IF call[t].lang \in Pool!Grammars THEN call[t].result # "Unsupported"
       ELSE call[t].result \in {"None", "Unsupported"}

PoolInv ==
  /\ DOMAIN call = Threads /\ DOMAIN parsers = Threads /\ DOMAIN used = Threads
  /\ \A t \in Threads : ThreadInv(t)

LEMMA FoundLanguages == Found \subseteq DOMAIN Extensions
<1>1. Walk!Extensions = Extensions  BY DEF Walk!Extensions, Extensions
<1> QED  BY <1>1 DEF Found, Walk!from_path, Walk!from_extension

LEMMA NoneIsNoLanguage == "None" \notin DOMAIN Extensions
  BY DEF Extensions

LEMMA InitPool == Init => PoolInv
<1> SUFFICES ASSUME Init PROVE PoolInv
  OBVIOUS
<1>1. /\ call = [t \in Threads |-> [op |-> "idle"]]
      /\ parsers = [t \in Threads |-> <<>>] /\ used = [t \in Threads |-> {}]
  BY DEF Init, Pool!Init, Pool!Idle
<1>2. DOMAIN <<>> = {}  OBVIOUS
<1>3. \A t \in Threads : ThreadInv(t)
  BY <1>1, <1>2 DEF ThreadInv
<1> QED  BY <1>1, <1>3 DEF PoolInv

\* A step of thread t that leaves the other threads alone.
StepOf(t) ==
  /\ DOMAIN call' = Threads /\ DOMAIN parsers' = Threads /\ DOMAIN used' = Threads
  /\ \A u \in Threads \ {t} :
       call'[u] = call[u] /\ parsers'[u] = parsers[u] /\ used'[u] = used[u]

LEMMA OthersKeep ==
  ASSUME PoolInv, NEW t \in Threads, StepOf(t), ThreadInv(t)'
  PROVE  PoolInv'
<1>1. \A u \in Threads \ {t} : ThreadInv(u)'
  BY DEF PoolInv, StepOf, ThreadInv
<1> QED  BY <1>1 DEF PoolInv, StepOf

LEMMA PoolStep ==
  ASSUME PoolInv, NEW lang \in DOMAIN Extensions, NEW t \in Threads,
         \/ \E fn \in Pool!Functions :
              Pool!ReuseParser(t, fn, lang) \/ Pool!CreateParser(t, fn, lang)
                \/ Pool!Unsupported(t, fn, lang)
         \/ Pool!Parse(t) \/ Pool!Answered(t) \/ Pool!clear_cache(t)
  PROVE  StepOf(t) /\ ThreadInv(t)'
<1> USE DEF PoolInv, StepOf, ThreadInv, Pool!Asking, Pool!Answering, Pool!Idle, Pool!Cached,
            Pool!get_language, Pool!is_supported, Pool!NoGrammar, Pool!NoTree
<1>1. ASSUME NEW fn, Pool!ReuseParser(t, fn, lang) PROVE StepOf(t) /\ ThreadInv(t)'
  <2>1. /\ lang \in DOMAIN parsers[t] /\ parsers' = parsers
        /\ call' = [call EXCEPT ![t] = [op |-> "parse", fn |-> fn, lang |-> lang]]
        /\ used' = [used EXCEPT ![t] = @ \cup {lang}]
    BY <1>1 DEF Pool!ReuseParser
  <2>2. used'[t] = used[t] /\ call'[t].op = "parse" /\ call'[t].lang = lang
    BY <2>1
  <2>3. StepOf(t)  BY <2>1
  <2>4. ThreadInv(t)'  BY <2>1, <2>2
  <2> QED  BY <2>3, <2>4
<1>2. ASSUME NEW fn, Pool!CreateParser(t, fn, lang) PROVE StepOf(t) /\ ThreadInv(t)'
  BY <1>2 DEF Pool!CreateParser
<1>3. ASSUME NEW fn, Pool!Unsupported(t, fn, lang) PROVE StepOf(t) /\ ThreadInv(t)'
  BY <1>3 DEF Pool!Unsupported
<1>4. CASE Pool!Parse(t)
  BY <1>4 DEF Pool!Parse
<1>5. CASE Pool!Answered(t)
  BY <1>5 DEF Pool!Answered
<1>6. CASE Pool!clear_cache(t)
  BY <1>6 DEF Pool!clear_cache
<1> QED  BY <1>1, <1>2, <1>3, <1>4, <1>5, <1>6

LEMMA RegistryStep ==
  ASSUME PoolInv, UNCHANGED <<parsers, used>>, NEW lang, NEW t \in Threads,
         \/ Registry!TestEmpty(t, lang) \/ Registry!TestFilled(t, lang) \/ Registry!Insert(t)
         \/ Registry!Publish(t) \/ Registry!Read(t) \/ Registry!Return(t)
  PROVE  StepOf(t) /\ ThreadInv(t)'
<1>1. /\ DOMAIN call' = Threads /\ \A u \in Threads \ {t} : call'[u] = call[u]
      /\ call'[t].op \in {"build", "read", "got", "idle"}
  <2> USE DEF PoolInv
  <2>1. CASE Registry!TestEmpty(t, lang)  BY <2>1 DEF Registry!TestEmpty
  <2>2. CASE Registry!TestFilled(t, lang)  BY <2>2 DEF Registry!TestFilled
  <2>3. CASE Registry!Insert(t)  BY <2>3 DEF Registry!Insert
  <2>4. CASE Registry!Publish(t)  BY <2>4 DEF Registry!Publish
  <2>5. CASE Registry!Read(t)  BY <2>5 DEF Registry!Read
  <2>6. CASE Registry!Return(t)  BY <2>6 DEF Registry!Return, Registry!Idle
  <2> QED  BY <2>1, <2>2, <2>3, <2>4, <2>5, <2>6
<1> QED  BY <1>1 DEF PoolInv, StepOf, ThreadInv

LEMMA NextPool == ASSUME PoolInv, [Next]_vars PROVE PoolInv'
<1>1. CASE UNCHANGED <<call, parsers, used>>
  BY <1>1 DEF PoolInv, ThreadInv
<1>2. CASE \E lang \in Found : Pool!Next(lang)
  BY <1>2, FoundLanguages, PoolStep, OthersKeep DEF Pool!Next
<1>3. CASE (\E lang \in Found : Registry!Next(lang)) /\ UNCHANGED <<parsers, used>>
  BY <1>3, RegistryStep, OthersKeep DEF Registry!Next
<1> QED  BY <1>1, <1>2, <1>3 DEF Next, vars

(* Frontend!PoolsIsolated: no thread disturbs the parsers of another, a       *)
(* reference in use stays valid, and the cache holds what was parsed.         *)
THEOREM PoolsIsolatedHolds == Spec => []PoolsIsolated
<1>1. PoolInv => PoolsIsolated
  <2>1. ASSUME PoolInv, NEW t \in Threads
        PROVE  {lang \in DOMAIN parsers[t] : parsers[t][lang] # "None"} = used[t]
    BY <2>1, NoneIsNoLanguage DEF PoolInv, ThreadInv
  <2> QED
    BY <2>1 DEF PoolInv, ThreadInv, PoolsIsolated, Pool!PoolsIsolated, Pool!cached_count, Pool!Cached
<1>2. PoolInv /\ [Next]_vars => PoolInv'  BY NextPool
<1> QED  BY InitPool, <1>1, <1>2, PTL DEF Spec

-----------------------------------------------------------------------------
\* Whichever table was published, it is the whole one, and nobody reads before.
RegistryInv ==
  /\ DOMAIN call = Threads
  /\ SPECS = NotSet \/ SPECS = Registry!Registered
  /\ \A t \in Threads :
       /\ call[t].op = "read" => SPECS # NotSet
       /\ call[t].op = "got" => (call[t].found <=> call[t].lang \in Registry!Registered)

LEMMA InitRegistry == Init => RegistryInv
  BY DEF Init, Registry!Init, Pool!Idle, RegistryInv

LEMMA NextRegistry == ASSUME RegistryInv, [Next]_vars PROVE RegistryInv'
<1>1. CASE UNCHANGED <<call, SPECS>>
  BY <1>1 DEF RegistryInv
<1>2. CASE (\E lang \in Found : Pool!Next(lang)) /\ UNCHANGED SPECS
  <2>1. PICK lang \in Found, t \in Threads :
          \/ \E fn \in Pool!Functions :
               Pool!ReuseParser(t, fn, lang) \/ Pool!CreateParser(t, fn, lang)
                 \/ Pool!Unsupported(t, fn, lang)
          \/ Pool!Parse(t) \/ Pool!Answered(t) \/ Pool!clear_cache(t)
    BY <1>2 DEF Pool!Next
  <2>2. /\ DOMAIN call' = Threads /\ \A u \in Threads \ {t} : call'[u] = call[u]
        /\ call'[t] = call[t] \/ call'[t].op \in {"parse", "parsed", "idle"}
    BY <2>1
    DEF RegistryInv, Pool!ReuseParser, Pool!CreateParser, Pool!Unsupported, Pool!Parse,
        Pool!Answered, Pool!clear_cache, Pool!Asking, Pool!Answering, Pool!Idle
  <2> QED  BY <1>2, <2>2 DEF RegistryInv
<1>3. CASE \E lang \in Found : Registry!Next(lang)
  <2>1. PICK lang \in Found, t \in Threads :
          \/ Registry!TestEmpty(t, lang) \/ Registry!TestFilled(t, lang) \/ Registry!Insert(t)
          \/ Registry!Publish(t) \/ Registry!Read(t) \/ Registry!Return(t)
    BY <1>3 DEF Registry!Next
  <2> USE DEF RegistryInv, Registry!Idle
  <2>2. CASE Registry!TestEmpty(t, lang)  BY <2>2 DEF Registry!TestEmpty
  <2>3. CASE Registry!TestFilled(t, lang)  BY <2>3 DEF Registry!TestFilled
  <2>4. CASE Registry!Insert(t)
    <3>1. /\ DOMAIN call' = Threads /\ \A u \in Threads \ {t} : call'[u] = call[u]
          /\ call'[t].op = "build" /\ SPECS' = SPECS
      BY <2>4 DEF Registry!Insert
    <3> QED  BY <3>1
  <2>5. CASE Registry!Publish(t)  BY <2>5, NotSetAssumption DEF Registry!Publish
  <2>6. CASE Registry!Read(t)  BY <2>6 DEF Registry!Read
  <2>7. CASE Registry!Return(t)  BY <2>7 DEF Registry!Return
  <2> QED  BY <2>1, <2>2, <2>3, <2>4, <2>5, <2>6, <2>7
<1> QED  BY <1>1, <1>2, <1>3 DEF Next, vars

(* Frontend!SpecsRight: get_spec answers right, however many threads found    *)
(* the registry empty.                                                        *)
THEOREM SpecsRightHolds == Spec => []SpecsRight
<1>1. RegistryInv => SpecsRight
  BY DEF RegistryInv, SpecsRight, Registry!SpecsRight
<1>2. RegistryInv /\ [Next]_vars => RegistryInv'  BY NextRegistry
<1> QED  BY InitRegistry, <1>1, <1>2, PTL DEF Spec

-----------------------------------------------------------------------------
(* What is found so far is what the filters let through of what was walked. *)

Passes(e) == e.type # "error" /\ Walk!entry_to_file(e) /\ Walk!Keep(e)

FoundInv ==
  /\ pending \subseteq Entries /\ walked \subseteq Entries
  /\ found = {e \in walked : Passes(e)}

LEMMA InitFound == Init => FoundInv
  BY DEF Init, Walk!Init, FoundInv

LEMMA NextFound == ASSUME FoundInv, [Next]_vars PROVE FoundInv'
<1>1. CASE UNCHANGED <<config, pending, walked, found>>
  BY <1>1 DEF FoundInv, Passes, Walk!Keep, Walk!entry_to_file, Walk!from_path, Walk!StartsWithDot
<1>2. CASE \E e \in pending : Walk!Yield(e)
  <2>1. PICK e \in pending : Walk!Yield(e)  BY <1>2
  <2>2. config' = config  BY <2>1 DEF Walk!Yield
  <2>3. \A f : Passes(f)' <=> Passes(f)
    BY <2>2 DEF Passes, Walk!Keep, Walk!entry_to_file, Walk!from_path, Walk!StartsWithDot
  <2>4. /\ pending' = pending \ {e} /\ walked' = walked \cup {e}
        /\ found' = IF Passes(e) THEN found \cup {e} ELSE found
    BY <2>1 DEF Walk!Yield, Passes
  <2>5. found' = {f \in walked' : Passes(f)}
    BY <2>4 DEF FoundInv
  <2> QED  BY <2>3, <2>4, <2>5 DEF FoundInv
<1> QED  BY <1>1, <1>2 DEF Next, vars, Walk!Next

\* The dot directories of a path are the names before its last one.
LEMMA DotNames ==
  ASSUME NEW e \in Entries, e.name.unicode
  PROVE  LET dirs == {e.below[i] : i \in 1..(Len(e.below) - 1)} IN
         (\E i \in DOMAIN e.below : Walk!StartsWithDot(e.below[i]))
           <=> \/ \E d \in dirs : d.dot /\ d.unicode
               \/ e.below # <<>> /\ e.name.dot
<1>1. e.below \in Seq(Walk!Name)
  BY EntriesAssumption DEF Walk!Entry
<1>2. CASE e.below = <<>>
  BY <1>2
<1>3. CASE e.below # <<>>
  <2>1. e.name = e.below[Len(e.below)] /\ Len(e.below) \in Nat \ {0}
    BY <1>1, <1>3, EntriesAssumption
  <2>2. DOMAIN e.below = 1..(Len(e.below) - 1) \cup {Len(e.below)}
    BY <1>1, <2>1
  <2> QED  BY <1>3, <2>1, <2>2 DEF Walk!StartsWithDot
<1> QED  BY <1>2, <1>3

(* "Skip hidden files" and "Skip directories starting with `.`"             *)
(* (ci-discover/src/lib.rs:38, :40): for any entries, discover collects the *)
(* source files that the documented switches let through.                   *)
THEOREM FoundExactHolds == Spec => []FoundExact
<1>1. ASSUME FoundInv PROVE FoundExact
  <2> SUFFICES ASSUME NEW e \in walked
               PROVE  LET dirs == {e.below[i] : i \in 1..(Len(e.below) - 1)}
                          InDotDirectory == \E d \in dirs : d.dot /\ d.unicode
                          Source == e.type = "file" /\ e.name.unicode
                                      /\ Walk!from_extension(e.name.extension) # {}
                          IsRoot == e.below = <<>>
                      IN  e \in found <=>
                            /\ Source
                            /\ e.name.dot => ~config.skip_hidden /\ (IsRoot \/ ~config.skip_dotdirs)
                            /\ InDotDirectory => ~config.skip_dotdirs
    BY DEF FoundExact, Walk!FoundExact
  <2>1. e \in Entries /\ (e \in found <=> Passes(e))
    BY <1>1 DEF FoundInv
  <2>2. CASE e.name.unicode
    <3>1. Passes(e) <=> /\ e.type = "file" /\ Walk!from_extension(e.name.extension) # {}
                        /\ Walk!Keep(e)
      BY <2>2 DEF Passes, Walk!entry_to_file, Walk!from_path
    <3>2. Walk!StartsWithDot(e.name) <=> e.name.dot
      BY <2>2 DEF Walk!StartsWithDot
    <3> QED  BY <2>1, <2>2, <3>1, <3>2, DotNames DEF Walk!Keep
  <2>3. CASE ~e.name.unicode
    BY <2>1, <2>3 DEF Passes, Walk!entry_to_file, Walk!from_path
  <2> QED  BY <2>2, <2>3
<1>2. FoundInv /\ [Next]_vars => FoundInv'  BY NextFound
<1> QED  BY InitFound, <1>1, <1>2, PTL DEF Spec

-----------------------------------------------------------------------------
(* Types, across the three components: they share what each thread is in. *)

AnyCall == Pool!Calls \cup Registry!Calls

CallsInv ==
  /\ call \in [Threads -> AnyCall]
  /\ used \in [Threads -> SUBSET Pool!Languages]

LEMMA SameLanguages ==
  /\ Pool!Languages = Languages /\ Registry!Languages = Languages
  /\ DOMAIN Extensions \subseteq Languages /\ Registry!Registered \subseteq Languages
<1>1. Pool!Languages = Languages
  BY DEF Pool!Languages, Pool!Variants, Pool!Language, Languages, Variants, Language
<1>2. Registry!Languages = Languages
  BY DEF Registry!Languages, Registry!Variants, Registry!Language, Languages, Variants, Language
<1>3. DOMAIN Extensions \subseteq Languages  BY ExtensionsAssumption
<1>4. Registry!Registered \subseteq DOMAIN Extensions
  BY DEF Registry!Registered, Extensions
<1> QED  BY <1>1, <1>2, <1>3, <1>4

\* The calls of the pool and of the registry, told apart by what they do.
LEMMA CallKinds ==
  ASSUME NEW c
  PROVE  c \in AnyCall <=>
           \/ c = [op |-> "idle"]
           \/ c \in [op : {"parse"}, fn : Pool!Functions, lang : Languages]
           \/ c \in [op : {"parsed"}, lang : Languages,
                     result : {"tree", "None", "Unsupported", "ParseFailed"}]
           \/ c \in [op : {"build"}, lang : Languages, table : SUBSET Languages]
           \/ c \in [op : {"read"}, lang : Languages]
           \/ c \in [op : {"got"}, lang : Languages, found : BOOLEAN]
  BY SameLanguages
  DEF AnyCall, Pool!Calls, Registry!Calls, Pool!Idle, Registry!Idle, Registry!Table

\* A call is replaced by another.
LEMMA CallReplaced ==
  ASSUME CallsInv, NEW t \in Threads, NEW c \in AnyCall, call' = [call EXCEPT ![t] = c]
  PROVE  call' \in [Threads -> AnyCall]
  BY DEF CallsInv

LEMMA InitCalls == Init => CallsInv
<1> SUFFICES ASSUME Init PROVE CallsInv
  OBVIOUS
<1>1. Pool!Idle \in AnyCall  BY DEF AnyCall, Pool!Calls
<1> QED  BY <1>1 DEF Init, Pool!Init, CallsInv

LEMMA PoolCalls ==
  ASSUME CallsInv, NEW lang \in Languages, Pool!Next(lang)
  PROVE  CallsInv'
<1>1. PICK t \in Threads :
        \/ \E fn \in Pool!Functions :
             Pool!ReuseParser(t, fn, lang) \/ Pool!CreateParser(t, fn, lang)
               \/ Pool!Unsupported(t, fn, lang)
        \/ Pool!Parse(t) \/ Pool!Answered(t) \/ Pool!clear_cache(t)
  BY DEF Pool!Next
<1>2. lang \in Pool!Languages  BY SameLanguages
<1>3. used' \in [Threads -> SUBSET Pool!Languages]
  <2>1. \/ used' = used \/ used' = [used EXCEPT ![t] = @ \cup {lang}]
        \/ used' = [used EXCEPT ![t] = {}]
    BY <1>1
    DEF Pool!ReuseParser, Pool!CreateParser, Pool!Unsupported, Pool!Parse, Pool!Answered,
        Pool!clear_cache
  <2> QED  BY <1>2, <2>1 DEF CallsInv
<1>4. call[t] \in AnyCall  BY DEF CallsInv
<1>5. CASE \E fn \in Pool!Functions :
             Pool!ReuseParser(t, fn, lang) \/ Pool!CreateParser(t, fn, lang)
  <2>1. PICK fn \in Pool!Functions : call' = [call EXCEPT ![t] = [op |-> "parse", fn |-> fn, lang |-> lang]]
    BY <1>5 DEF Pool!ReuseParser, Pool!CreateParser, Pool!Asking
  <2>2. [op |-> "parse", fn |-> fn, lang |-> lang] \in AnyCall  BY CallKinds
  <2> QED  BY <1>3, <2>1, <2>2, CallReplaced DEF CallsInv
<1>6. CASE \E fn \in Pool!Functions : Pool!Unsupported(t, fn, lang)
  <2>1. PICK fn \in Pool!Functions :
          call' = [call EXCEPT ![t] = [op |-> "parsed", lang |-> lang, result |-> Pool!NoGrammar(fn)]]
    BY <1>6 DEF Pool!Unsupported, Pool!Answering
  <2>2. [op |-> "parsed", lang |-> lang, result |-> Pool!NoGrammar(fn)] \in AnyCall
    BY CallKinds DEF Pool!NoGrammar
  <2> QED  BY <1>3, <2>1, <2>2, CallReplaced DEF CallsInv
<1>7. CASE Pool!Parse(t)
  <2>1. call[t].op = "parse"  BY <1>7 DEF Pool!Parse
  <2>2. call[t].lang \in Languages  BY <1>4, <2>1, CallKinds
  <2>3. PICK result \in {"tree", Pool!NoTree(call[t].fn)} :
          call' = [call EXCEPT ![t] = [op |-> "parsed", lang |-> call[t].lang, result |-> result]]
    BY <1>7 DEF Pool!Parse, Pool!Answering
  <2>4. [op |-> "parsed", lang |-> call[t].lang, result |-> result] \in AnyCall
    BY <2>2, CallKinds DEF Pool!NoTree
  <2> QED  BY <1>3, <2>3, <2>4, CallReplaced DEF CallsInv
<1>8. CASE Pool!Answered(t)
  <2>1. Pool!Idle \in AnyCall  BY DEF AnyCall, Pool!Calls
  <2> QED  BY <1>3, <1>8, <2>1, CallReplaced DEF CallsInv, Pool!Answered
<1>9. CASE Pool!clear_cache(t)
  BY <1>3, <1>9 DEF Pool!clear_cache, CallsInv
<1> QED  BY <1>1, <1>5, <1>6, <1>7, <1>8, <1>9

LEMMA RegistryCalls ==
  ASSUME CallsInv, NEW lang \in Languages, Registry!Next(lang), UNCHANGED used
  PROVE  CallsInv'
<1>1. PICK t \in Threads :
        \/ Registry!TestEmpty(t, lang) \/ Registry!TestFilled(t, lang) \/ Registry!Insert(t)
        \/ Registry!Publish(t) \/ Registry!Read(t) \/ Registry!Return(t)
  BY DEF Registry!Next
<1>2. call[t] \in AnyCall  BY DEF CallsInv
<1>3. CASE Registry!TestEmpty(t, lang)
  <2>1. [op |-> "build", lang |-> lang, table |-> {}] \in AnyCall  BY CallKinds
  <2> QED  BY <1>3, <2>1, CallReplaced DEF CallsInv, Registry!TestEmpty
<1>4. CASE Registry!TestFilled(t, lang)
  <2>1. [op |-> "read", lang |-> lang] \in AnyCall  BY CallKinds
  <2> QED  BY <1>4, <2>1, CallReplaced DEF CallsInv, Registry!TestFilled
<1>5. CASE Registry!Insert(t)
  <2> DEFINE missing == Registry!Registered \ call[t].table
             l == CHOOSE k \in missing : TRUE
  <2>1. call[t].op = "build" /\ l \in Languages
    BY <1>5, SameLanguages DEF Registry!Insert
  <2>2. call[t] \in [op : {"build"}, lang : Languages, table : SUBSET Languages]
    BY <1>2, <2>1, CallKinds
  <2>3. call' = [call EXCEPT ![t].table = @ \cup {l}]
    BY <1>5 DEF Registry!Insert
  <2> HIDE DEF l
  <2>4. [call[t] EXCEPT !.table = @ \cup {l}]
           \in [op : {"build"}, lang : Languages, table : SUBSET Languages]
    BY <2>1, <2>2
  <2>5. [call[t] EXCEPT !.table = @ \cup {l}] \in AnyCall  BY <2>4, CallKinds
  <2>6. call' = [call EXCEPT ![t] = [call[t] EXCEPT !.table = @ \cup {l}]]
    BY <2>3
  <2> QED  BY <2>5, <2>6, CallReplaced DEF CallsInv
<1>6. CASE Registry!Publish(t)
  <2>1. call[t].op = "build"  BY <1>6 DEF Registry!Publish
  <2>2. [op |-> "read", lang |-> call[t].lang] \in AnyCall  BY <1>2, <2>1, CallKinds
  <2> QED  BY <1>6, <2>2, CallReplaced DEF CallsInv, Registry!Publish
<1>7. CASE Registry!Read(t)
  <2> DEFINE answer == [op |-> "got", lang |-> call[t].lang,
                        found |-> SPECS # NotSet /\ call[t].lang \in SPECS]
  <2>1. call[t].op = "read" /\ call' = [call EXCEPT ![t] = answer]  BY <1>7 DEF Registry!Read
  <2>2. call[t].lang \in Languages  BY <1>2, <2>1, CallKinds
  <2>3. answer \in AnyCall  BY <2>2, CallKinds
  <2> QED  BY <1>7, <2>1, <2>3, CallReplaced DEF CallsInv
<1>8. CASE Registry!Return(t)
  <2>1. Registry!Idle \in AnyCall  BY DEF AnyCall, Registry!Calls
  <2> QED  BY <1>8, <2>1, CallReplaced DEF CallsInv, Registry!Return
<1> QED  BY <1>1, <1>3, <1>4, <1>5, <1>6, <1>7, <1>8

LEMMA NextCalls == ASSUME CallsInv, [Next]_vars PROVE CallsInv'
<1>1. CASE UNCHANGED <<call, used>>  BY <1>1 DEF CallsInv
<1>2. CASE \E lang \in Found : Pool!Next(lang)
  BY <1>2, FoundLanguages, SameLanguages, PoolCalls
<1>3. CASE (\E lang \in Found : Registry!Next(lang)) /\ UNCHANGED used
  BY <1>3, FoundLanguages, SameLanguages, RegistryCalls
<1> QED  BY <1>1, <1>2, <1>3 DEF Next, vars

(* Frontend!TypeOK, for any threads and entries.                              *)
THEOREM FrontendTypeOK == Spec => []TypeOK
<1> DEFINE Config == config \in Walk!Configs
<1>1. CallsInv /\ PoolInv /\ RegistryInv /\ FoundInv /\ Config => TypeOK
  <2> SUFFICES ASSUME CallsInv, PoolInv, RegistryInv, FoundInv, Config PROVE TypeOK
    OBVIOUS
  <2>1. Walk!TypeOK  BY DEF Walk!TypeOK, FoundInv
  <2>2. Pool!TypeOK
    BY SameLanguages DEF Pool!TypeOK, PoolInv, ThreadInv, CallsInv
  <2>3. Registry!TypeOK
    BY SameLanguages DEF Registry!TypeOK, Registry!Table, RegistryInv
  <2> QED  BY <2>1, <2>2, <2>3 DEF TypeOK, CallsInv, AnyCall
<1>2. Config /\ [Next]_vars => Config'
  BY DEF Next, vars, Walk!Next, Walk!Yield
<1>3. Init => Config  BY DEF Init, Walk!Init
<1>4. CallsInv /\ [Next]_vars => CallsInv'  BY NextCalls
<1>5. PoolInv /\ [Next]_vars => PoolInv'  BY NextPool
<1>6. RegistryInv /\ [Next]_vars => RegistryInv'  BY NextRegistry
<1>7. FoundInv /\ [Next]_vars => FoundInv'  BY NextFound
<1> QED
  BY InitCalls, InitPool, InitRegistry, InitFound, <1>1, <1>2, <1>3, <1>4, <1>5, <1>6, <1>7, PTL
  DEF Spec
=============================================================================
