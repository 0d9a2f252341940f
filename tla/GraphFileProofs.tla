--------------------------- MODULE GraphFileProofs ---------------------------
(***************************************************************************)
(* save and load for any number of savers, readers, destinations, graphs   *)
(* and files, of any size, with any number of crashes.                     *)
(***************************************************************************)
EXTENDS GraphFile, TLAPS

Entries == Block \cup {Hole}
Contents == Seq(Entries)

LEMMA FileFacts ==
  ASSUME NEW g \in Graphs
  PROVE  /\ Blocks[g] \in Nat \ {0}
         /\ FileOf(g) \in Contents /\ Len(FileOf(g)) = Blocks[g] + 1
         /\ \A i \in 1..(Blocks[g] + 1) :
              FileOf(g)[i] = [graph |-> g, no |-> i - 1, rot |-> {}, claim |-> "exact"]
<1>1. Blocks[g] \in Nat \ {0}  BY BlocksAssumption
<1>2. ASSUME NEW i \in 1..(Blocks[g] + 1)
      PROVE  [graph |-> g, no |-> i - 1, rot |-> {}, claim |-> "exact"] \in Entries
  <2>1. i - 1 \in Nat  BY <1>1
  <2> QED  BY <2>1 DEF Entries, Block, Claim
<1>3. FileOf(g) \in Contents  BY <1>1, <1>2 DEF FileOf, Contents
<1> QED  BY <1>1, <1>3 DEF FileOf

\* What a file holds tells the graph it is of.
LEMMA FileOfInjective ==
  ASSUME NEW g \in Graphs, NEW h \in Graphs, FileOf(g) = FileOf(h)
  PROVE  g = h
<1>1. 1 \in 1..(Blocks[g] + 1) /\ 1 \in 1..(Blocks[h] + 1)  BY FileFacts
<1>2. FileOf(g)[1] = [graph |-> g, no |-> 1 - 1, rot |-> {}, claim |-> "exact"]  BY <1>1, FileFacts
<1>3. FileOf(h)[1] = [graph |-> h, no |-> 1 - 1, rot |-> {}, claim |-> "exact"]  BY <1>1, FileFacts
<1>4. FileOf(g)[1].graph = g  BY <1>2
<1>5. FileOf(h)[1].graph = h  BY <1>3
<1> QED  BY <1>4, <1>5

\* A write of one block.
LEMMA PutFacts ==
  ASSUME NEW c \in Contents, NEW i \in Nat \ {0}, NEW b \in Entries
  PROVE  /\ Put(c, i, b) \in Contents
         /\ Len(c) = i - 1 =>
              Len(Put(c, i, b)) = i /\ \A j \in 1..i : Put(c, i, b)[j] = IF j = i THEN b ELSE c[j]
<1>1. PICK n \in Nat : n = IF Len(c) < i THEN i ELSE Len(c)  BY DEF Contents
<1>2. Put(c, i, b) = [j \in 1..n |-> IF j = i THEN b ELSE IF j <= Len(c) THEN c[j] ELSE Hole]
  BY <1>1 DEF Put
<1>3. \A j \in 1..n : (IF j = i THEN b ELSE IF j <= Len(c) THEN c[j] ELSE Hole) \in Entries
  BY DEF Contents, Entries
<1>4. Put(c, i, b) \in Contents  BY <1>2, <1>3 DEF Contents
<1>5. ASSUME Len(c) = i - 1
      PROVE  Len(Put(c, i, b)) = i /\ \A j \in 1..i : Put(c, i, b)[j] = IF j = i THEN b ELSE c[j]
  <2>1. n = i  BY <1>1, <1>5
  <2>2. Len(Put(c, i, b)) = i  BY <1>2, <2>1
  <2> QED  BY <1>2, <1>5, <2>1, <2>2
<1> QED  BY <1>4, <1>5

\* The blocks of a file that was written back in part.
LEMMA WriteBackFacts ==
  ASSUME NEW c \in Contents, NEW d \in Contents, NEW blocks
  PROVE  [j \in 1..Len(c) |-> IF j \in blocks THEN c[j] ELSE IF j <= Len(d) THEN d[j] ELSE Hole] \in Contents
<1>1. Len(c) \in Nat  BY DEF Contents
<1>2. \A j \in 1..Len(c) : (IF j \in blocks THEN c[j] ELSE IF j <= Len(d) THEN d[j] ELSE Hole) \in Entries
  BY DEF Contents, Entries
<1> QED  BY <1>1, <1>2 DEF Contents

\* The block that storage damages.
Rotten(c, j, rot, claim) == [c EXCEPT ![j].rot = rot, ![j].claim = claim]

LEMMA DamagedBlock ==
  ASSUME NEW c \in Contents, NEW j \in DOMAIN c, c[j] # Hole, NEW rot, NEW claim
  PROVE  Rotten(c, j, rot, claim)
           = [c EXCEPT ![j] = [graph |-> c[j].graph, no |-> c[j].no, rot |-> rot, claim |-> claim]]
<1>1. c[j] \in Block  BY DEF Contents, Entries
<1>2. PICK b \in Block : b = c[j]  BY <1>1
<1>3. [[b EXCEPT !.rot = rot] EXCEPT !.claim = claim]
        = [graph |-> b.graph, no |-> b.no, rot |-> rot, claim |-> claim]
  <2>1. b = [graph |-> b.graph, no |-> b.no, rot |-> b.rot, claim |-> b.claim]  BY DEF Block
  <2>2. [b EXCEPT !.rot = rot] = [graph |-> b.graph, no |-> b.no, rot |-> rot, claim |-> b.claim]
    BY <2>1
  <2>3. [[graph |-> b.graph, no |-> b.no, rot |-> rot, claim |-> b.claim] EXCEPT !.claim = claim]
          = [graph |-> b.graph, no |-> b.no, rot |-> rot, claim |-> claim]
    OBVIOUS
  <2> QED  BY <2>2, <2>3
<1> QED  BY <1>2, <1>3 DEF Contents, Rotten

LEMMA RotFacts ==
  ASSUME NEW c \in Contents, NEW j \in DOMAIN c, c[j] # Hole, NEW rot \in SUBSET (0..31), NEW claim \in Claim
  PROVE  Rotten(c, j, rot, claim) \in Contents
<1>1. c[j] \in Block  BY DEF Contents, Entries
<1>2. [graph |-> c[j].graph, no |-> c[j].no, rot |-> rot, claim |-> claim] \in Entries
  BY <1>1 DEF Block, Entries
<1>3. [c EXCEPT ![j] = [graph |-> c[j].graph, no |-> c[j].no, rot |-> rot, claim |-> claim]] \in Contents
  BY <1>2 DEF Contents
<1> QED  BY <1>3, DamagedBlock

-----------------------------------------------------------------------------
(* Types *)

Positions == {"write", "sync", "rename"}

LEMMA SaveFields ==
  ASSUME NEW v \in SaveState, v.at # "idle"
  PROVE  /\ v.at \in {"create"} \cup Positions /\ v.path \in Paths /\ v.graph \in Graphs
         /\ v.at \in Positions =>
              /\ v.inode \in Inodes /\ v.written \in Nat
              /\ v = [at |-> v.at, path |-> v.path, graph |-> v.graph, inode |-> v.inode, written |-> v.written]
  BY DEF SaveState, NotSaving, Positions

\* A saver that moves on.
LEMMA SaveUpdate ==
  ASSUME NEW v \in SaveState, v.at \in Positions, NEW a, NEW n
  PROVE  /\ [v EXCEPT !.at = a]
              = [at |-> a, path |-> v.path, graph |-> v.graph, inode |-> v.inode, written |-> v.written]
         /\ [v EXCEPT !.written = n, !.at = a]
              = [at |-> a, path |-> v.path, graph |-> v.graph, inode |-> v.inode, written |-> n]
<1>1. PICK at, path, graph, inode, written :
        v = [at |-> at, path |-> path, graph |-> graph, inode |-> inode, written |-> written]
  BY SaveFields DEF Positions
<1>2. [v EXCEPT !.at = a] = [at |-> a, path |-> path, graph |-> graph, inode |-> inode, written |-> written]
  BY <1>1
<1>3. [v EXCEPT !.written = n]
        = [at |-> at, path |-> path, graph |-> graph, inode |-> inode, written |-> n]
  BY <1>1
<1>4. [[v EXCEPT !.written = n] EXCEPT !.at = a]
        = [at |-> a, path |-> path, graph |-> graph, inode |-> inode, written |-> n]
  <2>1. [[at |-> at, path |-> path, graph |-> graph, inode |-> inode, written |-> n] EXCEPT !.at = a]
          = [at |-> a, path |-> path, graph |-> graph, inode |-> inode, written |-> n]
    OBVIOUS
  <2> QED  BY <1>3, <2>1
<1>5. path = v.path /\ graph = v.graph /\ inode = v.inode /\ written = v.written  BY <1>1
<1>6. [v EXCEPT !.at = a]
        = [at |-> a, path |-> v.path, graph |-> v.graph, inode |-> v.inode, written |-> v.written]
  BY <1>2, <1>5
<1> QED  BY <1>4, <1>5, <1>6

Places == {"validate", "checksum", "deserialize"} \cup Ended

OpenLoad ==
  [at : Places, inode : Inodes, len : Nat, head : Entries, error : Errors \cup {"none"},
   graph : Graphs \cup {NoFile, "wrong"}, opened : Graphs \cup {"torn"}]

LEMMA LoadFields ==
  /\ OpenLoad \subseteq LoadState /\ NotLoading \in LoadState /\ NotLoading.at = "idle"
  /\ \A v \in LoadState : v.at # "idle" => v \in OpenLoad
  BY DEF LoadState, NotLoading, Entries, OpenLoad, Places

\* A reader that moves on.
LEMMA LoadUpdate ==
  ASSUME NEW v \in OpenLoad, NEW a, NEW x
  PROVE  /\ [v EXCEPT !.at = a]
              = [at |-> a, inode |-> v.inode, len |-> v.len, head |-> v.head, error |-> v.error,
                 graph |-> v.graph, opened |-> v.opened]
         /\ [v EXCEPT !.at = a, !.error = x]
              = [at |-> a, inode |-> v.inode, len |-> v.len, head |-> v.head, error |-> x,
                 graph |-> v.graph, opened |-> v.opened]
         /\ [v EXCEPT !.at = a, !.head = x]
              = [at |-> a, inode |-> v.inode, len |-> v.len, head |-> x, error |-> v.error,
                 graph |-> v.graph, opened |-> v.opened]
         /\ [v EXCEPT !.at = a, !.graph = x]
              = [at |-> a, inode |-> v.inode, len |-> v.len, head |-> v.head, error |-> v.error,
                 graph |-> x, opened |-> v.opened]
<1>1. PICK at, i, n, h, e, g, o :
        v = [at |-> at, inode |-> i, len |-> n, head |-> h, error |-> e, graph |-> g, opened |-> o]
  BY DEF OpenLoad
<1>2. i = v.inode /\ n = v.len /\ h = v.head /\ e = v.error /\ g = v.graph /\ o = v.opened
  BY <1>1
<1>3. PICK w : w = [at |-> a, inode |-> i, len |-> n, head |-> h, error |-> e, graph |-> g, opened |-> o]
  OBVIOUS
<1>4. [v EXCEPT !.at = a] = w  BY <1>1, <1>3
<1>5. [w EXCEPT !.error = x]
        = [at |-> a, inode |-> i, len |-> n, head |-> h, error |-> x, graph |-> g, opened |-> o]
  BY <1>3
<1>6. [w EXCEPT !.head = x]
        = [at |-> a, inode |-> i, len |-> n, head |-> x, error |-> e, graph |-> g, opened |-> o]
  BY <1>3
<1>7. [w EXCEPT !.graph = x]
        = [at |-> a, inode |-> i, len |-> n, head |-> h, error |-> e, graph |-> x, opened |-> o]
  BY <1>3
<1>8. /\ [[v EXCEPT !.at = a] EXCEPT !.error = x] = [w EXCEPT !.error = x]
      /\ [[v EXCEPT !.at = a] EXCEPT !.head = x] = [w EXCEPT !.head = x]
      /\ [[v EXCEPT !.at = a] EXCEPT !.graph = x] = [w EXCEPT !.graph = x]
  BY <1>4
<1> QED  BY <1>2, <1>3, <1>4, <1>5, <1>6, <1>7, <1>8

LEMMA LoadedUpdate ==
  ASSUME NEW v \in OpenLoad, NEW g
  PROVE  [v EXCEPT !.at = "loaded", !.graph = g]
           = [at |-> "loaded", inode |-> v.inode, len |-> v.len, head |-> v.head, error |-> v.error,
              graph |-> g, opened |-> v.opened]
<1>1. PICK at, i, n, h, e, x, o :
        v = [at |-> at, inode |-> i, len |-> n, head |-> h, error |-> e, graph |-> x, opened |-> o]
  BY DEF OpenLoad
<1>2. i = v.inode /\ n = v.len /\ h = v.head /\ e = v.error /\ o = v.opened  BY <1>1
<1>3. PICK w : w = [at |-> "loaded", inode |-> i, len |-> n, head |-> h, error |-> e, graph |-> x, opened |-> o]
  OBVIOUS
<1>4. [v EXCEPT !.at = "loaded"] = w  BY <1>1, <1>3
<1>5. [w EXCEPT !.graph = g]
        = [at |-> "loaded", inode |-> i, len |-> n, head |-> h, error |-> e, graph |-> g, opened |-> o]
  BY <1>3
<1> QED  BY <1>2, <1>4, <1>5

LEMMA InitType == Init => TypeOK
<1> SUFFICES ASSUME Init PROVE TypeOK
  OBVIOUS
<1>1. PICK old \in Graphs, p \in Paths, i \in AnyOf(Inodes) :
        /\ cache = [j \in Inodes |-> IF j = i THEN FileOf(old) ELSE <<>>]
        /\ names = [n \in Names |-> IF n = p THEN i ELSE NoFile]
  BY DEF Init
<1>2. i \in Inodes  BY DEF AnyOf
<1>3. <<>> \in Contents  BY DEF Contents
<1>4. cache \in [Inodes -> Contents]  BY <1>1, <1>3, FileFacts
<1>5. names \in [Names -> Inodes \cup {NoFile}]  BY <1>1, <1>2
<1>6. NotSaving \in SaveState /\ NotSaving.at = "idle" /\ NotLoading \in LoadState
  BY DEF NotSaving, SaveState, NotLoading, LoadState
<1>7. 0 \in 0..MaxSaves /\ 0 \in 0..MaxCrashes /\ 0 \in 0..MaxRot  BY BoundsAssumption
<1> QED
  BY <1>4, <1>5, <1>6, <1>7 DEF Init, TypeOK, Contents, Entries

LEMMA SaveType ==
  ASSUME TypeOK, NEW s \in Savers,
         SaveStep(s) \/ \E p \in Paths, g \in Graphs : Begin(s, p, g)
  PROVE  TypeOK'
<1> USE DEF TypeOK, fileVars, counters
<1> DEFINE v == save[s]
<1>1. v \in SaveState
  OBVIOUS
<1>2. NotSaving \in SaveState /\ NotSaving.at = "idle"  BY DEF NotSaving, SaveState
<1>3. ASSUME NEW w \in SaveState, save' = [save EXCEPT ![s] = w],
             w.at = "write" => w.written <= Blocks[w.graph]
      PROVE  /\ save' \in [Savers -> SaveState]
             /\ \A u \in Savers : save'[u].at = "write" => save'[u].written <= Blocks[save'[u].graph]
  BY <1>3
<1>4. CASE \E p \in Paths, g \in Graphs : Begin(s, p, g)
  <2>1. PICK p \in Paths, g \in Graphs : Begin(s, p, g)  BY <1>4
  <2>2. PICK w : w = [at |-> "create", path |-> p, graph |-> g]
    OBVIOUS
  <2>3. w \in SaveState /\ w.at # "write"  BY <2>2 DEF SaveState
  <2>4. save' = [save EXCEPT ![s] = w]  BY <2>1, <2>2 DEF Begin
  <2>5. saves' \in 0..MaxSaves  BY <2>1, BoundsAssumption DEF Begin
  <2>6. /\ save' \in [Savers -> SaveState]
        /\ \A u \in Savers : save'[u].at = "write" => save'[u].written <= Blocks[save'[u].graph]
    BY <1>3, <2>3, <2>4
  <2> QED  BY <2>1, <2>5, <2>6 DEF Begin
<1>5. CASE Create(s)
  <2>1. v.at = "create" /\ v.path \in Paths /\ v.graph \in Graphs /\ TmpOf[v.path] \in Names
    BY <1>1, <1>5, SaveFields, NamesAssumption DEF Create, Names
  <2>2. PICK i \in Inodes :
          /\ names' = [names EXCEPT ![TmpOf[v.path]] = i] /\ cache' = [cache EXCEPT ![i] = <<>>]
          /\ save' = [save EXCEPT ![s] = [at |-> "write", path |-> v.path, graph |-> v.graph,
                                          inode |-> i, written |-> 0]]
    BY <1>5, <2>1 DEF Create, AnyOf
  <2>3. PICK w : w = [at |-> "write", path |-> v.path, graph |-> v.graph, inode |-> i, written |-> 0]
    OBVIOUS
  <2>4. w \in SaveState /\ w.written = 0 /\ w.graph \in Graphs  BY <2>1, <2>3 DEF SaveState
  <2>5. w.written <= Blocks[w.graph]  BY <2>4, FileFacts
  <2>6. /\ save' \in [Savers -> SaveState]
        /\ \A u \in Savers : save'[u].at = "write" => save'[u].written <= Blocks[save'[u].graph]
    BY <1>3, <2>2, <2>3, <2>4, <2>5
  <2>7. <<>> \in Contents  BY DEF Contents
  <2>8. cache' \in [Inodes -> Contents]  BY <2>2, <2>7 DEF Contents, Entries
  <2>9. names' \in [Names -> Inodes \cup {NoFile}]  BY <2>2
  <2> QED  BY <1>5, <2>6, <2>8, <2>9 DEF Create, Contents, Entries
<1>6. CASE Write(s)
  <2>1. v.at = "write" /\ v.graph \in Graphs /\ v.inode \in Inodes /\ v.written \in Nat
        /\ v.path \in Paths /\ v.written <= Blocks[v.graph]
        /\ v = [at |-> v.at, path |-> v.path, graph |-> v.graph, inode |-> v.inode, written |-> v.written]
    BY <1>1, <1>6, SaveFields DEF Write, Positions
  <2>2. PICK i \in Nat \ {0} : i = v.written + 1  BY <2>1
  <2>3. /\ cache' = [cache EXCEPT ![v.inode] = Put(@, i, FileOf(v.graph)[i])]
        /\ save' = [save EXCEPT ![s].written = i,
                                ![s].at = IF i = Len(FileOf(v.graph)) THEN "sync" ELSE "write"]
    BY <1>6, <2>2 DEF Write
  <2>4. Blocks[v.graph] \in Nat /\ Len(FileOf(v.graph)) = Blocks[v.graph] + 1 /\ FileOf(v.graph) \in Contents
    BY <2>1, FileFacts
  <2>5. i \in 1..(Blocks[v.graph] + 1)  BY <2>1, <2>2, <2>4
  <2>6. FileOf(v.graph)[i] \in Entries  BY <2>4, <2>5 DEF Contents
  <2>7. cache[v.inode] \in Contents  BY <2>1 DEF Contents, Entries
  <2>8. Put(cache[v.inode], i, FileOf(v.graph)[i]) \in Contents  BY <2>2, <2>6, <2>7, PutFacts
  <2>9. cache' \in [Inodes -> Contents]  BY <2>1, <2>3, <2>8 DEF Contents, Entries
  <2>10. PICK a : a = IF i = Len(FileOf(v.graph)) THEN "sync" ELSE "write"
    OBVIOUS
  <2>11. PICK w : w = [at |-> a, path |-> v.path, graph |-> v.graph, inode |-> v.inode, written |-> i]
    OBVIOUS
  <2>12. [[v EXCEPT !.written = i] EXCEPT !.at = a] = w
    BY <1>1, <2>1, <2>11, SaveUpdate DEF Positions
  <2>13. save' = [save EXCEPT ![s] = w]
    <3>1. save' = [save EXCEPT ![s] = [[v EXCEPT !.written = i] EXCEPT !.at = a]]
      BY <2>3, <2>10
    <3> QED  BY <2>12, <3>1
  <2>14. w \in SaveState /\ w.at = a /\ w.written = i /\ w.graph = v.graph
    BY <2>1, <2>10, <2>11 DEF SaveState
  <2>15. a = "write" => i <= Blocks[v.graph]  BY <2>4, <2>5, <2>10
  <2>16. /\ save' \in [Savers -> SaveState]
         /\ \A u \in Savers : save'[u].at = "write" => save'[u].written <= Blocks[save'[u].graph]
    BY <1>3, <2>13, <2>14, <2>15
  <2> QED  BY <1>6, <2>9, <2>16 DEF Write, Contents, Entries
<1>7. CASE Sync(s)
  <2>1. v.at = "sync" /\ v.inode \in Inodes
        /\ v = [at |-> v.at, path |-> v.path, graph |-> v.graph, inode |-> v.inode, written |-> v.written]
        /\ v.path \in Paths /\ v.graph \in Graphs /\ v.written \in Nat
    BY <1>1, <1>7, SaveFields DEF Sync, Positions
  <2>2. PICK w : w = [at |-> "rename", path |-> v.path, graph |-> v.graph, inode |-> v.inode, written |-> v.written]
    OBVIOUS
  <2>3. [v EXCEPT !.at = "rename"] = w  BY <1>1, <2>1, <2>2, SaveUpdate DEF Positions
  <2>4. save' = [save EXCEPT ![s] = w]  BY <1>7, <2>3 DEF Sync
  <2>5. w \in SaveState /\ w.at = "rename"  BY <2>1, <2>2 DEF SaveState
  <2>6. /\ save' \in [Savers -> SaveState]
        /\ \A u \in Savers : save'[u].at = "write" => save'[u].written <= Blocks[save'[u].graph]
    BY <1>3, <2>4, <2>5
  <2> QED  BY <1>7, <2>1, <2>6 DEF Sync
<1>8. CASE Rename(s)
  <2>1. save' = [save EXCEPT ![s] = NotSaving]  BY <1>8 DEF Rename
  <2>2. /\ save' \in [Savers -> SaveState]
        /\ \A u \in Savers : save'[u].at = "write" => save'[u].written <= Blocks[save'[u].graph]
    BY <1>2, <1>3, <2>1
  <2>3. v.path \in Paths /\ TmpOf[v.path] \in Names /\ v.path \in Names
    BY <1>1, <1>8, SaveFields, NamesAssumption DEF Rename, Names
  <2>4. names' \in [Names -> Inodes \cup {NoFile}]  BY <1>8, <2>3 DEF Rename
  <2> QED  BY <1>8, <2>2, <2>4 DEF Rename
<1>9. CASE Fail(s)
  <2>1. save' = [save EXCEPT ![s] = NotSaving]  BY <1>9 DEF Fail
  <2>2. /\ save' \in [Savers -> SaveState]
        /\ \A u \in Savers : save'[u].at = "write" => save'[u].written <= Blocks[save'[u].graph]
    BY <1>2, <1>3, <2>1
  <2> QED  BY <1>9, <2>2 DEF Fail
<1> QED  BY <1>4, <1>5, <1>6, <1>7, <1>8, <1>9 DEF SaveStep

\* The first mismatch is one of the four.
LEMMA FirstMismatch ==
  ASSUME NEW head, Mismatches(head) # {}
  PROVE  Checks[Min(Mismatches(head))] \in Errors
<1>1. Mismatches(head) \subseteq 1..4  BY DEF Mismatches, Checks
<1>2. \E x \in Mismatches(head) : \A y \in Mismatches(head) : x <= y
  <2>1. CASE 1 \in Mismatches(head)  BY <1>1, <2>1
  <2>2. CASE 1 \notin Mismatches(head) /\ 2 \in Mismatches(head)  BY <1>1, <2>2
  <2>3. CASE 1 \notin Mismatches(head) /\ 2 \notin Mismatches(head) /\ 3 \in Mismatches(head)
    BY <1>1, <2>3
  <2>4. CASE 1 \notin Mismatches(head) /\ 2 \notin Mismatches(head) /\ 3 \notin Mismatches(head)
    BY <1>1, <2>4
  <2> QED  BY <2>1, <2>2, <2>3, <2>4
<1>3. Min(Mismatches(head)) \in 1..4  BY <1>1, <1>2 DEF Min
<1> QED  BY <1>3 DEF Checks, Errors

\* What the mapping of a reader shows.
LEMMA MappedFacts ==
  ASSUME TypeOK, NEW r \in Readers, load[r].at # "idle"
  PROVE  /\ load[r] \in OpenLoad /\ load[r].inode \in Inodes /\ Mapped(r) = cache[load[r].inode]
         /\ Mapped(r) \in Contents /\ Len(Mapped(r)) \in Nat
         /\ \A n \in 1..Len(Mapped(r)) : Mapped(r)[n] \in Entries
<1>1. load[r] \in OpenLoad  BY LoadFields DEF TypeOK
<1>2. load[r].inode \in Inodes  BY <1>1 DEF OpenLoad
<1>3. Mapped(r) \in Contents  BY <1>2 DEF TypeOK, Mapped, Contents, Entries
<1> QED  BY <1>1, <1>2, <1>3 DEF Mapped, Contents

\* The header of a load that went on is a whole header, with the right fields.
Checked(head) == head \in Block /\ Mismatches(head) = {} /\ head.claim # "huge"

Vetted == {"checksum", "deserialize", "loaded"}

HeadsChecked == \A r \in Readers : load[r].at \in Vetted => Checked(load[r].head)

\* A step of load: the reader keeps its mapping.
LEMMA LoadEffect ==
  ASSUME TypeOK, HeadsChecked, NEW r \in Readers, Validate(r) \/ Checksum(r) \/ Deserialize(r)
  PROVE  /\ load[r] \in OpenLoad /\ UNCHANGED <<fileVars, save, counters>>
         /\ \E w \in OpenLoad :
              /\ load' = [load EXCEPT ![r] = w]
              /\ w.inode = load[r].inode /\ w.len = load[r].len /\ w.opened = load[r].opened
              /\ w.at \in Vetted => Checked(w.head)
<1>1. load[r].at \in {"validate", "checksum", "deserialize"}  BY DEF Validate, Checksum, Deserialize
<1>2. PICK v \in OpenLoad : v = load[r]  BY <1>1, MappedFacts
<1>3. UNCHANGED <<fileVars, save, counters>>  BY DEF Validate, Checksum, Deserialize
<1>4. ASSUME NEW a \in Places, Goto(r, a), a \in Vetted => Checked(v.head)
      PROVE  \E w \in OpenLoad : /\ load' = [load EXCEPT ![r] = w]
                                 /\ w.inode = v.inode /\ w.len = v.len /\ w.opened = v.opened
                                 /\ w.at \in Vetted => Checked(w.head)
  <2>1. PICK w : w = [v EXCEPT !.at = a]
    OBVIOUS
  <2>2. w \in OpenLoad /\ w.inode = v.inode /\ w.len = v.len /\ w.opened = v.opened /\ w.at = a /\ w.head = v.head
    BY <2>1, LoadUpdate DEF OpenLoad
  <2>3. load' = [load EXCEPT ![r] = w]  BY <1>2, <1>4, <2>1 DEF Goto
  <2> QED  BY <1>4, <2>2, <2>3
<1>5. ASSUME NEW e \in Errors, Refuse(r, e)
      PROVE  \E w \in OpenLoad : /\ load' = [load EXCEPT ![r] = w]
                                 /\ w.inode = v.inode /\ w.len = v.len /\ w.opened = v.opened
                                 /\ w.at \in Vetted => Checked(w.head)
  <2>1. PICK w : w = [v EXCEPT !.at = "failed", !.error = e]
    OBVIOUS
  <2>2. "failed" \in Places /\ "failed" \notin Vetted  BY DEF Places, Ended, Vetted
  <2>3. w \in OpenLoad /\ w.inode = v.inode /\ w.len = v.len /\ w.opened = v.opened /\ w.at = "failed"
    BY <2>1, <2>2, LoadUpdate DEF OpenLoad
  <2>4. load' = [load EXCEPT ![r] = w]  BY <1>2, <1>5, <2>1 DEF Refuse
  <2> QED  BY <2>2, <2>3, <2>4
<1>6. ASSUME NEW h \in Entries, Checked(h), load' = [load EXCEPT ![r].at = "checksum", ![r].head = h]
      PROVE  \E w \in OpenLoad : /\ load' = [load EXCEPT ![r] = w]
                                 /\ w.inode = v.inode /\ w.len = v.len /\ w.opened = v.opened
                                 /\ w.at \in Vetted => Checked(w.head)
  <2>1. PICK w : w = [v EXCEPT !.at = "checksum", !.head = h]
    OBVIOUS
  <2>2. "checksum" \in Places  BY DEF Places
  <2>3. w \in OpenLoad /\ w.inode = v.inode /\ w.len = v.len /\ w.opened = v.opened /\ w.head = h
    BY <2>1, <2>2, LoadUpdate DEF OpenLoad
  <2>4. load' = [load EXCEPT ![r] = w]  BY <1>2, <1>6, <2>1
  <2> QED  BY <1>6, <2>3, <2>4
<1>7. ASSUME NEW g \in Graphs \cup {"wrong"}, Load(r, g), Checked(v.head)
      PROVE  \E w \in OpenLoad : /\ load' = [load EXCEPT ![r] = w]
                                 /\ w.inode = v.inode /\ w.len = v.len /\ w.opened = v.opened
                                 /\ w.at \in Vetted => Checked(w.head)
  <2>1. PICK w : w = [v EXCEPT !.at = "loaded", !.graph = g]
    OBVIOUS
  <2>2. "loaded" \in Places  BY DEF Places, Ended
  <2>3. w \in OpenLoad /\ w.inode = v.inode /\ w.len = v.len /\ w.opened = v.opened /\ w.head = v.head
    BY <2>1, <2>2, LoadUpdate DEF OpenLoad
  <2>4. load' = [load EXCEPT ![r] = w]  BY <1>2, <1>7, <2>1 DEF Load
  <2> QED  BY <1>7, <2>3, <2>4
<1>8. CASE Validate(r)
  <2>1. load[r].len \in Nat /\ load[r].at # "idle"  BY <1>1, <1>2 DEF OpenLoad
  <2>2. CASE load[r].len = 0
    <3>1. Refuse(r, "too_small")  BY <1>8, <2>1, <2>2 DEF Validate
    <3> QED  BY <1>2, <1>3, <1>5, <3>1 DEF Errors
  <2>3. CASE load[r].len > 0 /\ Lost(r, 1)
    <3>1. Goto(r, "killed")  BY <1>8, <2>1, <2>3 DEF Validate
    <3> QED  BY <1>2, <1>3, <1>4, <3>1 DEF Places, Ended, Vetted
  <2>4. CASE load[r].len > 0 /\ ~Lost(r, 1)
    <3>1. PICK head \in Entries : head = Mapped(r)[1]
      BY <2>1, <2>4, MappedFacts DEF Lost
    <3>2. IF Mismatches(head) # {} THEN Refuse(r, Checks[Min(Mismatches(head))])
          ELSE IF head.claim = "huge" THEN Goto(r, "panicked")
          ELSE IF load[r].len < Claims(head) + 1 THEN Refuse(r, "payload_truncated")
          ELSE load' = [load EXCEPT ![r].at = "checksum", ![r].head = head]
      BY <1>8, <2>1, <2>4, <3>1 DEF Validate
    <3>3. CASE Mismatches(head) # {}
      BY <1>2, <1>3, <1>5, <3>2, <3>3, FirstMismatch
    <3>4. CASE Mismatches(head) = {} /\ head.claim = "huge"
      BY <1>2, <1>3, <1>4, <3>2, <3>4 DEF Places, Ended, Vetted
    <3>5. CASE Mismatches(head) = {} /\ head.claim # "huge" /\ load[r].len < Claims(head) + 1
      BY <1>2, <1>3, <1>5, <3>2, <3>5 DEF Errors
    <3>6. CASE Mismatches(head) = {} /\ head.claim # "huge" /\ ~(load[r].len < Claims(head) + 1)
      <4>1. head # Hole  BY <3>6 DEF Mismatches
      <4>2. Checked(head)  BY <3>6, <4>1 DEF Entries, Checked
      <4> QED  BY <1>2, <1>3, <1>6, <3>2, <3>6, <4>2
    <3> QED  BY <3>3, <3>4, <3>5, <3>6
  <2> QED  BY <2>1, <2>2, <2>3, <2>4
<1>9. CASE Checksum(r)
  <2>1. Goto(r, "killed") \/ Goto(r, "deserialize") \/ Refuse(r, "checksum_mismatch")
    BY <1>9 DEF Checksum
  <2>2. Checked(v.head)  BY <1>2, <1>9 DEF Checksum, HeadsChecked, Vetted
  <2> QED  BY <1>2, <1>3, <1>4, <1>5, <2>1, <2>2 DEF Places, Ended, Errors, Vetted
<1>10. CASE Deserialize(r)
  <2>1. Goto(r, "killed") \/ (Whole(r) /\ Load(r, load[r].head.graph)) \/ Refuse(r, "rkyv") \/ Load(r, "wrong")
    BY <1>10 DEF Deserialize
  <2>2. Checked(v.head)  BY <1>2, <1>10 DEF Deserialize, HeadsChecked, Vetted
  <2>3. CASE Whole(r) /\ Load(r, load[r].head.graph)
    <3>1. v.head.graph \in Graphs  BY <2>2 DEF Checked, Block
    <3> QED  BY <1>2, <1>3, <1>7, <2>2, <2>3, <3>1
  <2> QED  BY <1>2, <1>3, <1>4, <1>5, <1>7, <2>1, <2>2, <2>3 DEF Places, Ended, Errors, Vetted
<1> QED  BY <1>8, <1>9, <1>10

\* Opening a file: what is recorded of it.
LEMMA OpenEffect ==
  ASSUME TypeOK, NEW r \in Readers, NEW p \in Paths, Open(r, p)
  PROVE  /\ names[p] \in Inodes /\ load[r].at = "idle" /\ UNCHANGED <<fileVars, save, counters>>
         /\ \E w \in OpenLoad :
              /\ load' = [load EXCEPT ![r] = w]
              /\ w.at = "validate" /\ w.inode = names[p] /\ w.len = Len(cache[names[p]])
              /\ w.opened = Content(cache, names[p])
<1>1. names[p] \in Inodes /\ names[p] # NoFile
  BY SentinelAssumption DEF Open, TypeOK, Names
<1>2. PICK c \in Contents : c = cache[names[p]]
  BY <1>1 DEF TypeOK, Contents, Entries
<1>3. Len(c) \in Nat  BY DEF Contents
<1>4. Content(cache, names[p]) \in Graphs \cup {"torn"}  BY <1>1 DEF Content
<1>5. PICK w : w = [at |-> "validate", inode |-> names[p], len |-> Len(c), head |-> Hole,
                    error |-> "none", graph |-> NoFile, opened |-> Content(cache, names[p])]
  OBVIOUS
<1>6. w \in OpenLoad
  BY <1>1, <1>3, <1>4, <1>5 DEF OpenLoad, Places, Entries
<1>7. load' = [load EXCEPT ![r] = w]  BY <1>2, <1>5 DEF Open
<1> QED  BY <1>1, <1>2, <1>5, <1>6, <1>7 DEF Open

TypeInv == TypeOK /\ HeadsChecked

LEMMA LoadType ==
  ASSUME TypeInv, NEW r \in Readers, LoadStep(r) \/ \E p \in Paths : Open(r, p)
  PROVE  TypeInv'
<1>1. TypeOK /\ HeadsChecked  BY DEF TypeInv
<1>2. ASSUME NEW w \in LoadState, w.at \in Vetted => Checked(w.head),
             load' = [load EXCEPT ![r] = w], UNCHANGED <<fileVars, save, counters>>
      PROVE  TypeInv'
  <2>1. TypeOK'  BY <1>1, <1>2 DEF TypeOK, fileVars, counters
  <2>2. \A q \in Readers : load'[q] = IF q = r THEN w ELSE load[q]  BY <1>1, <1>2 DEF TypeOK
  <2>3. HeadsChecked'  BY <1>1, <1>2, <2>2 DEF HeadsChecked
  <2> QED  BY <2>1, <2>3 DEF TypeInv
<1>3. CASE \E p \in Paths : Open(r, p)
  <2>1. PICK p \in Paths : Open(r, p)  BY <1>3
  <2>2. PICK w \in OpenLoad : load' = [load EXCEPT ![r] = w] /\ w.at = "validate"
    BY <1>1, <2>1, OpenEffect
  <2>3. UNCHANGED <<fileVars, save, counters>>  BY <1>1, <2>1, OpenEffect
  <2> QED  BY <1>2, <2>2, <2>3, LoadFields DEF Vetted
<1>4. CASE Validate(r) \/ Checksum(r) \/ Deserialize(r)
  <2>1. PICK w \in OpenLoad : load' = [load EXCEPT ![r] = w] /\ (w.at \in Vetted => Checked(w.head))
    BY <1>1, <1>4, LoadEffect
  <2>2. UNCHANGED <<fileVars, save, counters>>  BY <1>1, <1>4, LoadEffect
  <2> QED  BY <1>2, <2>1, <2>2, LoadFields
<1>5. CASE Close(r)
  BY <1>2, <1>5, LoadFields DEF Close, Vetted
<1> QED  BY <1>3, <1>4, <1>5 DEF LoadStep

\* A damaged block: its length bytes are hit exactly when it claims another length.
DamagedIn(c, d) ==
  \E j \in DOMAIN c, b \in Block :
    /\ c[j] # Hole /\ d = [c EXCEPT ![j] = b]
    /\ b.graph = c[j].graph /\ b.no = c[j].no
    /\ b.rot \cap Layout.payload_len # {} <=> b.claim # "exact"

LEMMA RotStep ==
  ASSUME TypeOK, NEW i \in Inodes, Rot(i)
  PROVE  \E d \in Contents :
           /\ DamagedIn(cache[i], d)
           /\ cache' = [cache EXCEPT ![i] = d] /\ disk' = [disk EXCEPT ![i] = d]
<1>1. PICK j \in DOMAIN cache[i], byte \in 0..31, claim \in Claim :
        /\ cache[i][j] # Hole
        /\ byte \in Layout.payload_len <=> claim # "exact"
        /\ cache' = [cache EXCEPT ![i][j].rot = {byte}, ![i][j].claim = claim]
  <2>1. PICK j \in DOMAIN cache[i] :
          /\ cache[i][j] # Hole
          /\ \E byte \in IF j = 1 THEN RotBytes ELSE {0} :
             \E claim \in IF j = 1 /\ byte \in Layout.payload_len THEN Claim \ {"exact"} ELSE {"exact"} :
               cache' = [cache EXCEPT ![i][j].rot = {byte}, ![i][j].claim = claim]
    BY DEF Rot
  <2>2. PICK byte \in IF j = 1 THEN RotBytes ELSE {0} :
             \E claim \in IF j = 1 /\ byte \in Layout.payload_len THEN Claim \ {"exact"} ELSE {"exact"} :
               cache' = [cache EXCEPT ![i][j].rot = {byte}, ![i][j].claim = claim]
    BY <2>1
  <2>3. PICK claim \in IF j = 1 /\ byte \in Layout.payload_len THEN Claim \ {"exact"} ELSE {"exact"} :
               cache' = [cache EXCEPT ![i][j].rot = {byte}, ![i][j].claim = claim]
    BY <2>2
  <2>4. byte \in 0..31 /\ claim \in Claim  BY BoundsAssumption DEF Claim
  <2>5. byte \in Layout.payload_len <=> claim # "exact"
    <3>1. 0 \notin Layout.payload_len  BY DEF Layout
    <3> QED  BY <3>1
  <2> QED  BY <2>1, <2>3, <2>4, <2>5
<1>2. PICK c \in Contents : c = cache[i]  BY DEF TypeOK, Contents, Entries
<1>3. j \in DOMAIN c /\ c[j] # Hole /\ {byte} \in SUBSET (0..31)  BY <1>1, <1>2
<1>5. c[j] \in Block  BY <1>3 DEF Contents, Entries
<1>6. PICK b \in Block : b = [graph |-> c[j].graph, no |-> c[j].no, rot |-> {byte}, claim |-> claim]
  BY <1>3, <1>5 DEF Block
<1>7. PICK d \in Contents : d = Rotten(c, j, {byte}, claim)
  <2>1. Rotten(c, j, {byte}, claim) \in Contents  BY <1>3, RotFacts
  <2> QED  BY <2>1
<1>8. d = [c EXCEPT ![j] = b]
  <2>1. PICK rot : rot = {byte}
    OBVIOUS
  <2>2. Rotten(c, j, rot, claim)
          = [c EXCEPT ![j] = [graph |-> c[j].graph, no |-> c[j].no, rot |-> rot, claim |-> claim]]
    BY <1>3, DamagedBlock
  <2> QED  BY <1>6, <1>7, <2>1, <2>2
<1>9. cache' = [cache EXCEPT ![i] = d]  BY <1>1, <1>2, <1>7 DEF Rotten
<1>10. disk' = [disk EXCEPT ![i] = d]
  <2>1. cache'[i] = d  BY <1>9 DEF TypeOK
  <2> QED  BY <2>1 DEF Rot
<1>11. /\ b.graph = c[j].graph /\ b.no = c[j].no
       /\ b.rot \cap Layout.payload_len # {} <=> b.claim # "exact"
  <2>1. b.graph = c[j].graph /\ b.no = c[j].no /\ b.rot = {byte} /\ b.claim = claim  BY <1>6
  <2> QED  BY <1>1, <2>1
<1>12. DamagedIn(c, d)  BY <1>3, <1>8, <1>11 DEF DamagedIn
<1> QED  BY <1>2, <1>9, <1>10, <1>12

LEMMA RotEffect ==
  ASSUME TypeOK, NEW i \in Inodes, Rot(i)
  PROVE  /\ rots < MaxRot /\ rots' = rots + 1 /\ disk[i] = cache[i]
         /\ \A r \in Readers : load[r].at # "idle" => load[r].inode # i
         /\ UNCHANGED <<names, diskNames, save, load, saves, crashes>>
         /\ \E c \in Contents : cache' = [cache EXCEPT ![i] = c] /\ disk' = [disk EXCEPT ![i] = c]
<1>1. PICK d \in Contents : cache' = [cache EXCEPT ![i] = d] /\ disk' = [disk EXCEPT ![i] = d]
  BY RotStep
<1> QED  BY <1>1 DEF Rot

LEMMA StorageType == ASSUME TypeInv, Storage PROVE TypeInv'
<1>1. TypeOK /\ HeadsChecked  BY DEF TypeInv
<1>2. CASE WriteBackNames
  BY <1>1, <1>2 DEF WriteBackNames, TypeInv, TypeOK, HeadsChecked, counters
<1>3. CASE Crash
  <2>1. NotSaving \in SaveState /\ NotSaving.at = "idle"  BY DEF NotSaving, SaveState
  <2>2. crashes' \in 0..MaxCrashes  BY <1>1, <1>3, BoundsAssumption DEF Crash, TypeOK
  <2>3. TypeOK'  BY <1>1, <1>3, <2>1, <2>2, LoadFields DEF Crash, TypeOK
  <2>4. \A r \in Readers : load'[r].at = "idle"  BY <1>3, LoadFields DEF Crash
  <2> QED  BY <2>3, <2>4 DEF TypeInv, HeadsChecked, Vetted
<1>4. ASSUME NEW i \in Inodes, WriteBack(i) PROVE TypeInv'
  <2>1. PICK c \in Contents, d \in Contents : c = cache[i] /\ d = disk[i]
    BY <1>1 DEF TypeOK, Contents, Entries
  <2>2. PICK blocks \in SUBSET (1..Len(c)) :
          disk' = [disk EXCEPT ![i] =
            [j \in 1..Len(c) |-> IF j \in blocks THEN c[j] ELSE IF j <= Len(d) THEN d[j] ELSE Hole]]
    BY <1>4, <2>1 DEF WriteBack
  <2>3. disk' \in [Inodes -> Contents]
    BY <1>1, <2>2, WriteBackFacts DEF TypeOK, Contents, Entries
  <2> QED
    BY <1>1, <1>4, <2>3 DEF WriteBack, TypeInv, TypeOK, HeadsChecked, counters, Contents, Entries
<1>5. ASSUME NEW i \in Inodes, Rot(i) PROVE TypeInv'
  <2>1. PICK c \in Contents : cache' = [cache EXCEPT ![i] = c] /\ disk' = [disk EXCEPT ![i] = c]
    BY <1>1, <1>5, RotEffect
  <2>2. cache' \in [Inodes -> Contents] /\ disk' \in [Inodes -> Contents]
    BY <1>1, <2>1 DEF TypeOK, Contents, Entries
  <2>3. rots' \in 0..MaxRot  BY <1>1, <1>5, RotEffect, BoundsAssumption DEF TypeOK
  <2>4. UNCHANGED <<names, diskNames, save, load, saves, crashes>>  BY <1>1, <1>5, RotEffect
  <2> QED  BY <1>1, <2>2, <2>3, <2>4 DEF TypeInv, TypeOK, HeadsChecked, Contents, Entries
<1> QED  BY <1>2, <1>3, <1>4, <1>5 DEF Storage

LEMMA NextType == ASSUME TypeInv, [Next]_vars PROVE TypeInv'
<1>1. CASE UNCHANGED vars
  BY <1>1 DEF vars, fileVars, counters, TypeInv, TypeOK, HeadsChecked
<1>2. ASSUME NEW s \in Savers, SaveStep(s) \/ \E p \in Paths, g \in Graphs : Begin(s, p, g)
      PROVE  TypeInv'
  <2>1. TypeOK'  BY <1>2, SaveType DEF TypeInv
  <2>2. UNCHANGED load
    BY <1>2 DEF SaveStep, Begin, Create, Write, Sync, Rename, Fail
  <2> QED  BY <2>1, <2>2 DEF TypeInv, HeadsChecked
<1> QED  BY <1>1, <1>2, LoadType, StorageType DEF Next, Steps

LEMMA SerialIsNext == [SerialNext]_vars => [Next]_vars
  BY DEF SerialNext, Next, SerialBegin

LEMMA InitTypeInv == Init => TypeInv
<1>1. Init => HeadsChecked  BY LoadFields DEF Init, HeadsChecked, Vetted
<1> QED  BY <1>1, InitType DEF TypeInv

(* GraphFile!TypeOK, for any savers, readers, destinations, graphs and files. *)
THEOREM TypeCorrect == Spec => []TypeOK
<1>1. TypeInv /\ [Next]_vars => TypeInv'  BY NextType
<1>2. TypeInv => TypeOK  BY DEF TypeInv
<1> QED  BY InitTypeInv, <1>1, <1>2, PTL DEF Spec

LEMMA SerialTypes == SerialSpec => []TypeInv
<1>1. TypeInv /\ [SerialNext]_vars => TypeInv'  BY NextType, SerialIsNext
<1> QED  BY InitTypeInv, <1>1, PTL DEF SerialSpec

-----------------------------------------------------------------------------
(* Which file a name stands for.  Savers of one temporary name take turns, no *)
(* file has two names, and the file behind a temporary name is neither what a *)
(* crash would bring back under a destination nor what a reader has mapped.   *)

OnePerTemp ==
  \A s, u \in Savers : Saving(s) /\ Saving(u) /\ s # u => TmpOf[save[s].path] # TmpOf[save[u].path]

Injective(dir) == \A n, m \in Names : dir[n] = dir[m] /\ dir[n] # NoFile => n = m

Private(i) ==
  /\ \A p \in Paths : diskNames[p] # i
  /\ \A r \in Readers : load[r].at # "idle" => load[r].inode # i

AtTemp(s) == save[s].at \in Positions => names[TmpOf[save[s].path]] = save[s].inode

FilesApart ==
  /\ OnePerTemp
  /\ Injective(names) /\ Injective(diskNames)
  /\ \A t \in Temps : names[t] # NoFile => Private(names[t])
  /\ \A s \in Savers : AtTemp(s)

NamesInv == TypeInv /\ FilesApart

LEMMA NameFacts ==
  /\ \A p \in Paths : p \in Names /\ p \notin Temps /\ TmpOf[p] \in Temps /\ TmpOf[p] \in Names
  /\ \A t \in Temps : t \in Names /\ t \notin Paths
  /\ NoFile \notin Inodes
  BY NamesAssumption, SentinelAssumption DEF Names

LEMMA InitNames == Init => NamesInv
<1> SUFFICES ASSUME Init PROVE NamesInv
  OBVIOUS
<1>1. TypeInv  BY InitTypeInv
<1>2. PICK p \in Paths, i \in Inodes : names = [n \in Names |-> IF n = p THEN i ELSE NoFile]
  BY DEF Init, AnyOf
<1>3. \A s \in Savers : save[s].at = "idle"  BY DEF Init, NotSaving
<1>4. Injective(names) /\ Injective(diskNames)  BY <1>2 DEF Init, Injective
<1>5. \A t \in Temps : names[t] = NoFile  BY <1>2, NameFacts
<1> QED  BY <1>1, <1>3, <1>4, <1>5 DEF NamesInv, FilesApart, OnePerTemp, AtTemp, Positions, Saving

\* Where a saver is.
LEMMA SaverFacts ==
  ASSUME NamesInv, NEW s \in Savers, Saving(s)
  PROVE  /\ save[s].at \in {"create"} \cup Positions
         /\ save[s].path \in Paths /\ save[s].graph \in Graphs /\ TmpOf[save[s].path] \in Temps
         /\ save[s].at \in Positions =>
              /\ save[s].inode \in Inodes /\ save[s].written \in Nat
              /\ names[TmpOf[save[s].path]] = save[s].inode /\ Private(save[s].inode)
<1>1. save[s] \in SaveState /\ save[s].at # "idle"  BY DEF NamesInv, TypeInv, TypeOK, Saving
<1> QED  BY <1>1, SaveFields, NameFacts DEF NamesInv, FilesApart, AtTemp

LEMMA BeginNames ==
  ASSUME NamesInv, NEW s \in Savers, NEW p \in Paths, NEW g \in Graphs, SerialBegin(s, p, g)
  PROVE  FilesApart'
<1>1. PICK w : w = [at |-> "create", path |-> p, graph |-> g]
  OBVIOUS
<1>2. save' = [save EXCEPT ![s] = w] /\ UNCHANGED <<fileVars, load>>
  BY <1>1 DEF SerialBegin, Begin
<1>3. \A u \in Savers : save'[u] = IF u = s THEN w ELSE save[u]
  BY <1>2 DEF NamesInv, TypeInv, TypeOK
<1>4. w.at = "create" /\ w.path = p  BY <1>1
<1>5. \A u \in Savers : Saving(u) => TmpOf[save[u].path] # TmpOf[p]  BY DEF SerialBegin
<1>6. OnePerTemp'  BY <1>3, <1>4, <1>5 DEF NamesInv, FilesApart, OnePerTemp, Saving
<1>7. \A u \in Savers : AtTemp(u)'
  BY <1>2, <1>3, <1>4 DEF NamesInv, FilesApart, AtTemp, Positions, fileVars
<1> QED
  BY <1>2, <1>6, <1>7 DEF NamesInv, FilesApart, Injective, Private, fileVars

\* What Create does to the directory.
LEMMA CreateEffect ==
  ASSUME NamesInv, NEW s \in Savers, Create(s)
  PROVE  /\ save[s].at = "create" /\ save[s].path \in Paths /\ save[s].graph \in Graphs
         /\ TmpOf[save[s].path] \in Temps
         /\ UNCHANGED <<disk, diskNames, load, counters>>
         /\ \E i \in Inodes :
              /\ names' = [names EXCEPT ![TmpOf[save[s].path]] = i]
              /\ cache' = [cache EXCEPT ![i] = <<>>]
              /\ save' = [save EXCEPT ![s] = [at |-> "write", path |-> save[s].path, graph |-> save[s].graph,
                                              inode |-> i, written |-> 0]]
              /\ i = names[TmpOf[save[s].path]] \/ i \notin InUse
<1>1. save[s].at = "create"  BY DEF Create
<1>2. save[s].path \in Paths /\ save[s].graph \in Graphs /\ TmpOf[save[s].path] \in Temps
  BY <1>1, SaverFacts DEF Saving
<1>3. names[TmpOf[save[s].path]] \in Inodes \cup {NoFile}
  BY <1>2, NameFacts DEF NamesInv, TypeInv, TypeOK
<1>4. PICK i \in IF names[TmpOf[save[s].path]] # NoFile THEN {names[TmpOf[save[s].path]]} ELSE AnyOf(Inodes \ InUse) :
              /\ names' = [names EXCEPT ![TmpOf[save[s].path]] = i]
              /\ cache' = [cache EXCEPT ![i] = <<>>]
              /\ save' = [save EXCEPT ![s] = [at |-> "write", path |-> save[s].path, graph |-> save[s].graph,
                                              inode |-> i, written |-> 0]]
  BY DEF Create
<1>5. i \in Inodes /\ (i = names[TmpOf[save[s].path]] \/ i \notin InUse)
  BY <1>3, <1>4 DEF AnyOf
<1> QED  BY <1>1, <1>2, <1>4, <1>5 DEF Create

\* A file not in use has no name and no reader.
LEMMA UnusedFacts ==
  ASSUME NEW i, i \notin InUse
  PROVE  Private(i) /\ \A n \in Names : names[n] # i /\ diskNames[n] # i
<1>1. \A n \in Names : names[n] # i /\ diskNames[n] # i  BY DEF InUse
<1>2. \A r \in Readers : load[r].at # "idle" => load[r].inode # i  BY DEF InUse
<1> QED  BY <1>1, <1>2, NameFacts DEF Private

LEMMA CreateNames == ASSUME NamesInv, NEW s \in Savers, Create(s) PROVE FilesApart'
<1>1. PICK t \in Temps : t = TmpOf[save[s].path]  BY CreateEffect
<1>2. PICK i \in Inodes :
        /\ names' = [names EXCEPT ![t] = i]
        /\ save' = [save EXCEPT ![s] = [at |-> "write", path |-> save[s].path, graph |-> save[s].graph,
                                        inode |-> i, written |-> 0]]
        /\ i = names[t] \/ i \notin InUse
  BY <1>1, CreateEffect
<1>3. PICK w : w = [at |-> "write", path |-> save[s].path, graph |-> save[s].graph,
                    inode |-> i, written |-> 0]
  OBVIOUS
<1>4. w.at = "write" /\ w.path = save[s].path /\ w.inode = i  BY <1>3
<1>5. \A u \in Savers : save'[u] = IF u = s THEN w ELSE save[u]
  BY <1>2, <1>3 DEF NamesInv, TypeInv, TypeOK
<1>6. \A n \in Names : names'[n] = IF n = t THEN i ELSE names[n]
  BY <1>2 DEF NamesInv, TypeInv, TypeOK
<1>7. UNCHANGED <<diskNames, load>> /\ save[s].at = "create"  BY CreateEffect
<1>8. OnePerTemp'
  BY <1>4, <1>5, <1>7 DEF NamesInv, FilesApart, OnePerTemp, Saving
<1>9. \A n \in Names : n # t => names[n] # i
  BY <1>2, NameFacts, UnusedFacts DEF NamesInv, FilesApart, Injective
<1>10. Injective(names)'  BY <1>6, <1>9 DEF NamesInv, FilesApart, Injective
<1>11. Private(i)
  BY <1>2, NameFacts, UnusedFacts DEF NamesInv, FilesApart
<1>12. \A u \in Temps : names'[u] # NoFile => Private(names[u])'
  <2>1. \A j : Private(j)' <=> Private(j)  BY <1>7 DEF Private
  <2> SUFFICES ASSUME NEW u \in Temps, NEW j, j = names'[u], j # NoFile PROVE Private(j)
    BY <2>1 DEF Private
  <2>2. u \in Names  BY NameFacts
  <2> QED  BY <1>6, <1>11, <2>2 DEF NamesInv, FilesApart
<1>13. ASSUME NEW u \in Savers PROVE AtTemp(u)'
  <2>1. CASE u = s  BY <1>1, <1>4, <1>5, <1>6, <2>1, NameFacts DEF AtTemp
  <2>2. CASE u # s /\ save[u].at \in Positions
    <3>1. Saving(u) /\ Saving(s)  BY <1>7, <2>2 DEF Saving, Positions
    <3>2. TmpOf[save[u].path] # t /\ TmpOf[save[u].path] \in Names
      BY <1>1, <2>2, <3>1, SaverFacts, NameFacts DEF NamesInv, FilesApart, OnePerTemp
    <3> QED  BY <1>5, <1>6, <2>2, <3>2 DEF NamesInv, FilesApart, AtTemp
  <2>3. CASE u # s /\ save[u].at \notin Positions  BY <1>5, <2>3 DEF AtTemp
  <2> QED  BY <2>1, <2>2, <2>3
<1> QED  BY <1>7, <1>8, <1>10, <1>12, <1>13 DEF NamesInv, FilesApart, Injective

\* What Write and Sync do to their saver.
LEMMA AdvanceEffect ==
  ASSUME NamesInv, NEW s \in Savers, Write(s) \/ Sync(s)
  PROVE  /\ save[s].at \in {"write", "sync"} /\ Saving(s)
         /\ UNCHANGED <<names, diskNames, load, counters>>
         /\ \E a \in Positions, n \in Nat :
              save' = [save EXCEPT ![s] = [at |-> a, path |-> save[s].path, graph |-> save[s].graph,
                                           inode |-> save[s].inode, written |-> n]]
<1>1. save[s].at \in {"write", "sync"} /\ Saving(s)  BY DEF Write, Sync, Saving
<1>2. PICK v \in SaveState : v = save[s]  BY DEF NamesInv, TypeInv, TypeOK
<1>3. v.at \in Positions /\ v.written \in Nat  BY <1>1, <1>2, SaverFacts DEF Positions
<1>4. CASE Write(s)
  <2>1. PICK n \in Nat, a \in Positions :
          save' = [save EXCEPT ![s].written = n, ![s].at = a]
    <3>1. PICK n \in Nat : n = v.written + 1  BY <1>3
    <3>2. PICK a \in Positions : a = IF n = Len(FileOf(v.graph)) THEN "sync" ELSE "write"
      BY DEF Positions
    <3> QED  BY <1>2, <1>4, <3>1, <3>2 DEF Write
  <2>2. save' = [save EXCEPT ![s] = [v EXCEPT !.written = n, !.at = a]]  BY <1>2, <2>1
  <2>3. [v EXCEPT !.written = n, !.at = a]
          = [at |-> a, path |-> v.path, graph |-> v.graph, inode |-> v.inode, written |-> n]
    BY <1>3, SaveUpdate
  <2>4. save' = [save EXCEPT ![s] = [at |-> a, path |-> save[s].path, graph |-> save[s].graph,
                                     inode |-> save[s].inode, written |-> n]]
    BY <1>2, <2>2, <2>3
  <2>5. UNCHANGED <<names, diskNames, load, counters>>  BY <1>4 DEF Write
  <2> QED  BY <1>1, <2>4, <2>5
<1>5. CASE Sync(s)
  <2>1. save' = [save EXCEPT ![s] = [v EXCEPT !.at = "rename"]]  BY <1>2, <1>5 DEF Sync
  <2>2. [v EXCEPT !.at = "rename"]
          = [at |-> "rename", path |-> v.path, graph |-> v.graph, inode |-> v.inode, written |-> v.written]
    BY <1>3, SaveUpdate
  <2> QED  BY <1>1, <1>2, <1>3, <1>5, <2>1, <2>2 DEF Sync, Positions
<1> QED  BY <1>4, <1>5

LEMMA AdvanceNames == ASSUME NamesInv, NEW s \in Savers, Write(s) \/ Sync(s) PROVE FilesApart'
<1>1. PICK a \in Positions, n \in Nat :
        save' = [save EXCEPT ![s] = [at |-> a, path |-> save[s].path, graph |-> save[s].graph,
                                     inode |-> save[s].inode, written |-> n]]
  BY AdvanceEffect
<1>2. PICK w : w = [at |-> a, path |-> save[s].path, graph |-> save[s].graph,
                    inode |-> save[s].inode, written |-> n]
  OBVIOUS
<1>3. w.path = save[s].path /\ w.inode = save[s].inode /\ w.at = a  BY <1>2
<1>4. \A u \in Savers : save'[u] = IF u = s THEN w ELSE save[u]
  BY <1>1, <1>2 DEF NamesInv, TypeInv, TypeOK
<1>5. UNCHANGED <<names, diskNames, load>> /\ save[s].at \in Positions /\ Saving(s)
  BY AdvanceEffect DEF Positions
<1>6. OnePerTemp'  BY <1>3, <1>4, <1>5 DEF NamesInv, FilesApart, OnePerTemp, Saving
<1>7. \A u \in Savers : AtTemp(u)'  BY <1>3, <1>4, <1>5 DEF NamesInv, FilesApart, AtTemp
<1> QED  BY <1>5, <1>6, <1>7 DEF NamesInv, FilesApart, Injective, Private

\* What Rename does to the directory.
LEMMA RenameEffect ==
  ASSUME NamesInv, NEW s \in Savers, Rename(s)
  PROVE  /\ Saving(s) /\ save[s].at = "rename" /\ save[s].path \in Paths /\ save[s].graph \in Graphs
         /\ TmpOf[save[s].path] \in Temps
         /\ names[TmpOf[save[s].path]] = save[s].inode /\ save[s].inode \in Inodes
         /\ \A n \in Names : names'[n] = IF n = save[s].path THEN save[s].inode
                                         ELSE IF n = TmpOf[save[s].path] THEN NoFile ELSE names[n]
         /\ \A u \in Savers : save'[u] = IF u = s THEN NotSaving ELSE save[u]
         /\ UNCHANGED <<cache, disk, diskNames, load, counters>>
<1>1. save[s].at = "rename" /\ Saving(s)  BY DEF Rename, Saving
<1>2. /\ save[s].path \in Paths /\ save[s].graph \in Graphs /\ TmpOf[save[s].path] \in Temps
      /\ names[TmpOf[save[s].path]] = save[s].inode /\ save[s].inode \in Inodes
  BY <1>1, SaverFacts DEF Positions
<1>3. \A u \in Savers : save'[u] = IF u = s THEN NotSaving ELSE save[u]
  BY DEF Rename, NamesInv, TypeInv, TypeOK
<1>4. PICK p \in Paths, t \in Temps, i \in Inodes :
        p = save[s].path /\ t = TmpOf[save[s].path] /\ i = names[t] /\ i = save[s].inode
  BY <1>2
<1>5. names' = [names EXCEPT ![p] = i, ![t] = NoFile]  BY <1>4 DEF Rename
<1>6. \A n \in Names : names'[n] = IF n = p THEN i ELSE IF n = t THEN NoFile ELSE names[n]
  BY <1>5, NameFacts DEF NamesInv, TypeInv, TypeOK
<1> QED  BY <1>1, <1>2, <1>3, <1>4, <1>6 DEF Rename

LEMMA RenameNames == ASSUME NamesInv, NEW s \in Savers, Rename(s) PROVE FilesApart'
<1>1. PICK p \in Paths, t \in Temps, i \in Inodes :
        p = save[s].path /\ t = TmpOf[save[s].path] /\ i = names[t] /\ i = save[s].inode
  BY RenameEffect
<1>2. \A n \in Names : names'[n] = IF n = p THEN i ELSE IF n = t THEN NoFile ELSE names[n]
  BY <1>1, RenameEffect
<1>3. \A u \in Savers : save'[u] = IF u = s THEN NotSaving ELSE save[u]  BY RenameEffect
<1>4. UNCHANGED <<diskNames, load>> /\ Saving(s)  BY RenameEffect
<1>5. NotSaving.at = "idle"  BY DEF NotSaving
<1>6. OnePerTemp'  BY <1>3, <1>5 DEF NamesInv, FilesApart, OnePerTemp, Saving
<1>7. Injective(names)'
  <2>1. i # NoFile /\ p \in Names /\ t \in Names /\ p # t  BY <1>1, NameFacts
  <2>2. \A n, m \in Names : names[n] = names[m] /\ names[n] # NoFile => n = m
    BY DEF NamesInv, FilesApart, Injective
  <2>3. \A n \in Names : n # t => names[n] # i  BY <1>1, <2>1, <2>2
  <2>4. \A n, m \in Names : names'[n] = names'[m] /\ names'[n] # NoFile => n = m
    BY <1>2, <2>1, <2>2, <2>3
  <2> QED  BY <2>4 DEF Injective
<1>8. \A u \in Temps : names'[u] # NoFile => Private(names[u])'
  <2>1. \A j : Private(j)' <=> Private(j)  BY <1>4 DEF Private
  <2> SUFFICES ASSUME NEW u \in Temps, NEW j, j = names'[u], j # NoFile PROVE Private(j)
    BY <2>1 DEF Private
  <2>2. u \in Names /\ u # p  BY NameFacts
  <2> QED  BY <1>2, <2>2 DEF NamesInv, FilesApart
<1>9. ASSUME NEW u \in Savers PROVE AtTemp(u)'
  <2>1. CASE u = s  BY <1>3, <1>5, <2>1 DEF AtTemp, Positions
  <2>2. CASE u # s /\ save[u].at \in Positions
    <3>1. Saving(u)  BY <2>2 DEF Saving, Positions
    <3>2. TmpOf[save[u].path] # t /\ TmpOf[save[u].path] \in Temps
      BY <1>1, <1>4, <2>2, <3>1, SaverFacts DEF NamesInv, FilesApart, OnePerTemp
    <3>3. names'[TmpOf[save[u].path]] = names[TmpOf[save[u].path]]
      BY <1>2, <3>2, NameFacts
    <3> QED  BY <1>3, <2>2, <3>3 DEF NamesInv, FilesApart, AtTemp
  <2>3. CASE u # s /\ save[u].at \notin Positions  BY <1>3, <2>3 DEF AtTemp
  <2> QED  BY <2>1, <2>2, <2>3
<1> QED  BY <1>4, <1>6, <1>7, <1>8, <1>9 DEF NamesInv, FilesApart, Injective

LEMMA FailNames == ASSUME NamesInv, NEW s \in Savers, Fail(s) PROVE FilesApart'
<1>1. \A u \in Savers : save'[u] = IF u = s THEN NotSaving ELSE save[u]
  BY DEF Fail, NamesInv, TypeInv, TypeOK
<1>2. NotSaving.at = "idle"  BY DEF NotSaving
<1>3. UNCHANGED <<names, diskNames, load>>  BY DEF Fail, fileVars
<1>4. OnePerTemp'  BY <1>1, <1>2 DEF NamesInv, FilesApart, OnePerTemp, Saving
<1>5. \A u \in Savers : AtTemp(u)'
  BY <1>1, <1>2, <1>3 DEF NamesInv, FilesApart, AtTemp, Positions
<1> QED  BY <1>3, <1>4, <1>5 DEF NamesInv, FilesApart, Injective, Private

LEMMA LoadNames ==
  ASSUME NamesInv, NEW r \in Readers, LoadStep(r) \/ \E p \in Paths : Open(r, p)
  PROVE  FilesApart'
<1>1. TypeOK /\ HeadsChecked  BY DEF NamesInv, TypeInv
<1>2. UNCHANGED <<names, diskNames, save>>
  BY DEF LoadStep, Validate, Checksum, Deserialize, Close, Open, fileVars
<1>3. ASSUME NEW w, load' = [load EXCEPT ![r] = w],
             w.at # "idle" => \A t \in Temps : names[t] # NoFile => names[t] # w.inode
      PROVE  \A t \in Temps : names'[t] # NoFile => Private(names[t])'
  <2>1. \A q \in Readers : load'[q] = IF q = r THEN w ELSE load[q]  BY <1>1, <1>3 DEF TypeOK
  <2> QED  BY <1>2, <1>3, <2>1 DEF NamesInv, FilesApart, Private
<1>4. CASE \E p \in Paths : Open(r, p)
  <2>1. PICK p \in Paths : Open(r, p)  BY <1>4
  <2>2. PICK w \in OpenLoad : load' = [load EXCEPT ![r] = w] /\ w.inode = names[p]
    BY <1>1, <2>1, OpenEffect
  <2>3. \A t \in Temps : names[t] # NoFile => names[t] # w.inode
    BY <2>2, NameFacts DEF NamesInv, FilesApart, Injective
  <2>4. \A t \in Temps : names'[t] # NoFile => Private(names[t])'  BY <1>3, <2>2, <2>3
  <2> QED  BY <1>2, <2>4 DEF NamesInv, FilesApart, Injective, OnePerTemp, AtTemp, Saving
<1>5. CASE Validate(r) \/ Checksum(r) \/ Deserialize(r)
  <2>1. PICK w \in OpenLoad : load' = [load EXCEPT ![r] = w] /\ w.inode = load[r].inode
    BY <1>1, <1>5, LoadEffect
  <2>2. load[r].at # "idle"  BY <1>5 DEF Validate, Checksum, Deserialize
  <2>3. \A t \in Temps : names[t] # NoFile => names[t] # w.inode
    BY <2>1, <2>2 DEF NamesInv, FilesApart, Private
  <2>4. \A t \in Temps : names'[t] # NoFile => Private(names[t])'  BY <1>3, <2>1, <2>3
  <2> QED  BY <1>2, <2>4 DEF NamesInv, FilesApart, Injective, OnePerTemp, AtTemp, Saving
<1>6. CASE Close(r)
  <2>1. load' = [load EXCEPT ![r] = NotLoading] /\ NotLoading.at = "idle"
    BY <1>6, LoadFields DEF Close
  <2>2. \A t \in Temps : names'[t] # NoFile => Private(names[t])'  BY <1>3, <2>1
  <2> QED  BY <1>2, <2>2 DEF NamesInv, FilesApart, Injective, OnePerTemp, AtTemp, Saving
<1> QED  BY <1>4, <1>5, <1>6 DEF LoadStep

LEMMA StorageNames == ASSUME NamesInv, Storage PROVE FilesApart'
<1>1. CASE WriteBackNames
  <2>1. diskNames' = names /\ UNCHANGED <<names, save, load>>  BY <1>1 DEF WriteBackNames
  <2>2. \A t \in Temps : names[t] # NoFile => \A p \in Paths : names[p] # names[t]
    BY NameFacts DEF NamesInv, FilesApart, Injective
  <2>3. \A t \in Temps : names'[t] # NoFile => Private(names[t])'
    BY <2>1, <2>2 DEF NamesInv, FilesApart, Private
  <2> QED  BY <2>1, <2>3 DEF NamesInv, FilesApart, Injective, OnePerTemp, AtTemp, Saving
<1>2. CASE Crash
  <2>1. /\ names' = diskNames /\ UNCHANGED diskNames
        /\ \A s \in Savers : save'[s].at = "idle"
        /\ \A r \in Readers : load'[r].at = "idle"
    BY <1>2 DEF Crash, NotSaving, NotLoading
  <2>2. \A t \in Temps : diskNames[t] # NoFile => \A p \in Paths : diskNames[p] # diskNames[t]
    BY NameFacts DEF NamesInv, FilesApart, Injective
  <2>3. \A t \in Temps : names'[t] # NoFile => Private(names[t])'
    BY <2>1, <2>2 DEF Private
  <2> QED  BY <2>1, <2>3 DEF NamesInv, FilesApart, Injective, OnePerTemp, AtTemp, Saving, Positions
<1>3. CASE \E i \in Inodes : WriteBack(i) \/ Rot(i)
  <2>1. UNCHANGED <<names, diskNames, save, load>>  BY <1>3 DEF WriteBack, Rot
  <2> QED  BY <2>1 DEF NamesInv, FilesApart, Injective, OnePerTemp, AtTemp, Saving, Private
<1> QED  BY <1>1, <1>2, <1>3 DEF Storage

LEMMA NextNames == ASSUME NamesInv, [SerialNext]_vars PROVE NamesInv'
<1>1. TypeInv'  BY NextType, SerialIsNext DEF NamesInv
<1>2. CASE UNCHANGED vars
  BY <1>1, <1>2 DEF vars, fileVars, NamesInv, FilesApart, Injective, OnePerTemp, AtTemp, Saving, Private
<1>3. CASE SerialNext
  <2>1. FilesApart'
    BY <1>3, BeginNames, CreateNames, AdvanceNames, RenameNames, FailNames, LoadNames, StorageNames
    DEF SerialNext, Steps, SaveStep
  <2> QED  BY <1>1, <2>1 DEF NamesInv
<1> QED  BY <1>2, <1>3

LEMMA AlwaysNames == SerialSpec => []NamesInv
<1>1. NamesInv /\ [SerialNext]_vars => NamesInv'  BY NextNames
<1> QED  BY InitNames, <1>1, PTL DEF SerialSpec

-----------------------------------------------------------------------------
(* What the files hold when storage damages nothing.  A file that a           *)
(* destination names, now or after a crash, or that a reader has mapped holds *)
(* one whole graph, in memory and on disk; a saver's file holds what it has   *)
(* written so far.                                                            *)

Holds(i, g) == cache[i] = FileOf(g) /\ disk[i] = FileOf(g)

Kept(i) == i = NoFile \/ \E g \in Graphs : Holds(i, g)

Written(s) ==
  /\ save[s].at = "write" =>
       /\ Len(cache[save[s].inode]) = save[s].written
       /\ \A j \in 1..save[s].written : cache[save[s].inode][j] = FileOf(save[s].graph)[j]
  /\ save[s].at = "sync" => cache[save[s].inode] = FileOf(save[s].graph)
  /\ save[s].at = "rename" => Holds(save[s].inode, save[s].graph)

Reads(r) ==
  load[r].at # "idle" =>
    /\ load[r].at \in {"validate"} \cup Vetted
    /\ load[r].opened \in Graphs /\ Holds(load[r].inode, load[r].opened)
    /\ load[r].len = Len(FileOf(load[r].opened))
    /\ load[r].at \in Vetted => load[r].head = FileOf(load[r].opened)[1]
    /\ load[r].at = "loaded" => load[r].graph = load[r].opened

FilesWhole ==
  /\ \A p \in Paths : Kept(names[p]) /\ Kept(diskNames[p])
  /\ \A s \in Savers : Written(s)
  /\ \A r \in Readers : Reads(r)

FilesInv == NamesInv /\ FilesWhole

\* The graph in a file that holds one.
LEMMA ContentIs ==
  ASSUME NEW contents, NEW i \in Inodes, NEW g \in Graphs, contents[i] = FileOf(g)
  PROVE  Content(contents, i) = g
<1>1. i # NoFile /\ \E h \in Graphs : contents[i] = FileOf(h)  BY SentinelAssumption
<1>2. PICK h : h = CHOOSE x \in Graphs : contents[i] = FileOf(x)
  OBVIOUS
<1>3. h \in Graphs /\ contents[i] = FileOf(h)  BY <1>1, <1>2
<1>4. h = g  BY <1>3, FileOfInjective
<1> QED  BY <1>1, <1>2, <1>4 DEF Content

\* A file that one saver may write: nothing else depends on what it holds.
Alone(i, s) ==
  /\ Private(i) /\ \A p \in Paths : names[p] # i
  /\ \A u \in Savers : u # s /\ save[u].at \in Positions => save[u].inode # i

LEMMA SaverAlone ==
  ASSUME NamesInv, NEW s \in Savers, save[s].at \in Positions
  PROVE  save[s].inode \in Inodes /\ Alone(save[s].inode, s)
<1>1. PICK t \in Temps, i \in Inodes :
        t = TmpOf[save[s].path] /\ i = save[s].inode /\ names[t] = i /\ Private(i) /\ Saving(s)
  BY SaverFacts DEF Saving, Positions
<1>2. i # NoFile /\ t \in Names  BY NameFacts
<1>3. \A p \in Paths : names[p] # i
  BY <1>1, <1>2, NameFacts DEF NamesInv, FilesApart, Injective
<1>4. ASSUME NEW u \in Savers, u # s, save[u].at \in Positions PROVE save[u].inode # i
  <2>1. Saving(u)  BY <1>4 DEF Saving, Positions
  <2>2. TmpOf[save[u].path] # t /\ TmpOf[save[u].path] \in Names /\ names[TmpOf[save[u].path]] = save[u].inode
    BY <1>1, <1>4, <2>1, SaverFacts, NameFacts DEF NamesInv, FilesApart, OnePerTemp
  <2> QED  BY <1>1, <1>2, <2>2 DEF NamesInv, FilesApart, Injective
<1> QED  BY <1>1, <1>3, <1>4 DEF Alone

LEMMA CreateAlone ==
  ASSUME NamesInv, NEW s \in Savers, save[s].at = "create",
         NEW t \in Temps, t = TmpOf[save[s].path],
         NEW i \in Inodes, i = names[t] \/ i \notin InUse
  PROVE  Alone(i, s)
<1>1. i # NoFile /\ t \in Names  BY NameFacts
<1>2. Private(i) /\ \A p \in Paths : names[p] # i
  BY <1>1, NameFacts, UnusedFacts DEF NamesInv, FilesApart, Injective
<1>3. ASSUME NEW u \in Savers, u # s, save[u].at \in Positions PROVE save[u].inode # i
  <2>1. CASE i \notin InUse  BY <1>3, <2>1 DEF InUse, Positions
  <2>2. CASE i = names[t]
    <3>1. Saving(u) /\ Saving(s)  BY <1>3 DEF Saving, Positions
    <3>2. TmpOf[save[u].path] # t /\ TmpOf[save[u].path] \in Names /\ names[TmpOf[save[u].path]] = save[u].inode
      BY <1>3, <3>1, SaverFacts, NameFacts DEF NamesInv, FilesApart, OnePerTemp
    <3> QED  BY <1>1, <2>2, <3>2 DEF NamesInv, FilesApart, Injective
  <2> QED  BY <2>1, <2>2
<1> QED  BY <1>2, <1>3 DEF Alone

\* What a step on such a file leaves as it was.
LEMMA OthersKept ==
  ASSUME FilesInv, NEW s \in Savers, NEW i, Alone(i, s),
         \A j \in Inodes : j # i => cache'[j] = cache[j] /\ disk'[j] = disk[j],
         \A p \in Paths : names'[p] = names[p],
         \A u \in Savers : u # s => save'[u] = save[u],
         UNCHANGED <<diskNames, load>>
  PROVE  /\ \A p \in Paths : Kept(names[p])' /\ Kept(diskNames[p])'
         /\ \A u \in Savers : u # s => Written(u)'
         /\ \A r \in Readers : Reads(r)'
<1>1. \A j \in Inodes : j # i => \A g : Holds(j, g)' <=> Holds(j, g)  BY DEF Holds
<1>2. ASSUME NEW p \in Paths PROVE Kept(names[p])' /\ Kept(diskNames[p])'
  <2>1. names[p] \in Inodes \cup {NoFile} /\ diskNames[p] \in Inodes \cup {NoFile}
    BY NameFacts DEF FilesInv, NamesInv, TypeInv, TypeOK
  <2>2. names[p] # i /\ diskNames[p] # i  BY DEF Alone, Private
  <2>3. Kept(names[p]) /\ Kept(diskNames[p])  BY DEF FilesInv, FilesWhole
  <2> QED  BY <1>1, <2>1, <2>2, <2>3 DEF Kept, Holds
<1>3. ASSUME NEW u \in Savers, u # s PROVE Written(u)'
  <2>1. CASE save[u].at \in Positions
    <3>1. save[u].inode \in Inodes /\ save[u].inode # i
      BY <1>3, <2>1, SaverAlone DEF FilesInv, Alone
    <3> QED  BY <1>1, <1>3, <3>1 DEF FilesInv, FilesWhole, Written, Holds
  <2>2. CASE save[u].at \notin Positions
    BY <1>3, <2>2 DEF Written, Positions
  <2> QED  BY <2>1, <2>2
<1>4. ASSUME NEW r \in Readers PROVE Reads(r)'
  <2>1. CASE load[r].at # "idle"
    <3>1. load[r].inode \in Inodes /\ load[r].inode # i
      BY <2>1, MappedFacts DEF FilesInv, NamesInv, TypeInv, Alone, Private
    <3> QED  BY <1>1, <3>1 DEF FilesInv, FilesWhole, Reads, Holds
  <2>2. CASE load[r].at = "idle"  BY <2>2 DEF Reads
  <2> QED  BY <2>1, <2>2
<1> QED  BY <1>2, <1>3, <1>4

LEMMA InitFiles == Init => FilesInv
<1> SUFFICES ASSUME Init PROVE FilesInv
  OBVIOUS
<1>1. NamesInv  BY InitNames
<1>2. PICK old \in Graphs, p \in Paths, i \in AnyOf(Inodes) :
        /\ cache = [j \in Inodes |-> IF j = i THEN FileOf(old) ELSE <<>>]
        /\ names = [n \in Names |-> IF n = p THEN i ELSE NoFile]
  BY DEF Init
<1>3. i \in Inodes  BY DEF AnyOf
<1>4. Holds(i, old)  BY <1>2, <1>3 DEF Init, Holds
<1>5. \A q \in Paths : Kept(names[q]) /\ Kept(diskNames[q])
  BY <1>2, <1>4, NameFacts DEF Init, Kept
<1>6. \A s \in Savers : Written(s)  BY DEF Init, NotSaving, Written
<1>7. \A r \in Readers : Reads(r)  BY LoadFields DEF Init, Reads
<1> QED  BY <1>1, <1>5, <1>6, <1>7 DEF FilesInv, FilesWhole

LEMMA BeginFiles ==
  ASSUME FilesInv, NEW s \in Savers, NEW p \in Paths, NEW g \in Graphs, SerialBegin(s, p, g)
  PROVE  FilesWhole'
<1>1. PICK w : w = [at |-> "create", path |-> p, graph |-> g]
  OBVIOUS
<1>2. save' = [save EXCEPT ![s] = w] /\ UNCHANGED <<fileVars, load>>
  BY <1>1 DEF SerialBegin, Begin
<1>3. \A u \in Savers : save'[u] = IF u = s THEN w ELSE save[u]
  BY <1>2 DEF FilesInv, NamesInv, TypeInv, TypeOK
<1>4. w.at = "create"  BY <1>1
<1>5. ASSUME NEW u \in Savers PROVE Written(u)'
  <2>1. CASE u = s  BY <1>3, <1>4, <2>1 DEF Written
  <2>2. CASE u # s  BY <1>2, <1>3, <2>2 DEF FilesInv, FilesWhole, Written, Holds, fileVars
  <2> QED  BY <2>1, <2>2
<1>6. \A r \in Readers : Reads(r)'  BY <1>2 DEF FilesInv, FilesWhole, Reads, Holds, fileVars
<1> QED  BY <1>2, <1>5, <1>6 DEF FilesInv, FilesWhole, Kept, Holds, fileVars

\* Create, as the other files see it.
LEMMA CreateTouches ==
  ASSUME NamesInv, NEW s \in Savers, Create(s)
  PROVE  \E i \in Inodes :
           /\ Alone(i, s) /\ save[s].graph \in Graphs /\ save[s].path \in Paths
           /\ save' = [save EXCEPT ![s] = [at |-> "write", path |-> save[s].path, graph |-> save[s].graph,
                                           inode |-> i, written |-> 0]]
           /\ \A j \in Inodes : cache'[j] = IF j = i THEN <<>> ELSE cache[j]
           /\ \A p \in Paths : names'[p] = names[p]
           /\ UNCHANGED <<disk, diskNames, load, counters>>
<1>1. NamesInv
  OBVIOUS
<1>2. PICK t \in Temps : t = TmpOf[save[s].path]  BY <1>1, CreateEffect
<1>3. PICK i \in Inodes :
        /\ names' = [names EXCEPT ![t] = i]
        /\ cache' = [cache EXCEPT ![i] = <<>>]
        /\ save' = [save EXCEPT ![s] = [at |-> "write", path |-> save[s].path, graph |-> save[s].graph,
                                        inode |-> i, written |-> 0]]
        /\ i = names[t] \/ i \notin InUse
  BY <1>1, <1>2, CreateEffect
<1>4. Alone(i, s)  BY <1>1, <1>2, <1>3, CreateEffect, CreateAlone
<1>5. \A j \in Inodes : cache'[j] = IF j = i THEN <<>> ELSE cache[j]
  BY <1>1, <1>3 DEF NamesInv, TypeInv, TypeOK
<1>6. \A p \in Paths : names'[p] = names[p]
  BY <1>1, <1>3, NameFacts DEF NamesInv, TypeInv, TypeOK
<1> QED  BY <1>1, <1>3, <1>4, <1>5, <1>6, CreateEffect

LEMMA CreateFiles == ASSUME FilesInv, NEW s \in Savers, Create(s) PROVE FilesWhole'
<1>1. PICK i \in Inodes :
        /\ Alone(i, s) /\ save[s].graph \in Graphs
        /\ save' = [save EXCEPT ![s] = [at |-> "write", path |-> save[s].path, graph |-> save[s].graph,
                                        inode |-> i, written |-> 0]]
        /\ \A j \in Inodes : cache'[j] = IF j = i THEN <<>> ELSE cache[j]
        /\ \A p \in Paths : names'[p] = names[p]
        /\ UNCHANGED <<disk, diskNames, load>>
  BY CreateTouches DEF FilesInv
<1>2. PICK w : w = [at |-> "write", path |-> save[s].path, graph |-> save[s].graph,
                    inode |-> i, written |-> 0]
  OBVIOUS
<1>3. \A u \in Savers : save'[u] = IF u = s THEN w ELSE save[u]
  BY <1>1, <1>2 DEF FilesInv, NamesInv, TypeInv, TypeOK
<1>4. w.at = "write" /\ w.inode = i /\ w.written = 0  BY <1>2
<1>5. Written(s)'  BY <1>1, <1>3, <1>4 DEF Written
<1>6. /\ \A p \in Paths : Kept(names[p])' /\ Kept(diskNames[p])'
      /\ \A u \in Savers : u # s => Written(u)'
      /\ \A r \in Readers : Reads(r)'
  BY <1>1, <1>3, OthersKept
<1> QED  BY <1>5, <1>6 DEF FilesWhole

LEMMA WriteFiles == ASSUME FilesInv, NEW s \in Savers, Write(s) PROVE FilesWhole'
<1>1. NamesInv /\ TypeOK /\ save[s].at = "write" /\ Saving(s)
  BY DEF FilesInv, NamesInv, TypeInv, Write, Saving
<1>2. PICK v \in SaveState : v = save[s]  BY <1>1 DEF TypeOK
<1>3. v.at = "write" /\ v.graph \in Graphs /\ v.inode \in Inodes /\ v.written \in Nat
      /\ v.written <= Blocks[v.graph] /\ Alone(v.inode, s)
  BY <1>1, <1>2, SaverFacts, SaverAlone DEF Positions, TypeOK
<1>4. PICK k \in Inodes, g \in Graphs : k = v.inode /\ g = v.graph  BY <1>3
<1>5. PICK n \in Nat \ {0} : n = v.written + 1  BY <1>3
<1>6. PICK c \in Contents : c = cache[k]  BY <1>1 DEF TypeOK, Contents, Entries
<1>7. PICK f \in Contents : f = FileOf(g) /\ Len(f) = Blocks[g] + 1 /\ Blocks[g] \in Nat
  BY FileFacts
<1>8. n \in 1..Len(f)  BY <1>3, <1>4, <1>5, <1>7
<1>9. f[n] \in Entries  BY <1>8 DEF Contents
<1>10. PICK a : a = IF n = Len(f) THEN "sync" ELSE "write"
  OBVIOUS
<1>11. /\ cache' = [cache EXCEPT ![k] = Put(c, n, f[n])]
       /\ save' = [save EXCEPT ![s] = [v EXCEPT !.written = n, !.at = a]]
       /\ UNCHANGED <<disk, names, diskNames, load>>
  BY <1>2, <1>4, <1>5, <1>6, <1>7, <1>10 DEF Write
<1>12. PICK w : w = [at |-> a, path |-> v.path, graph |-> g, inode |-> k, written |-> n]
  OBVIOUS
<1>13. [v EXCEPT !.written = n, !.at = a] = w
  BY <1>3, <1>4, <1>12, SaveUpdate DEF Positions
<1>14. w.at = a /\ w.graph = g /\ w.inode = k /\ w.written = n  BY <1>12
<1>15. \A u \in Savers : save'[u] = IF u = s THEN w ELSE save[u]
  BY <1>1, <1>11, <1>13 DEF TypeOK
<1>16. \A j \in Inodes : cache'[j] = IF j = k THEN Put(c, n, f[n]) ELSE cache[j]
  BY <1>1, <1>11 DEF TypeOK
<1>17. Len(c) = n - 1 /\ \A j \in 1..(n - 1) : c[j] = f[j]
  BY <1>2, <1>3, <1>4, <1>5, <1>6, <1>7 DEF FilesInv, FilesWhole, Written
<1>18. PICK d \in Contents : d = Put(c, n, f[n])  BY <1>9, PutFacts
<1>19. Len(d) = n /\ \A j \in 1..n : d[j] = IF j = n THEN f[n] ELSE c[j]
  BY <1>9, <1>17, <1>18, PutFacts
<1>20. \A j \in 1..n : d[j] = f[j]
  <2> SUFFICES ASSUME NEW j \in 1..n PROVE d[j] = f[j]
    OBVIOUS
  <2>1. CASE j = n  BY <1>19, <2>1
  <2>2. CASE j # n
    <3>1. j \in 1..(n - 1)  BY <2>2
    <3> QED  BY <1>17, <1>19, <2>2, <3>1
  <2> QED  BY <2>1, <2>2
<1>21. n = Len(f) => d = f
  <2> SUFFICES ASSUME n = Len(f) PROVE d = f
    OBVIOUS
  <2>1. d = [j \in 1..n |-> d[j]] /\ f = [j \in 1..n |-> f[j]]  BY <1>19 DEF Contents
  <2> QED  BY <1>20, <2>1
<1>22. Written(s)'
  <2>1. cache'[k] = d  BY <1>16, <1>18
  <2>2. save'[s] = w  BY <1>15
  <2>3. CASE n = Len(f)
    <3>1. a = "sync"  BY <1>10, <2>3
    <3> QED  BY <1>7, <1>14, <1>21, <2>1, <2>2, <2>3, <3>1 DEF Written
  <2>4. CASE n # Len(f)
    <3>1. a = "write"  BY <1>10, <2>4
    <3> QED  BY <1>7, <1>14, <1>19, <1>20, <2>1, <2>2, <3>1 DEF Written
  <2> QED  BY <2>3, <2>4
<1>23. /\ \A p \in Paths : Kept(names[p])' /\ Kept(diskNames[p])'
       /\ \A u \in Savers : u # s => Written(u)'
       /\ \A r \in Readers : Reads(r)'
  BY <1>3, <1>4, <1>11, <1>15, <1>16, OthersKept
<1> QED  BY <1>22, <1>23 DEF FilesWhole

LEMMA SyncFiles == ASSUME FilesInv, NEW s \in Savers, Sync(s) PROVE FilesWhole'
<1>1. NamesInv /\ TypeOK /\ save[s].at = "sync" /\ Saving(s)
  BY DEF FilesInv, NamesInv, TypeInv, Sync, Saving
<1>2. PICK v \in SaveState : v = save[s]  BY <1>1 DEF TypeOK
<1>3. v.at = "sync" /\ v.graph \in Graphs /\ v.inode \in Inodes /\ Alone(v.inode, s)
  BY <1>1, <1>2, SaverFacts, SaverAlone DEF Positions
<1>4. PICK k \in Inodes, g \in Graphs : k = v.inode /\ g = v.graph  BY <1>3
<1>5. /\ disk' = [disk EXCEPT ![k] = cache[k]]
      /\ save' = [save EXCEPT ![s] = [v EXCEPT !.at = "rename"]]
      /\ UNCHANGED <<cache, names, diskNames, load>>
  BY <1>2, <1>4 DEF Sync
<1>6. PICK w : w = [at |-> "rename", path |-> v.path, graph |-> g, inode |-> k, written |-> v.written]
  OBVIOUS
<1>7. [v EXCEPT !.at = "rename"] = w  BY <1>3, <1>4, <1>6, SaveUpdate DEF Positions
<1>8. w.at = "rename" /\ w.graph = g /\ w.inode = k  BY <1>6
<1>9. \A u \in Savers : save'[u] = IF u = s THEN w ELSE save[u]  BY <1>1, <1>5, <1>7 DEF TypeOK
<1>10. \A j \in Inodes : disk'[j] = IF j = k THEN cache[k] ELSE disk[j]  BY <1>1, <1>5 DEF TypeOK
<1>11. cache[k] = FileOf(g)  BY <1>2, <1>3, <1>4 DEF FilesInv, FilesWhole, Written
<1>12. Written(s)'  BY <1>5, <1>8, <1>9, <1>10, <1>11 DEF Written, Holds
<1>13. /\ \A p \in Paths : Kept(names[p])' /\ Kept(diskNames[p])'
       /\ \A u \in Savers : u # s => Written(u)'
       /\ \A r \in Readers : Reads(r)'
  BY <1>3, <1>4, <1>5, <1>9, <1>10, OthersKept
<1> QED  BY <1>12, <1>13 DEF FilesWhole

LEMMA RenameFiles == ASSUME FilesInv, NEW s \in Savers, Rename(s) PROVE FilesWhole'
<1>1. NamesInv  BY DEF FilesInv
<1>2. PICK p \in Paths, t \in Temps, i \in Inodes :
        /\ p = save[s].path /\ t = TmpOf[save[s].path] /\ i = save[s].inode
        /\ \A n \in Names : names'[n] = IF n = p THEN i ELSE IF n = t THEN NoFile ELSE names[n]
  BY <1>1, RenameEffect
<1>3. /\ \A u \in Savers : save'[u] = IF u = s THEN NotSaving ELSE save[u]
      /\ UNCHANGED <<cache, disk, diskNames, load>>
      /\ save[s].at = "rename" /\ save[s].graph \in Graphs
  BY <1>1, RenameEffect
<1>4. Holds(i, save[s].graph)  BY <1>2, <1>3 DEF FilesInv, FilesWhole, Written
<1>5. \A q \in Paths : names'[q] = IF q = p THEN i ELSE names[q]  BY <1>2, NameFacts
<1>6. ASSUME NEW q \in Paths PROVE Kept(names[q])' /\ Kept(diskNames[q])'
  <2>1. Kept(names[q]) /\ Kept(diskNames[q])  BY DEF FilesInv, FilesWhole
  <2> QED  BY <1>3, <1>4, <1>5, <2>1 DEF Kept, Holds
<1>7. \A u \in Savers : Written(u)'
  BY <1>3 DEF FilesInv, FilesWhole, Written, Holds, NotSaving
<1>8. \A r \in Readers : Reads(r)'  BY <1>3 DEF FilesInv, FilesWhole, Reads, Holds
<1> QED  BY <1>6, <1>7, <1>8 DEF FilesWhole

LEMMA FailFiles == ASSUME FilesInv, NEW s \in Savers, Fail(s) PROVE FilesWhole'
<1>1. \A u \in Savers : save'[u] = IF u = s THEN NotSaving ELSE save[u]
  BY DEF Fail, FilesInv, NamesInv, TypeInv, TypeOK
<1>2. UNCHANGED <<fileVars, load>>  BY DEF Fail
<1>3. \A u \in Savers : Written(u)'
  BY <1>1, <1>2 DEF FilesInv, FilesWhole, Written, Holds, NotSaving, fileVars
<1>4. \A r \in Readers : Reads(r)'  BY <1>2 DEF FilesInv, FilesWhole, Reads, Holds, fileVars
<1> QED  BY <1>2, <1>3, <1>4 DEF FilesInv, FilesWhole, Kept, Holds, fileVars

\* The blocks after the first, as the checksum sums them.
LEMMA TailFacts ==
  ASSUME NEW f \in Contents, Len(f) # 0
  PROVE  SubSeq(f, 2, Len(f)) = Tail(f)
  BY DEF Contents

\* The header of an undamaged file passes every check.
LEMMA HeaderFacts ==
  ASSUME NEW g \in Graphs, NEW head, head = FileOf(g)[1]
  PROVE  /\ head \in Block /\ head # Hole /\ head.graph = g /\ head.rot = {} /\ head.claim = "exact"
         /\ Mismatches(head) = {} /\ Claims(head) = Blocks[g]
<1>1. 1 \in 1..(Blocks[g] + 1)  BY FileFacts
<1>2. head = [graph |-> g, no |-> 1 - 1, rot |-> {}, claim |-> "exact"]  BY <1>1, FileFacts
<1>3. head.graph = g /\ head.no = 0 /\ head.rot = {} /\ head.claim = "exact"  BY <1>2
<1>4. head \in Block  BY <1>2 DEF Block, Claim
<1>5. head # Hole  BY <1>4, SentinelAssumption
<1>6. Mismatches(head) = {}  BY <1>3, <1>5 DEF Mismatches, Damaged
<1>7. Claims(head) = Blocks[g]  BY <1>3 DEF Claims
<1> QED  BY <1>3, <1>4, <1>5, <1>6, <1>7

LEMMA LoadFiles ==
  ASSUME FilesInv, NEW r \in Readers, LoadStep(r) \/ \E p \in Paths : Open(r, p)
  PROVE  FilesWhole'
<1>1. TypeOK  BY DEF FilesInv, NamesInv, TypeInv
<1>2. UNCHANGED <<fileVars, save>>
  BY DEF LoadStep, Validate, Checksum, Deserialize, Close, Open
<1>3. ASSUME NEW w, load' = [load EXCEPT ![r] = w],
             w.at # "idle" =>
               /\ w.at \in {"validate"} \cup Vetted /\ w.opened \in Graphs /\ Holds(w.inode, w.opened)
               /\ w.len = Len(FileOf(w.opened))
               /\ w.at \in Vetted => w.head = FileOf(w.opened)[1]
               /\ w.at = "loaded" => w.graph = w.opened
      PROVE  FilesWhole'
  <2>1. \A q \in Readers : load'[q] = IF q = r THEN w ELSE load[q]  BY <1>1, <1>3 DEF TypeOK
  <2>2. ASSUME NEW q \in Readers PROVE Reads(q)'
    <3>1. CASE q = r  BY <1>2, <1>3, <2>1, <3>1 DEF Reads, Holds, fileVars
    <3>2. CASE q # r  BY <1>2, <2>1, <3>2 DEF FilesInv, FilesWhole, Reads, Holds, fileVars
    <3> QED  BY <3>1, <3>2
  <2> QED  BY <1>2, <2>2 DEF FilesInv, FilesWhole, Kept, Holds, Written, fileVars
<1>4. CASE \E p \in Paths : Open(r, p)
  <2>1. PICK p \in Paths : Open(r, p)  BY <1>4
  <2>2. PICK i \in Inodes : i = names[p]  BY <1>1, <2>1, OpenEffect
  <2>3. PICK w \in OpenLoad :
          /\ load' = [load EXCEPT ![r] = w]
          /\ w.at = "validate" /\ w.inode = i /\ w.len = Len(cache[i]) /\ w.opened = Content(cache, i)
    BY <1>1, <2>1, <2>2, OpenEffect
  <2>4. PICK g \in Graphs : Holds(i, g)
    BY <2>2, NameFacts DEF FilesInv, FilesWhole, Kept
  <2>5. w.opened = g  BY <2>3, <2>4, ContentIs DEF Holds
  <2>6. w.len = Len(FileOf(g))  BY <2>3, <2>4 DEF Holds
  <2> QED  BY <1>3, <2>3, <2>4, <2>5, <2>6 DEF Vetted
<1>5. CASE Close(r)  BY <1>3, <1>5, LoadFields DEF Close
<1>6. CASE load[r].at \in {"validate", "checksum", "deserialize"}
           /\ (Validate(r) \/ Checksum(r) \/ Deserialize(r))
  <2>1. PICK v \in OpenLoad : v = load[r]  BY <1>1, <1>6, MappedFacts
  <2>2. PICK g \in Graphs : g = v.opened  BY <1>6, <2>1 DEF FilesInv, FilesWhole, Reads
  <2>3. PICK f \in Contents : f = FileOf(g) /\ Len(f) = Blocks[g] + 1 /\ Blocks[g] \in Nat \ {0}
    BY FileFacts
  <2>4. Holds(v.inode, g) /\ v.len = Len(f) /\ (v.at \in Vetted => v.head = f[1])
    BY <1>6, <2>1, <2>2, <2>3 DEF FilesInv, FilesWhole, Reads
  <2>5. Mapped(r) = f  BY <2>1, <2>3, <2>4 DEF Mapped, Holds
  <2>6. PICK head : head = f[1]
    OBVIOUS
  <2>7. head.graph = g /\ head.rot = {} /\ head.claim = "exact" /\ Mismatches(head) = {} /\ Claims(head) = Blocks[g]
    <3>1. head = FileOf(g)[1]  BY <2>3, <2>6
    <3> QED  BY <3>1, HeaderFacts
  <2>8. CASE Validate(r)
    <3>1. v.len > 0 /\ ~Lost(r, 1)  BY <2>3, <2>4, <2>5 DEF Lost
    <3>2. ~(v.len < Claims(head) + 1)  BY <2>3, <2>4, <2>7
    <3>3. load' = [load EXCEPT ![r].at = "checksum", ![r].head = head]
      BY <2>1, <2>5, <2>6, <2>7, <2>8, <3>1, <3>2 DEF Validate
    <3>4. PICK w : w = [v EXCEPT !.at = "checksum", !.head = head]
      OBVIOUS
    <3>5. w.at = "checksum" /\ w.head = head /\ w.inode = v.inode /\ w.len = v.len /\ w.opened = g
      <4>1. w = [at |-> "checksum", inode |-> v.inode, len |-> v.len, head |-> head, error |-> v.error,
                 graph |-> v.graph, opened |-> v.opened]
        BY <3>4, LoadUpdate
      <4> QED  BY <2>2, <4>1
    <3>6. load' = [load EXCEPT ![r] = w]  BY <2>1, <3>3, <3>4
    <3> QED  BY <1>3, <2>3, <2>4, <2>6, <3>5, <3>6 DEF Vetted
  <2>9. CASE Checksum(r) \/ Deserialize(r)
    <3>1. v.at \in {"checksum", "deserialize"} /\ v.at \in Vetted
      BY <2>1, <2>9 DEF Checksum, Deserialize, Vetted
    <3>2. v.head = head /\ load[r].head = head  BY <2>1, <2>4, <2>6, <3>1
    <3>3. ~PayloadLost(r)  BY <2>3, <2>5, <2>7, <3>2 DEF PayloadLost, Lost
    <3>4. Payload(r) = SubSeq(f, 2, Len(f))  BY <2>3, <2>5, <2>7, <3>2 DEF Payload
    <3>5. Whole(r)
      <4>1. SubSeq(f, 2, Len(f)) = Tail(f)  BY <2>3, TailFacts
      <4>2. load[r].head.graph = g  BY <2>7, <3>2
      <4> QED  BY <2>3, <3>4, <4>1, <4>2 DEF Whole
    <3>6. ~Damaged(load[r].head, "checksum")  BY <2>7, <3>2 DEF Damaged
    <3>7. CASE Checksum(r)
      <4>1. Goto(r, "deserialize")  BY <3>3, <3>5, <3>6, <3>7 DEF Checksum, ChecksumHolds
      <4>2. PICK w : w = [v EXCEPT !.at = "deserialize"]
        OBVIOUS
      <4>3. w.at = "deserialize" /\ w.head = head /\ w.inode = v.inode /\ w.len = v.len /\ w.opened = g
        <5>1. w = [at |-> "deserialize", inode |-> v.inode, len |-> v.len, head |-> v.head, error |-> v.error,
                   graph |-> v.graph, opened |-> v.opened]
          BY <4>2, LoadUpdate
        <5> QED  BY <2>2, <3>2, <5>1
      <4>4. load' = [load EXCEPT ![r] = w]  BY <2>1, <4>1, <4>2 DEF Goto
      <4> QED  BY <1>3, <2>3, <2>4, <2>6, <4>3, <4>4 DEF Vetted
    <3>8. CASE Deserialize(r)
      <4>1. Load(r, g)  BY <2>7, <3>2, <3>3, <3>5, <3>8 DEF Deserialize
      <4>2. PICK w : w = [v EXCEPT !.at = "loaded", !.graph = g]
        OBVIOUS
      <4>3. /\ w.at = "loaded" /\ w.graph = g /\ w.head = head /\ w.inode = v.inode
            /\ w.len = v.len /\ w.opened = g
        <5>1. w = [at |-> "loaded", inode |-> v.inode, len |-> v.len, head |-> v.head, error |-> v.error,
                   graph |-> g, opened |-> v.opened]
          BY <4>2, LoadUpdate
        <5> QED  BY <2>2, <3>2, <5>1
      <4>4. load' = [load EXCEPT ![r] = w]  BY <2>1, <4>1, <4>2 DEF Load
      <4> QED  BY <1>3, <2>3, <2>4, <2>6, <4>3, <4>4 DEF Vetted
    <3> QED  BY <2>9, <3>7, <3>8
  <2> QED  BY <1>6, <2>8, <2>9
<1> QED  BY <1>4, <1>5, <1>6 DEF LoadStep, Validate, Checksum, Deserialize

LEMMA StorageFiles == ASSUME MaxRot = 0, FilesInv, Storage PROVE FilesWhole'
<1>1. TypeOK  BY DEF FilesInv, NamesInv, TypeInv
<1>2. CASE WriteBackNames
  BY <1>2 DEF WriteBackNames, FilesInv, FilesWhole, Kept, Holds, Written, Reads
<1>3. CASE Crash
  <2>1. /\ \A s \in Savers : save'[s].at = "idle"
        /\ \A r \in Readers : load'[r].at = "idle"
        /\ cache' = disk /\ names' = diskNames /\ UNCHANGED <<disk, diskNames>>
    BY <1>3, LoadFields DEF Crash, NotSaving
  <2>2. \A p \in Paths : Kept(names[p])' /\ Kept(diskNames[p])'
    BY <2>1 DEF FilesInv, FilesWhole, Kept, Holds
  <2> QED  BY <2>1, <2>2 DEF FilesWhole, Written, Reads
<1>4. ASSUME NEW i \in Inodes, WriteBack(i) PROVE FilesWhole'
  <2>1. disk[i] # cache[i] /\ UNCHANGED <<cache, names, diskNames, save, load>>
    BY <1>4 DEF WriteBack
  <2>2. \A j \in Inodes : j # i => disk'[j] = disk[j]  BY <1>1, <1>4 DEF WriteBack, TypeOK
  <2>3. \A j \in Inodes, g \in Graphs : Holds(j, g) => Holds(j, g)'  BY <2>1, <2>2 DEF Holds
  <2>4. ASSUME NEW p \in Paths PROVE Kept(names[p])' /\ Kept(diskNames[p])'
    <3>1. names[p] \in Inodes \cup {NoFile} /\ diskNames[p] \in Inodes \cup {NoFile}
      BY <1>1, NameFacts DEF TypeOK
    <3>2. Kept(names[p]) /\ Kept(diskNames[p])  BY DEF FilesInv, FilesWhole
    <3> QED  BY <2>1, <2>3, <3>1, <3>2 DEF Kept, Holds
  <2>5. ASSUME NEW s \in Savers PROVE Written(s)'
    <3>1. Written(s)  BY DEF FilesInv, FilesWhole
    <3>2. save[s].at = "rename" => save[s].inode \in Inodes /\ save[s].graph \in Graphs
      BY SaverFacts DEF FilesInv, Saving, Positions
    <3> QED  BY <2>1, <2>3, <3>1, <3>2 DEF Written, Holds
  <2>6. ASSUME NEW r \in Readers PROVE Reads(r)'
    <3>1. Reads(r)  BY DEF FilesInv, FilesWhole
    <3>2. load[r].at # "idle" => load[r].inode \in Inodes  BY <1>1, MappedFacts
    <3> QED  BY <2>1, <2>3, <3>1, <3>2 DEF Reads, Holds
  <2> QED  BY <2>4, <2>5, <2>6 DEF FilesWhole
<1>5. ASSUME NEW i \in Inodes, Rot(i) PROVE FALSE
  BY <1>1, <1>5, RotEffect DEF TypeOK
<1> QED  BY <1>2, <1>3, <1>4, <1>5 DEF Storage

LEMMA NextFiles == ASSUME MaxRot = 0, FilesInv, [SerialNext]_vars PROVE FilesInv'
<1>1. NamesInv'  BY NextNames DEF FilesInv
<1>2. CASE UNCHANGED vars
  BY <1>1, <1>2 DEF vars, fileVars, FilesInv, FilesWhole, Kept, Holds, Written, Reads
<1>3. CASE SerialNext
  <2>1. FilesWhole'
    BY <1>3, BeginFiles, CreateFiles, WriteFiles, SyncFiles, RenameFiles, FailFiles, LoadFiles, StorageFiles
    DEF SerialNext, Steps, SaveStep
  <2> QED  BY <1>1, <2>1 DEF FilesInv
<1> QED  BY <1>2, <1>3

LEMMA AlwaysFiles == ASSUME MaxRot = 0 PROVE SerialSpec => []FilesInv
<1>1. FilesInv /\ [SerialNext]_vars => FilesInv'  BY NextFiles
<1> QED  BY InitFiles, <1>1, PTL DEF SerialSpec

(* "Readers never see a partially-written file" (persistence.rs:350): where  *)
(* storage damages nothing and the savers of a temporary name take turns,    *)
(* every load ends with the graph the destination had when it was opened,    *)
(* whatever saves, failures, write-backs and crashes happen around it.       *)
THEOREM ReadersSeeWholeFilesHolds ==
  ASSUME MaxRot = 0 PROVE SerialSpec => []ReadersSeeWholeFiles
<1>1. ASSUME FilesInv PROVE ReadersSeeWholeFiles
  <2> SUFFICES ASSUME NEW r \in Readers
               PROVE  /\ load[r].at \notin Ended \ {"loaded"}
                      /\ load[r].at = "loaded" => Answer(r) = load[r].opened
    BY DEF ReadersSeeWholeFiles
  <2> QED  BY <1>1 DEF FilesInv, FilesWhole, Reads, Ended, Vetted, Answer
<1>2. FilesInv => ReadersSeeWholeFiles  BY <1>1
<1> QED  BY AlwaysFiles, <1>2, PTL

-----------------------------------------------------------------------------
(* save and the file system implement AtomicFile: Begin is Ask, Rename is     *)
(* Publish, Fail is GiveUp, writing back the directory is Persist, a crash is *)
(* Crash; what else save, load and storage do, the destinations do not show.  *)

Currents == [p \in Paths |-> Content(cache, names[p])]
Persisteds == [p \in Paths |-> Content(disk, diskNames[p])]
Requests ==
  [s \in Savers |-> IF Saving(s) THEN [path |-> save[s].path, graph |-> save[s].graph] ELSE NotSaving]

Hidden == UNCHANGED <<Currents, Persisteds, Requests>>

LEMMA SameContent ==
  ASSUME NEW c, NEW d, NEW i, i = NoFile \/ c[i] = d[i]
  PROVE  Content(c, i) = Content(d, i)
  BY DEF Content

\* The destinations look the same when their names and files stay.
LEMMA SameViews ==
  ASSUME FilesInv,
         \A p \in Paths : names'[p] = names[p] /\ diskNames'[p] = diskNames[p],
         \A i \in Inodes, g \in Graphs : Holds(i, g) => Holds(i, g)'
  PROVE  UNCHANGED <<Currents, Persisteds>>
<1> SUFFICES ASSUME NEW p \in Paths
             PROVE  /\ Content(cache, names[p])' = Content(cache, names[p])
                    /\ Content(disk, diskNames[p])' = Content(disk, diskNames[p])
  BY DEF Currents, Persisteds
<1>1. PICK i \in Inodes \cup {NoFile} : i = names[p] /\ i = names'[p]
  BY NameFacts DEF FilesInv, NamesInv, TypeInv, TypeOK
<1>2. PICK j \in Inodes \cup {NoFile} : j = diskNames[p] /\ j = diskNames'[p]
  BY NameFacts DEF FilesInv, NamesInv, TypeInv, TypeOK
<1>3. i = NoFile \/ cache'[i] = cache[i]
  BY <1>1 DEF FilesInv, FilesWhole, Kept, Holds
<1>4. j = NoFile \/ disk'[j] = disk[j]
  BY <1>2 DEF FilesInv, FilesWhole, Kept, Holds
<1>5. Content(cache, names[p])' = Content(cache, names[p])  BY <1>1, <1>3 DEF Content
<1>6. Content(disk, diskNames[p])' = Content(disk, diskNames[p])  BY <1>2, <1>4 DEF Content
<1> QED  BY <1>5, <1>6

\* A request changes with its saver.
LEMMA RequestsStep ==
  ASSUME NEW s \in Savers, NEW x, \A u \in Savers : u # s => save'[u] = save[u],
         x = IF save'[s].at # "idle" THEN [path |-> save'[s].path, graph |-> save'[s].graph] ELSE NotSaving
  PROVE  Requests' = [Requests EXCEPT ![s] = x]
<1>1. \A u \in Savers : u # s =>
        (IF Saving(u) THEN [path |-> save[u].path, graph |-> save[u].graph] ELSE NotSaving)'
          = IF Saving(u) THEN [path |-> save[u].path, graph |-> save[u].graph] ELSE NotSaving
  BY DEF Saving
<1>2. (IF Saving(s) THEN [path |-> save[s].path, graph |-> save[s].graph] ELSE NotSaving)' = x
  BY DEF Saving
<1> QED  BY <1>1, <1>2 DEF Requests

LEMMA IsRequest ==
  ASSUME NEW s \in Savers
  PROVE  /\ Saving(s) => Requests[s] # NotSaving /\ Requests[s] = [path |-> save[s].path, graph |-> save[s].graph]
         /\ ~Saving(s) => Requests[s] = NotSaving
<1>1. [path |-> save[s].path, graph |-> save[s].graph] # [at |-> "idle"]
  <2>1. DOMAIN [path |-> save[s].path, graph |-> save[s].graph] # DOMAIN [at |-> "idle"]
    OBVIOUS
  <2> QED  BY <2>1
<1> QED  BY <1>1 DEF Requests, NotSaving

LEMMA BeginMaps ==
  ASSUME FilesInv, NEW s \in Savers, NEW p \in Paths, NEW g \in Graphs, SerialBegin(s, p, g)
  PROVE  File!Ask(s, p, g)
<1>1. PICK w : w = [at |-> "create", path |-> p, graph |-> g]
  OBVIOUS
<1>2. save' = [save EXCEPT ![s] = w] /\ UNCHANGED fileVars /\ ~Saving(s)
  BY <1>1 DEF SerialBegin, Begin
<1>3. \A u \in Savers : save'[u] = IF u = s THEN w ELSE save[u]
  BY <1>2 DEF FilesInv, NamesInv, TypeInv, TypeOK
<1>4. w.at = "create" /\ w.path = p /\ w.graph = g  BY <1>1
<1>5. Requests' = [Requests EXCEPT ![s] = [path |-> p, graph |-> g]]
  <2>1. save'[s].at # "idle" /\ save'[s].path = p /\ save'[s].graph = g  BY <1>3, <1>4
  <2>2. PICK x : x = [path |-> p, graph |-> g]
    OBVIOUS
  <2>3. x = IF save'[s].at # "idle" THEN [path |-> save'[s].path, graph |-> save'[s].graph] ELSE NotSaving
    BY <2>1, <2>2
  <2>4. Requests' = [Requests EXCEPT ![s] = x]  BY <1>3, <2>3, RequestsStep
  <2> QED  BY <2>2, <2>4
<1>6. Requests[s] = NotSaving  BY <1>2, IsRequest
<1>7. UNCHANGED <<Currents, Persisteds>>  BY <1>2, SameViews DEF Holds, fileVars
<1> QED  BY <1>5, <1>6, <1>7 DEF File!Ask, Currents, Persisteds, Requests

LEMMA CreateHidden == ASSUME FilesInv, NEW s \in Savers, Create(s) PROVE Hidden
<1>1. PICK i \in Inodes :
        /\ Alone(i, s)
        /\ save' = [save EXCEPT ![s] = [at |-> "write", path |-> save[s].path, graph |-> save[s].graph,
                                        inode |-> i, written |-> 0]]
        /\ \A j \in Inodes : cache'[j] = IF j = i THEN <<>> ELSE cache[j]
        /\ \A p \in Paths : names'[p] = names[p]
        /\ UNCHANGED <<disk, diskNames>>
  BY CreateTouches DEF FilesInv
<1>2. PICK w : w = [at |-> "write", path |-> save[s].path, graph |-> save[s].graph,
                    inode |-> i, written |-> 0]
  OBVIOUS
<1>3. \A u \in Savers : save'[u] = IF u = s THEN w ELSE save[u]
  BY <1>1, <1>2 DEF FilesInv, NamesInv, TypeInv, TypeOK
<1>4. w.at = "write" /\ w.path = save[s].path /\ w.graph = save[s].graph  BY <1>2
<1>5. Saving(s)  BY DEF Create, Saving
<1>6. UNCHANGED Requests  BY <1>3, <1>4, <1>5 DEF Requests, Saving
<1>7. ASSUME NEW p \in Paths PROVE UNCHANGED <<Content(cache, names[p]), Content(disk, diskNames[p])>>
  <2>1. names[p] \in Inodes \cup {NoFile} /\ names[p] # i
    BY <1>1, NameFacts DEF FilesInv, NamesInv, TypeInv, TypeOK, Alone
  <2>2. names[p] = NoFile \/ cache'[names[p]] = cache[names[p]]  BY <1>1, <2>1
  <2> QED  BY <1>1, <2>2 DEF Content
<1>8. UNCHANGED <<Currents, Persisteds>>  BY <1>7 DEF Currents, Persisteds
<1> QED  BY <1>6, <1>8 DEF Hidden

LEMMA AdvanceHidden == ASSUME FilesInv, NEW s \in Savers, Write(s) \/ Sync(s) PROVE Hidden
<1>1. NamesInv  BY DEF FilesInv
<1>2. PICK a \in Positions, n \in Nat :
        save' = [save EXCEPT ![s] = [at |-> a, path |-> save[s].path, graph |-> save[s].graph,
                                     inode |-> save[s].inode, written |-> n]]
  BY <1>1, AdvanceEffect
<1>3. PICK w : w = [at |-> a, path |-> save[s].path, graph |-> save[s].graph,
                    inode |-> save[s].inode, written |-> n]
  OBVIOUS
<1>4. w.at = a /\ w.path = save[s].path /\ w.graph = save[s].graph  BY <1>3
<1>5. \A u \in Savers : save'[u] = IF u = s THEN w ELSE save[u]
  BY <1>1, <1>2, <1>3 DEF NamesInv, TypeInv, TypeOK
<1>6. Saving(s) /\ save[s].at \in Positions /\ a # "idle" /\ UNCHANGED <<names, diskNames>>
  BY <1>1, AdvanceEffect DEF Positions
<1>7. UNCHANGED Requests  BY <1>4, <1>5, <1>6 DEF Requests, Saving
<1>8. PICK i \in Inodes : i = save[s].inode /\ Alone(i, s)  BY <1>1, <1>6, SaverAlone
<1>9. \A j \in Inodes : j # i => cache'[j] = cache[j] /\ disk'[j] = disk[j]
  BY <1>1, <1>8 DEF Write, Sync, NamesInv, TypeInv, TypeOK
<1>10. ASSUME NEW p \in Paths PROVE UNCHANGED <<Content(cache, names[p]), Content(disk, diskNames[p])>>
  <2>1. /\ names[p] \in Inodes \cup {NoFile} /\ names[p] # i
        /\ diskNames[p] \in Inodes \cup {NoFile} /\ diskNames[p] # i
    BY <1>1, <1>8, NameFacts DEF NamesInv, TypeInv, TypeOK, Alone, Private
  <2>2. /\ names[p] = NoFile \/ cache'[names[p]] = cache[names[p]]
        /\ diskNames[p] = NoFile \/ disk'[diskNames[p]] = disk[diskNames[p]]
    BY <1>9, <2>1
  <2> QED  BY <1>6, <2>2 DEF Content
<1>11. UNCHANGED <<Currents, Persisteds>>  BY <1>10 DEF Currents, Persisteds
<1> QED  BY <1>7, <1>11 DEF Hidden

LEMMA RenameMaps == ASSUME FilesInv, NEW s \in Savers, Rename(s) PROVE File!Publish(s)
<1>1. NamesInv  BY DEF FilesInv
<1>2. PICK p \in Paths, t \in Temps, i \in Inodes, g \in Graphs :
        /\ p = save[s].path /\ t = TmpOf[save[s].path] /\ i = save[s].inode /\ g = save[s].graph
        /\ \A n \in Names : names'[n] = IF n = p THEN i ELSE IF n = t THEN NoFile ELSE names[n]
  BY <1>1, RenameEffect
<1>3. /\ \A u \in Savers : save'[u] = IF u = s THEN NotSaving ELSE save[u]
      /\ UNCHANGED <<cache, disk, diskNames>>
      /\ save[s].at = "rename" /\ Saving(s)
  BY <1>1, RenameEffect
<1>4. Holds(i, g)  BY <1>2, <1>3 DEF FilesInv, FilesWhole, Written
<1>5. Content(cache, i) = g  BY <1>4, ContentIs DEF Holds
<1>6. \A q \in Paths : names'[q] = IF q = p THEN i ELSE names[q]  BY <1>2, NameFacts
<1>7. \A q \in Paths : Content(cache, names[q])' = IF q = p THEN g ELSE Content(cache, names[q])
  <2> SUFFICES ASSUME NEW q \in Paths
               PROVE  Content(cache, names[q])' = IF q = p THEN g ELSE Content(cache, names[q])
    OBVIOUS
  <2>1. CASE q = p  BY <1>3, <1>5, <1>6, <2>1 DEF Content
  <2>2. CASE q # p  BY <1>3, <1>6, <2>2 DEF Content
  <2> QED  BY <2>1, <2>2
<1>8. Currents' = [Currents EXCEPT ![p] = g]  BY <1>7 DEF Currents
<1>9. UNCHANGED Persisteds  BY <1>3 DEF Persisteds, Content
<1>10. Requests' = [Requests EXCEPT ![s] = NotSaving]
  BY <1>3, RequestsStep DEF NotSaving
<1>11. /\ Requests[s] # NotSaving /\ Requests[s].path = p /\ Requests[s].graph = g
  <2>1. Requests[s] # NotSaving /\ Requests[s] = [path |-> save[s].path, graph |-> save[s].graph]
    BY <1>3, IsRequest
  <2> QED  BY <1>2, <2>1
<1>12. Currents' = [Currents EXCEPT ![Requests[s].path] = Requests[s].graph]  BY <1>8, <1>11
<1> QED  BY <1>9, <1>10, <1>11, <1>12 DEF File!Publish, Currents, Persisteds, Requests

LEMMA FailMaps == ASSUME FilesInv, NEW s \in Savers, Fail(s) PROVE File!GiveUp(s)
<1>1. \A u \in Savers : save'[u] = IF u = s THEN NotSaving ELSE save[u]
  BY DEF Fail, FilesInv, NamesInv, TypeInv, TypeOK
<1>2. Requests' = [Requests EXCEPT ![s] = NotSaving]  BY <1>1, RequestsStep DEF NotSaving
<1>3. UNCHANGED <<Currents, Persisteds>>  BY SameViews DEF Fail, Holds, fileVars
<1> QED  BY <1>2, <1>3 DEF File!GiveUp, Currents, Persisteds, Requests

LEMMA LoadHidden ==
  ASSUME FilesInv, NEW r \in Readers, LoadStep(r) \/ \E p \in Paths : Open(r, p)
  PROVE  Hidden
<1>1. UNCHANGED <<fileVars, save>>
  BY DEF LoadStep, Validate, Checksum, Deserialize, Close, Open
<1> QED  BY <1>1, SameViews DEF Hidden, Requests, Saving, Holds, fileVars

LEMMA StorageMaps == ASSUME MaxRot = 0, FilesInv, Storage PROVE Hidden \/ File!Persist \/ File!Crash
<1>1. TypeOK  BY DEF FilesInv, NamesInv, TypeInv
<1>2. ASSUME NEW i \in Inodes, NEW g \in Graphs, Holds(i, g)
      PROVE  Content(cache, i) = g /\ Content(disk, i) = g
  BY <1>2, ContentIs DEF Holds
<1>3. Content(cache, NoFile) = NoFile /\ Content(disk, NoFile) = NoFile  BY DEF Content
<1>4. ASSUME NEW i \in Inodes \cup {NoFile}, Kept(i) PROVE Content(cache, i) = Content(disk, i)
  BY <1>2, <1>3, <1>4 DEF Kept
<1>5. \A p \in Paths :
        /\ names[p] \in Inodes \cup {NoFile} /\ diskNames[p] \in Inodes \cup {NoFile}
        /\ Kept(names[p]) /\ Kept(diskNames[p])
  BY <1>1, NameFacts DEF FilesInv, FilesWhole, TypeOK
<1>6. CASE WriteBackNames
  <2>1. diskNames' = names /\ UNCHANGED <<cache, disk, names, save>>  BY <1>6 DEF WriteBackNames
  <2>2. \A p \in Paths : Content(disk, diskNames[p])' = Content(cache, names[p])
    <3> SUFFICES ASSUME NEW p \in Paths PROVE Content(disk, diskNames[p])' = Content(cache, names[p])
      OBVIOUS
    <3>1. Content(disk, diskNames[p])' = Content(disk, names[p])  BY <2>1 DEF Content
    <3> QED  BY <1>4, <1>5, <3>1
  <2>3. Persisteds' = Currents  BY <2>2 DEF Currents, Persisteds
  <2>4. UNCHANGED <<Currents, Requests>>  BY <2>1 DEF Currents, Requests, Content, Saving
  <2> QED  BY <2>3, <2>4 DEF File!Persist, Currents, Persisteds, Requests
<1>7. CASE Crash
  <2>1. /\ cache' = disk /\ names' = diskNames /\ UNCHANGED <<disk, diskNames>>
        /\ \A s \in Savers : save'[s].at = "idle"
    BY <1>7 DEF Crash, NotSaving
  <2>2. Currents' = Persisteds  BY <2>1 DEF Currents, Persisteds, Content
  <2>3. UNCHANGED Persisteds  BY <2>1 DEF Persisteds, Content
  <2>4. Requests' = [s \in Savers |-> NotSaving]  BY <2>1 DEF Requests, Saving
  <2> QED  BY <2>2, <2>3, <2>4 DEF File!Crash, Currents, Persisteds, Requests
<1>8. ASSUME NEW i \in Inodes, WriteBack(i) PROVE Hidden
  <2>1. disk[i] # cache[i] /\ UNCHANGED <<cache, names, diskNames, save>>  BY <1>8 DEF WriteBack
  <2>2. \A j \in Inodes : j # i => disk'[j] = disk[j]  BY <1>1, <1>8 DEF WriteBack, TypeOK
  <2>3. \A j \in Inodes, g \in Graphs : Holds(j, g) => Holds(j, g)'  BY <2>1, <2>2 DEF Holds
  <2>4. UNCHANGED <<Currents, Persisteds>>  BY <2>1, <2>3, SameViews
  <2> QED  BY <2>1, <2>4 DEF Hidden, Requests, Saving
<1>9. ASSUME NEW i \in Inodes, Rot(i) PROVE FALSE
  BY <1>1, <1>9, RotEffect DEF TypeOK
<1> QED  BY <1>6, <1>7, <1>8, <1>9 DEF Storage

LEMMA InitMaps == Init => File!Init
<1> SUFFICES ASSUME Init PROVE File!Init
  OBVIOUS
<1>1. FilesInv  BY InitFiles
<1>2. \A p \in Paths : Content(cache, names[p]) \in Graphs \cup {NoFile}
  <2> SUFFICES ASSUME NEW p \in Paths PROVE Content(cache, names[p]) \in Graphs \cup {NoFile}
    OBVIOUS
  <2>1. names[p] \in Inodes \cup {NoFile} /\ Kept(names[p])
    BY <1>1, NameFacts DEF FilesInv, FilesWhole, NamesInv, TypeInv, TypeOK
  <2>2. CASE names[p] = NoFile  BY <2>2 DEF Content
  <2>3. CASE names[p] # NoFile
    <3>1. PICK i \in Inodes, g \in Graphs : i = names[p] /\ Holds(i, g)  BY <2>1, <2>3 DEF Kept
    <3> QED  BY <3>1, ContentIs DEF Holds
  <2> QED  BY <2>2, <2>3
<1>3. Currents \in [Paths -> Graphs \cup {NoFile}]  BY <1>2 DEF Currents
<1>4. Persisteds = Currents  BY DEF Init, Persisteds, Currents
<1>5. Requests = [s \in Savers |-> NotSaving]  BY DEF Init, Requests, Saving, NotSaving
<1> QED  BY <1>3, <1>4, <1>5 DEF File!Init, Currents, Persisteds, Requests

LEMMA NextMaps ==
  ASSUME MaxRot = 0, FilesInv, [SerialNext]_vars
  PROVE  [File!Next]_(File!vars)
<1>1. ASSUME Hidden PROVE [File!Next]_(File!vars)
  BY <1>1 DEF Hidden, File!vars, Currents, Persisteds, Requests
<1>2. CASE UNCHANGED vars
  <2>1. Hidden  BY <1>2, SameViews DEF Hidden, vars, fileVars, Holds, Requests, Saving
  <2> QED  BY <1>1, <2>1
<1>3. CASE SerialNext
  <2>1. ASSUME NEW s \in Savers, NEW p \in Paths, NEW g \in Graphs, SerialBegin(s, p, g)
        PROVE  File!Next
    BY <2>1, BeginMaps DEF File!Next
  <2>2. ASSUME NEW s \in Savers, Create(s) \/ Write(s) \/ Sync(s) PROVE Hidden
    BY <2>2, CreateHidden, AdvanceHidden
  <2>3. ASSUME NEW s \in Savers, Rename(s) \/ Fail(s) PROVE File!Next
    BY <2>3, RenameMaps, FailMaps DEF File!Next
  <2>4. ASSUME Storage PROVE Hidden \/ File!Next
    BY <2>4, StorageMaps DEF File!Next
  <2>5. Hidden \/ File!Next
    BY <1>3, <2>1, <2>2, <2>3, <2>4, LoadHidden DEF SerialNext, Steps, SaveStep
  <2> QED  BY <1>1, <2>5
<1> QED  BY <1>2, <1>3

(* "The graph file is always either the old valid graph or the new valid     *)
(* graph" (DESIGN.md:315): where storage damages nothing and the savers of a *)
(* temporary name take turns, each destination holds, and a crash brings     *)
(* back, one whole graph that some save put there at once.                   *)
THEOREM ImplementsAtomicFileHolds ==
  ASSUME MaxRot = 0 PROVE SerialSpec => ImplementsAtomicFile
<1>1. FilesInv /\ [SerialNext]_vars => [File!Next]_(File!vars)  BY NextMaps
<1> QED  BY InitMaps, <1>1, AlwaysFiles, PTL DEF SerialSpec, ImplementsAtomicFile, File!Spec

-----------------------------------------------------------------------------
(* What load makes of damage.  A block with damaged length bytes claims       *)
(* another length; a file that passed the checksum does not change while it   *)
(* is mapped.                                                                 *)

Tells(block) == block.rot \cap Layout.payload_len # {} => block.claim # "exact"

Known(c) == \A j \in 1..Len(c) : c[j] # Hole => Tells(c[j])

Sound(r) ==
  /\ load[r].at \in Vetted => Tells(load[r].head)
  /\ load[r].at \in {"deserialize", "loaded"} =>
       ~Damaged(load[r].head, "checksum") /\ load[r].head.claim = "exact"
  /\ load[r].at = "deserialize" => Whole(r) /\ ~PayloadLost(r)
  /\ load[r].at = "loaded" => load[r].graph = load[r].head.graph

DamageKnown ==
  /\ \A i \in Inodes : Known(cache[i]) /\ Known(disk[i])
  /\ \A r \in Readers : Sound(r)

DamageInv == NamesInv /\ DamageKnown

LEMMA KnownFacts ==
  /\ Known(<<>>)
  /\ \A g \in Graphs : Known(FileOf(g)) /\ \A i \in 1..Len(FileOf(g)) : Tells(FileOf(g)[i])
<1>1. Known(<<>>)  BY DEF Known
<1>2. ASSUME NEW g \in Graphs PROVE Known(FileOf(g)) /\ \A i \in 1..Len(FileOf(g)) : Tells(FileOf(g)[i])
  <2>1. ASSUME NEW i \in 1..Len(FileOf(g)) PROVE FileOf(g)[i].rot = {}
    <3>1. FileOf(g)[i] = [graph |-> g, no |-> i - 1, rot |-> {}, claim |-> "exact"]  BY FileFacts
    <3> QED  BY <3>1
  <2> QED  BY <2>1 DEF Known, Tells
<1> QED  BY <1>1, <1>2

LEMMA KnownPut ==
  ASSUME NEW c \in Contents, Known(c), NEW i \in Nat \ {0}, NEW b \in Entries, Tells(b)
  PROVE  Known(Put(c, i, b))
<1>1. PICK n \in Nat : n = IF Len(c) < i THEN i ELSE Len(c)  BY DEF Contents
<1>2. Put(c, i, b) = [j \in 1..n |-> IF j = i THEN b ELSE IF j <= Len(c) THEN c[j] ELSE Hole]
  BY <1>1 DEF Put
<1>3. PICK d \in Contents : d = Put(c, i, b)  BY PutFacts
<1>4. Len(d) = n  BY <1>2, <1>3 DEF Contents
<1>5. \A j \in 1..n : d[j] = IF j = i THEN b ELSE IF j <= Len(c) THEN c[j] ELSE Hole  BY <1>2, <1>3
<1>6. Len(c) \in Nat  BY DEF Contents
<1> QED  BY <1>3, <1>4, <1>5, <1>6 DEF Known

LEMMA KnownWriteBack ==
  ASSUME NEW c \in Contents, NEW d \in Contents, Known(c), Known(d), NEW blocks
  PROVE  Known([j \in 1..Len(c) |-> IF j \in blocks THEN c[j] ELSE IF j <= Len(d) THEN d[j] ELSE Hole])
<1>1. PICK e \in Contents :
        e = [j \in 1..Len(c) |-> IF j \in blocks THEN c[j] ELSE IF j <= Len(d) THEN d[j] ELSE Hole]
  BY WriteBackFacts
<1>2. Len(c) \in Nat /\ Len(d) \in Nat  BY DEF Contents
<1>3. Len(e) = Len(c)  BY <1>1, <1>2 DEF Contents
<1>4. \A j \in 1..Len(c) : e[j] = IF j \in blocks THEN c[j] ELSE IF j <= Len(d) THEN d[j] ELSE Hole
  BY <1>1
<1> QED  BY <1>1, <1>2, <1>3, <1>4 DEF Known

LEMMA KnownRot ==
  ASSUME TypeOK, NEW i \in Inodes, Known(cache[i]), Rot(i)
  PROVE  \E c \in Contents :
           cache' = [cache EXCEPT ![i] = c] /\ disk' = [disk EXCEPT ![i] = c] /\ Known(c)
<1>1. PICK c \in Contents : c = cache[i] /\ Known(c)  BY DEF TypeOK, Contents, Entries
<1>2. PICK d \in Contents :
        DamagedIn(c, d) /\ cache' = [cache EXCEPT ![i] = d] /\ disk' = [disk EXCEPT ![i] = d]
  BY <1>1, RotStep
<1>3. PICK j \in DOMAIN c, b \in Block : d = [c EXCEPT ![j] = b] /\ Tells(b)
  BY <1>2 DEF DamagedIn, Tells
<1>4. Len(d) = Len(c) /\ \A k \in 1..Len(c) : d[k] = IF k = j THEN b ELSE c[k]
  BY <1>3 DEF Contents
<1>5. Known(d)  BY <1>1, <1>3, <1>4 DEF Known
<1> QED  BY <1>2, <1>5

\* A payload as long as the header claims is the graph's only if the claim is right.
LEMMA WholeIsExact ==
  ASSUME TypeOK, HeadsChecked, NEW r \in Readers, load[r].at \in {"checksum", "deserialize"},
         ~PayloadLost(r), Whole(r)
  PROVE  load[r].head.claim = "exact"
<1>1. PICK head \in Block : head = load[r].head /\ head.claim # "huge"
  BY DEF HeadsChecked, Vetted, Checked
<1>2. PICK g \in Graphs : g = head.graph  BY DEF Block
<1>3. head.claim \in Claim  BY DEF Block
<1>4. PICK f \in Contents : f = FileOf(g) /\ Len(f) = Blocks[g] + 1 /\ Blocks[g] \in Nat \ {0}
  BY FileFacts
<1>5. PICK m \in Contents : m = Mapped(r)  BY MappedFacts
<1>6. PICK n \in Nat : n = Claims(head)  BY <1>2, <1>4 DEF Claims
<1>7. Len(m) \in Nat /\ n + 1 <= Len(m)  BY <1>1, <1>5, <1>6 DEF PayloadLost, Lost, Contents
<1>8. Len(SubSeq(m, 2, n + 1)) = n  BY <1>7 DEF Contents
<1>9. Len(Tail(f)) = Blocks[g]  BY <1>4 DEF Contents
<1>10. SubSeq(m, 2, n + 1) = Tail(f)
  BY <1>1, <1>2, <1>4, <1>5, <1>6 DEF Whole, Payload
<1>11. n = Blocks[g]  BY <1>8, <1>9, <1>10
<1>12. head.claim \notin {"shorter", "longer"}  BY <1>2, <1>4, <1>6, <1>11 DEF Claims
<1> QED  BY <1>1, <1>3, <1>12 DEF Claim

\* What a reader has mapped stays as it is.
LEMMA SoundKept ==
  ASSUME TypeOK, UNCHANGED load,
         \A q \in Readers : load[q].at # "idle" => cache'[load[q].inode] = cache[load[q].inode],
         \A q \in Readers : Sound(q)
  PROVE  \A q \in Readers : Sound(q)'
<1> SUFFICES ASSUME NEW r \in Readers PROVE Sound(r)'
  OBVIOUS
<1>1. load[r].at = "deserialize" => Mapped(r)' = Mapped(r)  BY DEF Mapped
<1>2. load[r].at = "deserialize" => (Whole(r)' <=> Whole(r)) /\ (PayloadLost(r)' <=> PayloadLost(r))
  BY <1>1 DEF Whole, Payload, PayloadLost, Lost
<1> QED  BY <1>2 DEF Sound, Damaged

LEMMA SaveDamage ==
  ASSUME DamageInv, NEW s \in Savers,
         SaveStep(s) \/ \E p \in Paths, g \in Graphs : SerialBegin(s, p, g)
  PROVE  DamageKnown'
<1>1. NamesInv /\ TypeOK  BY DEF DamageInv, NamesInv, TypeInv
<1>2. UNCHANGED load
  BY DEF SaveStep, SerialBegin, Begin, Create, Write, Sync, Rename, Fail
<1>3. ASSUME NEW i \in Inodes, Alone(i, s), \A j \in Inodes : j # i => cache'[j] = cache[j]
      PROVE  \A r \in Readers : Sound(r)'
  <2>1. \A q \in Readers : load[q].at # "idle" => cache'[load[q].inode] = cache[load[q].inode]
    BY <1>1, <1>3, MappedFacts DEF Alone, Private
  <2> QED  BY <1>1, <1>2, <2>1, SoundKept DEF DamageInv, DamageKnown
<1>4. CASE UNCHANGED <<cache, disk>>
  <2>1. \A r \in Readers : Sound(r)'
    BY <1>1, <1>2, <1>4, SoundKept DEF DamageInv, DamageKnown
  <2> QED  BY <1>4, <2>1 DEF DamageInv, DamageKnown
<1>5. CASE Create(s)
  <2>1. PICK i \in Inodes :
          /\ Alone(i, s) /\ \A j \in Inodes : cache'[j] = IF j = i THEN <<>> ELSE cache[j]
          /\ UNCHANGED disk
    BY <1>1, <1>5, CreateTouches
  <2>2. \A r \in Readers : Sound(r)'  BY <1>3, <2>1
  <2>3. \A j \in Inodes : Known(cache[j])' /\ Known(disk[j])'
    <3> SUFFICES ASSUME NEW j \in Inodes PROVE Known(cache[j])' /\ Known(disk[j])'
      OBVIOUS
    <3>1. cache'[j] = <<>> \/ cache'[j] = cache[j]  BY <2>1
    <3>2. Known(cache[j]) /\ Known(disk[j]) /\ Known(<<>>)  BY KnownFacts DEF DamageInv, DamageKnown
    <3>3. PICK c : c = cache'[j] /\ Known(c)  BY <3>1, <3>2
    <3> QED  BY <2>1, <3>2, <3>3 DEF Known
  <2> QED  BY <2>2, <2>3 DEF DamageKnown
<1>6. CASE Write(s)
  <2>1. save[s].at = "write" /\ Saving(s) /\ save[s].at \in Positions  BY <1>6 DEF Write, Saving, Positions
  <2>2. PICK k \in Inodes, g \in Graphs, n \in Nat \ {0} :
          /\ k = save[s].inode /\ g = save[s].graph /\ n = save[s].written + 1 /\ Alone(k, s)
    BY <1>1, <2>1, SaverFacts, SaverAlone
  <2>3. PICK c \in Contents : c = cache[k]  BY <1>1 DEF TypeOK, Contents, Entries
  <2>4. PICK b : b = FileOf(g)[n]
    OBVIOUS
  <2>5. n \in 1..Len(FileOf(g)) /\ FileOf(g) \in Contents
    <3>1. save[s].written <= Blocks[save[s].graph]  BY <1>1, <2>1 DEF TypeOK
    <3>2. Blocks[g] \in Nat /\ FileOf(g) \in Contents /\ Len(FileOf(g)) = Blocks[g] + 1  BY FileFacts
    <3>3. save[s].written \in Nat  BY <1>1, <2>1, SaverFacts
    <3> QED  BY <2>2, <3>1, <3>2, <3>3
  <2>6. b \in Entries /\ Tells(b)  BY <2>4, <2>5, KnownFacts DEF Contents
  <2>7. PICK d : d = Put(c, n, b) /\ Known(d)
    <3>1. Known(c)  BY <2>3 DEF DamageInv, DamageKnown
    <3> QED  BY <2>6, <3>1, KnownPut
  <2>8. cache' = [cache EXCEPT ![k] = d] /\ UNCHANGED disk
    BY <1>6, <2>2, <2>3, <2>4, <2>7 DEF Write
  <2>9. \A j \in Inodes : cache'[j] = IF j = k THEN d ELSE cache[j]  BY <1>1, <2>8 DEF TypeOK
  <2>10. \A r \in Readers : Sound(r)'  BY <1>3, <2>2, <2>9
  <2>11. \A j \in Inodes : Known(cache[j])' /\ Known(disk[j])'
    <3> SUFFICES ASSUME NEW j \in Inodes PROVE Known(cache[j])' /\ Known(disk[j])'
      OBVIOUS
    <3>1. Known(cache[j]) /\ Known(disk[j])  BY DEF DamageInv, DamageKnown
    <3>2. PICK e : e = cache'[j] /\ Known(e)  BY <2>7, <2>9, <3>1
    <3> QED  BY <2>8, <3>1, <3>2 DEF Known
  <2> QED  BY <2>10, <2>11 DEF DamageKnown
<1>7. CASE Sync(s)
  <2>1. save[s].at \in Positions  BY <1>7 DEF Sync, Positions
  <2>2. PICK k \in Inodes : k = save[s].inode  BY <1>1, <2>1, SaverAlone
  <2>3. /\ UNCHANGED cache
        /\ \A j \in Inodes : disk'[j] = IF j = k THEN cache[k] ELSE disk[j]
    BY <1>1, <1>7, <2>2 DEF Sync, TypeOK
  <2>4. \A r \in Readers : Sound(r)'
    BY <1>1, <1>2, <2>3, SoundKept DEF DamageInv, DamageKnown
  <2>5. \A j \in Inodes : Known(cache[j])' /\ Known(disk[j])'
    <3> SUFFICES ASSUME NEW j \in Inodes PROVE Known(cache[j])' /\ Known(disk[j])'
      OBVIOUS
    <3>1. Known(cache[j]) /\ Known(disk[j])  BY DEF DamageInv, DamageKnown
    <3>2. PICK e : e = disk'[j] /\ Known(e)  BY <2>3 DEF DamageInv, DamageKnown
    <3> QED  BY <2>3, <3>1, <3>2 DEF Known
  <2> QED  BY <2>4, <2>5 DEF DamageKnown
<1> QED  BY <1>4, <1>5, <1>6, <1>7 DEF SaveStep, SerialBegin, Begin, Rename, Fail, fileVars

LEMMA LoadDamage ==
  ASSUME DamageInv, NEW r \in Readers, LoadStep(r) \/ \E p \in Paths : Open(r, p)
  PROVE  DamageKnown'
<1>1. TypeOK /\ HeadsChecked  BY DEF DamageInv, NamesInv, TypeInv
<1>2. UNCHANGED fileVars  BY DEF LoadStep, Validate, Checksum, Deserialize, Close, Open
<1>3. ASSUME NEW w, load' = [load EXCEPT ![r] = w],
             w.at \in Vetted => Tells(w.head),
             w.at \in {"deserialize", "loaded"} => ~Damaged(w.head, "checksum") /\ w.head.claim = "exact",
             w.at = "deserialize" =>
               w.head = load[r].head /\ w.inode = load[r].inode /\ Whole(r) /\ ~PayloadLost(r),
             w.at = "loaded" => w.graph = w.head.graph
      PROVE  DamageKnown'
  <2>1. \A q \in Readers : load'[q] = IF q = r THEN w ELSE load[q]  BY <1>1, <1>3 DEF TypeOK
  <2>2. Sound(r)'
    <3>1. load'[r] = w  BY <2>1
    <3>2. w.at = "deserialize" => Mapped(r)' = Mapped(r) /\ load'[r].head = load[r].head
      BY <1>2, <1>3, <3>1 DEF Mapped, fileVars
    <3>3. w.at = "deserialize" => Whole(r)' /\ ~PayloadLost(r)'
      BY <1>3, <3>2 DEF Whole, Payload, PayloadLost, Lost
    <3> QED  BY <1>3, <3>1, <3>3 DEF Sound, Damaged
  <2>3. ASSUME NEW q \in Readers, q # r PROVE Sound(q)'
    <3>1. load'[q] = load[q] /\ Mapped(q)' = Mapped(q)  BY <1>2, <2>1, <2>3 DEF Mapped, fileVars
    <3>2. (Whole(q)' <=> Whole(q)) /\ (PayloadLost(q)' <=> PayloadLost(q))
      BY <3>1 DEF Whole, Payload, PayloadLost, Lost
    <3> QED  BY <3>1, <3>2 DEF DamageInv, DamageKnown, Sound, Damaged
  <2>4. \A j \in Inodes : Known(cache[j])' /\ Known(disk[j])'
    BY <1>2 DEF DamageInv, DamageKnown, Known, fileVars
  <2> QED  BY <2>2, <2>3, <2>4 DEF DamageKnown
<1>4. CASE \E p \in Paths : Open(r, p)
  <2>1. PICK w \in OpenLoad : load' = [load EXCEPT ![r] = w] /\ w.at = "validate"
    BY <1>1, <1>4, OpenEffect
  <2> QED  BY <1>3, <2>1 DEF Vetted
<1>5. CASE Close(r)
  <2>1. load' = [load EXCEPT ![r] = NotLoading] /\ NotLoading.at = "idle"
    BY <1>5, LoadFields DEF Close
  <2> QED  BY <1>3, <2>1 DEF Vetted
<1>6. ASSUME NEW v \in OpenLoad, v = load[r], NEW a \in {"killed", "panicked", "failed"}, NEW w,
             w.at = a, load' = [load EXCEPT ![r] = w]
      PROVE  DamageKnown'
  BY <1>3, <1>6 DEF Vetted
<1>7. CASE load[r].at # "idle"
  <2>1. PICK v \in OpenLoad : v = load[r]  BY <1>1, <1>7, MappedFacts
  <2>2. ASSUME NEW a \in {"killed", "panicked"}, Goto(r, a) PROVE DamageKnown'
    <3>1. PICK w : w = [v EXCEPT !.at = a]
      OBVIOUS
    <3>2. w.at = a  BY <3>1 DEF OpenLoad
    <3>3. load' = [load EXCEPT ![r] = w]  BY <2>1, <2>2, <3>1 DEF Goto
    <3> QED  BY <1>6, <2>1, <3>2, <3>3
  <2>3. ASSUME NEW e, Refuse(r, e) PROVE DamageKnown'
    <3>1. PICK w : w = [v EXCEPT !.at = "failed", !.error = e]
      OBVIOUS
    <3>2. w.at = "failed"
      <4>1. w = [at |-> "failed", inode |-> v.inode, len |-> v.len, head |-> v.head, error |-> e,
                 graph |-> v.graph, opened |-> v.opened]
        BY <3>1, LoadUpdate
      <4> QED  BY <4>1
    <3>3. load' = [load EXCEPT ![r] = w]  BY <2>1, <2>3, <3>1 DEF Refuse
    <3> QED  BY <1>6, <2>1, <3>2, <3>3
  <2>4. CASE Validate(r)
    <3>1. v.len \in Nat  BY DEF OpenLoad
    <3>2. CASE v.len = 0
      <4>1. Refuse(r, "too_small")  BY <2>1, <2>4, <3>2 DEF Validate
      <4> QED  BY <2>3, <4>1
    <3>3. CASE v.len > 0 /\ Lost(r, 1)
      <4>1. Goto(r, "killed")  BY <2>1, <2>4, <3>1, <3>3 DEF Validate
      <4> QED  BY <2>2, <4>1
    <3>4. CASE v.len > 0 /\ ~Lost(r, 1)
      <4>1. PICK c \in Contents : c = Mapped(r)  BY <1>1, <1>7, MappedFacts
      <4>2. Known(c)
        <5>1. PICK i \in Inodes : i = v.inode  BY DEF OpenLoad
        <5>2. Known(cache[i])  BY DEF DamageInv, DamageKnown
        <5> QED  BY <2>1, <4>1, <5>1, <5>2 DEF Mapped
      <4>3. 1 \in 1..Len(c)  BY <3>4, <4>1 DEF Lost, Contents
      <4>4. PICK head : head = c[1]
        OBVIOUS
      <4>5. IF Mismatches(head) # {} THEN Refuse(r, Checks[Min(Mismatches(head))])
            ELSE IF head.claim = "huge" THEN Goto(r, "panicked")
            ELSE IF load[r].len < Claims(head) + 1 THEN Refuse(r, "payload_truncated")
            ELSE load' = [load EXCEPT ![r].at = "checksum", ![r].head = head]
        BY <2>1, <2>4, <3>1, <3>4, <4>1, <4>4 DEF Validate
      <4>6. CASE Mismatches(head) = {} /\ load' = [load EXCEPT ![r].at = "checksum", ![r].head = head]
        <5>1. head # Hole  BY <4>6 DEF Mismatches
        <5>2. Tells(head)  BY <4>2, <4>3, <4>4, <5>1 DEF Known
        <5>3. PICK w : w = [v EXCEPT !.at = "checksum", !.head = head]
          OBVIOUS
        <5>4. w = [at |-> "checksum", inode |-> v.inode, len |-> v.len, head |-> head, error |-> v.error,
                   graph |-> v.graph, opened |-> v.opened]
          BY <5>3, LoadUpdate
        <5>5. w.at = "checksum" /\ w.head = head  BY <5>4
        <5>6. load' = [load EXCEPT ![r] = w]  BY <2>1, <4>6, <5>3
        <5> QED  BY <1>3, <5>2, <5>5, <5>6
      <4> QED  BY <2>2, <2>3, <4>5, <4>6
    <3> QED  BY <3>1, <3>2, <3>3, <3>4
  <2>5. CASE Checksum(r)
    <3>1. v.at = "checksum"  BY <2>1, <2>5 DEF Checksum
    <3>2. CASE ~PayloadLost(r) /\ ChecksumHolds(r)
      <4>1. Goto(r, "deserialize")  BY <2>5, <3>2 DEF Checksum
      <4>2. Whole(r) /\ ~Damaged(v.head, "checksum")  BY <2>1, <3>2 DEF ChecksumHolds
      <4>3. v.head.claim = "exact"  BY <1>1, <2>1, <3>1, <3>2, <4>2, WholeIsExact
      <4>4. Tells(v.head)  BY <2>1, <3>1 DEF DamageInv, DamageKnown, Sound, Vetted
      <4>5. PICK w : w = [v EXCEPT !.at = "deserialize"]
        OBVIOUS
      <4>6. w = [at |-> "deserialize", inode |-> v.inode, len |-> v.len, head |-> v.head, error |-> v.error,
                 graph |-> v.graph, opened |-> v.opened]
        BY <4>5, LoadUpdate
      <4>7. w.at = "deserialize" /\ w.head = v.head /\ w.inode = v.inode  BY <4>6
      <4>8. load' = [load EXCEPT ![r] = w]  BY <2>1, <4>1, <4>5 DEF Goto
      <4> QED  BY <1>3, <2>1, <3>2, <4>2, <4>3, <4>4, <4>7, <4>8
    <3>3. CASE ~(~PayloadLost(r) /\ ChecksumHolds(r))
      <4>1. Goto(r, "killed") \/ Refuse(r, "checksum_mismatch")  BY <2>5, <3>3 DEF Checksum
      <4> QED  BY <2>2, <2>3, <4>1
    <3> QED  BY <3>2, <3>3
  <2>6. CASE Deserialize(r)
    <3>1. v.at = "deserialize"  BY <2>1, <2>6 DEF Deserialize
    <3>2. /\ Whole(r) /\ ~PayloadLost(r) /\ ~Damaged(v.head, "checksum")
          /\ v.head.claim = "exact" /\ Tells(v.head)
      BY <2>1, <3>1 DEF DamageInv, DamageKnown, Sound, Vetted
    <3>3. Load(r, v.head.graph)  BY <2>1, <2>6, <3>2 DEF Deserialize
    <3>4. PICK g, w : g = v.head.graph /\ w = [v EXCEPT !.at = "loaded", !.graph = g]
      OBVIOUS
    <3>5. w = [at |-> "loaded", inode |-> v.inode, len |-> v.len, head |-> v.head, error |-> v.error,
               graph |-> g, opened |-> v.opened]
      <4>1. [v EXCEPT !.at = "loaded", !.graph = g]
              = [at |-> "loaded", inode |-> v.inode, len |-> v.len, head |-> v.head, error |-> v.error,
                 graph |-> g, opened |-> v.opened]
        BY LoadedUpdate
      <4> QED  BY <3>4, <4>1
    <3>6. w.at = "loaded" /\ w.head = v.head /\ w.graph = v.head.graph  BY <3>4, <3>5
    <3>7. load' = [load EXCEPT ![r] = w]  BY <2>1, <3>3, <3>4 DEF Load
    <3> QED  BY <1>3, <3>2, <3>6, <3>7
  <2> QED  BY <1>4, <1>5, <2>4, <2>5, <2>6 DEF LoadStep
<1>8. CASE load[r].at = "idle"
  <2>1. \E p \in Paths : Open(r, p)
    BY <1>8 DEF LoadStep, Validate, Checksum, Deserialize, Close, Ended
  <2> QED  BY <1>4, <2>1
<1> QED  BY <1>7, <1>8

LEMMA StorageDamage == ASSUME DamageInv, Storage PROVE DamageKnown'
<1>1. TypeOK  BY DEF DamageInv, NamesInv, TypeInv
<1>2. CASE WriteBackNames
  <2>1. UNCHANGED <<cache, disk, load>>  BY <1>2 DEF WriteBackNames
  <2>2. \A r \in Readers : Sound(r)'
    BY <1>1, <2>1, SoundKept DEF DamageInv, DamageKnown
  <2> QED  BY <2>1, <2>2 DEF DamageInv, DamageKnown
<1>3. CASE Crash
  <2>1. /\ \A r \in Readers : load'[r].at = "idle"
        /\ cache' = disk /\ UNCHANGED disk
    BY <1>3, LoadFields DEF Crash
  <2>2. \A r \in Readers : Sound(r)'  BY <2>1 DEF Sound, Vetted
  <2>3. \A j \in Inodes : Known(cache[j])' /\ Known(disk[j])'
    BY <2>1 DEF DamageInv, DamageKnown, Known
  <2> QED  BY <2>2, <2>3 DEF DamageKnown
<1>4. ASSUME NEW i \in Inodes, WriteBack(i) PROVE DamageKnown'
  <2>1. UNCHANGED <<cache, load>>  BY <1>4 DEF WriteBack
  <2>2. \A r \in Readers : Sound(r)'
    BY <1>1, <2>1, SoundKept DEF DamageInv, DamageKnown
  <2>3. PICK c \in Contents, d \in Contents : c = cache[i] /\ d = disk[i]
    BY <1>1 DEF TypeOK, Contents, Entries
  <2>4. Known(c) /\ Known(d)  BY <2>3 DEF DamageInv, DamageKnown
  <2>5. PICK blocks \in SUBSET (1..Len(c)) :
          disk' = [disk EXCEPT ![i] =
            [j \in 1..Len(c) |-> IF j \in blocks THEN c[j] ELSE IF j <= Len(d) THEN d[j] ELSE Hole]]
    BY <1>4, <2>3 DEF WriteBack
  <2>6. PICK e : /\ e = [j \in 1..Len(c) |-> IF j \in blocks THEN c[j] ELSE IF j <= Len(d) THEN d[j] ELSE Hole]
                 /\ Known(e)
    <3>1. Known([j \in 1..Len(c) |-> IF j \in blocks THEN c[j] ELSE IF j <= Len(d) THEN d[j] ELSE Hole])
      BY <2>4, KnownWriteBack
    <3> QED  BY <3>1
  <2>7. \A j \in Inodes : disk'[j] = IF j = i THEN e ELSE disk[j]  BY <1>1, <2>5, <2>6 DEF TypeOK
  <2>8. \A j \in Inodes : Known(cache[j])' /\ Known(disk[j])'
    <3> SUFFICES ASSUME NEW j \in Inodes PROVE Known(cache[j])' /\ Known(disk[j])'
      OBVIOUS
    <3>1. Known(cache[j]) /\ Known(disk[j])  BY DEF DamageInv, DamageKnown
    <3>2. PICK x : x = disk'[j] /\ Known(x)  BY <2>6, <2>7, <3>1
    <3> QED  BY <2>1, <3>1, <3>2 DEF Known
  <2> QED  BY <2>2, <2>8 DEF DamageKnown
<1>5. ASSUME NEW i \in Inodes, Rot(i) PROVE DamageKnown'
  <2>1. Known(cache[i])  BY DEF DamageInv, DamageKnown
  <2>2. PICK c \in Contents :
          cache' = [cache EXCEPT ![i] = c] /\ disk' = [disk EXCEPT ![i] = c] /\ Known(c)
    BY <1>1, <1>5, <2>1, KnownRot
  <2>3. UNCHANGED load /\ \A q \in Readers : load[q].at # "idle" => load[q].inode # i
    BY <1>1, <1>5, RotEffect
  <2>4. \A j \in Inodes : /\ cache'[j] = IF j = i THEN c ELSE cache[j]
                          /\ disk'[j] = IF j = i THEN c ELSE disk[j]
    BY <1>1, <2>2 DEF TypeOK
  <2>5. \A q \in Readers : load[q].at # "idle" => cache'[load[q].inode] = cache[load[q].inode]
    BY <1>1, <2>3, <2>4, MappedFacts
  <2>6. \A r \in Readers : Sound(r)'
    BY <1>1, <2>3, <2>5, SoundKept DEF DamageInv, DamageKnown
  <2>7. ASSUME NEW j \in Inodes PROVE Known(cache[j])' /\ Known(disk[j])'
    <3>1. Known(cache[j]) /\ Known(disk[j])  BY DEF DamageInv, DamageKnown
    <3>2. PICK x, y : x = cache'[j] /\ y = disk'[j] /\ Known(x) /\ Known(y)  BY <2>2, <2>4, <3>1
    <3> QED  BY <3>2 DEF Known
  <2> QED  BY <2>6, <2>7 DEF DamageKnown
<1> QED  BY <1>2, <1>3, <1>4, <1>5 DEF Storage

LEMMA InitDamage == Init => DamageInv
<1> SUFFICES ASSUME Init PROVE DamageInv
  OBVIOUS
<1>1. NamesInv  BY InitNames
<1>2. PICK old \in Graphs, i \in Inodes :
        cache = [j \in Inodes |-> IF j = i THEN FileOf(old) ELSE <<>>] /\ disk = cache
  BY DEF Init, AnyOf
<1>3. \A j \in Inodes : Known(cache[j]) /\ Known(disk[j])  BY <1>2, KnownFacts
<1>4. \A r \in Readers : Sound(r)  BY LoadFields DEF Init, Sound, Vetted
<1> QED  BY <1>1, <1>3, <1>4 DEF DamageInv, DamageKnown

LEMMA NextDamage == ASSUME DamageInv, [SerialNext]_vars PROVE DamageInv'
<1>1. NamesInv'  BY NextNames DEF DamageInv
<1>2. CASE UNCHANGED vars
  <2>1. TypeOK /\ UNCHANGED <<cache, disk, load>>
    BY <1>2 DEF vars, fileVars, DamageInv, NamesInv, TypeInv
  <2>2. \A r \in Readers : Sound(r)'  BY <2>1, SoundKept DEF DamageInv, DamageKnown
  <2> QED  BY <1>1, <2>1, <2>2 DEF DamageInv, DamageKnown
<1>3. CASE SerialNext
  <2>1. DamageKnown'
    BY <1>3, SaveDamage, LoadDamage, StorageDamage DEF SerialNext, Steps
  <2> QED  BY <1>1, <2>1 DEF DamageInv
<1> QED  BY <1>2, <1>3

(* Damage to a file never changes what is loaded: with any amount of it,     *)
(* where the savers of a temporary name take turns, a load that the magic,   *)
(* version, length and checksum tests let through gives the graph that was   *)
(* saved, and what is damaged is the reserved bytes of the header.           *)
THEOREM WrongGraphNeverLoadedHolds == SerialSpec => []WrongGraphNeverLoaded
<1>1. ASSUME DamageInv PROVE WrongGraphNeverLoaded
  <2> SUFFICES ASSUME NEW r \in Readers, load[r].at = "loaded"
               PROVE  Answer(r) = load[r].head.graph /\ load[r].head.rot \subseteq Layout.reserved2
    BY DEF WrongGraphNeverLoaded
  <2>1. PICK head \in Block : head = load[r].head /\ Mismatches(head) = {}
    BY <1>1 DEF DamageInv, NamesInv, TypeInv, HeadsChecked, Vetted, Checked
  <2>2. /\ Tells(head) /\ ~Damaged(head, "checksum") /\ head.claim = "exact"
        /\ load[r].graph = head.graph
    BY <1>1, <2>1 DEF DamageInv, DamageKnown, Sound, Vetted
  <2>3. \A i \in 1..4 : ~Damaged(head, Checks[i])  BY <2>1 DEF Mismatches, Checks
  <2>4. ~Damaged(head, "magic") /\ ~Damaged(head, "version") /\ ~Damaged(head, "checksum_algo")
        /\ ~Damaged(head, "reserved1")
    BY <2>3 DEF Checks
  <2>5. head.rot \cap (0..3) = {} /\ head.rot \cap (4..5) = {} /\ 7 \notin head.rot /\ 6 \notin head.rot
    BY <2>4 DEF Damaged, ReadLayout
  <2>6. head.rot \cap (8..15) = {}  BY <2>2 DEF Damaged, ReadLayout
  <2>7. head.rot \cap (16..23) = {}  BY <2>2 DEF Tells, Layout
  <2>8. head.rot \subseteq 0..31  BY DEF Block
  <2>9. ASSUME NEW b \in head.rot PROVE b \in 24..31
    <3>1. b \in 0..31 /\ b \notin 0..3 /\ b \notin 4..5 /\ b # 6 /\ b # 7 /\ b \notin 8..15 /\ b \notin 16..23
      BY <2>5, <2>6, <2>7, <2>8
    <3> QED  BY <3>1
  <2> QED  BY <2>1, <2>2, <2>9 DEF Answer, Layout
<1>2. DamageInv => WrongGraphNeverLoaded  BY <1>1
<1>3. DamageInv /\ [SerialNext]_vars => DamageInv'  BY NextDamage
<1> QED  BY InitDamage, <1>2, <1>3, PTL DEF SerialSpec

-----------------------------------------------------------------------------
(* What the files hold whatever storage damages.  The files that FilesWhole   *)
(* speaks of hold every block of a graph, or every block written so far, in   *)
(* its place; a block that is not as it was saved has damaged bytes, and a    *)
(* reader that gave up found its reason in the file it has mapped.            *)

IsBlock(b, g, j) ==
  /\ b \in Block /\ b.graph = g /\ b.no = j - 1
  /\ b.claim # "exact" => b.rot \cap Layout.payload_len # {}

Starts(c, g, n) == Len(c) = n /\ \A j \in 1..n : IsBlock(c[j], g, j)

Image(c, g) == Starts(c, g, Blocks[g] + 1)

Stores(i, g) == disk[i] = cache[i] /\ Image(cache[i], g)

Stored(i) == i = NoFile \/ \E g \in Graphs : Stores(i, g)

Begun(s) ==
  /\ save[s].at = "write" => Starts(cache[save[s].inode], save[s].graph, save[s].written)
  /\ save[s].at = "sync" => Image(cache[save[s].inode], save[s].graph)
  /\ save[s].at = "rename" => Stores(save[s].inode, save[s].graph)

PayloadRot(c) == \E j \in 2..Len(c) : c[j].rot # {}

\* The reason for which a load gave up is in the file.
Blames(l, c) ==
  /\ l.at = "panicked" => c[1].rot \cap Layout.payload_len # {}
  /\ l.at = "failed" =>
       \/ \E field \in {"magic", "version", "checksum_algo", "reserved1"} :
            l.error = field /\ c[1].rot \cap Layout[field] # {}
       \/ l.error = "payload_truncated" /\ c[1].rot \cap Layout.payload_len # {}
       \/ /\ l.error = "checksum_mismatch"
          /\ PayloadRot(c) \/ c[1].rot \cap (Layout.checksum \cup Layout.payload_len) # {}

LooksAt(l, c) ==
  /\ \E g \in Graphs : Image(c, g) /\ l.len = Blocks[g] + 1
  /\ l.at = "checksum" => l.head = c[1]
  /\ Blames(l, c)

Views(r) == load[r].at # "idle" => LooksAt(load[r], Mapped(r))

FilesStored ==
  /\ \A p \in Paths : Stored(names[p]) /\ Stored(diskNames[p])
  /\ \A s \in Savers : Begun(s)
  /\ \A r \in Readers : Views(r)

ImageInv == DamageInv /\ FilesStored

LEMMA BlockFacts ==
  ASSUME NEW g \in Graphs, NEW j \in 1..(Blocks[g] + 1)
  PROVE  /\ IsBlock(FileOf(g)[j], g, j)
         /\ \A b : IsBlock(b, g, j) /\ b.rot = {} => b = FileOf(g)[j]
<1>1. FileOf(g)[j] = [graph |-> g, no |-> j - 1, rot |-> {}, claim |-> "exact"]  BY FileFacts
<1>2. [graph |-> g, no |-> j - 1, rot |-> {}, claim |-> "exact"] \in Block
  <2>1. j - 1 \in Nat  BY FileFacts
  <2> QED  BY <2>1 DEF Block, Claim
<1>3. IsBlock(FileOf(g)[j], g, j)  BY <1>1, <1>2 DEF IsBlock
<1>4. ASSUME NEW b, IsBlock(b, g, j), b.rot = {} PROVE b = FileOf(g)[j]
  <2>1. b \in Block /\ b.graph = g /\ b.no = j - 1 /\ b.claim = "exact"  BY <1>4 DEF IsBlock
  <2>2. b = [graph |-> b.graph, no |-> b.no, rot |-> b.rot, claim |-> b.claim]  BY <2>1 DEF Block
  <2> QED  BY <1>1, <1>4, <2>1, <2>2
<1> QED  BY <1>3, <1>4

LEMMA WholeImage == ASSUME NEW g \in Graphs PROVE Image(FileOf(g), g)
  BY FileFacts, BlockFacts DEF Image, Starts

\* The header of an image.
LEMMA ImageHeader ==
  ASSUME NEW g \in Graphs, NEW c, Image(c, g)
  PROVE  /\ Len(c) = Blocks[g] + 1 /\ Blocks[g] \in Nat \ {0} /\ IsBlock(c[1], g, 1)
         /\ c[1] \in Block /\ c[1] # Hole /\ c[1].no = 0 /\ c[1].graph = g /\ c[1].claim \in Claim
<1>1. Len(c) = Blocks[g] + 1 /\ Blocks[g] \in Nat \ {0}  BY FileFacts DEF Image, Starts
<1>2. 1 \in 1..(Blocks[g] + 1)  BY <1>1
<1>3. IsBlock(c[1], g, 1)  BY <1>2 DEF Image, Starts
<1>4. PICK b : b = c[1]
  OBVIOUS
<1>5. b \in Block /\ b.graph = g /\ b.no = 1 - 1  BY <1>3, <1>4 DEF IsBlock
<1>6. b # Hole /\ b.claim \in Claim  BY <1>5, SentinelAssumption DEF Block
<1> QED  BY <1>1, <1>3, <1>4, <1>5, <1>6

\* Writing the next block.
LEMMA StartsPut ==
  ASSUME NEW g \in Graphs, NEW c \in Contents, NEW n \in 1..(Blocks[g] + 1), Starts(c, g, n - 1)
  PROVE  Starts(Put(c, n, FileOf(g)[n]), g, n)
<1>1. n \in Nat \ {0} /\ FileOf(g)[n] \in Entries  BY FileFacts DEF Contents
<1>2. Len(c) = n - 1  BY DEF Starts
<1>3. PICK d : d = Put(c, n, FileOf(g)[n])
  OBVIOUS
<1>4. Len(d) = n /\ \A j \in 1..n : d[j] = IF j = n THEN FileOf(g)[n] ELSE c[j]
  BY <1>1, <1>2, <1>3, PutFacts
<1>5. ASSUME NEW j \in 1..n PROVE IsBlock(d[j], g, j)
  <2>1. CASE j = n  BY <1>4, <2>1, BlockFacts
  <2>2. CASE j # n
    <3>1. j \in 1..(n - 1)  BY <1>1, <2>2
    <3>2. IsBlock(c[j], g, j)  BY <3>1 DEF Starts
    <3> QED  BY <1>4, <2>2, <3>2
  <2> QED  BY <2>1, <2>2
<1> QED  BY <1>3, <1>4, <1>5 DEF Starts

\* Damage leaves an image an image.
LEMMA StartsDamaged ==
  ASSUME NEW c \in Contents, NEW d \in Contents, DamagedIn(c, d), NEW g, NEW n, Starts(c, g, n)
  PROVE  Starts(d, g, n)
<1>1. PICK j \in DOMAIN c, b \in Block :
        /\ d = [c EXCEPT ![j] = b] /\ b.graph = c[j].graph /\ b.no = c[j].no
        /\ b.rot \cap Layout.payload_len # {} <=> b.claim # "exact"
  BY DEF DamagedIn
<1>2. Len(d) = Len(c) /\ \A k \in 1..Len(c) : d[k] = IF k = j THEN b ELSE c[k]
  BY <1>1 DEF Contents
<1>3. ASSUME NEW k \in 1..n PROVE IsBlock(d[k], g, k)
  <2>1. IsBlock(c[k], g, k) /\ k \in 1..Len(c)  BY DEF Starts
  <2>2. CASE k = j
    <3>1. IsBlock(b, g, k)  BY <1>1, <2>1, <2>2 DEF IsBlock
    <3> QED  BY <1>2, <2>1, <2>2, <3>1
  <2>3. CASE k # j
    <3>1. d[k] = c[k]  BY <1>2, <2>1, <2>3
    <3> QED  BY <2>1, <3>1
  <2> QED  BY <2>2, <2>3
<1> QED  BY <1>2, <1>3 DEF Starts

\* A payload that differs from the saved one under a right length is damaged.
LEMMA DamagedPayload ==
  ASSUME NEW g \in Graphs, NEW c \in Contents, Image(c, g),
         \A j \in 2..Len(c) : c[j].rot = {}
  PROVE  SubSeq(c, 2, Blocks[g] + 1) = Tail(FileOf(g))
<1>1. PICK f \in Contents : f = FileOf(g) /\ Len(f) = Blocks[g] + 1 /\ Blocks[g] \in Nat \ {0}
  BY FileFacts
<1>2. Len(c) = Len(f)  BY <1>1 DEF Image, Starts
<1>3. ASSUME NEW j \in 2..Len(f) PROVE c[j] = f[j]
  <2>1. j \in 1..(Blocks[g] + 1) /\ j \in 2..Len(c)  BY <1>1, <1>2
  <2>2. IsBlock(c[j], g, j) /\ c[j].rot = {}  BY <2>1 DEF Image, Starts
  <2> QED  BY <1>1, <2>1, <2>2, BlockFacts
<1>4. SubSeq(c, 2, Len(f)) = Tail(c)  BY <1>1, <1>2, TailFacts
<1>5. PICK x \in Contents, y \in Contents : x = Tail(c) /\ y = Tail(f)
  <2>1. c # <<>> /\ f # <<>>  BY <1>1, <1>2
  <2>2. Tail(c) \in Contents  BY <2>1 DEF Contents
  <2>3. Tail(f) \in Contents  BY <2>1 DEF Contents
  <2> QED  BY <2>2, <2>3
<1>6. /\ Len(x) = Len(f) - 1 /\ Len(y) = Len(f) - 1
      /\ \A k \in 1..(Len(f) - 1) : x[k] = c[k + 1] /\ y[k] = f[k + 1]
  BY <1>1, <1>2, <1>5 DEF Contents
<1>7. \A k \in 1..(Len(f) - 1) : x[k] = y[k]
  <2> SUFFICES ASSUME NEW k \in 1..(Len(f) - 1) PROVE x[k] = y[k]
    OBVIOUS
  <2>1. k + 1 \in 2..Len(f)  BY <1>1
  <2> QED  BY <1>3, <1>6, <2>1
<1>8. x = y
  <2>1. x = [k \in 1..Len(x) |-> x[k]] /\ y = [k \in 1..Len(y) |-> y[k]]  BY DEF Contents
  <2> QED  BY <1>6, <1>7, <2>1
<1> QED  BY <1>1, <1>4, <1>5, <1>8

\* What a step on a file that nothing else depends on leaves as it was.
LEMMA OthersStored ==
  ASSUME ImageInv, NEW s \in Savers, NEW i, Alone(i, s),
         \A j \in Inodes : j # i => cache'[j] = cache[j] /\ disk'[j] = disk[j],
         \A p \in Paths : names'[p] = names[p],
         \A u \in Savers : u # s => save'[u] = save[u],
         UNCHANGED <<diskNames, load>>
  PROVE  /\ \A p \in Paths : Stored(names[p])' /\ Stored(diskNames[p])'
         /\ \A u \in Savers : u # s => Begun(u)'
         /\ \A r \in Readers : Views(r)'
<1>1. NamesInv /\ TypeOK  BY DEF ImageInv, DamageInv, NamesInv, TypeInv
<1>2. \A j \in Inodes : j # i => \A g : Stores(j, g)' <=> Stores(j, g)  BY DEF Stores
<1>3. ASSUME NEW p \in Paths PROVE Stored(names[p])' /\ Stored(diskNames[p])'
  <2>1. names[p] \in Inodes \cup {NoFile} /\ diskNames[p] \in Inodes \cup {NoFile}
    BY <1>1, NameFacts DEF TypeOK
  <2>2. names[p] # i /\ diskNames[p] # i  BY DEF Alone, Private
  <2>3. Stored(names[p]) /\ Stored(diskNames[p])  BY DEF ImageInv, FilesStored
  <2> QED  BY <1>2, <2>1, <2>2, <2>3 DEF Stored, Stores
<1>4. ASSUME NEW u \in Savers, u # s PROVE Begun(u)'
  <2>1. CASE save[u].at \in Positions
    <3>1. save[u].inode \in Inodes /\ save[u].inode # i
      BY <1>1, <1>4, <2>1, SaverAlone DEF Alone
    <3> QED  BY <1>2, <1>4, <3>1 DEF ImageInv, FilesStored, Begun, Stores
  <2>2. CASE save[u].at \notin Positions
    BY <1>4, <2>2 DEF Begun, Positions
  <2> QED  BY <2>1, <2>2
<1>5. \A q \in Readers : load[q].at # "idle" => cache'[load[q].inode] = cache[load[q].inode]
  BY <1>1, MappedFacts DEF Alone, Private
<1>6. \A r \in Readers : load[r].at # "idle" => Mapped(r)' = Mapped(r)  BY <1>5 DEF Mapped
<1>7. \A r \in Readers : Views(r)'
  BY <1>6 DEF ImageInv, FilesStored, Views
<1> QED  BY <1>3, <1>4, <1>7

\* The same, for a step that changes no file and no directory.
LEMMA FilesUntouched ==
  ASSUME ImageInv, UNCHANGED <<cache, disk, names, diskNames>>
  PROVE  /\ \A p \in Paths : Stored(names[p])' /\ Stored(diskNames[p])'
         /\ \A u \in Savers : save'[u] = save[u] => Begun(u)'
         /\ \A r \in Readers : load'[r] = load[r] => Views(r)'
<1>1. \A p \in Paths : Stored(names[p])' /\ Stored(diskNames[p])'
  BY DEF ImageInv, FilesStored, Stored, Stores
<1>2. \A u \in Savers : save'[u] = save[u] => Begun(u)'
  BY DEF ImageInv, FilesStored, Begun, Stores
<1>3. \A r \in Readers : load'[r] = load[r] => Views(r)'
  <2> SUFFICES ASSUME NEW r \in Readers, load'[r] = load[r] PROVE Views(r)'
    OBVIOUS
  <2>1. Mapped(r)' = Mapped(r)  BY DEF Mapped
  <2> QED  BY <2>1 DEF ImageInv, FilesStored, Views
<1> QED  BY <1>1, <1>2, <1>3

LEMMA InitImages == Init => ImageInv
<1> SUFFICES ASSUME Init PROVE ImageInv
  OBVIOUS
<1>1. DamageInv  BY InitDamage
<1>2. PICK old \in Graphs, p \in Paths, i \in AnyOf(Inodes) :
        /\ cache = [j \in Inodes |-> IF j = i THEN FileOf(old) ELSE <<>>]
        /\ names = [n \in Names |-> IF n = p THEN i ELSE NoFile]
  BY DEF Init
<1>3. i \in Inodes  BY DEF AnyOf
<1>4. cache[i] = FileOf(old) /\ disk[i] = cache[i]  BY <1>2, <1>3 DEF Init
<1>5. Stores(i, old)  BY <1>4, WholeImage DEF Stores
<1>6. \A q \in Paths : Stored(names[q]) /\ Stored(diskNames[q])
  BY <1>2, <1>5, NameFacts DEF Init, Stored
<1>7. \A s \in Savers : Begun(s)  BY DEF Init, NotSaving, Begun
<1>8. \A r \in Readers : Views(r)  BY LoadFields DEF Init, Views
<1> QED  BY <1>1, <1>6, <1>7, <1>8 DEF ImageInv, FilesStored

LEMMA BeginImages ==
  ASSUME ImageInv, NEW s \in Savers, (\E p \in Paths, g \in Graphs : SerialBegin(s, p, g)) \/ Fail(s)
  PROVE  FilesStored'
<1>1. TypeOK  BY DEF ImageInv, DamageInv, NamesInv, TypeInv
<1>2. UNCHANGED <<cache, disk, names, diskNames, load>>
  BY DEF SerialBegin, Begin, Fail, fileVars
<1>3. PICK w : save' = [save EXCEPT ![s] = w] /\ w.at \notin Positions
  <2>1. CASE Fail(s)
    <3>1. NotSaving.at = "idle"  BY DEF NotSaving
    <3> QED  BY <2>1, <3>1 DEF Fail, Positions
  <2>2. CASE \E p \in Paths, g \in Graphs : SerialBegin(s, p, g)
    <3>1. PICK p \in Paths, g \in Graphs : SerialBegin(s, p, g)  BY <2>2
    <3>2. PICK w : w = [at |-> "create", path |-> p, graph |-> g]
      OBVIOUS
    <3>3. w.at = "create"  BY <3>2
    <3>4. save' = [save EXCEPT ![s] = w]  BY <3>1, <3>2 DEF SerialBegin, Begin
    <3> QED  BY <3>3, <3>4 DEF Positions
  <2> QED  BY <2>1, <2>2
<1>4. \A u \in Savers : save'[u] = IF u = s THEN w ELSE save[u]  BY <1>1, <1>3 DEF TypeOK
<1>5. Begun(s)'  BY <1>3, <1>4 DEF Begun, Positions
<1>6. \A u \in Savers : Begun(u)'  BY <1>2, <1>4, <1>5, FilesUntouched
<1> QED  BY <1>2, <1>6, FilesUntouched DEF FilesStored

LEMMA CreateImages == ASSUME ImageInv, NEW s \in Savers, Create(s) PROVE FilesStored'
<1>1. NamesInv /\ TypeOK  BY DEF ImageInv, DamageInv, NamesInv, TypeInv
<1>2. PICK i \in Inodes :
        /\ Alone(i, s) /\ save[s].graph \in Graphs
        /\ save' = [save EXCEPT ![s] = [at |-> "write", path |-> save[s].path, graph |-> save[s].graph,
                                        inode |-> i, written |-> 0]]
        /\ \A j \in Inodes : cache'[j] = IF j = i THEN <<>> ELSE cache[j]
        /\ \A p \in Paths : names'[p] = names[p]
        /\ UNCHANGED <<disk, diskNames, load>>
  BY <1>1, CreateTouches
<1>3. PICK w : w = [at |-> "write", path |-> save[s].path, graph |-> save[s].graph,
                    inode |-> i, written |-> 0]
  OBVIOUS
<1>4. \A u \in Savers : save'[u] = IF u = s THEN w ELSE save[u]  BY <1>1, <1>2, <1>3 DEF TypeOK
<1>5. w.at = "write" /\ w.inode = i /\ w.written = 0  BY <1>3
<1>6. \A g : Starts(<<>>, g, 0)  BY DEF Starts
<1>7. Begun(s)'  BY <1>2, <1>4, <1>5, <1>6 DEF Begun
<1>8. /\ \A p \in Paths : Stored(names[p])' /\ Stored(diskNames[p])'
      /\ \A u \in Savers : u # s => Begun(u)'
      /\ \A r \in Readers : Views(r)'
  BY <1>2, <1>4, OthersStored
<1> QED  BY <1>7, <1>8 DEF FilesStored

LEMMA WriteImages == ASSUME ImageInv, NEW s \in Savers, Write(s) PROVE FilesStored'
<1>1. NamesInv /\ TypeOK /\ save[s].at = "write" /\ Saving(s)
  BY DEF ImageInv, DamageInv, NamesInv, TypeInv, Write, Saving
<1>2. PICK v \in SaveState : v = save[s]  BY <1>1 DEF TypeOK
<1>3. v.at = "write" /\ v.graph \in Graphs /\ v.inode \in Inodes /\ v.written \in Nat
      /\ v.written <= Blocks[v.graph] /\ Alone(v.inode, s)
  BY <1>1, <1>2, SaverFacts, SaverAlone DEF Positions, TypeOK
<1>4. PICK k \in Inodes, g \in Graphs : k = v.inode /\ g = v.graph  BY <1>3
<1>5. Blocks[g] \in Nat /\ Len(FileOf(g)) = Blocks[g] + 1  BY FileFacts
<1>6. PICK n \in 1..(Blocks[g] + 1) : n = v.written + 1  BY <1>3, <1>4, <1>5
<1>7. PICK c \in Contents : c = cache[k]  BY <1>1 DEF TypeOK, Contents, Entries
<1>8. PICK d : d = Put(c, n, FileOf(g)[n])
  OBVIOUS
<1>9. PICK a : a = IF n = Blocks[g] + 1 THEN "sync" ELSE "write"
  OBVIOUS
<1>10. /\ cache' = [cache EXCEPT ![k] = d]
       /\ save' = [save EXCEPT ![s] = [v EXCEPT !.written = n, !.at = a]]
       /\ UNCHANGED <<disk, names, diskNames, load>>
  BY <1>2, <1>4, <1>5, <1>6, <1>7, <1>8, <1>9 DEF Write
<1>11. PICK w : w = [at |-> a, path |-> v.path, graph |-> g, inode |-> k, written |-> n]
  OBVIOUS
<1>12. [v EXCEPT !.written = n, !.at = a] = w
  BY <1>3, <1>4, <1>11, SaveUpdate DEF Positions
<1>13. w.at = a /\ w.graph = g /\ w.inode = k /\ w.written = n  BY <1>11
<1>14. \A u \in Savers : save'[u] = IF u = s THEN w ELSE save[u]
  BY <1>1, <1>10, <1>12 DEF TypeOK
<1>15. \A j \in Inodes : cache'[j] = IF j = k THEN d ELSE cache[j]
  BY <1>1, <1>10 DEF TypeOK
<1>16. Starts(c, g, n - 1)
  <2>1. Starts(c, g, v.written)
    BY <1>2, <1>3, <1>4, <1>7 DEF ImageInv, FilesStored, Begun
  <2>2. v.written = n - 1  BY <1>3, <1>6
  <2> QED  BY <2>1, <2>2
<1>17. Starts(d, g, n)  BY <1>8, <1>16, StartsPut
<1>18. Begun(s)'
  <2>1. cache'[k] = d /\ save'[s] = w  BY <1>14, <1>15
  <2>2. CASE n = Blocks[g] + 1
    <3>1. a = "sync" /\ Image(d, g)  BY <1>9, <1>17, <2>2 DEF Image
    <3> QED  BY <1>13, <2>1, <3>1 DEF Begun
  <2>3. CASE n # Blocks[g] + 1
    <3>1. a = "write"  BY <1>9, <2>3
    <3> QED  BY <1>13, <1>17, <2>1, <3>1 DEF Begun
  <2> QED  BY <2>2, <2>3
<1>19. /\ \A p \in Paths : Stored(names[p])' /\ Stored(diskNames[p])'
       /\ \A u \in Savers : u # s => Begun(u)'
       /\ \A r \in Readers : Views(r)'
  BY <1>3, <1>4, <1>10, <1>14, <1>15, OthersStored
<1> QED  BY <1>18, <1>19 DEF FilesStored

LEMMA SyncImages == ASSUME ImageInv, NEW s \in Savers, Sync(s) PROVE FilesStored'
<1>1. NamesInv /\ TypeOK /\ save[s].at = "sync" /\ Saving(s)
  BY DEF ImageInv, DamageInv, NamesInv, TypeInv, Sync, Saving
<1>2. PICK v \in SaveState : v = save[s]  BY <1>1 DEF TypeOK
<1>3. v.at = "sync" /\ v.graph \in Graphs /\ v.inode \in Inodes /\ Alone(v.inode, s)
  BY <1>1, <1>2, SaverFacts, SaverAlone DEF Positions
<1>4. PICK k \in Inodes, g \in Graphs : k = v.inode /\ g = v.graph  BY <1>3
<1>5. /\ disk' = [disk EXCEPT ![k] = cache[k]]
      /\ save' = [save EXCEPT ![s] = [v EXCEPT !.at = "rename"]]
      /\ UNCHANGED <<cache, names, diskNames, load>>
  BY <1>2, <1>4 DEF Sync
<1>6. PICK w : w = [at |-> "rename", path |-> v.path, graph |-> g, inode |-> k, written |-> v.written]
  OBVIOUS
<1>7. [v EXCEPT !.at = "rename"] = w  BY <1>3, <1>4, <1>6, SaveUpdate DEF Positions
<1>8. w.at = "rename" /\ w.graph = g /\ w.inode = k  BY <1>6
<1>9. \A u \in Savers : save'[u] = IF u = s THEN w ELSE save[u]  BY <1>1, <1>5, <1>7 DEF TypeOK
<1>10. \A j \in Inodes : disk'[j] = IF j = k THEN cache[k] ELSE disk[j]  BY <1>1, <1>5 DEF TypeOK
<1>11. Image(cache[k], g)  BY <1>2, <1>3, <1>4 DEF ImageInv, FilesStored, Begun
<1>12. Begun(s)'  BY <1>5, <1>8, <1>9, <1>10, <1>11 DEF Begun, Stores
<1>13. /\ \A p \in Paths : Stored(names[p])' /\ Stored(diskNames[p])'
       /\ \A u \in Savers : u # s => Begun(u)'
       /\ \A r \in Readers : Views(r)'
  BY <1>3, <1>4, <1>5, <1>9, <1>10, OthersStored
<1> QED  BY <1>12, <1>13 DEF FilesStored

LEMMA RenameImages == ASSUME ImageInv, NEW s \in Savers, Rename(s) PROVE FilesStored'
<1>1. NamesInv  BY DEF ImageInv, DamageInv
<1>2. PICK p \in Paths, t \in Temps, i \in Inodes :
        /\ p = save[s].path /\ t = TmpOf[save[s].path] /\ i = save[s].inode
        /\ \A n \in Names : names'[n] = IF n = p THEN i ELSE IF n = t THEN NoFile ELSE names[n]
  BY <1>1, RenameEffect
<1>3. /\ \A u \in Savers : save'[u] = IF u = s THEN NotSaving ELSE save[u]
      /\ UNCHANGED <<cache, disk, diskNames, load>>
      /\ save[s].at = "rename" /\ save[s].graph \in Graphs
  BY <1>1, RenameEffect
<1>4. Stores(i, save[s].graph)  BY <1>2, <1>3 DEF ImageInv, FilesStored, Begun
<1>5. \A q \in Paths : names'[q] = IF q = p THEN i ELSE names[q]  BY <1>2, NameFacts
<1>6. ASSUME NEW q \in Paths PROVE Stored(names[q])' /\ Stored(diskNames[q])'
  <2>1. Stored(names[q]) /\ Stored(diskNames[q])  BY DEF ImageInv, FilesStored
  <2> QED  BY <1>3, <1>4, <1>5, <2>1 DEF Stored, Stores
<1>7. \A u \in Savers : Begun(u)'
  BY <1>3 DEF ImageInv, FilesStored, Begun, Stores, NotSaving
<1>8. ASSUME NEW r \in Readers PROVE Views(r)'
  <2>1. Mapped(r)' = Mapped(r)  BY <1>3 DEF Mapped
  <2> QED  BY <1>3, <2>1 DEF ImageInv, FilesStored, Views
<1> QED  BY <1>6, <1>7, <1>8 DEF FilesStored

LEMMA StorageImages == ASSUME ImageInv, Storage PROVE FilesStored'
<1>1. TypeOK /\ NamesInv  BY DEF ImageInv, DamageInv, NamesInv, TypeInv
<1>2. CASE WriteBackNames
  <2>1. diskNames' = names /\ UNCHANGED <<cache, disk, names, save, load>>  BY <1>2 DEF WriteBackNames
  <2>2. \A p \in Paths : Stored(names[p])' /\ Stored(diskNames[p])'
    BY <2>1 DEF ImageInv, FilesStored, Stored, Stores
  <2>3. \A u \in Savers : Begun(u)'  BY <2>1 DEF ImageInv, FilesStored, Begun, Stores
  <2>4. ASSUME NEW r \in Readers PROVE Views(r)'
    <3>1. Mapped(r)' = Mapped(r)  BY <2>1 DEF Mapped
    <3> QED  BY <2>1, <3>1 DEF ImageInv, FilesStored, Views
  <2> QED  BY <2>2, <2>3, <2>4 DEF FilesStored
<1>3. CASE Crash
  <2>1. /\ \A s \in Savers : save'[s].at = "idle"
        /\ \A r \in Readers : load'[r].at = "idle"
        /\ cache' = disk /\ names' = diskNames /\ UNCHANGED <<disk, diskNames>>
    BY <1>3, LoadFields DEF Crash, NotSaving
  <2>2. \A i, g : Stores(i, g) => Stores(i, g)'  BY <2>1 DEF Stores
  <2>3. ASSUME NEW p \in Paths PROVE Stored(names[p])' /\ Stored(diskNames[p])'
    <3>1. Stored(diskNames[p])  BY DEF ImageInv, FilesStored
    <3> QED  BY <2>1, <2>2, <3>1 DEF Stored, Stores
  <2> QED  BY <2>1, <2>3 DEF FilesStored, Begun, Views
<1>4. ASSUME NEW i \in Inodes, WriteBack(i) PROVE FilesStored'
  <2>1. disk[i] # cache[i] /\ UNCHANGED <<cache, names, diskNames, save, load>>
    BY <1>4 DEF WriteBack
  <2>2. \A j \in Inodes : j # i => disk'[j] = disk[j]  BY <1>1, <1>4 DEF WriteBack, TypeOK
  <2>3. \A j \in Inodes, g \in Graphs : Stores(j, g) => Stores(j, g)'  BY <2>1, <2>2 DEF Stores
  <2>4. ASSUME NEW p \in Paths PROVE Stored(names[p])' /\ Stored(diskNames[p])'
    <3>1. names[p] \in Inodes \cup {NoFile} /\ diskNames[p] \in Inodes \cup {NoFile}
      BY <1>1, NameFacts DEF TypeOK
    <3>2. Stored(names[p]) /\ Stored(diskNames[p])  BY DEF ImageInv, FilesStored
    <3> QED  BY <2>1, <2>3, <3>1, <3>2 DEF Stored, Stores
  <2>5. ASSUME NEW s \in Savers PROVE Begun(s)'
    <3>1. Begun(s)  BY DEF ImageInv, FilesStored
    <3>2. save[s].at = "rename" => save[s].inode \in Inodes /\ save[s].graph \in Graphs
      BY <1>1, SaverFacts DEF Saving, Positions
    <3> QED  BY <2>1, <2>3, <3>1, <3>2 DEF Begun, Stores
  <2>6. ASSUME NEW r \in Readers PROVE Views(r)'
    <3>1. Mapped(r)' = Mapped(r)  BY <2>1 DEF Mapped
    <3> QED  BY <2>1, <3>1 DEF ImageInv, FilesStored, Views
  <2> QED  BY <2>4, <2>5, <2>6 DEF FilesStored
<1>5. ASSUME NEW i \in Inodes, Rot(i) PROVE FilesStored'
  <2>1. PICK c \in Contents : c = cache[i]  BY <1>1 DEF TypeOK, Contents, Entries
  <2>2. PICK d \in Contents :
          DamagedIn(c, d) /\ cache' = [cache EXCEPT ![i] = d] /\ disk' = [disk EXCEPT ![i] = d]
    BY <1>1, <1>5, <2>1, RotStep
  <2>3. /\ disk[i] = cache[i] /\ UNCHANGED <<names, diskNames, save, load>>
        /\ \A r \in Readers : load[r].at # "idle" => load[r].inode # i
    BY <1>1, <1>5, RotEffect
  <2>4. \A j \in Inodes : /\ cache'[j] = IF j = i THEN d ELSE cache[j]
                          /\ disk'[j] = IF j = i THEN d ELSE disk[j]
    BY <1>1, <2>2 DEF TypeOK
  <2>5. ASSUME NEW j \in Inodes, NEW e, e = cache[j], NEW x, x = cache'[j], NEW g, NEW n, Starts(e, g, n)
        PROVE  Starts(x, g, n)
    <3>1. CASE j = i  BY <2>1, <2>2, <2>4, <2>5, <3>1, StartsDamaged
    <3>2. CASE j # i  BY <2>4, <2>5, <3>2
    <3> QED  BY <3>1, <3>2
  <2>6. ASSUME NEW j \in Inodes, NEW g \in Graphs, Stores(j, g) PROVE Stores(j, g)'
    <3>1. disk'[j] = cache'[j]  BY <2>4, <2>6 DEF Stores
    <3>2. PICK x : x = cache'[j] /\ Image(x, g)  BY <2>5, <2>6 DEF Stores, Image
    <3> QED  BY <3>1, <3>2 DEF Stores
  <2>7. ASSUME NEW p \in Paths PROVE Stored(names[p])' /\ Stored(diskNames[p])'
    <3>1. names[p] \in Inodes \cup {NoFile} /\ diskNames[p] \in Inodes \cup {NoFile}
      BY <1>1, NameFacts DEF TypeOK
    <3>2. Stored(names[p]) /\ Stored(diskNames[p])  BY DEF ImageInv, FilesStored
    <3> QED  BY <2>3, <2>6, <3>1, <3>2 DEF Stored, Stores
  <2>8. ASSUME NEW s \in Savers PROVE Begun(s)'
    <3>1. Begun(s) /\ save'[s] = save[s]  BY <2>3 DEF ImageInv, FilesStored
    <3>2. CASE save[s].at \in Positions
      <4>1. PICK j \in Inodes, g \in Graphs : j = save[s].inode /\ g = save[s].graph
        BY <1>1, <3>2, SaverFacts DEF Saving, Positions
      <4>2. PICK x : x = cache'[j]
        OBVIOUS
      <4>3. save[s].at = "write" => Starts(x, g, save[s].written)  BY <2>5, <3>1, <4>1, <4>2 DEF Begun
      <4>4. save[s].at = "sync" => Image(x, g)  BY <2>5, <3>1, <4>1, <4>2 DEF Begun, Image
      <4>5. save[s].at = "rename" => Stores(j, g)'  BY <2>6, <3>1, <4>1 DEF Begun
      <4> QED  BY <3>1, <4>1, <4>2, <4>3, <4>4, <4>5 DEF Begun, Stores
    <3>3. CASE save[s].at \notin Positions  BY <3>1, <3>3 DEF Begun, Positions
    <3> QED  BY <3>2, <3>3
  <2>9. ASSUME NEW r \in Readers PROVE Views(r)'
    <3>1. load[r].at # "idle" => Mapped(r)' = Mapped(r)
      BY <1>1, <2>3, <2>4, MappedFacts DEF Mapped
    <3> QED  BY <2>3, <3>1 DEF ImageInv, FilesStored, Views
  <2> QED  BY <2>7, <2>8, <2>9 DEF FilesStored
<1> QED  BY <1>2, <1>3, <1>4, <1>5 DEF Storage

\* The first field of a header that does not match is damaged.
LEMMA FieldDamaged ==
  ASSUME NEW head, head # Hole, head.no = 0, Mismatches(head) # {}
  PROVE  \E field \in {"magic", "version", "checksum_algo", "reserved1"} :
           Checks[Min(Mismatches(head))] = field /\ head.rot \cap Layout[field] # {}
<1>1. Mismatches(head) = {i \in 1..4 : Damaged(head, Checks[i])}  BY DEF Mismatches, Checks
<1>2. \E x \in Mismatches(head) : \A y \in Mismatches(head) : x <= y
  <2>1. CASE 1 \in Mismatches(head)  BY <1>1, <2>1
  <2>2. CASE 1 \notin Mismatches(head) /\ 2 \in Mismatches(head)  BY <1>1, <2>2
  <2>3. CASE 1 \notin Mismatches(head) /\ 2 \notin Mismatches(head) /\ 3 \in Mismatches(head)
    BY <1>1, <2>3
  <2>4. CASE 1 \notin Mismatches(head) /\ 2 \notin Mismatches(head) /\ 3 \notin Mismatches(head)
    BY <1>1, <2>4
  <2> QED  BY <2>1, <2>2, <2>3, <2>4
<1>3. PICK i \in 1..4 : i = Min(Mismatches(head)) /\ Damaged(head, Checks[i])
  BY <1>1, <1>2 DEF Min
<1>4. PICK field \in {"magic", "version", "checksum_algo", "reserved1"} : field = Checks[i]
  BY DEF Checks
<1>5. head.rot \cap ReadLayout[field] # {}  BY <1>3, <1>4 DEF Damaged
<1>6. ReadLayout = Layout  BY DEF ReadLayout, Layout
<1> QED  BY <1>3, <1>4, <1>5, <1>6

LEMMA LoadImages ==
  ASSUME ImageInv, NEW r \in Readers, LoadStep(r) \/ \E p \in Paths : Open(r, p)
  PROVE  FilesStored'
<1>1. TypeOK /\ HeadsChecked /\ NamesInv  BY DEF ImageInv, DamageInv, NamesInv, TypeInv
<1>2. UNCHANGED <<cache, disk, names, diskNames, save>>
  BY DEF LoadStep, Validate, Checksum, Deserialize, Close, Open, fileVars
<1>3. ASSUME NEW w, load' = [load EXCEPT ![r] = w], w.at # "idle" => LooksAt(w, cache[w.inode])
      PROVE  FilesStored'
  <2>1. \A q \in Readers : load'[q] = IF q = r THEN w ELSE load[q]  BY <1>1, <1>3 DEF TypeOK
  <2>2. Views(r)'  BY <1>2, <1>3, <2>1 DEF Views, Mapped
  <2>3. \A q \in Readers : Views(q)'  BY <1>2, <2>1, <2>2, FilesUntouched
  <2> QED  BY <1>2, <2>3, FilesUntouched DEF FilesStored
<1>4. CASE \E p \in Paths : Open(r, p)
  <2>1. PICK p \in Paths : Open(r, p)  BY <1>4
  <2>2. PICK i \in Inodes : i = names[p]  BY <1>1, <2>1, OpenEffect
  <2>3. PICK w \in OpenLoad :
          /\ load' = [load EXCEPT ![r] = w]
          /\ w.at = "validate" /\ w.inode = i /\ w.len = Len(cache[i])
    BY <1>1, <2>1, <2>2, OpenEffect
  <2>4. PICK g \in Graphs : Image(cache[i], g)
    BY <2>2, NameFacts DEF ImageInv, FilesStored, Stored, Stores
  <2>5. w.len = Blocks[g] + 1  BY <2>3, <2>4 DEF Image, Starts
  <2>6. LooksAt(w, cache[w.inode])  BY <2>3, <2>4, <2>5 DEF LooksAt, Blames
  <2> QED  BY <1>3, <2>3, <2>6
<1>5. CASE Close(r)  BY <1>3, <1>5, LoadFields DEF Close
<1>6. CASE load[r].at \in {"validate", "checksum", "deserialize"}
           /\ (Validate(r) \/ Checksum(r) \/ Deserialize(r))
  <2>1. PICK v \in OpenLoad : v = load[r]  BY <1>1, <1>6, MappedFacts
  <2>2. PICK c \in Contents : c = Mapped(r) /\ c = cache[v.inode]
    BY <1>1, <1>6, <2>1, MappedFacts
  <2>3. LooksAt(v, c)  BY <1>6, <2>1, <2>2 DEF ImageInv, FilesStored, Views
  <2>4. PICK g \in Graphs : Image(c, g) /\ v.len = Blocks[g] + 1  BY <2>3 DEF LooksAt
  <2>5. PICK head \in Block : head = c[1]  BY <2>4, ImageHeader
  <2>6. /\ Len(c) = Blocks[g] + 1 /\ Blocks[g] \in Nat \ {0} /\ IsBlock(head, g, 1)
        /\ head # Hole /\ head.no = 0 /\ head.graph = g /\ head.claim \in Claim
    BY <2>4, <2>5, ImageHeader
  <2>7. head.claim # "exact" => head.rot \cap Layout.payload_len # {}  BY <2>6 DEF IsBlock
  <2>8. ASSUME NEW a, Goto(r, a), a \notin {"checksum", "failed"},
               a = "panicked" => head.rot \cap Layout.payload_len # {}
        PROVE  FilesStored'
    <3>1. PICK w : w = [v EXCEPT !.at = a]
      OBVIOUS
    <3>2. w = [at |-> a, inode |-> v.inode, len |-> v.len, head |-> v.head, error |-> v.error,
               graph |-> v.graph, opened |-> v.opened]
      BY <3>1, LoadUpdate
    <3>3. w.at = a /\ w.inode = v.inode /\ w.len = v.len  BY <3>2
    <3>4. LooksAt(w, c)  BY <2>4, <2>5, <2>8, <3>3 DEF LooksAt, Blames
    <3>5. load' = [load EXCEPT ![r] = w]  BY <2>1, <2>8, <3>1 DEF Goto
    <3> QED  BY <1>3, <2>2, <3>3, <3>4, <3>5
  <2>9. ASSUME NEW e, Refuse(r, e),
               \/ \E field \in {"magic", "version", "checksum_algo", "reserved1"} :
                    e = field /\ head.rot \cap Layout[field] # {}
               \/ e = "payload_truncated" /\ head.rot \cap Layout.payload_len # {}
               \/ /\ e = "checksum_mismatch"
                  /\ PayloadRot(c) \/ head.rot \cap (Layout.checksum \cup Layout.payload_len) # {}
        PROVE  FilesStored'
    <3>1. PICK w : w = [v EXCEPT !.at = "failed", !.error = e]
      OBVIOUS
    <3>2. w = [at |-> "failed", inode |-> v.inode, len |-> v.len, head |-> v.head, error |-> e,
               graph |-> v.graph, opened |-> v.opened]
      BY <3>1, LoadUpdate
    <3>3. w.at = "failed" /\ w.inode = v.inode /\ w.len = v.len /\ w.error = e  BY <3>2
    <3>4. Blames(w, c)  BY <2>5, <2>9, <3>3 DEF Blames
    <3>5. LooksAt(w, c)  BY <2>4, <3>3, <3>4 DEF LooksAt
    <3>6. load' = [load EXCEPT ![r] = w]  BY <2>1, <2>9, <3>1 DEF Refuse
    <3> QED  BY <1>3, <2>2, <3>3, <3>5, <3>6
  <2>10. CASE Validate(r)
    <3>1. v.len > 0 /\ ~Lost(r, 1)  BY <2>2, <2>4, <2>6 DEF Lost
    <3>2. IF Mismatches(head) # {} THEN Refuse(r, Checks[Min(Mismatches(head))])
          ELSE IF head.claim = "huge" THEN Goto(r, "panicked")
          ELSE IF v.len < Claims(head) + 1 THEN Refuse(r, "payload_truncated")
          ELSE load' = [load EXCEPT ![r].at = "checksum", ![r].head = head]
      BY <2>1, <2>2, <2>5, <2>10, <3>1 DEF Validate
    <3>3. CASE Mismatches(head) # {}  BY <2>6, <2>9, <3>2, <3>3, FieldDamaged
    <3>4. CASE Mismatches(head) = {} /\ head.claim = "huge"  BY <2>7, <2>8, <3>2, <3>4
    <3>5. CASE Mismatches(head) = {} /\ head.claim # "huge" /\ v.len < Claims(head) + 1
      <4>1. head.claim # "exact"  BY <2>4, <2>6, <3>5 DEF Claims
      <4> QED  BY <2>7, <2>9, <3>2, <3>5, <4>1
    <3>6. CASE load' = [load EXCEPT ![r].at = "checksum", ![r].head = head]
      <4>1. PICK w : w = [v EXCEPT !.at = "checksum", !.head = head]
        OBVIOUS
      <4>2. w = [at |-> "checksum", inode |-> v.inode, len |-> v.len, head |-> head, error |-> v.error,
                 graph |-> v.graph, opened |-> v.opened]
        BY <4>1, LoadUpdate
      <4>3. w.at = "checksum" /\ w.inode = v.inode /\ w.len = v.len /\ w.head = head  BY <4>2
      <4>4. LooksAt(w, c)  BY <2>4, <2>5, <4>3 DEF LooksAt, Blames
      <4>5. load' = [load EXCEPT ![r] = w]  BY <2>1, <3>6, <4>1
      <4> QED  BY <1>3, <2>2, <4>3, <4>4, <4>5
    <3> QED  BY <3>2, <3>3, <3>4, <3>5, <3>6
  <2>11. CASE Checksum(r)
    <3>1. v.at = "checksum" /\ v.head = head
      BY <2>1, <2>3, <2>5, <2>11 DEF Checksum, LooksAt
    <3>2. CASE ~PayloadLost(r) /\ ~ChecksumHolds(r)
      <4>1. Refuse(r, "checksum_mismatch")  BY <2>11, <3>2 DEF Checksum
      <4>2. CASE Damaged(head, "checksum")
        BY <2>9, <4>1, <4>2 DEF Damaged, ReadLayout, Layout
      <4>3. CASE head.rot \cap Layout.payload_len # {}  BY <2>9, <4>1, <4>3
      <4>4. CASE ~Damaged(head, "checksum") /\ head.rot \cap Layout.payload_len = {}
        <5>1. head.claim = "exact"  BY <2>7, <4>4
        <5>2. Claims(head) = Blocks[g]  BY <2>6, <5>1 DEF Claims
        <5>3. Payload(r) = SubSeq(c, 2, Blocks[g] + 1)  BY <2>1, <2>2, <3>1, <5>2 DEF Payload
        <5>4. ~Whole(r)  BY <2>1, <3>1, <3>2, <4>4 DEF ChecksumHolds
        <5>5. SubSeq(c, 2, Blocks[g] + 1) # Tail(FileOf(g))
          BY <2>1, <2>6, <3>1, <5>3, <5>4 DEF Whole
        <5>6. PayloadRot(c)  BY <2>4, <5>5, DamagedPayload DEF PayloadRot
        <5> QED  BY <2>9, <4>1, <5>6
      <4> QED  BY <4>2, <4>3, <4>4
    <3>3. CASE ~(~PayloadLost(r) /\ ~ChecksumHolds(r))
      <4>1. Goto(r, "killed") \/ Goto(r, "deserialize")  BY <2>11, <3>3 DEF Checksum
      <4> QED  BY <2>8, <4>1
    <3> QED  BY <3>2, <3>3
  <2>12. CASE Deserialize(r)
    <3>1. v.at = "deserialize"  BY <2>1, <2>12 DEF Deserialize
    <3>2. Whole(r) /\ ~PayloadLost(r)
      BY <2>1, <3>1 DEF ImageInv, DamageInv, DamageKnown, Sound
    <3>3. Load(r, v.head.graph)  BY <2>1, <2>12, <3>2 DEF Deserialize
    <3>4. PICK h, w : h = v.head.graph /\ w = [v EXCEPT !.at = "loaded", !.graph = h]
      OBVIOUS
    <3>5. w = [at |-> "loaded", inode |-> v.inode, len |-> v.len, head |-> v.head, error |-> v.error,
               graph |-> h, opened |-> v.opened]
      <4>1. [v EXCEPT !.at = "loaded", !.graph = h]
              = [at |-> "loaded", inode |-> v.inode, len |-> v.len, head |-> v.head, error |-> v.error,
                 graph |-> h, opened |-> v.opened]
        BY LoadedUpdate
      <4> QED  BY <3>4, <4>1
    <3>6. w.at = "loaded" /\ w.inode = v.inode /\ w.len = v.len  BY <3>5
    <3>7. LooksAt(w, c)  BY <2>4, <3>6 DEF LooksAt, Blames
    <3>8. load' = [load EXCEPT ![r] = w]  BY <2>1, <3>3, <3>4 DEF Load
    <3> QED  BY <1>3, <2>2, <3>6, <3>7, <3>8
  <2> QED  BY <1>6, <2>10, <2>11, <2>12
<1> QED  BY <1>4, <1>5, <1>6 DEF LoadStep, Validate, Checksum, Deserialize

LEMMA NextImages == ASSUME ImageInv, [SerialNext]_vars PROVE ImageInv'
<1>1. DamageInv'  BY NextDamage DEF ImageInv
<1>2. CASE UNCHANGED vars
  <2>1. UNCHANGED <<cache, disk, names, diskNames, save, load>>  BY <1>2 DEF vars, fileVars
  <2>2. FilesStored'  BY <2>1, FilesUntouched DEF FilesStored
  <2> QED  BY <1>1, <2>2 DEF ImageInv
<1>3. CASE SerialNext
  <2>1. FilesStored'
    BY <1>3, BeginImages, CreateImages, WriteImages, SyncImages, RenameImages, LoadImages, StorageImages
    DEF SerialNext, Steps, SaveStep
  <2> QED  BY <1>1, <2>1 DEF ImageInv
<1> QED  BY <1>2, <1>3

(* The error of a load names damage that is there: with any amount of it,    *)
(* where the savers of a temporary name take turns, a field is refused only  *)
(* for its own bytes in the documented layout, a length for the length's,    *)
(* and a checksum mismatch for those of the checksum, the length or the      *)
(* payload; a load never fails for what a save, a crash or a late write left. *)
THEOREM ErrorsNameDamageHolds == SerialSpec => []ErrorsNameDamage
<1>1. ASSUME ImageInv, NEW r \in Readers, load[r].at = "panicked"
      PROVE  Mapped(r)[1].rot \cap Layout.payload_len # {}
  BY <1>1 DEF ImageInv, FilesStored, Views, LooksAt, Blames
<1>2. ASSUME ImageInv, NEW r \in Readers, load[r].at = "failed"
      PROVE  CASE load[r].error \in DOMAIN Layout -> Mapped(r)[1].rot \cap Layout[load[r].error] # {}
               [] load[r].error = "payload_truncated" -> Mapped(r)[1].rot \cap Layout.payload_len # {}
               [] load[r].error = "checksum_mismatch" ->
                    \/ \E j \in 2..Len(Mapped(r)) : Mapped(r)[j].rot # {}
                    \/ Mapped(r)[1].rot \cap (Layout.checksum \cup Layout.payload_len) # {}
               [] OTHER -> FALSE
  <2>1. PICK l, c : l = load[r] /\ c = Mapped(r) /\ Blames(l, c)
    BY <1>2 DEF ImageInv, FilesStored, Views, LooksAt
  <2>2. DOMAIN Layout = {"magic", "version", "reserved1", "checksum_algo", "checksum", "payload_len", "reserved2"}
    BY DEF Layout
  <2>3. CASE \E field \in {"magic", "version", "checksum_algo", "reserved1"} :
               l.error = field /\ c[1].rot \cap Layout[field] # {}
    BY <2>1, <2>2, <2>3
  <2>4. CASE l.error = "payload_truncated" /\ c[1].rot \cap Layout.payload_len # {}
    BY <2>1, <2>2, <2>4
  <2>5. CASE /\ l.error = "checksum_mismatch"
             /\ PayloadRot(c) \/ c[1].rot \cap (Layout.checksum \cup Layout.payload_len) # {}
    BY <2>1, <2>2, <2>5 DEF PayloadRot
  <2> QED  BY <1>2, <2>1, <2>3, <2>4, <2>5 DEF Blames
<1>3. ImageInv => ErrorsNameDamage  BY <1>1, <1>2 DEF ErrorsNameDamage
<1>4. ImageInv /\ [SerialNext]_vars => ImageInv'  BY NextImages
<1> QED  BY InitImages, <1>3, <1>4, PTL DEF SerialSpec
==============================================================================
