-------------------------- MODULE ExtractorProofs --------------------------
(***************************************************************************)
(* Extractor, for any tree and any rules.  The scope stack is at its       *)
(* height before a subtree when the walk leaves the subtree (ScopeInv);    *)
(* the calls of visit are a path of the tree (PathInv), so what qualify    *)
(* joins are the names of the anchors around the node; and the items are,  *)
(* one for one, what the nodes visited call for (ItemInv).                 *)
(***************************************************************************)
EXTENDS Extractor, FiniteSetTheorems, WellFoundedInduction, TLAPS

Calls == [pos : Nat \ {0}, is_scope : BOOLEAN]

(* ScopeMatchesCalls, and that every call is about a node of the tree.      *)
ScopeInv ==
  /\ seen \in Seq([node : Nodes \cup Roots, parent : Nat])
  /\ open \in Seq(Calls)
  /\ \A k \in 1..Len(open) : open[k].pos <= Len(seen)
  /\ scope \in Seq(Text)
  /\ ScopeMatchesCalls

-----------------------------------------------------------------------------
LEMMA Elements ==
  ASSUME NEW S, NEW s \in Seq(S)
  PROVE  Len(s) \in Nat /\ \A k \in 1..Len(s) : s[k] \in S
OBVIOUS

LEMMA Retyped ==
  ASSUME NEW S, NEW T, NEW s \in Seq(S), \A k \in 1..Len(s) : s[k] \in T
  PROVE  s \in Seq(T)
OBVIOUS

LEMMA Prefix ==
  ASSUME NEW S, NEW s \in Seq(S), NEW m \in 0..Len(s)
  PROVE  /\ SubSeq(s, 1, m) \in Seq(S) /\ Len(SubSeq(s, 1, m)) = m
         /\ \A k \in 1..m : SubSeq(s, 1, m)[k] = s[k]
OBVIOUS

(* Calls that agree up to k have the same height there.                     *)
LEMMA HeightLocal ==
  ASSUME NEW c, NEW d, NEW k \in Nat, \A j \in 1..k : c[j] = d[j]
  PROVE  Height(c, k) = Height(d, k)
<1>1. {j \in 1..k : c[j].is_scope} = {j \in 1..k : d[j].is_scope}
  OBVIOUS
<1> QED
  BY <1>1 DEF Height

(* Call k adds one to the height if it pushed a segment.                    *)
LEMMA HeightStep ==
  ASSUME NEW c \in Seq(Calls), NEW k \in 1..Len(c)
  PROVE  /\ Height(c, k - 1) \in Nat
         /\ Height(c, k) = IF c[k].is_scope THEN Height(c, k - 1) + 1 ELSE Height(c, k - 1)
<1> DEFINE S == {j \in 1..k : c[j].is_scope}
           T == {j \in 1..(k - 1) : c[j].is_scope}
<1>1. IsFiniteSet(T) /\ Cardinality(T) \in Nat
  <2>1. IsFiniteSet(1..(k - 1))
    BY FS_Interval
  <2>2. T \subseteq 1..(k - 1)
    OBVIOUS
  <2> QED
    BY <2>1, <2>2, FS_Subset, FS_CardinalityType
<1>2. CASE c[k].is_scope
  <2>1. S = T \cup {k} /\ k \notin T
    BY <1>2
  <2>2. Cardinality(T \cup {k}) = Cardinality(T) + 1
    <3> HIDE DEF T
    <3> QED
      BY <1>1, <2>1, FS_AddElement
  <2> QED
    BY <1>1, <1>2, <2>1, <2>2 DEF Height
<1>3. CASE ~c[k].is_scope
  <2>1. S = T
    BY <1>3
  <2> QED
    BY <1>1, <1>3, <2>1 DEF Height
<1> QED
  BY <1>2, <1>3

(* Heights grow with the calls, and a call that pushed has one at least 1.  *)
LEMMA HeightMonotone ==
  ASSUME NEW c \in Seq(Calls), NEW k \in 1..Len(c), NEW m \in 1..Len(c), k <= m
  PROVE  /\ Height(c, k) \in Nat /\ Height(c, m) \in Nat
         /\ Height(c, k) <= Height(c, m)
         /\ c[k].is_scope => Height(c, k) >= 1
<1> DEFINE S(i) == {j \in 1..i : c[j].is_scope}
<1>1. \A i \in Nat : IsFiniteSet(S(i))
  <2> SUFFICES ASSUME NEW i \in Nat PROVE IsFiniteSet(S(i))
    OBVIOUS
  <2>1. IsFiniteSet(1..i)
    BY FS_Interval
  <2> QED
    BY <2>1, FS_Subset
<1>2. S(k) \subseteq S(m)
  OBVIOUS
<1>3. Cardinality(S(k)) \in Nat /\ Cardinality(S(m)) \in Nat /\ Cardinality(S(k)) <= Cardinality(S(m))
  <2> HIDE DEF S
  <2> QED
    BY <1>1, <1>2, FS_Subset, FS_CardinalityType
<1>4. c[k].is_scope => Height(c, k) >= 1
  BY HeightStep
<1> QED
  BY <1>3, <1>4 DEF Height

-----------------------------------------------------------------------------
LEMMA ScopeInit == Init => ScopeInv
<1> SUFFICES ASSUME Init PROVE ScopeInv
  OBVIOUS
<1>1. \A S : <<>> \in Seq(S)
  OBVIOUS
<1>2. Height(<<>>, 0) = 0
  <2>1. {j \in 1..0 : <<>>[j].is_scope} = {}
    OBVIOUS
  <2> QED
    BY <2>1, FS_EmptySet DEF Height
<1> QED
  BY <1>1, <1>2 DEF Init, ScopeInv, ScopeMatchesCalls

(* A call that is entered: it goes on top of the others, its node behind    *)
(* the others, and its segment, if it has one, on top of the stack.         *)
LEMMA Enter ==
  ASSUME ScopeInv, NEW n, NEW anchored \in BOOLEAN, HandOver(n), n \in Nodes \cup Roots,
         open' = Append(open, [pos |-> Len(seen'), is_scope |-> anchored]),
         scope' = IF anchored THEN Append(scope, Segment(n)) ELSE scope
  PROVE  ScopeInv'
<1> DEFINE top == Len(open) + 1
<1>1. Len(open) \in Nat /\ Len(seen) \in Nat /\ Len(scope) \in Nat
      /\ \A k \in 1..Len(open) : open[k] \in Calls /\ open[k].pos \in 1..Len(seen)
  <2>1. Len(open) \in Nat /\ Len(seen) \in Nat /\ Len(scope) \in Nat
    BY DEF ScopeInv
  <2>2. \A k \in 1..Len(open) : open[k] \in Calls /\ open[k].pos <= Len(seen)
    BY Elements DEF ScopeInv
  <2> QED
    BY <2>1, <2>2 DEF Calls
<1>2. seen' \in Seq([node : Nodes \cup Roots, parent : Nat]) /\ Len(seen') = Len(seen) + 1
      /\ seen'[Len(seen')].node = n /\ \A i \in 1..Len(seen) : seen'[i] = seen[i]
  <2>1. Top \in Nat
    <3>1. CASE open = <<>>
      BY <3>1 DEF Top
    <3>2. CASE open # <<>>
      <4>1. Len(open) \in 1..Len(open)
        BY <1>1, <3>2 DEF ScopeInv
      <4> QED
        BY <1>1, <3>2, <4>1 DEF Top
    <3> QED
      BY <3>1, <3>2
  <2>2. [node |-> n, parent |-> Top] \in [node : Nodes \cup Roots, parent : Nat]
    BY <2>1
  <2>3. seen' = Append(seen, [node |-> n, parent |-> Top])
    BY DEF HandOver
  <2> QED
    BY <1>1, <2>2, <2>3 DEF ScopeInv
<1>3. open' \in Seq(Calls) /\ Len(open') = top /\ open'[top] = [pos |-> Len(seen) + 1, is_scope |-> anchored]
      /\ \A k \in 1..Len(open) : open'[k] = open[k]
  <2>1. [pos |-> Len(seen'), is_scope |-> anchored] \in Calls
    BY <1>1, <1>2 DEF Calls
  <2> QED
    BY <1>1, <1>2, <2>1 DEF ScopeInv
<1>4. \A k \in 1..Len(open') : k = top \/ k \in 1..Len(open)
  <2>1. Len(open') = top
    BY <1>3
  <2> QED
    BY <1>1, <2>1
<1>4a. \A k \in 1..Len(open') : open'[k].pos <= Len(seen')
  <2> SUFFICES ASSUME NEW k \in 1..Len(open') PROVE open'[k].pos <= Len(seen')
    OBVIOUS
  <2>1. CASE k = top
    BY <1>1, <1>2, <1>3, <2>1
  <2>2. CASE k \in 1..Len(open)
    <3>1. open'[k] = open[k] /\ open[k].pos \in 1..Len(seen) /\ Len(seen') = Len(seen) + 1
      BY <1>1, <1>2, <1>3, <2>2
    <3> QED
      BY <1>1, <3>1
  <2> QED
    BY <1>4, <2>1, <2>2
<1>5. Segment(n) \in Text
  BY NodesAssumption DEF Segment, extract_identifier, Node, Text
<1>6. /\ scope' \in Seq(Text)
      /\ Len(scope') = IF anchored THEN Len(scope) + 1 ELSE Len(scope)
      /\ \A i \in 1..Len(scope) : scope'[i] = scope[i]
      /\ anchored => scope'[Len(scope) + 1] = Segment(n)
  BY <1>1, <1>5 DEF ScopeInv
<1>7. \A k \in 0..Len(open) : Height(open', k) = Height(open, k)
  <2> SUFFICES ASSUME NEW k \in 0..Len(open) PROVE Height(open', k) = Height(open, k)
    OBVIOUS
  <2>1. k \in Nat /\ \A j \in 1..k : open'[j] = open[j]
    BY <1>1, <1>3
  <2> QED
    BY <2>1, HeightLocal, Zenon
<1>8. Height(open', top) = IF anchored THEN Len(scope) + 1 ELSE Len(scope)
  <2>1. top \in 1..Len(open') /\ top - 1 = Len(open) /\ open'[top].is_scope = anchored
    BY <1>1, <1>3
  <2>2. Height(open', top - 1) = Len(scope)
    BY <1>1, <1>7, <2>1 DEF ScopeInv, ScopeMatchesCalls
  <2> QED
    BY <1>3, <2>1, <2>2, HeightStep
<1>9. ASSUME NEW k \in 1..Len(open'), open'[k].is_scope
      PROVE scope'[Height(open', k)] = Segment(seen'[open'[k].pos].node)
  <2>1. CASE k = top
    BY <1>1, <1>2, <1>3, <1>6, <1>8, <1>9, <2>1
  <2>2. CASE k \in 1..Len(open)
    <3>1. open'[k] = open[k] /\ open[k].is_scope /\ open[k].pos \in 1..Len(seen)
      BY <1>1, <1>3, <1>9, <2>2
    <3>2. Height(open, k) \in 1..Len(scope)
      <4>1. Len(open) \in 1..Len(open) /\ k <= Len(open)
        BY <1>1, <2>2
      <4>2. Height(open, k) \in Nat /\ Height(open, k) <= Height(open, Len(open)) /\ Height(open, k) >= 1
        BY <2>2, <3>1, <4>1, HeightMonotone DEF ScopeInv
      <4>3. Height(open, Len(open)) = Len(scope)
        BY DEF ScopeInv, ScopeMatchesCalls
      <4> QED
        BY <1>1, <4>2, <4>3
    <3>3. Height(open', k) = Height(open, k)
      BY <1>7, <2>2
    <3>4. scope[Height(open, k)] = Segment(seen[open[k].pos].node)
      BY <2>2, <3>1 DEF ScopeInv, ScopeMatchesCalls
    <3> QED
      BY <1>2, <1>6, <3>1, <3>2, <3>3, <3>4
  <2> QED
    BY <1>4, <1>9, <2>1, <2>2
<1>10. DOMAIN open' = 1..Len(open')
  BY <1>3
<1>11. ScopeMatchesCalls'
  BY <1>3, <1>6, <1>8, <1>9, <1>10 DEF ScopeMatchesCalls
<1> QED
  BY <1>2, <1>3, <1>4a, <1>6, <1>11 DEF ScopeInv

(* A call that returns takes off the segment it pushed, and no other.       *)
LEMMA Leave == ScopeInv /\ Return => ScopeInv'
<1> SUFFICES ASSUME ScopeInv, Return PROVE ScopeInv'
  OBVIOUS
<1> DEFINE top == Len(open)
           rest == SubSeq(open, 1, top - 1)
<1>1. top \in Nat \ {0} /\ open[top] \in Calls /\ Len(seen) \in Nat /\ Len(scope) \in Nat
  BY DEF ScopeInv, Return
<1>2. rest \in Seq(Calls) /\ Len(rest) = top - 1 /\ \A k \in 1..(top - 1) : rest[k] = open[k]
  <2>1. top - 1 \in 0..Len(open)
    BY <1>1
  <2>2. open \in Seq(Calls)
    BY DEF ScopeInv
  <2> QED
    BY <2>1, <2>2, Prefix
<1>3. open' = rest /\ seen' = seen
  BY DEF Return
<1>4. \A k \in 0..(top - 1) : Height(rest, k) = Height(open, k)
  <2> SUFFICES ASSUME NEW k \in 0..(top - 1) PROVE Height(rest, k) = Height(open, k)
    OBVIOUS
  <2>1. \A j \in 1..k : rest[j] = open[j]
    BY <1>1, <1>2
  <2> HIDE DEF rest
  <2> QED
    BY <1>1, <2>1, HeightLocal
<1>5. /\ Height(open, top - 1) \in Nat
      /\ Len(scope) = IF open[top].is_scope THEN Height(open, top - 1) + 1 ELSE Height(open, top - 1)
  <2>1. top \in 1..Len(open)
    BY <1>1
  <2> QED
    BY <2>1, HeightStep DEF ScopeInv, ScopeMatchesCalls
<1>6. /\ scope' \in Seq(Text)
      /\ Len(scope') = Height(open, top - 1)
      /\ \A i \in 1..Height(open, top - 1) : scope'[i] = scope[i]
  <2>1. CASE open[top].is_scope
    <3>1. scope' = SubSeq(scope, 1, Len(scope) - 1)
      BY <2>1 DEF Return
    <3> QED
      BY <1>1, <1>5, <2>1, <3>1 DEF ScopeInv
  <2>2. CASE ~open[top].is_scope
    <3>1. scope' = scope
      BY <2>2 DEF Return
    <3> QED
      BY <1>1, <1>5, <2>2, <3>1 DEF ScopeInv
  <2> QED
    BY <2>1, <2>2
<1>7. ASSUME NEW k \in 1..(top - 1), rest[k].is_scope
      PROVE scope'[Height(rest, k)] = Segment(seen[rest[k].pos].node)
  <2>1. rest[k] = open[k] /\ Height(rest, k) = Height(open, k) /\ k \in 1..Len(open) /\ top - 1 \in 1..Len(open)
    BY <1>1, <1>2, <1>4
  <2>2. Height(open, k) \in 1..Height(open, top - 1)
    BY <1>7, <2>1, HeightMonotone DEF ScopeInv
  <2>3. scope[Height(open, k)] = Segment(seen[open[k].pos].node)
    BY <1>7, <2>1 DEF ScopeInv, ScopeMatchesCalls
  <2> HIDE DEF rest
  <2> QED
    BY <1>6, <2>1, <2>2, <2>3
<1>8. ScopeMatchesCalls'
  <2> HIDE DEF rest
  <2>1. DOMAIN rest = 1..(top - 1)
    BY <1>1, <1>2
  <2>2. Height(rest, Len(rest)) = Height(open, top - 1)
    BY <1>1, <1>2, <1>4
  <2> QED
    BY <1>2, <1>3, <1>6, <1>7, <2>1, <2>2 DEF ScopeMatchesCalls
<1>9. \A k \in 1..Len(rest) : rest[k].pos <= Len(seen)
  <2> HIDE DEF rest
  <2> QED
    BY <1>1, <1>2 DEF ScopeInv
<1> QED
  BY <1>2, <1>3, <1>6, <1>8, <1>9 DEF ScopeInv

LEMMA ScopeStep == ScopeInv /\ [Next]_vars => ScopeInv'
<1> SUFFICES ASSUME ScopeInv, [Next]_vars PROVE ScopeInv'
  OBVIOUS
<1>1. CASE Return
  BY <1>1, Leave
<1>2. ASSUME NEW n \in Nodes \cup Roots, Visit(n) PROVE ScopeInv'
  <2> DEFINE anchored == Anchors(n.kind) /\ n.kind # RootKind
  <2>1. anchored \in BOOLEAN
    BY DEF Anchors
  <2>2. HandOver(n) /\ open' = Append(open, [pos |-> Len(seen'), is_scope |-> anchored])
        /\ scope' = IF anchored THEN Append(scope, Segment(n)) ELSE scope
    BY <1>2 DEF Visit
  <2> HIDE DEF anchored
  <2> QED
    BY <2>1, <2>2, Enter
<1>3. ASSUME NEW n \in Nodes \cup Roots, VisitUnnamed(n) PROVE ScopeInv'
  <2>1. HandOver(n) /\ open' = Append(open, [pos |-> Len(seen'), is_scope |-> FALSE])
        /\ scope' = IF FALSE THEN Append(scope, Segment(n)) ELSE scope
    BY <1>3 DEF VisitUnnamed
  <2> QED
    BY <2>1, Enter
<1>4. CASE UNCHANGED vars
  BY <1>4 DEF vars, ScopeInv, ScopeMatchesCalls
<1> QED
  BY <1>1, <1>2, <1>3, <1>4 DEF Next

-----------------------------------------------------------------------------
(* At every moment of the walk the scope stack holds one segment for each   *)
(* anchor whose visit has not returned, whatever the tree and the rules.    *)
THEOREM ScopeCorrect == Spec => []ScopeMatchesCalls
<1>1. ScopeInv => ScopeMatchesCalls
  BY DEF ScopeInv
<1> QED
  BY <1>1, ScopeInit, ScopeStep, PTL DEF Spec
-----------------------------------------------------------------------------
(* Recursive functions: the value at j is made of j and the value at an       *)
(* earlier place p[j], be it the place before or the parent of a node.        *)

\* Induction over the natural numbers, from the well-foundedness of the finite sets
\* under strict inclusion.
LEMMA Induct ==
  ASSUME NEW S \in SUBSET Nat, 0 \in S, \A n \in S : n + 1 \in S
  PROVE  S = Nat
<1> DEFINE R == StrictSubsetOrdering(Nat)
           U == FiniteSubsetsOf(Nat)
           T == {0..n : n \in Nat \ S}
<1>1. IsWellFoundedOn(R, U)
  BY FS_StrictSubsetOrderingWellFounded
<1>2. T \subseteq U
  <2>1. \A n \in Nat : IsFiniteSet(0..n) /\ 0..n \subseteq Nat
    BY FS_Interval
  <2> QED
    BY <2>1 DEF FiniteSubsetsOf
<1>3. ASSUME NEW n \in Nat \ S PROVE FALSE
  <2>1. T # {}
    BY <1>3
  <2>2. \E x \in T : \A y \in T : ~ (<<y, x>> \in R)
    <3> HIDE DEF R, U, T
    <3> QED
      BY <1>1, <1>2, <2>1, WFMin
  <2>3. PICK m \in Nat \ S : \A k \in Nat \ S : <<0..k, 0..m>> \notin R
    BY <2>2
  <2>4. m # 0 /\ m - 1 \in Nat \ S
    <3>1. m # 0
      OBVIOUS
    <3>2. m - 1 \in Nat /\ (m - 1) + 1 = m
      BY <3>1
    <3> QED
      BY <3>1, <3>2
  <2>5. <<0..(m - 1), 0..m>> \in R
    <3>1. 0..(m - 1) \in SUBSET Nat /\ 0..m \in SUBSET Nat /\ 0..(m - 1) \subseteq 0..m
      BY <2>4
    <3>2. m \in 0..m /\ m \notin 0..(m - 1)
      OBVIOUS
    <3> QED
      BY <3>1, <3>2 DEF StrictSubsetOrdering
  <2> QED
    BY <2>3, <2>4, <2>5
<1> QED
  BY <1>3

\* p leads from each place to an earlier one.
Earlier(p, n) == \A j \in 1..n : p[j] \in 0..(j - 1)

\* Two functions that are made by the same steps agree.
SameSteps(c, f, n, p) == c[0] = f[0] /\ \A j \in 1..n : c[p[j]] = f[p[j]] => c[j] = f[j]

LEMMA Agree ==
  ASSUME NEW n \in Nat, NEW p, Earlier(p, n), NEW c, NEW f, SameSteps(c, f, n, p)
  PROVE  \A j \in 0..n : c[j] = f[j]
<1> DEFINE S == {m \in Nat : \A j \in 0..m : j <= n => c[j] = f[j]}
<1>1. 0 \in S
  BY DEF SameSteps
<1>2. ASSUME NEW m \in S PROVE m + 1 \in S
  <2> SUFFICES ASSUME NEW j \in 0..(m + 1), j <= n PROVE c[j] = f[j]
    OBVIOUS
  <2>1. CASE j \in 0..m
    BY <2>1
  <2>2. CASE j = m + 1
    <3>1. j \in 1..n /\ p[j] \in 0..m /\ p[j] <= n
      BY <2>2 DEF Earlier
    <3> QED
      BY <3>1 DEF SameSteps
  <2> QED
    BY <2>1, <2>2
<1>3. S = Nat
  <2>1. S \in SUBSET Nat
    OBVIOUS
  <2> HIDE DEF S
  <2> QED
    BY <1>1, <1>2, <2>1, Induct
<1> QED
  BY <1>3

\* What the steps make, from z on, where a step is the function step.
Made(f, n, z, p, step) ==
  f = [j \in 0..n |-> IF j = 0 THEN z ELSE step[<<j, f[p[j]]>>]]

LEMMA CanBeMade ==
  ASSUME NEW n \in Nat, NEW p, Earlier(p, n), NEW V, NEW z \in V, NEW step,
         \A j \in 1..n : \A v \in V : step[<<j, v>>] \in V
  PROVE  \E f \in [0..n -> V] : Made(f, n, z, p, step)
<1> DEFINE S == {m \in Nat : m <= n => \E f \in [0..m -> V] : Made(f, m, z, p, step)}
<1>1. 0 \in S
  <2> DEFINE f == [j \in 0..0 |-> z]
  <2>1. f \in [0..0 -> V] /\ Made(f, 0, z, p, step)
    BY DEF Made
  <2> QED
    BY <2>1
<1>2. ASSUME NEW m \in S PROVE m + 1 \in S
  <2> SUFFICES ASSUME m + 1 <= n PROVE \E g \in [0..(m + 1) -> V] : Made(g, m + 1, z, p, step)
    OBVIOUS
  <2>1. PICK f \in [0..m -> V] : Made(f, m, z, p, step)
    OBVIOUS
  <2> DEFINE new == step[<<m + 1, f[p[m + 1]]>>]
             g == [j \in 0..(m + 1) |-> IF j = m + 1 THEN new ELSE f[j]]
  <2>2. m + 1 \in 1..n /\ p[m + 1] \in 0..m
    BY DEF Earlier
  <2>3. new \in V
    BY <2>2
  <2>4. g \in [0..(m + 1) -> V]
    BY <2>3
  <2>5. ASSUME NEW j \in 0..(m + 1) PROVE g[j] = IF j = 0 THEN z ELSE step[<<j, g[p[j]]>>]
    <3>1. CASE j = m + 1
      <4>1. g[p[j]] = f[p[j]] /\ j # 0 /\ g[j] = new
        BY <2>2, <3>1
      <4>2. new = step[<<j, f[p[j]]>>]
        BY <3>1
      <4> HIDE DEF g, new
      <4> QED
        BY <4>1, <4>2
    <3>2. CASE j \in 1..m
      <4>1. p[j] \in 0..m
        BY <3>2 DEF Earlier
      <4>2. g[p[j]] = f[p[j]] /\ j # 0 /\ g[j] = f[j] /\ j \in 0..m
        BY <3>2, <4>1
      <4> HIDE DEF g
      <4>3. \A i \in 0..m : f[i] = IF i = 0 THEN z ELSE step[<<i, f[p[i]]>>]
        BY <2>1 DEF Made
      <4> QED
        BY <4>2, <4>3
    <3>3. CASE j = 0
      BY <2>1, <3>3 DEF Made
    <3> QED
      BY <3>1, <3>2, <3>3
  <2>6. Made(g, m + 1, z, p, step)
    BY <2>5 DEF Made
  <2> QED
    BY <2>4, <2>6
<1>3. S = Nat
  <2>1. S \in SUBSET Nat
    OBVIOUS
  <2> HIDE DEF S
  <2> QED
    BY <1>1, <1>2, <2>1, Induct
<1> QED
  BY <1>3

-----------------------------------------------------------------------------
(* Listed, step by step. *)

ListSteps(S, n, f) ==
  f = [k \in 0..n |-> IF k = 0 THEN <<>> ELSE IF k \in S THEN Append(f[k - 1], k) ELSE f[k - 1]]

Lists(S, n, f) ==
  /\ f[0] = <<>>
  /\ \A k \in 1..n : f[k] = IF k \in S THEN Append(f[k - 1], k) ELSE f[k - 1]

LEMMA ListStep ==
  ASSUME NEW S, NEW n \in Nat, NEW f, ListSteps(S, n, f)
  PROVE  Lists(S, n, f)
<1>1. \A k \in 0..n : f[k] = IF k = 0 THEN <<>> ELSE IF k \in S THEN Append(f[k - 1], k) ELSE f[k - 1]
  BY DEF ListSteps
<1>2. 0 \in 0..n /\ \A k \in 1..n : k # 0 /\ k \in 0..n
  OBVIOUS
<1> QED
  BY <1>1, <1>2 DEF Lists

LEMMA ListMade ==
  ASSUME NEW S, NEW n \in Nat
  PROVE  \E f \in [0..n -> Seq(Nat)] : ListSteps(S, n, f) /\ Listed(S, n) = f[n]
<1> DEFINE p == [k \in 1..n |-> k - 1]
           step == [x \in (1..n) \X Seq(Nat) |-> IF x[1] \in S THEN Append(x[2], x[1]) ELSE x[2]]
           made == CHOOSE f : ListSteps(S, n, f)
<1>1. \A k \in 1..n : \A v \in Seq(Nat) :
        step[<<k, v>>] = (IF k \in S THEN Append(v, k) ELSE v) /\ step[<<k, v>>] \in Seq(Nat)
  <2> SUFFICES ASSUME NEW k \in 1..n, NEW v \in Seq(Nat)
               PROVE  /\ step[<<k, v>>] = (IF k \in S THEN Append(v, k) ELSE v)
                      /\ step[<<k, v>>] \in Seq(Nat)
    OBVIOUS
  <2>1. <<k, v>> \in (1..n) \X Seq(Nat) /\ <<k, v>>[1] = k /\ <<k, v>>[2] = v
    OBVIOUS
  <2>2. step[<<k, v>>] = (IF k \in S THEN Append(v, k) ELSE v)
    BY <2>1
  <2>3. Append(v, k) \in Seq(Nat)
    OBVIOUS
  <2> HIDE DEF step
  <2> QED
    BY <2>2, <2>3
<1>2. Earlier(p, n) /\ \A k \in 1..n : p[k] = k - 1
  BY DEF Earlier
<1>3. <<>> \in Seq(Nat)
  OBVIOUS
<1> HIDE DEF p, step
<1>4. PICK f \in [0..n -> Seq(Nat)] : Made(f, n, <<>>, p, step)
  BY <1>1, <1>2, <1>3, CanBeMade
<1>5. \A k \in 0..n : f[k] = IF k = 0 THEN <<>> ELSE step[<<k, f[p[k]]>>]
  BY <1>4 DEF Made
<1>6. \A k \in 1..n : f[k] = IF k \in S THEN Append(f[k - 1], k) ELSE f[k - 1]
  <2> SUFFICES ASSUME NEW k \in 1..n PROVE f[k] = IF k \in S THEN Append(f[k - 1], k) ELSE f[k - 1]
    OBVIOUS
  <2>1. k # 0 /\ k \in 0..n /\ k - 1 \in 0..n /\ p[k] = k - 1
    BY <1>2
  <2>2. f[k] = step[<<k, f[k - 1]>>] /\ f[k - 1] \in Seq(Nat)
    BY <1>5, <2>1
  <2> QED
    BY <1>1, <2>2
<1>7. f[0] = <<>>
  <2>1. 0 \in 0..n
    OBVIOUS
  <2> QED
    BY <1>5, <2>1
<1>8. ListSteps(S, n, f)
  <2>1. \A k \in 0..n : f[k] = IF k = 0 THEN <<>> ELSE IF k \in S THEN Append(f[k - 1], k) ELSE f[k - 1]
    <3> SUFFICES ASSUME NEW k \in 0..n
        PROVE f[k] = IF k = 0 THEN <<>> ELSE IF k \in S THEN Append(f[k - 1], k) ELSE f[k - 1]
      OBVIOUS
    <3>1. k = 0 \/ k \in 1..n
      OBVIOUS
    <3> QED
      BY <1>6, <1>7, <3>1
  <2> QED
    BY <2>1 DEF ListSteps
<1>9. ListSteps(S, n, made)
  BY <1>8
<1>10. Listed(S, n) = made[n]
  BY DEF Listed, ListSteps
<1> HIDE DEF made
<1>11. made = f
  <2>1. Lists(S, n, made)
    BY <1>9, ListStep
  <2>2. SameSteps(made, f, n, p)
    BY <1>2, <1>6, <1>7, <2>1 DEF SameSteps, Lists
  <2>3. \A k \in 0..n : made[k] = f[k]
    BY <1>2, <2>2, Agree
  <2>4. made = [k \in 0..n |-> made[k]]
    BY <1>9 DEF ListSteps
  <2> QED
    BY <2>3, <2>4
<1> QED
  BY <1>8, <1>10, <1>11

\* Only the members up to n count, and n + 1 comes last.
LEMMA ListedNext ==
  ASSUME NEW S, NEW T, NEW n \in Nat, \A k \in 1..n : k \in S <=> k \in T
  PROVE  /\ Listed(S, n) = Listed(T, n)
         /\ Listed(T, n + 1) = IF n + 1 \in T THEN Append(Listed(S, n), n + 1) ELSE Listed(S, n)
<1>1. PICK f \in [0..n -> Seq(Nat)] : ListSteps(S, n, f) /\ Listed(S, n) = f[n]
  BY ListMade
<1>2. ASSUME NEW m \in Nat, n <= m, NEW g, ListSteps(T, m, g) PROVE f[n] = g[n]
  <2> DEFINE p == [k \in 1..n |-> k - 1]
  <2>1. Earlier(p, n) /\ \A k \in 1..n : p[k] = k - 1
    BY DEF Earlier
  <2> HIDE DEF p
  <2>2. Lists(S, n, f)
    BY <1>1, ListStep
  <2>3. Lists(T, m, g)
    BY <1>2, ListStep
  <2>4. \A k \in 1..n : k \in 1..m
    BY <1>2
  <2>5. SameSteps(f, g, n, p)
    <3>1. ASSUME NEW k \in 1..n, f[p[k]] = g[p[k]] PROVE f[k] = g[k]
      <4>1. p[k] = k - 1 /\ k \in 1..m
        BY <2>1, <2>4
      <4>2. f[k] = IF k \in S THEN Append(f[k - 1], k) ELSE f[k - 1]
        BY <2>2 DEF Lists
      <4>3. g[k] = IF k \in T THEN Append(g[k - 1], k) ELSE g[k - 1]
        BY <2>3, <4>1 DEF Lists
      <4> QED
        BY <3>1, <4>1, <4>2, <4>3
    <3>2. f[0] = g[0]
      BY <2>2, <2>3 DEF Lists
    <3> QED
      BY <3>1, <3>2 DEF SameSteps
  <2>6. \A k \in 0..n : f[k] = g[k]
    BY <2>1, <2>5, Agree
  <2> QED
    BY <2>6
<1>3. Listed(T, n) = f[n]
  <2>1. PICK g \in [0..n -> Seq(Nat)] : ListSteps(T, n, g) /\ Listed(T, n) = g[n]
    BY ListMade
  <2> QED
    BY <1>2, <2>1
<1>4. Listed(T, n + 1) = IF n + 1 \in T THEN Append(f[n], n + 1) ELSE f[n]
  <2>1. PICK g \in [0..(n + 1) -> Seq(Nat)] : ListSteps(T, n + 1, g) /\ Listed(T, n + 1) = g[n + 1]
    BY ListMade
  <2>2. f[n] = g[n]
    BY <1>2, <2>1
  <2>3. n + 1 \in 1..(n + 1) /\ (n + 1) - 1 = n /\ n + 1 \in Nat
    OBVIOUS
  <2>4. Lists(T, n + 1, g)
    BY <2>1, <2>3, ListStep
  <2> QED
    BY <2>1, <2>2, <2>3, <2>4 DEF Lists
<1> QED
  BY <1>1, <1>3, <1>4

LEMMA ListedNone == \A S : Listed(S, 0) = <<>>
<1> SUFFICES ASSUME NEW S PROVE Listed(S, 0) = <<>>
  OBVIOUS
<1>1. PICK f \in [0..0 -> Seq(Nat)] : ListSteps(S, 0, f) /\ Listed(S, 0) = f[0]
  BY ListMade
<1>2. 0 \in 0..0
  OBVIOUS
<1> QED
  BY <1>1, <1>2 DEF ListSteps

\* What is listed are numbers from 1 to n.
LEMMA ListedRange ==
  ASSUME NEW S, NEW n \in Nat
  PROVE  Listed(S, n) \in Seq(Nat) /\ \A k \in 1..Len(Listed(S, n)) : Listed(S, n)[k] \in (1..n) \cap S
<1> DEFINE P(m) == /\ Listed(S, m) \in Seq(Nat)
                   /\ \A k \in 1..Len(Listed(S, m)) : Listed(S, m)[k] \in (1..m) \cap S
           A == {m \in Nat : P(m)}
<1>1. 0 \in A
  <2>1. Listed(S, 0) = <<>>
    BY ListedNone
  <2>2. <<>> \in Seq(Nat) /\ Len(<<>>) = 0
    OBVIOUS
  <2>3. P(0)
    <3> DEFINE l == Listed(S, 0)
    <3>1. l = <<>>
      BY <2>1
    <3> HIDE DEF l
    <3>2. l \in Seq(Nat) /\ \A k \in 1..Len(l) : l[k] \in (1..0) \cap S
      BY <2>2, <3>1
    <3> QED
      BY <3>2 DEF l
  <2> QED
    BY <2>3
<1>2. ASSUME NEW m \in A PROVE m + 1 \in A
  <2> DEFINE l == Listed(S, m)
  <2>1. m \in Nat /\ l \in Seq(Nat) /\ \A k \in 1..Len(l) : l[k] \in (1..m) \cap S
    OBVIOUS
  <2>2. Listed(S, m + 1) = IF m + 1 \in S THEN Append(l, m + 1) ELSE l
    BY <2>1, ListedNext
  <2> HIDE DEF l
  <2>3. P(m + 1)
    <3>1. CASE m + 1 \in S
      <4> DEFINE l2 == Append(l, m + 1)
      <4>1. Listed(S, m + 1) = l2
        BY <2>2, <3>1
      <4>2. l2 \in Seq(Nat) /\ Len(l2) = Len(l) + 1 /\ Len(l) \in Nat /\ l2[Len(l) + 1] = m + 1
            /\ \A k \in 1..Len(l) : l2[k] = l[k]
        BY <2>1
      <4> HIDE DEF l2
      <4>3. ASSUME NEW k \in 1..Len(l2) PROVE l2[k] \in (1..(m + 1)) \cap S
        <5>1. CASE k = Len(l) + 1
          BY <2>1, <3>1, <4>2, <5>1
        <5>2. CASE k \in 1..Len(l)
          <6>1. l2[k] = l[k] /\ l[k] \in (1..m) \cap S
            BY <2>1, <4>2, <5>2
          <6> QED
            BY <2>1, <6>1
        <5> QED
          BY <4>2, <5>1, <5>2
      <4> QED
        BY <4>1, <4>2, <4>3
    <3>2. CASE m + 1 \notin S
      BY <2>1, <2>2, <3>2
    <3> QED
      BY <3>1, <3>2
  <2> QED
    BY <2>1, <2>3
<1>3. A = Nat
  <2>1. A \in SUBSET Nat
    OBVIOUS
  <2> HIDE DEF A
  <2> QED
    BY <1>1, <1>2, <2>1, Induct
<1> QED
  BY <1>3

-----------------------------------------------------------------------------
(* The scope of a node, for any tree whose nodes come after their parents. *)

Visits == [node : Nodes \cup Roots, parent : Nat]

Trees == {t \in Seq(Visits) : \A i \in 1..Len(t) : t[i].parent \in 0..(i - 1)}

NamedAnchor(n) == IsAnchor(n) /\ HasName(n)

WithinSteps(t, f) ==
  f = [j \in 0..Len(t) |->
         IF j = 0 THEN <<>>
         ELSE IF IsAnchor(t[j].node) /\ HasName(t[j].node)
              THEN Append(f[t[j].parent], NameOf(t[j].node))
              ELSE f[t[j].parent]]

\* f gives the scope of what is below each node of t.
Within(t, f) ==
  /\ f[0] = <<>>
  /\ \A j \in 1..Len(t) :
       f[j] = IF NamedAnchor(t[j].node) THEN Append(f[t[j].parent], NameOf(t[j].node))
              ELSE f[t[j].parent]

ScopeOf(t, i) == (CHOOSE f : WithinSteps(t, f))[t[i].parent]

LEMMA NamesAreText ==
  ASSUME NEW n \in Nodes \cup Roots, HasName(n)
  PROVE  NameOf(n) \in Text
BY NodesAssumption DEF HasName, NameOf, Node, Text

LEMMA WithinStep ==
  ASSUME NEW t \in Trees, NEW f, WithinSteps(t, f)
  PROVE  Within(t, f)
<1>1. \A j \in 0..Len(t) :
        f[j] = IF j = 0 THEN <<>>
               ELSE IF IsAnchor(t[j].node) /\ HasName(t[j].node)
                    THEN Append(f[t[j].parent], NameOf(t[j].node))
                    ELSE f[t[j].parent]
  BY DEF WithinSteps
<1>2. Len(t) \in Nat
  BY DEF Trees
<1>3. 0 \in 0..Len(t) /\ \A j \in 1..Len(t) : j # 0 /\ j \in 0..Len(t)
  BY <1>2
<1> QED
  BY <1>1, <1>3 DEF Within, NamedAnchor

LEMMA TreeType ==
  ASSUME NEW t \in Trees
  PROVE  /\ Len(t) \in Nat
         /\ \A j \in 1..Len(t) : t[j].node \in Nodes \cup Roots /\ t[j].parent \in 0..(j - 1)
<1>1. t \in Seq(Visits)
  BY DEF Trees
<1>2. Len(t) \in Nat /\ \A j \in 1..Len(t) : t[j] \in Visits
  BY <1>1, Elements
<1> QED
  BY <1>2 DEF Trees, Visits

LEMMA WithinMade ==
  ASSUME NEW t \in Trees
  PROVE  \E f \in [0..Len(t) -> Seq(Text)] :
           Within(t, f) /\ \A i \in 1..Len(t) : ScopeOf(t, i) = f[t[i].parent]
<1> DEFINE n == Len(t)
           p == [j \in 1..n |-> t[j].parent]
           grown(j, v) == IF NamedAnchor(t[j].node) THEN Append(v, NameOf(t[j].node)) ELSE v
           step == [x \in (1..n) \X Seq(Text) |-> grown(x[1], x[2])]
           made == CHOOSE f : WithinSteps(t, f)
<1>1. n \in Nat /\ \A j \in 1..n : t[j].node \in Nodes \cup Roots /\ t[j].parent \in 0..(j - 1)
  BY TreeType
<1>2. \A j \in 1..n : \A v \in Seq(Text) : step[<<j, v>>] = grown(j, v) /\ step[<<j, v>>] \in Seq(Text)
  <2> SUFFICES ASSUME NEW j \in 1..n, NEW v \in Seq(Text)
               PROVE  step[<<j, v>>] = grown(j, v) /\ step[<<j, v>>] \in Seq(Text)
    OBVIOUS
  <2>1. <<j, v>> \in (1..n) \X Seq(Text) /\ <<j, v>>[1] = j /\ <<j, v>>[2] = v
    OBVIOUS
  <2>2. step[<<j, v>>] = grown(j, v)
    <3> HIDE DEF n, grown
    <3> QED
      BY <2>1
  <2>3. grown(j, v) \in Seq(Text)
    <3>1. CASE NamedAnchor(t[j].node)
      <4>1. NameOf(t[j].node) \in Text
        BY <1>1, <3>1, NamesAreText DEF NamedAnchor
      <4> QED
        BY <3>1, <4>1
    <3>2. CASE ~NamedAnchor(t[j].node)
      BY <3>2
    <3> QED
      BY <3>1, <3>2
  <2> HIDE DEF step, grown
  <2> QED
    BY <2>2, <2>3
<1>3. Earlier(p, n) /\ \A j \in 1..n : p[j] = t[j].parent
  BY <1>1 DEF Earlier
<1>4. <<>> \in Seq(Text)
  OBVIOUS
<1> HIDE DEF p, step, n
<1>5. PICK f \in [0..n -> Seq(Text)] : Made(f, n, <<>>, p, step)
  BY <1>1, <1>2, <1>3, <1>4, CanBeMade
<1>6. \A j \in 0..n : f[j] = IF j = 0 THEN <<>> ELSE step[<<j, f[p[j]]>>]
  BY <1>5 DEF Made
<1>7. f[0] = <<>>
  <2>1. 0 \in 0..n
    BY <1>1
  <2> QED
    BY <1>6, <2>1
<1>8. \A j \in 1..n : f[j] = grown(j, f[t[j].parent])
  <2> SUFFICES ASSUME NEW j \in 1..n PROVE f[j] = grown(j, f[t[j].parent])
    OBVIOUS
  <2>1. j # 0 /\ j \in 0..n /\ p[j] = t[j].parent /\ t[j].parent \in 0..n
    BY <1>1, <1>3
  <2>2. f[j] = step[<<j, f[t[j].parent]>>] /\ f[t[j].parent] \in Seq(Text)
    BY <1>6, <2>1
  <2> HIDE DEF grown
  <2> QED
    BY <1>2, <2>2
<1>9. Within(t, f)
  BY <1>7, <1>8 DEF Within, n
<1>10. WithinSteps(t, f)
  <2>1. \A j \in 0..n :
          f[j] = IF j = 0 THEN <<>>
                 ELSE IF IsAnchor(t[j].node) /\ HasName(t[j].node)
                      THEN Append(f[t[j].parent], NameOf(t[j].node))
                      ELSE f[t[j].parent]
    <3> SUFFICES ASSUME NEW j \in 0..n, j # 0
                 PROVE f[j] = IF IsAnchor(t[j].node) /\ HasName(t[j].node)
                              THEN Append(f[t[j].parent], NameOf(t[j].node))
                              ELSE f[t[j].parent]
      BY <1>7
    <3>1. j \in 1..n
      OBVIOUS
    <3> QED
      BY <1>8, <3>1 DEF NamedAnchor
  <2>2. f = [j \in 0..n |-> f[j]]
    OBVIOUS
  <2> QED
    BY <2>1, <2>2 DEF WithinSteps, n
<1>11. WithinSteps(t, made)
  BY <1>10
<1>12. \A i \in 1..n : ScopeOf(t, i) = made[t[i].parent]
  BY DEF ScopeOf
<1> HIDE DEF made
<1>13. \A j \in 0..n : made[j] = f[j]
  <2>1. Within(t, made)
    BY <1>11, WithinStep
  <2>2. SameSteps(made, f, n, p)
    <3>1. made[0] = f[0]
      BY <1>7, <2>1 DEF Within
    <3>2. ASSUME NEW j \in 1..n, made[p[j]] = f[p[j]] PROVE made[j] = f[j]
      <4>1. p[j] = t[j].parent
        BY <1>3
      <4>2. made[j] = grown(j, made[t[j].parent])
        BY <2>1 DEF Within, n
      <4>3. f[j] = grown(j, f[t[j].parent])
        BY <1>8
      <4> HIDE DEF grown
      <4> QED
        BY <3>2, <4>1, <4>2, <4>3
    <3> QED
      BY <3>1, <3>2 DEF SameSteps
  <2> QED
    BY <1>1, <1>3, <2>2, Agree
<1>14. \A i \in 1..n : ScopeOf(t, i) = f[t[i].parent]
  <2> SUFFICES ASSUME NEW i \in 1..n PROVE ScopeOf(t, i) = f[t[i].parent]
    OBVIOUS
  <2>1. t[i].parent \in 0..n
    BY <1>1
  <2> QED
    BY <1>12, <1>13, <2>1
<1> QED
  BY <1>5, <1>9, <1>14 DEF n

\* The scopes of the nodes handed over do not change when another one is.
LEMMA ScopeKept ==
  ASSUME NEW t \in Trees, NEW u \in Trees, Len(t) <= Len(u), \A i \in 1..Len(t) : u[i] = t[i],
         NEW f, Within(t, f), NEW g, Within(u, g)
  PROVE  \A j \in 0..Len(t) : f[j] = g[j]
<1> DEFINE p == [j \in 1..Len(t) |-> t[j].parent]
<1>1. /\ Len(t) \in Nat /\ Len(u) \in Nat
      /\ \A j \in 1..Len(t) : t[j].parent \in 0..(j - 1)
  BY TreeType
<1>2. Earlier(p, Len(t)) /\ \A j \in 1..Len(t) : p[j] = t[j].parent
  BY <1>1 DEF Earlier
<1> HIDE DEF p
<1>3. SameSteps(f, g, Len(t), p)
  <2>1. f[0] = g[0]
    BY DEF Within
  <2>2. ASSUME NEW j \in 1..Len(t), f[p[j]] = g[p[j]] PROVE f[j] = g[j]
    <3>1. p[j] = t[j].parent /\ u[j] = t[j] /\ j \in 1..Len(u)
      BY <1>1, <1>2
    <3>2. f[j] = IF NamedAnchor(t[j].node) THEN Append(f[t[j].parent], NameOf(t[j].node))
                 ELSE f[t[j].parent]
      BY DEF Within
    <3>3. g[j] = IF NamedAnchor(u[j].node) THEN Append(g[u[j].parent], NameOf(u[j].node))
                 ELSE g[u[j].parent]
      BY <3>1 DEF Within
    <3> QED
      BY <2>2, <3>1, <3>2, <3>3
  <2> QED
    BY <2>1, <2>2 DEF SameSteps
<1> QED
  BY <1>1, <1>2, <1>3, Agree

-----------------------------------------------------------------------------
(* What qualify joins. *)

JoinSteps(s, f) ==
  f = [k \in 0..Len(s) |->
         IF k = 0 THEN <<>> ELSE IF s[k] = Empty THEN f[k - 1] ELSE Append(f[k - 1], s[k])]

\* f gives the names among the first segments of s.
Joins(s, f) ==
  /\ f[0] = <<>>
  /\ \A k \in 1..Len(s) : f[k] = IF s[k] = Empty THEN f[k - 1] ELSE Append(f[k - 1], s[k])

LEMMA JoinMade ==
  ASSUME scope \in Seq(Text)
  PROVE  \E f \in [0..Len(scope) -> Seq(Text)] :
           Joins(scope, f) /\ \A name : qualify(name) = Append(f[Len(scope)], name)
<1> DEFINE n == Len(scope)
           p == [k \in 1..n |-> k - 1]
           longer(k, v) == IF scope[k] = Empty THEN v ELSE Append(v, scope[k])
           step == [x \in (1..n) \X Seq(Text) |-> longer(x[1], x[2])]
           made == CHOOSE f : JoinSteps(scope, f)
<1>1. n \in Nat /\ \A k \in 1..n : scope[k] \in Text
  BY Elements
<1>2. \A k \in 1..n : \A v \in Seq(Text) : step[<<k, v>>] = longer(k, v) /\ step[<<k, v>>] \in Seq(Text)
  <2> SUFFICES ASSUME NEW k \in 1..n, NEW v \in Seq(Text)
               PROVE  step[<<k, v>>] = longer(k, v) /\ step[<<k, v>>] \in Seq(Text)
    OBVIOUS
  <2>1. <<k, v>> \in (1..n) \X Seq(Text) /\ <<k, v>>[1] = k /\ <<k, v>>[2] = v
    OBVIOUS
  <2>2. step[<<k, v>>] = longer(k, v)
    <3> HIDE DEF n, longer
    <3> QED
      BY <2>1
  <2>3. longer(k, v) \in Seq(Text)
    BY <1>1
  <2> HIDE DEF step, longer
  <2> QED
    BY <2>2, <2>3
<1>3. Earlier(p, n) /\ \A k \in 1..n : p[k] = k - 1
  BY DEF Earlier
<1>4. <<>> \in Seq(Text)
  OBVIOUS
<1> HIDE DEF p, step, n
<1>5. PICK f \in [0..n -> Seq(Text)] : Made(f, n, <<>>, p, step)
  BY <1>1, <1>2, <1>3, <1>4, CanBeMade
<1>6. \A k \in 0..n : f[k] = IF k = 0 THEN <<>> ELSE step[<<k, f[p[k]]>>]
  BY <1>5 DEF Made
<1>7. f[0] = <<>>
  <2>1. 0 \in 0..n
    BY <1>1
  <2> QED
    BY <1>6, <2>1
<1>8. \A k \in 1..n : f[k] = longer(k, f[k - 1])
  <2> SUFFICES ASSUME NEW k \in 1..n PROVE f[k] = longer(k, f[k - 1])
    OBVIOUS
  <2>1. k # 0 /\ k \in 0..n /\ p[k] = k - 1 /\ k - 1 \in 0..n
    BY <1>1, <1>3
  <2>2. f[k] = step[<<k, f[k - 1]>>] /\ f[k - 1] \in Seq(Text)
    BY <1>6, <2>1
  <2> HIDE DEF longer
  <2> QED
    BY <1>2, <2>2
<1>9. Joins(scope, f)
  BY <1>7, <1>8 DEF Joins, n
<1>10. JoinSteps(scope, f)
  <2>1. \A k \in 0..n :
          f[k] = IF k = 0 THEN <<>> ELSE IF scope[k] = Empty THEN f[k - 1] ELSE Append(f[k - 1], scope[k])
    <3> SUFFICES ASSUME NEW k \in 0..n, k # 0
                 PROVE f[k] = IF scope[k] = Empty THEN f[k - 1] ELSE Append(f[k - 1], scope[k])
      BY <1>7
    <3>1. k \in 1..n
      BY <1>1
    <3> QED
      BY <1>8, <3>1
  <2>2. f = [k \in 0..n |-> f[k]]
    OBVIOUS
  <2> QED
    BY <2>1, <2>2 DEF JoinSteps, n
<1>11. JoinSteps(scope, made)
  BY <1>10
<1>12. \A name : qualify(name) = Append(made[Len(scope)], name)
  BY DEF qualify, JoinSteps
<1> HIDE DEF made
<1>13. made[n] = f[n]
  <2>1. \A k \in 0..n :
          made[k] = IF k = 0 THEN <<>>
                    ELSE IF scope[k] = Empty THEN made[k - 1] ELSE Append(made[k - 1], scope[k])
    BY <1>11 DEF JoinSteps, n
  <2>2. SameSteps(made, f, n, p)
    <3>1. made[0] = f[0]
      BY <1>1, <1>7, <2>1
    <3>2. ASSUME NEW k \in 1..n, made[p[k]] = f[p[k]] PROVE made[k] = f[k]
      <4>1. p[k] = k - 1 /\ k \in 0..n /\ k # 0
        BY <1>1, <1>3
      <4>2. made[k] = longer(k, made[k - 1])
        BY <2>1, <4>1
      <4>3. f[k] = longer(k, f[k - 1])
        BY <1>8
      <4> HIDE DEF longer
      <4> QED
        BY <3>2, <4>1, <4>2, <4>3
    <3> QED
      BY <3>1, <3>2 DEF SameSteps
  <2>3. \A k \in 0..n : made[k] = f[k]
    BY <1>1, <1>3, <2>2, Agree
  <2> QED
    BY <1>1, <2>3
<1> QED
  BY <1>5, <1>9, <1>12, <1>13 DEF n

-----------------------------------------------------------------------------
(* The calls of visit are a path of the tree.                               *)

PathInv ==
  /\ seen \in Trees
  /\ \A k \in 1..Len(open) :
       /\ open[k].is_scope = IsAnchor(seen[open[k].pos].node)
       /\ seen[open[k].pos].parent = IF k = 1 THEN 0 ELSE open[k - 1].pos

LEMMA InitPath == Init => PathInv
<1> SUFFICES ASSUME Init PROVE PathInv
  OBVIOUS
<1>1. seen = <<>> /\ open = <<>>
  BY DEF Init
<1>2. <<>> \in Seq(Visits)
  OBVIOUS
<1> QED
  BY <1>1, <1>2 DEF PathInv, Trees

\* What a call of visit finds: the nodes so far, and its own behind them.
LEMMA HandedOver ==
  ASSUME ScopeInv, PathInv, NEW n \in Nodes \cup Roots, HandOver(n)
  PROVE  /\ Len(seen) \in Nat /\ Len(open) \in Nat
         /\ Top \in 0..Len(seen)
         /\ seen' \in Trees /\ Len(seen') = Len(seen) + 1
         /\ \A i \in 1..Len(seen) : seen'[i] = seen[i]
         /\ seen'[Len(seen) + 1] = [node |-> n, parent |-> Top]
<1>1. Len(seen) \in Nat /\ Len(open) \in Nat /\ open \in Seq(Calls) /\ seen \in Seq(Visits)
  BY DEF ScopeInv, Visits
<1>2. Top \in 0..Len(seen)
  <2>1. CASE open = <<>>
    BY <1>1, <2>1 DEF Top
  <2>2. CASE open # <<>>
    <3>1. Len(open) \in 1..Len(open)
      BY <1>1, <2>2
    <3>2. open[Len(open)] \in Calls /\ open[Len(open)].pos <= Len(seen)
      BY <1>1, <3>1, Elements DEF ScopeInv
    <3> QED
      BY <1>1, <2>2, <3>2 DEF Top, Calls
  <2> QED
    BY <2>1, <2>2
<1> DEFINE new == [node |-> n, parent |-> Top]
           more == Append(seen, new)
<1>3. new \in Visits
  BY <1>2 DEF Visits
<1>4. seen' = more
  BY DEF HandOver
<1>5. more \in Seq(Visits) /\ Len(more) = Len(seen) + 1 /\ more[Len(seen) + 1] = new
      /\ \A i \in 1..Len(seen) : more[i] = seen[i]
  <2> HIDE DEF new
  <2> QED
    BY <1>1, <1>3
<1>6. more \in Trees
  <2> SUFFICES ASSUME NEW i \in 1..Len(more) PROVE more[i].parent \in 0..(i - 1)
    BY <1>5 DEF Trees
  <2> HIDE DEF more
  <2>1. CASE i \in 1..Len(seen)
    BY <1>5, <2>1 DEF PathInv, Trees
  <2>2. CASE i = Len(seen) + 1
    BY <1>1, <1>2, <1>5, <2>2
  <2> QED
    BY <1>1, <1>5, <2>1, <2>2
<1> QED
  BY <1>1, <1>2, <1>4, <1>5, <1>6

LEMMA EnterPath ==
  ASSUME ScopeInv, PathInv, NEW n \in Nodes \cup Roots, HandOver(n),
         open' = Append(open, [pos |-> Len(seen'), is_scope |-> IsAnchor(n)])
  PROVE  PathInv'
<1> DEFINE top == Len(open) + 1
<1>1. /\ Len(seen) \in Nat /\ Len(open) \in Nat
      /\ seen' \in Trees /\ Len(seen') = Len(seen) + 1
      /\ \A i \in 1..Len(seen) : seen'[i] = seen[i]
      /\ seen'[Len(seen) + 1] = [node |-> n, parent |-> Top]
  BY HandedOver
<1>2. \A k \in 1..Len(open) : open[k] \in Calls /\ open[k].pos \in 1..Len(seen)
  <2>1. \A k \in 1..Len(open) : open[k] \in Calls /\ open[k].pos <= Len(seen)
    BY Elements DEF ScopeInv
  <2> QED
    BY <1>1, <2>1 DEF Calls
<1>3. Len(open') = top /\ open'[top] = [pos |-> Len(seen) + 1, is_scope |-> IsAnchor(n)]
      /\ \A k \in 1..Len(open) : open'[k] = open[k]
  BY <1>1 DEF ScopeInv
<1>4. Top = IF top = 1 THEN 0 ELSE open[Len(open)].pos
  BY <1>1 DEF Top, ScopeInv
<1>5. ASSUME NEW k \in 1..top
      PROVE  /\ open'[k].is_scope = IsAnchor(seen'[open'[k].pos].node)
             /\ seen'[open'[k].pos].parent = IF k = 1 THEN 0 ELSE open'[k - 1].pos
  <2>1. CASE k = top
    <3>1. open'[k].pos = Len(seen) + 1 /\ open'[k].is_scope = IsAnchor(n)
      BY <1>3, <2>1
    <3>2. k # 1 => k - 1 \in 1..Len(open) /\ k - 1 = Len(open)
      BY <1>1, <2>1
    <3> QED
      BY <1>1, <1>3, <1>4, <2>1, <3>1, <3>2
  <2>2. CASE k \in 1..Len(open)
    <3>1. open'[k] = open[k] /\ seen'[open[k].pos] = seen[open[k].pos]
      BY <1>1, <1>2, <1>3, <2>2
    <3>2. k # 1 => open'[k - 1] = open[k - 1]
      <4>1. k # 1 => k - 1 \in 1..Len(open)
        BY <1>1, <2>2
      <4> QED
        BY <1>3, <4>1
    <3> QED
      BY <2>2, <3>1, <3>2 DEF PathInv
  <2> QED
    BY <1>1, <2>1, <2>2
<1> QED
  BY <1>1, <1>3, <1>5 DEF PathInv

LEMMA StepPath == ScopeInv /\ PathInv /\ [Next]_vars => PathInv'
<1> SUFFICES ASSUME ScopeInv, PathInv, [Next]_vars PROVE PathInv'
  OBVIOUS
<1>1. CASE Return
  <2> DEFINE rest == SubSeq(open, 1, Len(open) - 1)
  <2>1. open' = rest /\ seen' = seen /\ Len(open) \in Nat \ {0} /\ open \in Seq(Calls)
    BY <1>1 DEF Return, ScopeInv
  <2>2. Len(rest) = Len(open) - 1 /\ \A k \in 1..(Len(open) - 1) : rest[k] = open[k]
    <3>1. Len(open) - 1 \in 0..Len(open)
      BY <2>1
    <3> QED
      BY <2>1, <3>1, Prefix
  <2> HIDE DEF rest
  <2>3. ASSUME NEW k \in 1..Len(rest)
        PROVE  /\ rest[k].is_scope = IsAnchor(seen[rest[k].pos].node)
               /\ seen[rest[k].pos].parent = IF k = 1 THEN 0 ELSE rest[k - 1].pos
    <3>1. k \in 1..Len(open) /\ rest[k] = open[k]
      BY <2>1, <2>2
    <3>2. k # 1 => rest[k - 1] = open[k - 1]
      <4>1. k # 1 => k - 1 \in 1..(Len(open) - 1)
        BY <2>1, <2>2
      <4> QED
        BY <2>2, <4>1
    <3> QED
      BY <3>1, <3>2 DEF PathInv
  <2> QED
    BY <2>1, <2>3 DEF PathInv
<1>2. ASSUME NEW n \in Nodes \cup Roots, Visit(n) PROVE PathInv'
  <2>1. HandOver(n) /\ open' = Append(open, [pos |-> Len(seen'), is_scope |-> IsAnchor(n)])
    <3>1. IsAnchor(n) = (Anchors(n.kind) /\ n.kind # RootKind)
      BY <1>2 DEF Visit, IsAnchor
    <3> QED
      BY <1>2, <3>1 DEF Visit
  <2> QED
    BY <2>1, EnterPath
<1>3. ASSUME NEW n \in Nodes \cup Roots, VisitUnnamed(n) PROVE PathInv'
  <2>1. HandOver(n) /\ open' = Append(open, [pos |-> Len(seen'), is_scope |-> IsAnchor(n)])
    <3>1. IsAnchor(n) = FALSE
      BY <1>3 DEF VisitUnnamed, IsAnchor
    <3> QED
      BY <1>3, <3>1 DEF VisitUnnamed
  <2> QED
    BY <2>1, EnterPath
<1>4. CASE UNCHANGED vars
  BY <1>4 DEF vars, PathInv
<1> QED
  BY <1>1, <1>2, <1>3, <1>4 DEF Next

-----------------------------------------------------------------------------
(* The stack is the scope of the tree: what qualify puts in front of a name   *)
(* are the names of the anchors around it.                                    *)

\* The segment that an anchor pushes is its name, or empty.
LEMMA SegmentIsName ==
  ASSUME NEW n \in Nodes \cup Roots, IsAnchor(n)
  PROVE  IF HasName(n) THEN Segment(n) = NameOf(n) /\ NameOf(n) # Empty ELSE Segment(n) = Empty
<1>1. n.kind \notin NameKinds
  <2>1. PICK r \in get_node_rule(n.kind) : r.scope_anchor
    BY DEF IsAnchor, Anchors
  <2>2. PICK i \in DOMAIN NodeRules : r = NodeRules[i] /\ NodeRules[i].ts_kind = n.kind
    BY <2>1 DEF get_node_rule
  <2> QED
    BY <2>1, <2>2, RulesAssumption
<1>2. n.field \in Names \cup {NoName} /\ n.typed \in Text \cup {NoName}
      /\ (n.typed # NoName => n.kind = "impl_item")
  BY NodesAssumption DEF Node
<1>3. Empty \notin Names /\ NoName \notin Names /\ NoName # Empty
  BY SentinelAssumption DEF Text
<1>4. CASE n.field # NoName
  BY <1>2, <1>3, <1>4 DEF HasName, NameOf, Segment, extract_identifier
<1>5. CASE n.field = NoName /\ n.kind = "impl_item"
  BY <1>1, <1>2, <1>3, <1>5 DEF HasName, NameOf, Segment, extract_identifier
<1>6. CASE n.field = NoName /\ n.kind # "impl_item"
  BY <1>1, <1>2, <1>3, <1>6 DEF HasName, NameOf, Segment, extract_identifier
<1> QED
  BY <1>4, <1>5, <1>6

LEMMA JoinedIsWithin ==
  ASSUME ScopeInv, PathInv, NEW f, Joins(scope, f), NEW w, Within(seen, w)
  PROVE  f[Len(scope)] = w[Top]
<1> DEFINE at(k) == IF k = 0 THEN 0 ELSE open[k].pos
           S == {k \in Nat : k <= Len(open) => f[Height(open, k)] = w[at(k)]}
<1>1. /\ Len(open) \in Nat /\ Len(seen) \in Nat /\ open \in Seq(Calls) /\ seen \in Trees
      /\ \A k \in 1..Len(open) : open[k] \in Calls /\ open[k].pos \in 1..Len(seen)
  <2>1. \A k \in 1..Len(open) : open[k] \in Calls /\ open[k].pos <= Len(seen)
    BY Elements DEF ScopeInv
  <2>2. Len(open) \in Nat /\ Len(seen) \in Nat /\ open \in Seq(Calls)
    BY DEF ScopeInv
  <2> QED
    BY <2>1, <2>2 DEF Calls, PathInv
<1>2. 0 \in S
  <2>1. Height(open, 0) = 0
    <3>1. {j \in 1..0 : open[j].is_scope} = {}
      OBVIOUS
    <3> QED
      BY <3>1, FS_EmptySet DEF Height
  <2>2. f[0] = <<>> /\ w[0] = <<>>
    BY DEF Joins, Within
  <2> QED
    BY <2>1, <2>2
<1>3. ASSUME NEW k \in S PROVE k + 1 \in S
  <2> SUFFICES ASSUME k + 1 <= Len(open) PROVE f[Height(open, k + 1)] = w[at(k + 1)]
    OBVIOUS
  <2> DEFINE pos == open[k + 1].pos
             n == seen[pos].node
  <2>1. k + 1 \in 1..Len(open) /\ (k + 1) - 1 = k /\ k \in Nat
    BY <1>1
  <2>2. f[Height(open, k)] = w[at(k)]
    BY <1>1
  <2>3. pos \in 1..Len(seen) /\ n \in Nodes \cup Roots
    BY <1>1, <2>1, TreeType
  <2>4. open[k + 1].is_scope = IsAnchor(n) /\ seen[pos].parent = at(k)
    BY <2>1 DEF PathInv
  <2>5. w[pos] = IF NamedAnchor(n) THEN Append(w[at(k)], NameOf(n)) ELSE w[at(k)]
    BY <2>3, <2>4 DEF Within
  <2>6. /\ Height(open, k) \in Nat
        /\ Height(open, k + 1) = IF open[k + 1].is_scope THEN Height(open, k) + 1 ELSE Height(open, k)
    BY <1>1, <2>1, HeightStep
  <2> HIDE DEF S, at
  <2>7. CASE IsAnchor(n)
    <3> DEFINE h == Height(open, k) + 1
    <3>1. Height(open, k + 1) = h /\ h \in Nat /\ h - 1 = Height(open, k) /\ h >= 1
      BY <2>4, <2>6, <2>7
    <3>2. h \in 1..Len(scope)
      <4>1. Len(open) \in 1..Len(open) /\ k + 1 <= Len(open)
        BY <1>1, <2>1
      <4>2. Height(open, k + 1) <= Height(open, Len(open))
        BY <1>1, <2>1, <4>1, HeightMonotone
      <4>3. Height(open, Len(open)) = Len(scope) /\ Len(scope) \in Nat
        BY DEF ScopeInv, ScopeMatchesCalls
      <4> QED
        BY <3>1, <4>2, <4>3
    <3>3. scope[h] = Segment(n)
      <4>1. k + 1 \in DOMAIN open /\ open[k + 1].is_scope
        BY <1>1, <2>1, <2>4, <2>7
      <4>2. scope[Height(open, k + 1)] = Segment(seen[open[k + 1].pos].node)
        BY <4>1 DEF ScopeInv, ScopeMatchesCalls
      <4> QED
        BY <3>1, <4>2
    <3>4. f[h] = IF scope[h] = Empty THEN f[Height(open, k)] ELSE Append(f[Height(open, k)], scope[h])
      <4> HIDE DEF h
      <4> QED
        BY <3>1, <3>2 DEF Joins
    <3> HIDE DEF h, pos, n
    <3>5. f[h] = w[pos]
      BY <2>2, <2>3, <2>5, <2>7, <3>3, <3>4, SegmentIsName DEF NamedAnchor
    <3>6. at(k + 1) = pos
      BY <2>1 DEF at, pos
    <3> QED
      BY <3>1, <3>5, <3>6
  <2>8. CASE ~IsAnchor(n)
    <3>1. Height(open, k + 1) = Height(open, k) /\ w[pos] = w[at(k)]
      BY <2>4, <2>5, <2>6, <2>8 DEF NamedAnchor
    <3>2. at(k + 1) = pos
      BY <2>1 DEF at
    <3> QED
      BY <2>2, <3>1, <3>2
  <2> QED
    BY <2>7, <2>8
<1>4. S = Nat
  <2>1. S \in SUBSET Nat
    OBVIOUS
  <2> HIDE DEF S
  <2> QED
    BY <1>2, <1>3, <2>1, Induct
<1>5. f[Height(open, Len(open))] = w[at(Len(open))]
  BY <1>1, <1>4
<1>6. Top = at(Len(open))
  BY <1>1 DEF Top
<1>7. Height(open, Len(open)) = Len(scope)
  BY DEF ScopeInv, ScopeMatchesCalls
<1> QED
  BY <1>5, <1>6, <1>7

\* What qualify makes in a call of visit, for the node of the call and no other.
LEMMA Qualified ==
  ASSUME ScopeInv, PathInv, NEW n \in Nodes \cup Roots, HandOver(n)
  PROVE  /\ \A name : qualify(name) = Append(ScopeOf(seen', Len(seen) + 1), name)
         /\ \A i \in 1..Len(seen) : ScopeOf(seen', i) = ScopeOf(seen, i)
         /\ \A i \in 1..Len(seen') : ScopeOf(seen', i) \in Seq(Text)
<1>1. /\ Len(seen) \in Nat /\ Top \in 0..Len(seen)
      /\ seen' \in Trees /\ Len(seen') = Len(seen) + 1
      /\ \A i \in 1..Len(seen) : seen'[i] = seen[i]
      /\ seen'[Len(seen) + 1].parent = Top
      /\ seen \in Trees /\ Len(seen) <= Len(seen')
  <2>1. /\ Len(seen) \in Nat /\ Top \in 0..Len(seen)
        /\ seen' \in Trees /\ Len(seen') = Len(seen) + 1
        /\ \A i \in 1..Len(seen) : seen'[i] = seen[i]
        /\ seen'[Len(seen) + 1] = [node |-> n, parent |-> Top]
    BY HandedOver
  <2> QED
    BY <2>1 DEF PathInv
<1>2. PICK f \in [0..Len(scope) -> Seq(Text)] :
        Joins(scope, f) /\ \A name : qualify(name) = Append(f[Len(scope)], name)
  BY JoinMade DEF ScopeInv
<1>3. PICK w \in [0..Len(seen) -> Seq(Text)] :
        Within(seen, w) /\ \A i \in 1..Len(seen) : ScopeOf(seen, i) = w[seen[i].parent]
  BY <1>1, WithinMade
<1>4. PICK v \in [0..Len(seen') -> Seq(Text)] :
        Within(seen', v) /\ \A i \in 1..Len(seen') : ScopeOf(seen', i) = v[seen'[i].parent]
  BY <1>1, WithinMade
<1>5. \A j \in 0..Len(seen) : w[j] = v[j]
  BY <1>1, <1>3, <1>4, ScopeKept
<1>6. f[Len(scope)] = w[Top]
  BY <1>2, <1>3, JoinedIsWithin
<1>7. ScopeOf(seen', Len(seen) + 1) = v[Top]
  BY <1>1, <1>4
<1>8. \A name : qualify(name) = Append(ScopeOf(seen', Len(seen) + 1), name)
  BY <1>1, <1>2, <1>5, <1>6, <1>7
<1>9. ASSUME NEW i \in 1..Len(seen) PROVE ScopeOf(seen', i) = ScopeOf(seen, i)
  <2>1. i \in 1..Len(seen') /\ seen'[i].parent = seen[i].parent /\ seen[i].parent \in 0..Len(seen)
    BY <1>1, TreeType
  <2> QED
    BY <1>3, <1>4, <1>5, <2>1
<1>10. ASSUME NEW i \in 1..Len(seen') PROVE ScopeOf(seen', i) \in Seq(Text)
  <2>1. seen'[i].parent \in 0..Len(seen')
    BY <1>1, TreeType
  <2> QED
    BY <1>4, <2>1
<1> QED
  BY <1>8, <1>9, <1>10

-----------------------------------------------------------------------------
(* Two lists that are made side by side. *)

\* What V says of the members of M up to a is what W says of those of D up to b.
Tally(M, V, a, D, W, b) ==
  /\ Len(Listed(M, a)) = Len(Listed(D, b))
  /\ \A k \in 1..Len(Listed(M, a)) : V[Listed(M, a)[k]] = W[Listed(D, b)[k]]

\* Only what is up to a and b counts.
LEMMA TallyKept ==
  ASSUME NEW a \in Nat, NEW b \in Nat, NEW M, NEW V, NEW D, NEW W, Tally(M, V, a, D, W, b),
         NEW M2, NEW V2, NEW D2, NEW W2,
         \A k \in 1..a : (k \in M <=> k \in M2) /\ V[k] = V2[k],
         \A i \in 1..b : (i \in D <=> i \in D2) /\ W[i] = W2[i]
  PROVE  Tally(M2, V2, a, D2, W2, b)
<1>1. Listed(M, a) = Listed(M2, a) /\ Listed(D, b) = Listed(D2, b)
  BY ListedNext
<1> DEFINE l == Listed(M, a)
           m == Listed(D, b)
<1>2. /\ \A k \in 1..Len(l) : l[k] \in 1..a
      /\ \A k \in 1..Len(m) : m[k] \in 1..b
  BY ListedRange
<1>3. Len(l) = Len(m) /\ \A k \in 1..Len(l) : V[l[k]] = W[m[k]]
  BY DEF Tally
<1> HIDE DEF l, m
<1>4. \A k \in 1..Len(l) : V2[l[k]] = W2[m[k]]
  BY <1>2, <1>3
<1> QED
  BY <1>1, <1>3, <1>4 DEF Tally, l, m

LEMMA TallySkip ==
  ASSUME NEW a \in Nat, NEW b \in Nat, NEW M, NEW V, NEW D, NEW W, Tally(M, V, a, D, W, b)
  PROVE  /\ a + 1 \notin M => Tally(M, V, a + 1, D, W, b)
         /\ b + 1 \notin D => Tally(M, V, a, D, W, b + 1)
<1>1. a + 1 \notin M => Listed(M, a + 1) = Listed(M, a)
  BY ListedNext
<1>2. b + 1 \notin D => Listed(D, b + 1) = Listed(D, b)
  BY ListedNext
<1> QED
  BY <1>1, <1>2 DEF Tally

LEMMA TallyBoth ==
  ASSUME NEW a \in Nat, NEW b \in Nat, NEW M, NEW V, NEW D, NEW W, Tally(M, V, a, D, W, b),
         a + 1 \in M, b + 1 \in D, V[a + 1] = W[b + 1]
  PROVE  Tally(M, V, a + 1, D, W, b + 1)
<1> DEFINE l == Listed(M, a)
           m == Listed(D, b)
           l2 == Append(l, a + 1)
           m2 == Append(m, b + 1)
<1>1. Listed(M, a + 1) = l2 /\ Listed(D, b + 1) = m2
  BY ListedNext
<1>2. l \in Seq(Nat) /\ m \in Seq(Nat)
  BY ListedRange
<1>3. Len(l) = Len(m) /\ \A k \in 1..Len(l) : V[l[k]] = W[m[k]]
  BY DEF Tally
<1> HIDE DEF l, m
<1>4. /\ Len(l) \in Nat /\ Len(l2) = Len(l) + 1 /\ Len(m2) = Len(m) + 1
      /\ l2[Len(l) + 1] = a + 1 /\ m2[Len(m) + 1] = b + 1
      /\ \A k \in 1..Len(l) : l2[k] = l[k]
      /\ \A k \in 1..Len(m) : m2[k] = m[k]
  BY <1>2
<1> HIDE DEF l2, m2
<1>5. ASSUME NEW k \in 1..Len(l2) PROVE V[l2[k]] = W[m2[k]]
  <2>1. CASE k = Len(l) + 1
    BY <1>3, <1>4, <2>1
  <2>2. CASE k \in 1..Len(l)
    BY <1>3, <1>4, <2>2
  <2> QED
    BY <1>4, <2>1, <2>2
<1> QED
  BY <1>1, <1>3, <1>4, <1>5 DEF Tally

-----------------------------------------------------------------------------
(* The items against the tree. *)

OfSort(items, sort) == {k \in DOMAIN items : items[k].item = sort}

View(sort, x) ==
  IF sort = "node" THEN <<x.pos, x.label, x.qualified_name>>
  ELSE <<x.edge_type, x.source_qualified, x.target_qualified>>

Views(items, sort) == [k \in 1..Len(items) |-> View(sort, items[k])]

Emits(n) == n.named /\ ~IsName(n) /\ \E r \in get_node_rule(n.kind) : ~r.skip_node

Refers(n) ==
  /\ n.named /\ ~IsName(n) /\ HasRule(n) /\ TargetOf(n) # Empty
  /\ \A r \in get_node_rule(n.kind) : ~r.skip_edges

Wanted(n, sort) == IF sort = "node" THEN Emits(n) ELSE Refers(n)

Expected(t, sort) == {i \in DOMAIN t : Wanted(t[i].node, sort)}

FullName(n) == IF HasName(n) THEN NameOf(n) ELSE n.text

Say(t, sort, i) ==
  IF sort = "node" THEN <<i, LabelOf(t[i].node), Append(ScopeOf(t, i), FullName(t[i].node))>>
  ELSE <<FirstRule(t[i].node).edge_type, Append(ScopeOf(t, i), Empty), TargetOf(t[i].node)>>

Says(t, sort) == [i \in 1..Len(t) |-> Say(t, sort, i)]

\* The items of a sort are those that the first n nodes of the tree call for.
Agrees(items, sort, t, n) ==
  Tally(OfSort(items, sort), Views(items, sort), Len(items), Expected(t, sort), Says(t, sort), n)

LEMMA MoreTree ==
  ASSUME NEW items, Len(items) \in Nat, NEW sort, NEW t \in Trees, NEW u \in Trees, Len(t) <= Len(u),
         \A i \in 1..Len(t) : u[i] = t[i] /\ ScopeOf(u, i) = ScopeOf(t, i),
         Agrees(items, sort, t, Len(t))
  PROVE  Agrees(items, sort, u, Len(t))
<1>1. Len(t) \in Nat /\ Len(u) \in Nat /\ DOMAIN t = 1..Len(t) /\ DOMAIN u = 1..Len(u)
  BY DEF Trees
<1>2. ASSUME NEW i \in 1..Len(t)
      PROVE  /\ i \in Expected(t, sort) <=> i \in Expected(u, sort)
             /\ Says(t, sort)[i] = Says(u, sort)[i]
  <2>1. i \in 1..Len(u) /\ u[i] = t[i] /\ ScopeOf(u, i) = ScopeOf(t, i)
    BY <1>1
  <2>2. i \in Expected(t, sort) <=> i \in Expected(u, sort)
    BY <1>1, <2>1 DEF Expected
  <2>3. Say(t, sort, i) = Say(u, sort, i)
    BY <2>1 DEF Say
  <2> QED
    BY <2>1, <2>2, <2>3 DEF Says
<1> QED
  BY <1>1, <1>2, TallyKept DEF Agrees

\* A node that calls for nothing.
LEMMA NotWanted ==
  ASSUME NEW items, Len(items) \in Nat, NEW sort, NEW t \in Trees, NEW n \in Nat, n + 1 = Len(t),
         Agrees(items, sort, t, n), ~Wanted(t[n + 1].node, sort)
  PROVE  Agrees(items, sort, t, n + 1)
<1>1. n + 1 \notin Expected(t, sort)
  BY DEF Expected
<1> QED
  BY <1>1, TallySkip DEF Agrees

\* One more item, of another sort or the one called for.
LEMMA OneMore ==
  ASSUME NEW items \in Seq(Item), NEW x \in Item, NEW sort, NEW t \in Trees, NEW n \in Nat,
         Agrees(items, sort, t, n)
  PROVE  /\ x.item # sort => Agrees(Append(items, x), sort, t, n)
         /\ x.item = sort /\ n + 1 = Len(t) /\ Wanted(t[n + 1].node, sort)
              /\ View(sort, x) = Say(t, sort, n + 1) => Agrees(Append(items, x), sort, t, n + 1)
<1> DEFINE more == Append(items, x)
           a == Len(items)
<1>1. /\ a \in Nat /\ more \in Seq(Item) /\ Len(more) = a + 1 /\ more[a + 1] = x
      /\ \A k \in 1..a : more[k] = items[k]
      /\ DOMAIN more = 1..(a + 1) /\ DOMAIN items = 1..a
  OBVIOUS
<1> HIDE DEF more
<1>2. ASSUME NEW k \in 1..a
      PROVE  /\ k \in OfSort(items, sort) <=> k \in OfSort(more, sort)
             /\ Views(items, sort)[k] = Views(more, sort)[k]
  <2>1. k \in 1..(a + 1) /\ more[k] = items[k]
    BY <1>1
  <2> QED
    BY <1>1, <2>1 DEF OfSort, Views
<1> HIDE DEF a
<1>3. Tally(OfSort(items, sort), Views(items, sort), a, Expected(t, sort), Says(t, sort), n)
  BY DEF Agrees, a
<1>4. Tally(OfSort(more, sort), Views(more, sort), a, Expected(t, sort), Says(t, sort), n)
  BY <1>1, <1>2, <1>3, TallyKept
<1>5. a + 1 \in 1..(a + 1)
  BY <1>1
<1>6. a + 1 \in OfSort(more, sort) <=> x.item = sort
  BY <1>1, <1>5 DEF OfSort
<1>7. Views(more, sort)[a + 1] = View(sort, x)
  BY <1>1, <1>5 DEF Views
<1>8. ASSUME x.item # sort PROVE Agrees(more, sort, t, n)
  BY <1>1, <1>4, <1>6, <1>8, TallySkip DEF Agrees
<1>9. ASSUME x.item = sort, n + 1 = Len(t), Wanted(t[n + 1].node, sort), View(sort, x) = Say(t, sort, n + 1)
      PROVE  Agrees(more, sort, t, n + 1)
  <2>1. n + 1 \in DOMAIN t /\ n + 1 \in 1..Len(t)
    BY <1>9 DEF Trees
  <2>2. n + 1 \in Expected(t, sort) /\ Says(t, sort)[n + 1] = Say(t, sort, n + 1)
    BY <1>9, <2>1 DEF Expected, Says
  <2> QED
    BY <1>1, <1>4, <1>6, <1>7, <1>9, <2>2, TallyBoth DEF Agrees
<1> QED
  BY <1>8, <1>9 DEF more

-----------------------------------------------------------------------------
(* What visit makes of one node. *)

LEMMA OneOf == ASSUME NEW n \in Nodes \cup Roots
  PROVE  /\ n.field \in Names \cup {NoName} /\ n.typed \in Text \cup {NoName} /\ n.text \in Text
         /\ n.typed # NoName => n.kind = "impl_item"
         /\ Empty \in Text /\ NoName \notin Text /\ Empty \notin Names /\ Names \subseteq Text
         /\ Empty \notin Special
BY NodesAssumption, SentinelAssumption DEF Node, Text

LEMMA Identifier ==
  ASSUME NEW n \in Nodes \cup Roots
  PROVE  /\ OwnName(n) \in Text /\ FullName(n) \in Text
         /\ extract_identifier(n) = IF OwnName(n) = Empty THEN NoName ELSE OwnName(n)
         /\ FullName(n) = IF extract_identifier(n) = NoName THEN n.text ELSE extract_identifier(n)
         /\ Suppressed(n) <=> IsName(n)
<1>1. /\ n.field \in Names \cup {NoName} /\ n.typed \in Text \cup {NoName} /\ n.text \in Text
      /\ n.typed # NoName => n.kind = "impl_item"
      /\ Empty \in Text /\ NoName \notin Text /\ Empty \notin Names /\ Names \subseteq Text
  BY OneOf
<1>2. "impl_item" \notin NameKinds
  BY DEF NameKinds
<1>3. HasName(n) => NameOf(n) \in Text /\ NameOf(n) # Empty
  BY <1>1 DEF HasName, NameOf
<1>4. OwnName(n) \in Text /\ FullName(n) \in Text
  BY <1>1, <1>3 DEF OwnName, FullName
<1>5. extract_identifier(n) = IF OwnName(n) = Empty THEN NoName ELSE OwnName(n)
  <2>1. CASE n.field # NoName
    BY <1>1, <2>1 DEF extract_identifier, OwnName, HasName, NameOf
  <2>2. CASE n.field = NoName /\ n.kind = "impl_item"
    BY <1>1, <1>2, <2>2 DEF extract_identifier, OwnName, HasName, NameOf
  <2>3. CASE n.field = NoName /\ n.kind # "impl_item" /\ n.kind \in NameKinds
    BY <1>1, <2>3 DEF extract_identifier, OwnName, HasName, NameOf
  <2>4. CASE n.field = NoName /\ n.kind # "impl_item" /\ n.kind \notin NameKinds
    BY <1>1, <2>4 DEF extract_identifier, OwnName, HasName, NameOf
  <2> QED
    BY <2>1, <2>2, <2>3, <2>4
<1>6. FullName(n) = IF extract_identifier(n) = NoName THEN n.text ELSE extract_identifier(n)
  BY <1>1, <1>3, <1>4, <1>5 DEF FullName, OwnName
<1>7. Suppressed(n) <=> IsName(n)
  BY <1>1, <1>4, <1>5 DEF Suppressed, IsName
<1> QED
  BY <1>4, <1>5, <1>6, <1>7

LEMMA NodeItem ==
  ASSUME NEW n \in Nodes \cup Roots, n.named, NEW pos \in Nat \ {0}, NEW around \in Seq(Text),
         \A name : qualify(name) = Append(around, name)
  PROVE  /\ NodeItems(n, pos) # {} <=> Emits(n)
         /\ \A x \in NodeItems(n, pos) :
              x \in Item /\ x.item = "node" /\ x.pos = pos /\ x.label = LabelOf(n)
              /\ x.qualified_name = Append(around, FullName(n))
<1>1. FullName(n) \in Text
      /\ FullName(n) = (IF extract_identifier(n) = NoName THEN n.text ELSE extract_identifier(n))
      /\ (Suppressed(n) <=> IsName(n))
  BY Identifier
<1> DEFINE Rules == {s \in get_node_rule(n.kind) : ~s.skip_node /\ ~Suppressed(n)}
           one(r) == [item |-> "node", label |-> r.label, pos |-> pos,
                      qualified_name |-> Append(around, FullName(n))]
<1>2. NodeItems(n, pos) = {one(r) : r \in Rules}
  <2>1. qualify(IF extract_identifier(n) = NoName THEN n.text ELSE extract_identifier(n))
          = Append(around, FullName(n))
    BY <1>1
  <2> QED
    BY <2>1 DEF NodeItems
<1>3. Rules # {} <=> Emits(n)
  BY <1>1 DEF Emits
<1>4. \A r \in Rules : r.label \in NodeLabels /\ r.label = LabelOf(n)
  <2> SUFFICES ASSUME NEW r \in get_node_rule(n.kind)
               PROVE  r.label \in NodeLabels /\ r.label = LabelOf(n)
    OBVIOUS
  <2>1. PICK i \in DOMAIN NodeRules : r = NodeRules[i] /\ NodeRules[i].ts_kind = n.kind
    BY DEF get_node_rule
  <2>2. r \in NodeRule
    BY <2>1, RulesAssumption
  <2>3. \A j \in DOMAIN NodeRules : NodeRules[j].ts_kind = n.kind => j = i
    BY <2>1, RulesAssumption
  <2>4. (CHOOSE j \in DOMAIN NodeRules : NodeRules[j].ts_kind = n.kind) = i
    BY <2>1, <2>3
  <2> QED
    BY <2>1, <2>2, <2>4 DEF NodeRule, LabelOf
<1>5. Append(around, FullName(n)) \in QualifiedName
  BY <1>1 DEF QualifiedName
<1>6. \A r \in Rules : one(r) \in Item
  BY <1>4, <1>5 DEF Item
<1>7. \A r : one(r).item = "node" /\ one(r).pos = pos /\ one(r).label = r.label
             /\ one(r).qualified_name = Append(around, FullName(n))
  OBVIOUS
<1> HIDE DEF Rules, one
<1>8. NodeItems(n, pos) # {} <=> Rules # {}
  BY <1>2
<1>9. \A x \in NodeItems(n, pos) : x.label = LabelOf(n)
  BY <1>2, <1>4, <1>7
<1> QED
  BY <1>2, <1>3, <1>6, <1>7, <1>8, <1>9

\* The first rule of a kind is found.
LEMMA FirstRuleFound ==
  ASSUME NEW n
  PROVE  /\ get_edge_rule(n.kind) = IF HasRule(n) THEN {FirstRule(n)} ELSE {}
         /\ HasRule(n) => FirstRule(n) \in EdgeRule
<1> DEFINE A == {j \in DOMAIN EdgeRules : EdgeRules[j].source_kind = n.kind}
           First(j) == /\ EdgeRules[j].source_kind = n.kind
                       /\ \A k \in 1..(j - 1) : EdgeRules[k].source_kind # n.kind
           f == CHOOSE j \in DOMAIN EdgeRules : First(j)
<1>1. DOMAIN EdgeRules = 1..Len(EdgeRules) /\ Len(EdgeRules) \in Nat
      /\ \A j \in DOMAIN EdgeRules : EdgeRules[j] \in EdgeRule
  BY RulesAssumption
<1>2. get_edge_rule(n.kind) = {EdgeRules[i] : i \in {j \in A : \A k \in A : j <= k}}
  BY DEF get_edge_rule
<1>3. HasRule(n) <=> A # {}
  BY DEF HasRule
<1>4. CASE A = {}
  BY <1>2, <1>3, <1>4
<1>5. CASE A # {}
  <2>1. \E m \in A : \A k \in A : m <= k
    <3> SUFFICES ASSUME \A m \in A : \E k \in A : k < m PROVE FALSE
      BY <1>1
    <3> DEFINE S == {i \in Nat : \A k \in A : i < k}
    <3>1. 0 \in S
      BY <1>1
    <3>2. ASSUME NEW i \in S PROVE i + 1 \in S
      <4>1. \A k \in A : i + 1 <= k /\ k \in Nat
        BY <1>1
      <4>2. i + 1 \notin A
        BY <4>1
      <4> QED
        BY <4>1, <4>2
    <3>3. S = Nat
      <4>1. S \in SUBSET Nat
        OBVIOUS
      <4> HIDE DEF S
      <4> QED
        BY <3>1, <3>2, <4>1, Induct
    <3>4. PICK k \in A : TRUE
      BY <1>5
    <3>5. k \in Nat /\ k < k
      BY <1>1, <3>3
    <3> QED
      BY <3>5
  <2>2. PICK m \in A : \A k \in A : m <= k
    BY <2>1
  <2>3. First(m)
    <3>1. ASSUME NEW k \in 1..(m - 1) PROVE EdgeRules[k].source_kind # n.kind
      <4>1. k \in DOMAIN EdgeRules /\ k < m
        BY <1>1
      <4> QED
        BY <1>1, <2>2, <4>1
    <3> QED
      BY <3>1
  <2>4. \A j \in DOMAIN EdgeRules : First(j) => j = m
    <3> SUFFICES ASSUME NEW j \in DOMAIN EdgeRules, First(j) PROVE j = m
      OBVIOUS
    <3>1. j \in A /\ m <= j
      BY <2>2
    <3>2. ~(m \in 1..(j - 1))
      OBVIOUS
    <3> QED
      BY <1>1, <3>1, <3>2
  <2>5. f = m
    BY <2>3, <2>4
  <2>6. FirstRule(n) = EdgeRules[f]
    BY DEF FirstRule
  <2>7. {j \in A : \A k \in A : j <= k} = {m}
    BY <1>1, <2>2
  <2>8. FirstRule(n) = EdgeRules[m] /\ EdgeRules[m] \in EdgeRule
    BY <1>1, <2>5, <2>6
  <2>9. get_edge_rule(n.kind) = {EdgeRules[m]}
    <3> HIDE DEF A
    <3> QED
      BY <1>2, <2>7
  <2> QED
    BY <1>3, <1>5, <2>8, <2>9
<1> QED
  BY <1>4, <1>5

LEMMA EdgeItem ==
  ASSUME NEW n \in Nodes \cup Roots, n.named, NEW around \in Seq(Text),
         \A name : qualify(name) = Append(around, name)
  PROVE  /\ EdgeItems(n) # {} <=> Refers(n)
         /\ \A x \in EdgeItems(n) :
              x \in Item /\ x.item = "edge" /\ x.edge_type = FirstRule(n).edge_type
              /\ x.source_qualified = Append(around, Empty) /\ x.target_qualified = TargetOf(n)
<1> DEFINE rule == FirstRule(n)
           target == resolve_target(n, rule.target_pattern)
           one == [item |-> "edge", edge_type |-> rule.edge_type,
                   source_qualified |-> Append(around, Empty), target_qualified |-> target]
<1>1. /\ n.text \in Text /\ OwnName(n) \in Text /\ Empty \in Text /\ NoName \notin Text /\ Empty \notin Special
      /\ extract_identifier(n) = IF OwnName(n) = Empty THEN NoName ELSE OwnName(n)
      /\ Suppressed(n) <=> IsName(n)
  BY Identifier, OneOf
<1>2. CASE HasRule(n) /\ ~IsName(n) /\ \A r \in get_node_rule(n.kind) : ~r.skip_edges
  <2>1. get_edge_rule(n.kind) = {rule} /\ rule \in EdgeRule
    BY <1>2, FirstRuleFound
  <2>2. rule.target_pattern \in {"FromChildType", "FromNodeText", "ResolveSpecial"}
        /\ rule.edge_type \in EdgeTypes
    BY <2>1 DEF EdgeRule, TargetPattern
  <2> HIDE DEF rule
  <2>3. target = IF TargetOf(n) = Empty THEN NoName ELSE TargetOf(n)
    <3>1. CASE rule.target_pattern = "FromNodeText"
      BY <1>1, <3>1 DEF resolve_target, TargetOf, rule
    <3>2. CASE rule.target_pattern = "ResolveSpecial" /\ n.text \in Special
      BY <1>1, <3>2 DEF resolve_target, TargetOf, rule
    <3>3. CASE /\ rule.target_pattern # "FromNodeText"
               /\ ~(rule.target_pattern = "ResolveSpecial" /\ n.text \in Special)
      BY <1>1, <3>3 DEF resolve_target, TargetOf, rule
    <3> QED
      BY <3>1, <3>2, <3>3
  <2>4. TargetOf(n) \in Text
    BY <1>1 DEF TargetOf
  <2>5. EdgeItems(n) = IF target # NoName THEN {one} ELSE {}
    BY <1>1, <1>2, <2>1 DEF EdgeItems
  <2>6. target # NoName <=> TargetOf(n) # Empty
    BY <1>1, <2>3, <2>4
  <2> HIDE DEF target
  <2>7. target # NoName => one \in Item /\ target = TargetOf(n)
    <3>1. Append(around, Empty) \in QualifiedName
      BY <1>1 DEF QualifiedName
    <3> QED
      BY <2>2, <2>3, <2>4, <2>6, <3>1 DEF Item
  <2> QED
    BY <1>2, <2>5, <2>6, <2>7 DEF Refers, rule
<1>3. CASE ~(HasRule(n) /\ ~IsName(n) /\ \A r \in get_node_rule(n.kind) : ~r.skip_edges)
  <2>1. EdgeItems(n) = {}
    <3>1. ~HasRule(n) => get_edge_rule(n.kind) = {}
      BY FirstRuleFound
    <3> QED
      BY <1>1, <1>3, <3>1 DEF EdgeItems
  <2> QED
    BY <1>3, <2>1 DEF Refers
<1> QED
  BY <1>2, <1>3

-----------------------------------------------------------------------------
(* The items extracted are those that the tree calls for.                   *)
ItemInv ==
  /\ out \in Seq(Item)
  /\ Agrees(out, "node", seen, Len(seen))
  /\ Agrees(out, "edge", seen, Len(seen))

LEMMA InitItems == Init => ItemInv
<1> SUFFICES ASSUME Init PROVE ItemInv
  OBVIOUS
<1>1. out = <<>> /\ seen = <<>> /\ Len(<<>>) = 0 /\ <<>> \in Seq(Item)
  BY DEF Init
<1>2. \A M, V, D, W : Tally(M, V, 0, D, W, 0)
  <2> SUFFICES ASSUME NEW M, NEW V, NEW D, NEW W PROVE Tally(M, V, 0, D, W, 0)
    OBVIOUS
  <2>1. Listed(M, 0) = <<>> /\ Listed(D, 0) = <<>>
    BY ListedNone
  <2> QED
    BY <1>1, <2>1 DEF Tally
<1>3. \A sort : Agrees(<<>>, sort, <<>>, 0)
  BY <1>1, <1>2 DEF Agrees
<1> QED
  BY <1>1, <1>3 DEF ItemInv

\* Items appends one of the set, if there is one.
LEMMA ItemsAppend ==
  ASSUME NEW items \in Seq(Item), NEW S \in SUBSET Item
  PROVE  /\ S = {} => items \o Items(S) = items
         /\ S # {} => \E x \in S : items \o Items(S) = Append(items, x)
<1>1. CASE S = {}
  BY <1>1 DEF Items
<1>2. CASE S # {}
  <2>1. PICK x \in S : Items(S) = <<x>>
    BY <1>2 DEF Items
  <2>2. items \o <<x>> = Append(items, x)
    BY <2>1
  <2> QED
    BY <1>2, <2>1, <2>2
<1> QED
  BY <1>1, <1>2

\* The node handed over is the only one that the new items can be about.
LEMMA TreeGrows ==
  ASSUME ScopeInv, PathInv, ItemInv, NEW n \in Nodes \cup Roots, HandOver(n)
  PROVE  /\ Len(seen) \in Nat /\ seen' \in Trees /\ Len(seen') = Len(seen) + 1
         /\ seen'[Len(seen) + 1].node = n
         /\ \A sort \in {"node", "edge"} : Agrees(out, sort, seen', Len(seen))
<1>1. /\ Len(seen) \in Nat /\ seen' \in Trees /\ Len(seen') = Len(seen) + 1
      /\ \A i \in 1..Len(seen) : seen'[i] = seen[i]
      /\ seen'[Len(seen) + 1] = [node |-> n, parent |-> Top]
  BY HandedOver
<1>2. seen \in Trees /\ Len(seen) <= Len(seen') /\ Len(out) \in Nat
  BY <1>1 DEF PathInv, ItemInv
<1>3. \A i \in 1..Len(seen) : ScopeOf(seen', i) = ScopeOf(seen, i)
  BY Qualified
<1>4. ASSUME NEW sort \in {"node", "edge"} PROVE Agrees(out, sort, seen', Len(seen))
  <2>1. Agrees(out, sort, seen, Len(seen))
    BY DEF ItemInv
  <2> QED
    BY <1>1, <1>2, <1>3, <2>1, MoreTree
<1> QED
  BY <1>1, <1>4

LEMMA VisitItems ==
  ASSUME ScopeInv, PathInv, ItemInv, NEW n \in Nodes \cup Roots, Visit(n)
  PROVE  ItemInv'
<1> DEFINE pos == Len(seen) + 1
           u == seen'
           around == ScopeOf(u, pos)
           N == NodeItems(n, pos)
           E == EdgeItems(n)
           mid == out \o Items(N)
<1>1. /\ Len(seen) \in Nat /\ u \in Trees /\ Len(u) = pos /\ u[pos].node = n
      /\ Agrees(out, "node", u, Len(seen)) /\ Agrees(out, "edge", u, Len(seen))
      /\ out \in Seq(Item) /\ n.named /\ HandOver(n) /\ out' = mid \o Items(E)
  <2>1. HandOver(n) /\ n.named
    BY DEF Visit
  <2>2. /\ Len(seen) \in Nat /\ u \in Trees /\ Len(u) = pos /\ u[pos].node = n
        /\ Agrees(out, "node", u, Len(seen)) /\ Agrees(out, "edge", u, Len(seen))
    BY <2>1, TreeGrows
  <2>3. out' = out \o Items(NodeItems(n, Len(seen'))) \o Items(EdgeItems(n))
    BY DEF Visit
  <2> QED
    BY <2>1, <2>2, <2>3 DEF ItemInv
<1>2. around \in Seq(Text) /\ \A name : qualify(name) = Append(around, name)
  <2>1. pos \in 1..Len(u)
    BY <1>1
  <2> QED
    BY <1>1, <2>1, Qualified
<1>3. pos \in Nat \ {0}
  BY <1>1
<1> HIDE DEF pos, u
<1>4. /\ N # {} <=> Emits(n)
      /\ \A x \in N : x \in Item /\ x.item = "node" /\ x.pos = pos /\ x.label = LabelOf(n)
                      /\ x.qualified_name = Append(around, FullName(n))
  <2>1. n.named /\ n \in Nodes \cup Roots
    BY <1>1
  <2> HIDE DEF around
  <2> QED
    BY <1>2, <1>3, <2>1, NodeItem
<1>5. /\ E # {} <=> Refers(n)
      /\ \A x \in E : x \in Item /\ x.item = "edge" /\ x.edge_type = FirstRule(n).edge_type
                      /\ x.source_qualified = Append(around, Empty) /\ x.target_qualified = TargetOf(n)
  BY <1>1, <1>2, EdgeItem
<1> DEFINE before == Len(seen)
<1>6. before \in Nat /\ before + 1 = pos /\ before + 1 = Len(u)
  BY <1>1 DEF pos
<1> HIDE DEF N, E, before
<1>7. mid \in Seq(Item) /\ Agrees(mid, "node", u, pos) /\ Agrees(mid, "edge", u, before)
  <2>0. Agrees(out, "node", u, before) /\ Agrees(out, "edge", u, before) /\ out \in Seq(Item)
        /\ Len(out) \in Nat
    BY <1>1 DEF before
  <2>1. CASE N = {}
    <3>1. mid = out
      BY <1>1, <2>1, ItemsAppend
    <3>2. ~Wanted(u[before + 1].node, "node")
      BY <1>1, <1>4, <1>6, <2>1 DEF Wanted
    <3>3. Agrees(out, "node", u, before + 1)
      BY <1>1, <1>6, <2>0, <3>2, NotWanted
    <3> HIDE DEF mid
    <3> QED
      BY <1>6, <2>0, <3>1, <3>3
  <2>2. CASE N # {}
    <3>1. N \in SUBSET Item
      BY <1>4
    <3>2. PICK x \in N : mid = Append(out, x)
      BY <1>1, <2>2, <3>1, ItemsAppend
    <3>3. x \in Item /\ x.item = "node" /\ x.item # "edge"
      BY <1>4
    <3>4. Wanted(u[before + 1].node, "node")
      BY <1>1, <1>4, <1>6, <2>2 DEF Wanted
    <3>5. View("node", x) = Say(u, "node", before + 1)
      BY <1>1, <1>4, <1>6 DEF View, Say
    <3> HIDE DEF mid
    <3>6. Agrees(Append(out, x), "node", u, before + 1)
      BY <1>1, <1>6, <2>0, <3>3, <3>4, <3>5, OneMore
    <3>7. Agrees(Append(out, x), "edge", u, before)
      BY <1>1, <1>6, <2>0, <3>3, OneMore
    <3>8. Append(out, x) \in Seq(Item)
      BY <1>1, <3>3
    <3> QED
      BY <1>6, <3>2, <3>6, <3>7, <3>8
  <2> QED
    BY <2>1, <2>2
<1> HIDE DEF mid
<1>8. Len(mid) \in Nat
  BY <1>7
<1>9. out' \in Seq(Item) /\ Agrees(out', "node", u, pos) /\ Agrees(out', "edge", u, pos)
  <2> DEFINE last == mid \o Items(E)
  <2>1. CASE E = {}
    <3>1. last = mid
      BY <1>7, <2>1, ItemsAppend
    <3>2. ~Wanted(u[before + 1].node, "edge")
      BY <1>1, <1>5, <1>6, <2>1 DEF Wanted
    <3>3. Agrees(mid, "edge", u, before + 1)
      BY <1>1, <1>6, <1>7, <1>8, <3>2, NotWanted
    <3> QED
      BY <1>1, <1>6, <1>7, <3>1, <3>3
  <2>2. CASE E # {}
    <3>1. E \in SUBSET Item
      BY <1>5
    <3>2. PICK x \in E : last = Append(mid, x)
      BY <1>7, <2>2, <3>1, ItemsAppend
    <3>3. x \in Item /\ x.item = "edge" /\ x.item # "node"
      BY <1>5
    <3>4. Wanted(u[before + 1].node, "edge")
      BY <1>1, <1>5, <1>6, <2>2 DEF Wanted
    <3>5. View("edge", x) = Say(u, "edge", before + 1)
      BY <1>1, <1>5, <1>6 DEF View, Say
    <3>6. Agrees(Append(mid, x), "edge", u, before + 1)
      BY <1>1, <1>6, <1>7, <3>3, <3>4, <3>5, OneMore
    <3>7. Agrees(Append(mid, x), "node", u, pos)
      BY <1>1, <1>3, <1>7, <3>3, OneMore
    <3>8. Append(mid, x) \in Seq(Item)
      BY <1>7, <3>3
    <3> QED
      BY <1>1, <1>6, <3>2, <3>6, <3>7, <3>8
  <2> QED
    BY <2>1, <2>2
<1> QED
  BY <1>1, <1>9 DEF ItemInv, u

LEMMA StepItems == ScopeInv /\ PathInv /\ ItemInv /\ [Next]_vars => ItemInv'
<1> SUFFICES ASSUME ScopeInv, PathInv, ItemInv, [Next]_vars PROVE ItemInv'
  OBVIOUS
<1>1. CASE Return \/ UNCHANGED vars
  BY <1>1 DEF Return, vars, ItemInv
<1>2. ASSUME NEW n \in Nodes \cup Roots, Visit(n) PROVE ItemInv'
  BY <1>2, VisitItems
<1>3. ASSUME NEW n \in Nodes \cup Roots, VisitUnnamed(n) PROVE ItemInv'
  <2>1. ~n.named /\ HandOver(n) /\ out' = out
    BY <1>3 DEF VisitUnnamed
  <2>2. /\ Len(seen) \in Nat /\ seen' \in Trees /\ Len(seen') = Len(seen) + 1
        /\ seen'[Len(seen) + 1].node = n
        /\ Agrees(out, "node", seen', Len(seen)) /\ Agrees(out, "edge", seen', Len(seen))
    BY <2>1, TreeGrows
  <2>3. ~Wanted(n, "node") /\ ~Wanted(n, "edge")
    BY <2>1 DEF Wanted, Emits, Refers
  <2>4. out \in Seq(Item) /\ Len(out) \in Nat
    BY DEF ItemInv
  <2>5. Agrees(out, "node", seen', Len(seen) + 1) /\ Agrees(out, "edge", seen', Len(seen) + 1)
    BY <2>2, <2>3, <2>4, NotWanted
  <2> QED
    BY <2>1, <2>2, <2>4, <2>5 DEF ItemInv
<1> QED
  BY <1>1, <1>2, <1>3 DEF Next

\* All of it together, at every moment of the walk.
WalkInv == ScopeInv /\ PathInv /\ ItemInv

LEMMA AlwaysWalk == Spec => []WalkInv
<1>1. Init => WalkInv
  BY ScopeInit, InitPath, InitItems DEF WalkInv
<1>2. WalkInv /\ [Next]_vars => WalkInv'
  BY ScopeStep, StepPath, StepItems DEF WalkInv
<1> QED
  BY <1>1, <1>2, PTL DEF Spec

(* Extractor!TypeOK, for any specification of a language and any tree: every *)
(* item that visit appends is a node or an edge as ExtractedItem has them,   *)
(* and every segment that it pushes is text.                                 *)
THEOREM ExtractorTypeOK == Spec => []TypeOK
<1>1. WalkInv => TypeOK
  <2> SUFFICES ASSUME WalkInv PROVE TypeOK
    OBVIOUS
  <2>1. /\ seen \in Seq([node : Nodes \cup Roots, parent : Nat]) /\ scope \in Seq(Text)
        /\ out \in Seq(Item) /\ open \in Seq(Calls) /\ Len(open) \in Nat /\ Len(seen) \in Nat
    BY DEF WalkInv, ScopeInv, ItemInv
  <2>2. \A k \in 1..Len(open) : open[k] \in [pos : 1..Len(seen), is_scope : BOOLEAN]
    <3>1. \A k \in 1..Len(open) : open[k] \in Calls /\ open[k].pos <= Len(seen)
      BY Elements DEF WalkInv, ScopeInv
    <3> QED
      BY <2>1, <3>1 DEF Calls
  <2>3. open \in Seq([pos : 1..Len(seen), is_scope : BOOLEAN])
    BY <2>1, <2>2, Retyped
  <2> QED
    BY <2>1, <2>3 DEF TypeOK
<1> QED
  BY <1>1, AlwaysWalk, PTL

\* What Tally says of the positions, in the words of the properties.
LEMMA Told ==
  ASSUME WalkInv, NEW sort,
         Tally(OfSort(out, sort), Views(out, sort), Len(out),
               Expected(seen, sort), Says(seen, sort), Len(seen))
  PROVE  /\ Len(Positions(sort)) = Len(Listed(Expected(seen, sort), Len(seen)))
         /\ DOMAIN Positions(sort) = 1..Len(Positions(sort))
         /\ \A k \in DOMAIN Positions(sort) :
              View(sort, out[Positions(sort)[k]])
                = Say(seen, sort, Listed(Expected(seen, sort), Len(seen))[k])
<1> DEFINE l == Positions(sort)
           m == Listed(Expected(seen, sort), Len(seen))
<1>1. Len(out) \in Nat /\ Len(seen) \in Nat
  BY DEF WalkInv, ItemInv, ScopeInv
<1>2. l = Listed(OfSort(out, sort), Len(out))
  BY DEF Positions, OfSort
<1>3. /\ l \in Seq(Nat) /\ \A k \in 1..Len(l) : l[k] \in 1..Len(out)
      /\ m \in Seq(Nat) /\ \A k \in 1..Len(m) : m[k] \in 1..Len(seen)
  <2>1. l \in Seq(Nat) /\ \A k \in 1..Len(l) : l[k] \in 1..Len(out)
    BY <1>1, <1>2, ListedRange
  <2>2. m \in Seq(Nat) /\ \A k \in 1..Len(m) : m[k] \in 1..Len(seen)
    BY <1>1, ListedRange
  <2> QED
    BY <2>1, <2>2
<1>4. Len(l) = Len(m) /\ \A k \in 1..Len(l) : Views(out, sort)[l[k]] = Says(seen, sort)[m[k]]
  BY <1>2 DEF Tally
<1> HIDE DEF l, m
<1>5. \A k \in 1..Len(l) : View(sort, out[l[k]]) = Say(seen, sort, m[k])
  BY <1>3, <1>4 DEF Views, Says
<1> QED
  BY <1>3, <1>4, <1>5 DEF l, m

(* Extractor!NodesExact, for any rules and any tree: the nodes are extracted *)
(* in the order of the source, once each, and each with the label of its     *)
(* rule and by the names of the anchors around it.                           *)
THEOREM NodesHold == Spec => []NodesExact
<1>1. WalkInv => NodesExact
  <2> SUFFICES ASSUME WalkInv PROVE NodesExact
    OBVIOUS
  <2>1. Expected(seen, "node") = {i \in DOMAIN seen : Declares(i)}
    BY DEF Expected, Wanted, Emits, Declares
  <2>2. \A i : ScopeNames(i) = ScopeOf(seen, i)
    BY DEF ScopeNames, ScopeOf, WithinSteps
  <2> DEFINE nodes == Positions("node")
             expected == Listed({i \in DOMAIN seen : Declares(i)}, Len(seen))
  <2>3. /\ Len(nodes) = Len(expected)
        /\ \A k \in DOMAIN nodes : View("node", out[nodes[k]]) = Say(seen, "node", expected[k])
    <3>1. Tally(OfSort(out, "node"), Views(out, "node"), Len(out),
                Expected(seen, "node"), Says(seen, "node"), Len(seen))
      BY DEF WalkInv, ItemInv, Agrees
    <3> QED
      BY <2>1, <3>1, Told
  <2> HIDE DEF nodes, expected
  <2>4. \A k \in DOMAIN nodes :
          /\ out[nodes[k]].pos = expected[k]
          /\ out[nodes[k]].label = LabelOf(seen[expected[k]].node)
          /\ out[nodes[k]].qualified_name
               = Append(ScopeNames(expected[k]), FullName(seen[expected[k]].node))
    BY <2>2, <2>3 DEF View, Say
  <2> QED
    BY <2>3, <2>4 DEF NodesExact, FullName, nodes, expected
<1> QED
  BY <1>1, AlwaysWalk, PTL

(* Extractor!EdgesExact, for any rules and any tree: there is an edge for    *)
(* every node that has a rule and a target, by the first rule of its kind,   *)
(* from the scope around the node.                                           *)
THEOREM EdgesHold == Spec => []EdgesExact
<1>1. WalkInv => EdgesExact
  <2> SUFFICES ASSUME WalkInv PROVE EdgesExact
    OBVIOUS
  <2>1. Expected(seen, "edge") = {i \in DOMAIN seen : Links(i)}
    BY DEF Expected, Wanted, Refers, Links
  <2>2. \A i : ScopeNames(i) = ScopeOf(seen, i)
    BY DEF ScopeNames, ScopeOf, WithinSteps
  <2> DEFINE edges == Positions("edge")
             expected == Listed({i \in DOMAIN seen : Links(i)}, Len(seen))
  <2>3. /\ Len(edges) = Len(expected)
        /\ \A k \in DOMAIN edges : View("edge", out[edges[k]]) = Say(seen, "edge", expected[k])
    <3>1. Tally(OfSort(out, "edge"), Views(out, "edge"), Len(out),
                Expected(seen, "edge"), Says(seen, "edge"), Len(seen))
      BY DEF WalkInv, ItemInv, Agrees
    <3> QED
      BY <2>1, <3>1, Told
  <2> HIDE DEF edges, expected
  <2>4. \A k \in DOMAIN edges :
          /\ out[edges[k]].edge_type = FirstRule(seen[expected[k]].node).edge_type
          /\ out[edges[k]].source_qualified = Append(ScopeNames(expected[k]), Empty)
          /\ out[edges[k]].target_qualified = TargetOf(seen[expected[k]].node)
    BY <2>2, <2>3 DEF View, Say
  <2> QED
    BY <2>3, <2>4 DEF EdgesExact, edges, expected
<1> QED
  BY <1>1, AlwaysWalk, PTL
=============================================================================
