---------------------------- MODULE FreezeProofs ----------------------------
(***************************************************************************)
(* What freeze does to the edges, for every graph: the forward rows hold   *)
(* the edges of their source and the reverse rows those of their target;   *)
(* the assertion of edge_count fails exactly over a source that is no      *)
(* node; a dangling target panics before the unsafe code, and the unsafe   *)
(* writes hit fresh slots.                                                 *)
(***************************************************************************)
EXTENDS Freeze, FiniteSetTheorems, TLAPS

Phases == CsrPhases \cup IndexPhases \cup {"done", "panicked"}

ToEntry(e) == [node |-> e.tgt, type |-> e.type]

SortedBySource(es) == \A i, j \in 1..Len(es) : i < j => es[i].src <= es[j].src

BaseInv ==
  /\ phase \in Phases
  /\ next \in Nat
  /\ columns \in NodeParts
  /\ edges \in Seq(Edge)

RowsInv ==
  /\ current \in Nat /\ offsets \in Seq(Nat) /\ forward \in Seq(Entry)
  /\ Len(offsets) = current + 1
  /\ Len(forward) <= Len(edges)
  /\ \A i \in 1..Len(forward) : forward[i] = ToEntry(edges[i]) /\ edges[i].src <= current
  /\ \A n \in 0..current :
       /\ offsets[n + 1] <= Len(forward)
       /\ \A i \in 1..Len(edges) : i <= offsets[n + 1] <=> edges[i].src < n

ProgressInv ==
  /\ phase = "sort" => current = 0 /\ offsets = <<0>> /\ forward = <<>> /\ next = 0
  /\ phase # "sort" => SortedBySource(edges)
  /\ phase = "forward" => next = Len(forward)
  /\ phase \notin {"sort", "forward"} => Len(forward) = Len(edges) /\ current >= node_count

\* The loop of the forward pass: the rows before current are closed and hold
\* the edges of their sources.
FwdInv == BaseInv /\ RowsInv /\ ProgressInv

-----------------------------------------------------------------------------
(* Sequences that grow by one element. *)

LEMMA AppendFacts ==
  ASSUME NEW S, NEW s \in Seq(S), NEW x \in S
  PROVE  /\ Append(s, x) \in Seq(S)
         /\ Len(Append(s, x)) = Len(s) + 1
         /\ \A i \in 1..Len(s) : Append(s, x)[i] = s[i]
         /\ Append(s, x)[Len(s) + 1] = x
  OBVIOUS

LEMMA EdgeFields ==
  ASSUME NEW es \in Seq(Edge), NEW i \in 1..Len(es)
  PROVE  es[i] \in Edge /\ es[i].src \in Nat /\ es[i].tgt \in Nat
<1>1. es[i] \in Edge  OBVIOUS
<1> QED  BY <1>1 DEF Edge

LEMMA NodeCountType == ASSUME columns \in NodeParts PROVE node_count \in Nat
<1>1. columns.node_labels \in Seq(NodeLabels)  BY DEF NodeParts
<1> QED  BY <1>1 DEF node_count

LEMMA EdgesOfType ==
  ASSUME NEW g \in Inputs
  PROVE  EdgesOf(g.edges) \in Seq(Edge)
<1> DEFINE e == g.edges
<1>1. /\ e \in EdgeParts
      /\ Len(e.edge_targets) = Len(e.edge_sources)
      /\ Len(e.edge_types) = Len(e.edge_sources)
  BY InputsAssumption
<1>2. /\ e.edge_sources \in Seq(Nat) /\ e.edge_targets \in Seq(Nat)
      /\ e.edge_types \in Seq(EdgeTypes)
  BY <1>1 DEF EdgeParts
<1> HIDE DEF e
<1>3. \A i \in 1..Len(e.edge_sources) :
        e.edge_sources[i] \in Nat /\ e.edge_targets[i] \in Nat /\ e.edge_types[i] \in EdgeTypes
  BY <1>1, <1>2
<1>4. DOMAIN e.edge_sources = 1..Len(e.edge_sources) /\ Len(e.edge_sources) \in Nat
  BY <1>2
<1>5. EdgesOf(e) \in [1..Len(e.edge_sources) -> Edge]
  BY <1>3, <1>4 DEF EdgesOf, Edge
<1> QED  BY <1>4, <1>5 DEF e

LEMMA InitFwd == Init => FwdInv
<1> SUFFICES ASSUME Init PROVE FwdInv
  OBVIOUS
<1> USE DEF Init, CsrInit
<1>1. PICK g \in Inputs : columns = g.nodes /\ edges = EdgesOf(g.edges)
  OBVIOUS
<1>2. BaseInv
  <2>1. columns \in NodeParts  BY <1>1, InputsAssumption
  <2>2. edges \in Seq(Edge)  BY <1>1, EdgesOfType
  <2> QED  BY <2>1, <2>2 DEF BaseInv, Phases, CsrPhases
<1>3. RowsInv
  <2>1. \A i \in 1..Len(edges) : edges[i].src \in Nat
    BY <1>2, EdgeFields DEF BaseInv
  <2>2. <<>> \in Seq(Entry) /\ Len(<<>>) = 0 /\ <<0>> \in Seq(Nat) /\ Len(<<0>>) = 1 /\ <<0>>[1] = 0
    OBVIOUS
  <2>3. Len(edges) \in Nat  BY <1>2 DEF BaseInv
  <2> QED  BY <2>1, <2>2, <2>3 DEF RowsInv
<1>4. ProgressInv
  BY DEF ProgressInv
<1> QED  BY <1>2, <1>3, <1>4 DEF FwdInv

-----------------------------------------------------------------------------
(* The steps up to the end of the forward pass. *)

LEMMA SortFwd == ASSUME FwdInv, SortEdges PROVE FwdInv' /\ Len(edges') = Len(edges)
<1> USE DEF FwdInv
<1>1. phase = "sort" /\ phase' = "forward" /\ UNCHANGED <<columns, next, current, offsets, forward>>
  BY DEF SortEdges, fwdVars
<1>2. PICK p \in [1..Len(edges) -> 1..Len(edges)] :
        StableOrder(edges, p) /\ edges' = [i \in 1..Len(edges) |-> edges[p[i]]]
  BY DEF SortEdges
<1>3. Len(edges) \in Nat /\ \A i \in 1..Len(edges) : edges[p[i]] \in Edge
  BY DEF BaseInv
<1>4. edges' \in Seq(Edge) /\ Len(edges') = Len(edges)
  BY <1>2, <1>3
<1>5. \A i \in 1..Len(edges) : edges'[i] = edges[p[i]]
  BY <1>2
<1>6. BaseInv'
  BY <1>1, <1>4 DEF BaseInv, Phases, CsrPhases
<1>7. current = 0 /\ offsets = <<0>> /\ forward = <<>> /\ next = 0
  BY <1>1 DEF ProgressInv
<1>8. RowsInv'
  <2>1. \A i \in 1..Len(edges') : edges'[i].src \in Nat
    BY <1>4, EdgeFields
  <2>2. <<>> \in Seq(Entry) /\ Len(<<>>) = 0 /\ <<0>> \in Seq(Nat) /\ Len(<<0>>) = 1 /\ <<0>>[1] = 0
    OBVIOUS
  <2> QED  BY <1>1, <1>3, <1>4, <1>7, <2>1, <2>2 DEF RowsInv
<1>9. ProgressInv'
  <2>1. \A i, j \in 1..Len(edges) : i < j => edges[p[i]].src <= edges[p[j]].src
    <3>1. \A i \in 1..Len(edges) : edges[p[i]].src \in Nat
      BY <1>3 DEF Edge
    <3> QED  BY <1>2, <3>1 DEF StableOrder, Precedes, SameKey
  <2>2. SortedBySource(edges')
    BY <1>4, <1>5, <2>1 DEF SortedBySource
  <2> QED  BY <1>1, <1>7, <2>2 DEF ProgressInv
<1> QED  BY <1>4, <1>6, <1>8, <1>9

LEMMA AdvanceFwd ==
  ASSUME FwdInv, phase = "forward", AdvanceNode,
         \A i \in 1..Len(edges) : i > Len(forward) => current < edges[i].src
  PROVE  FwdInv'
<1> USE DEF FwdInv
<1>1. /\ current' = current + 1 /\ offsets' = Append(offsets, Len(forward))
      /\ UNCHANGED <<phase, next, columns, edges, forward>>
  BY DEF AdvanceNode
<1>2. /\ current \in Nat /\ offsets \in Seq(Nat) /\ forward \in Seq(Entry)
      /\ Len(offsets) = current + 1 /\ Len(forward) \in Nat
  BY DEF RowsInv
<1>3. /\ offsets' \in Seq(Nat) /\ Len(offsets') = current + 2
      /\ \A i \in 1..(current + 1) : offsets'[i] = offsets[i]
      /\ offsets'[current + 2] = Len(forward)
  BY <1>1, <1>2, AppendFacts
<1>4. \A i \in 1..Len(edges) : edges[i].src \in Nat
  BY EdgeFields DEF BaseInv
<1>5. \A i \in 1..Len(edges) : i <= Len(forward) <=> edges[i].src < current + 1
  <2> SUFFICES ASSUME NEW i \in 1..Len(edges)
               PROVE  i <= Len(forward) <=> edges[i].src < current + 1
    OBVIOUS
  <2>1. CASE i <= Len(forward)
    <3>1. edges[i].src <= current  BY <1>2, <2>1 DEF RowsInv
    <3> QED  BY <1>2, <1>4, <2>1, <3>1
  <2>2. CASE i > Len(forward)
    BY <1>2, <1>4, <2>2
  <2> QED  BY <1>2, <2>1, <2>2
<1>6. RowsInv'
  <2>1. \A i \in 1..Len(forward) : forward[i] = ToEntry(edges[i]) /\ edges[i].src <= current + 1
    BY <1>2, <1>4 DEF RowsInv
  <2>2. \A n \in 0..(current + 1) :
          /\ offsets'[n + 1] <= Len(forward)
          /\ \A i \in 1..Len(edges) : i <= offsets'[n + 1] <=> edges[i].src < n
    <3> SUFFICES ASSUME NEW n \in 0..(current + 1)
                 PROVE  /\ offsets'[n + 1] <= Len(forward)
                        /\ \A i \in 1..Len(edges) : i <= offsets'[n + 1] <=> edges[i].src < n
      OBVIOUS
    <3>1. CASE n \in 0..current
      <4>1. offsets'[n + 1] = offsets[n + 1]  BY <1>2, <1>3, <3>1
      <4> QED  BY <3>1, <4>1 DEF RowsInv
    <3>2. CASE n = current + 1
      BY <1>2, <1>3, <1>5, <3>2
    <3> QED  BY <1>2, <3>1, <3>2
  <2> QED  BY <1>1, <1>2, <1>3, <2>1, <2>2 DEF RowsInv
<1>7. BaseInv'
  BY <1>1 DEF BaseInv
<1>8. ProgressInv'
  BY <1>1 DEF ProgressInv
<1> QED  BY <1>6, <1>7, <1>8

LEMMA SkipFwd == ASSUME FwdInv, SkipToSource PROVE FwdInv'
<1> USE DEF FwdInv
<1>1. phase = "forward" /\ next < Len(edges) /\ current < edges[next + 1].src /\ AdvanceNode
  <2>1. /\ phase = "forward" /\ next < Len(edges) /\ ~(current >= edges[next + 1].src)
        /\ AdvanceNode
    BY DEF SkipToSource, AtSource, Over, Here
  <2>2. next + 1 \in 1..Len(edges)  BY <2>1 DEF BaseInv
  <2>3. edges[next + 1].src \in Nat /\ current \in Nat
    BY <2>2, EdgeFields DEF BaseInv, RowsInv
  <2> QED  BY <2>1, <2>3
<1>2. \A i \in 1..Len(edges) : i > Len(forward) => current < edges[i].src
  <2>1. SortedBySource(edges) /\ next = Len(forward)  BY <1>1 DEF ProgressInv
  <2>2. next \in Nat /\ Len(edges) \in Nat /\ next + 1 \in 1..Len(edges)
    BY <1>1 DEF BaseInv
  <2>3. current \in Nat /\ \A i \in 1..Len(edges) : edges[i].src \in Nat
    BY EdgeFields DEF BaseInv, RowsInv
  <2>4. \A i \in 1..Len(edges) : i > next => edges[next + 1].src <= edges[i].src
    BY <2>1, <2>2, <2>3 DEF SortedBySource
  <2> QED  BY <1>1, <2>1, <2>2, <2>3, <2>4
<1> QED  BY <1>1, <1>2, AdvanceFwd

LEMMA CloseFwd == ASSUME FwdInv, CloseRows PROVE FwdInv'
<1> USE DEF FwdInv
<1>1. phase = "forward" /\ next = Len(edges) /\ AdvanceNode
  BY DEF CloseRows, Past
<1>2. Len(forward) = Len(edges) /\ Len(edges) \in Nat
  BY <1>1 DEF ProgressInv, BaseInv
<1> QED  BY <1>1, <1>2, AdvanceFwd

LEMMA PushFwd == ASSUME FwdInv, PushForward PROVE FwdInv'
<1> USE DEF FwdInv
<1>1. /\ phase = "forward" /\ next < Len(edges) /\ current >= Here.src
      /\ forward' = Append(forward, ToEntry(Here)) /\ next' = next + 1
      /\ UNCHANGED <<phase, columns, edges, current, offsets>>
  BY DEF PushForward, AtSource, PushEdge, Over, ToEntry
<1>2. next = Len(forward) /\ next \in Nat /\ Len(edges) \in Nat
  BY <1>1 DEF ProgressInv, BaseInv
<1>3. Here \in Edge /\ Here = edges[Len(forward) + 1] /\ Len(forward) + 1 <= Len(edges)
  BY <1>1, <1>2 DEF BaseInv, Here
<1>4. ToEntry(Here) \in Entry
  BY <1>3 DEF ToEntry, Entry, Edge
<1>5. /\ forward' \in Seq(Entry) /\ Len(forward') = Len(forward) + 1
      /\ \A i \in 1..Len(forward) : forward'[i] = forward[i]
      /\ forward'[Len(forward) + 1] = ToEntry(Here)
  <2>1. forward \in Seq(Entry)  BY DEF RowsInv
  <2> QED  BY <1>1, <1>4, <2>1, AppendFacts
<1>6. RowsInv'
  <2>1. \A i \in 1..(Len(forward) + 1) :
          forward'[i] = ToEntry(edges[i]) /\ edges[i].src <= current
    <3> SUFFICES ASSUME NEW i \in 1..(Len(forward) + 1)
                 PROVE  forward'[i] = ToEntry(edges[i]) /\ edges[i].src <= current
      OBVIOUS
    <3>1. CASE i \in 1..Len(forward)  BY <1>5, <3>1 DEF RowsInv
    <3>2. CASE i = Len(forward) + 1
      <4>1. Here.src \in Nat /\ current \in Nat  BY <1>3 DEF Edge, RowsInv
      <4> QED  BY <1>1, <1>3, <1>5, <3>2, <4>1
    <3> QED  BY <1>2, <3>1, <3>2
  <2>2. \A n \in 0..current : offsets[n + 1] <= Len(forward) + 1
    <3>1. \A n \in 0..current : offsets[n + 1] \in Nat /\ offsets[n + 1] <= Len(forward)
      BY DEF RowsInv
    <3> QED  BY <1>2, <3>1
  <2> QED  BY <1>1, <1>2, <1>3, <1>5, <2>1, <2>2 DEF RowsInv
<1>7. BaseInv'
  BY <1>1, <1>2 DEF BaseInv
<1>8. ProgressInv'
  BY <1>1, <1>2, <1>5 DEF ProgressInv
<1> QED  BY <1>6, <1>7, <1>8

LEMMA DoneFwd == ASSUME FwdInv, ForwardDone PROVE FwdInv'
<1> USE DEF FwdInv
<1>1. /\ phase = "forward" /\ next = Len(edges) /\ current >= node_count
      /\ phase' = "count" /\ next' = 0
      /\ UNCHANGED <<columns, edges, current, offsets, forward>>
  BY DEF ForwardDone, RowsClosed, Past, Enter, csrVars, fwdVars
<1>2. BaseInv'
  BY <1>1 DEF BaseInv, Phases, CsrPhases
<1>3. RowsInv'
  BY <1>1 DEF RowsInv
<1>4. ProgressInv'
  BY <1>1 DEF ProgressInv, node_count
<1> QED  BY <1>2, <1>3, <1>4

(* The steps after it leave the rows alone. *)

LaterPhases == Phases \ {"sort", "forward"}

Later ==
  /\ phase \in LaterPhases /\ phase' \in LaterPhases /\ next' \in Nat
  /\ UNCHANGED <<columns, edges, current, offsets, forward>>

LEMMA LaterFwd == ASSUME FwdInv, Later PROVE FwdInv'
<1> USE DEF FwdInv, Later, LaterPhases
<1>1. BaseInv'  BY DEF BaseInv
<1>2. RowsInv'  BY DEF RowsInv
<1>3. ProgressInv'  BY DEF ProgressInv, node_count
<1> QED  BY <1>1, <1>2, <1>3

LEMMA ReverseLater == ASSUME BaseInv, ReverseStep PROVE Later
<1> USE DEF BaseInv, Later, LaterPhases, Phases, CsrPhases, IndexPhases, fwdVars
<1>1. CASE CountIncoming  BY <1>1 DEF CountIncoming, Over
<1>2. CASE CountPanics  BY <1>2 DEF CountPanics, Over, csrVars
<1>3. CASE CountDone  BY <1>3 DEF CountDone, Past, Enter, csrVars
<1>4. CASE PrefixSum  BY <1>4 DEF PrefixSum
<1>5. CASE PrefixDone  BY <1>5 DEF PrefixDone, Enter
<1>6. CASE Place  BY <1>6 DEF Place, Over
<1>7. CASE PlaceDone  BY <1>7 DEF PlaceDone, Past, Enter, csrVars
<1> QED  BY <1>1, <1>2, <1>3, <1>4, <1>5, <1>6, <1>7 DEF ReverseStep

LEMMA IndexPhase ==
  ASSUME BaseInv, IndexStep
  PROVE  /\ phase \in IndexPhases /\ phase' \in IndexPhases \cup {"panicked"}
         /\ next' \in Nat /\ columns' = columns
<1> USE DEF BaseInv, IndexPhases, OverNodes, PastNodes, Enter
<1>1. CASE LabelStep
  BY <1>1 DEF LabelStep, InsertLabel, LabelsDone, PackBitmap, PackDone
<1>2. CASE MapStep
  BY <1>2 DEF MapStep, InsertName, NamesDone, InsertFile
<1>3. CASE SortPairs  BY <1>3 DEF SortPairs
<1>7. CASE ResolvePanics  BY <1>7 DEF ResolvePanics
<1>4. CASE OpenGroup  BY <1>4 DEF OpenGroup
<1>5. CASE JoinGroup  BY <1>5 DEF JoinGroup
<1>6. CASE CloseGroup  BY <1>6 DEF CloseGroup
<1> QED  BY <1>1, <1>2, <1>3, <1>4, <1>5, <1>6, <1>7 DEF IndexStep, NameStep

LEMMA NextFwd == ASSUME FwdInv, [Next]_vars PROVE FwdInv'
<1>1. CASE SortEdges  BY <1>1, SortFwd
<1>2. CASE ForwardStep
  BY <1>2, SkipFwd, PushFwd, CloseFwd, DoneFwd DEF ForwardStep
<1>3. CASE ReverseStep  BY <1>3, ReverseLater, LaterFwd DEF FwdInv
<1>4. CASE IndexStep /\ UNCHANGED csrVars
  <2>1. Later
    BY <1>4, IndexPhase
    DEF FwdInv, Later, LaterPhases, Phases, CsrPhases, IndexPhases, csrVars, fwdVars
  <2> QED  BY <2>1, LaterFwd
<1>5. CASE Assemble
  <2>1. Later
    BY <1>5
    DEF Assemble, PastNodes, FwdInv, BaseInv, Later, LaterPhases, Phases, CsrPhases, csrVars, fwdVars
  <2> QED  BY <2>1, LaterFwd
<1>6. CASE UNCHANGED vars
  BY <1>6
  DEF vars, csrVars, fwdVars, FwdInv, BaseInv, RowsInv, ProgressInv, node_count
<1> QED  BY <1>1, <1>2, <1>3, <1>4, <1>5, <1>6 DEF Next, CsrStep

LEMMA AlwaysFwd == Spec => []FwdInv
<1>1. FwdInv /\ [Next]_vars => FwdInv'  BY NextFwd
<1> QED  BY InitFwd, <1>1, PTL DEF Spec

(* Freeze!ForwardRowsExact, for every graph: once build_forward_csr is over, *)
(* forward_edges yields the edges of its node, dangling endpoints elsewhere  *)
(* or not; if every source is a node, the sentinel is the number of edges.   *)
THEOREM ForwardRowsHold == Spec => []ForwardRowsExact
<1>1. FwdInv => ForwardRowsExact
  <2> SUFFICES ASSUME FwdInv, phase \notin {"sort", "forward"} PROVE ForwardRowsExact
    BY DEF ForwardRowsExact
  <2>1. Len(forward) = Len(edges) /\ current >= node_count
    BY DEF FwdInv, ProgressInv
  <2>2. node_count \in Nat /\ current \in Nat /\ Len(edges) \in Nat /\ Len(offsets) = current + 1
    BY NodeCountType DEF FwdInv, BaseInv, RowsInv
  <2>3. \A i \in 1..Len(edges) : edges[i].src \in Nat
    BY EdgeFields DEF FwdInv, BaseInv
  <2>4. \A n \in 0..node_count :
          /\ offsets[n + 1] \in Nat /\ offsets[n + 1] <= Len(edges)
          /\ \A i \in 1..Len(edges) : i <= offsets[n + 1] <=> edges[i].src < n
    BY <2>1, <2>2 DEF FwdInv, RowsInv
  <2>5. \A i \in 1..Len(edges) : forward[i] = [node |-> edges[i].tgt, type |-> edges[i].type]
    BY <2>1 DEF FwdInv, RowsInv, ToEntry
  <2>6. ASSUME NEW i \in 1..Len(edges), NEW n \in Nodes
        PROVE  edges[i].src = n <=> offsets[n + 1] < i /\ i <= offsets[n + 2]
    <3>1. n \in 0..node_count /\ n + 1 \in 0..node_count /\ (n + 1) + 1 = n + 2
      BY <2>2 DEF Nodes
    <3>2. i <= offsets[n + 1] <=> edges[i].src < n  BY <2>4, <3>1
    <3>3. i <= offsets[n + 2] <=> edges[i].src < n + 1  BY <2>4, <3>1
    <3>4. offsets[n + 1] \in Nat /\ offsets[n + 2] \in Nat  BY <2>4, <3>1
    <3> QED  BY <2>3, <3>1, <3>2, <3>3, <3>4
  <2>7. ASSUME \A i \in 1..Len(edges) : edges[i].src \in Nodes
        PROVE  offsets[node_count + 1] = Len(edges)
    <3>0. node_count \in 0..node_count  BY <2>2
    <3>1. \A i \in 1..Len(edges) : i <= offsets[node_count + 1]
      <4>1. \A i \in 1..Len(edges) : edges[i].src < node_count
        BY <2>2, <2>7 DEF Nodes
      <4> QED  BY <2>4, <3>0, <4>1
    <3>2. offsets[node_count + 1] \in Nat /\ offsets[node_count + 1] <= Len(edges)
      BY <2>4, <3>0
    <3>3. CASE Len(edges) = 0  BY <3>2, <3>3
    <3>4. CASE Len(edges) # 0
      <4>1. Len(edges) \in 1..Len(edges)  BY <2>2, <3>4
      <4> QED  BY <2>2, <3>1, <3>2, <4>1
    <3> QED  BY <3>3, <3>4
  <2> QED  BY <2>1, <2>2, <2>5, <2>6, <2>7 DEF ForwardRowsExact
<1> QED  BY <1>1, AlwaysFwd, PTL

-----------------------------------------------------------------------------
(* The forward pass closes no row beyond the nodes and the largest source,   *)
(* and freeze moves what it built.                                           *)

Reached == current <= node_count \/ \E i \in 1..Len(edges) : current <= edges[i].src

SentinelInv ==
  /\ Reached
  /\ phase = "done" => frozen.forward_offsets = offsets /\ frozen.forward_edges = forward

LEMMA InitSentinel == Init => SentinelInv
<1> SUFFICES ASSUME Init PROVE SentinelInv
  OBVIOUS
<1>1. node_count \in Nat  BY InitFwd, NodeCountType DEF FwdInv, BaseInv
<1> QED  BY <1>1 DEF Init, CsrInit, SentinelInv, Reached

LEMMA AdvanceReached ==
  ASSUME FwdInv, SkipToSource \/ CloseRows
  PROVE  Reached' /\ phase' = "forward"
<1>1. node_count \in Nat /\ current \in Nat
  BY NodeCountType DEF FwdInv, BaseInv, RowsInv
<1>2. CASE SkipToSource
  <2>1. /\ phase = "forward" /\ next < Len(edges) /\ ~(current >= edges[next + 1].src)
        /\ phase' = phase /\ current' = current + 1 /\ edges' = edges
    BY <1>2 DEF SkipToSource, AdvanceNode, AtSource, Over, Here
  <2>2. next + 1 \in 1..Len(edges)  BY <2>1 DEF FwdInv, BaseInv
  <2>3. edges[next + 1].src \in Nat  BY <2>2, EdgeFields DEF FwdInv, BaseInv
  <2>4. current + 1 <= edges[next + 1].src  BY <1>1, <2>1, <2>3
  <2>5. current' <= edges'[next + 1].src /\ next + 1 \in 1..Len(edges')
    BY <2>1, <2>2, <2>4
  <2>6. Reached'  BY <2>5 DEF Reached
  <2> QED  BY <2>1, <2>6
<1>3. CASE CloseRows
  <2>1. /\ phase = "forward" /\ phase' = phase /\ ~(current >= node_count)
        /\ current' = current + 1 /\ columns' = columns
    BY <1>3 DEF CloseRows, AdvanceNode, RowsClosed, Past
  <2>2. current + 1 <= node_count  BY <1>1, <2>1
  <2> QED  BY <2>1, <2>2 DEF Reached, node_count
<1> QED  BY <1>2, <1>3

LEMMA NextSentinel == ASSUME FwdInv, SentinelInv, [Next]_vars PROVE SentinelInv'
<1>1. CASE SortEdges
  <2>1. current = 0 /\ current' = current /\ columns' = columns /\ phase' = "forward"
    BY <1>1 DEF SortEdges, FwdInv, ProgressInv, fwdVars
  <2>2. node_count \in Nat  BY NodeCountType DEF FwdInv, BaseInv
  <2> QED  BY <2>1, <2>2 DEF SentinelInv, Reached, node_count
<1>2. CASE ForwardStep
  <2>1. CASE SkipToSource \/ CloseRows
    BY <2>1, AdvanceReached DEF SentinelInv
  <2>2. CASE PushForward \/ ForwardDone
    <3>1. phase' # "done" /\ UNCHANGED <<columns, edges, current>>
      BY <2>2
      DEF PushForward, PushEdge, ForwardDone, Over, Past, Enter, csrVars, fwdVars
    <3> QED  BY <3>1 DEF SentinelInv, Reached, node_count
  <2> QED  BY <1>2, <2>1, <2>2 DEF ForwardStep
<1>3. CASE ReverseStep
  <2>1. UNCHANGED <<columns, edges, current>>
    BY <1>3, ReverseLater DEF FwdInv, Later
  <2>2. phase' # "done"
    BY <1>3
    DEF ReverseStep, CountIncoming, CountPanics, CountDone, PrefixSum, PrefixDone, Place, PlaceDone,
        Over, Past, Enter
  <2> QED  BY <2>1, <2>2 DEF SentinelInv, Reached, node_count
<1>4. CASE IndexStep /\ UNCHANGED csrVars
  <2>1. phase' # "done" /\ UNCHANGED <<columns, edges, current>>
    BY <1>4, IndexPhase DEF FwdInv, IndexPhases, csrVars, fwdVars
  <2> QED  BY <2>1 DEF SentinelInv, Reached, node_count
<1>5. CASE Assemble
  <2>1. /\ UNCHANGED <<columns, edges, current, offsets, forward>>
        /\ frozen'.forward_offsets = offsets /\ frozen'.forward_edges = forward
    BY <1>5 DEF Assemble, csrVars, fwdVars
  <2> QED  BY <2>1 DEF SentinelInv, Reached, node_count
<1>6. CASE UNCHANGED vars
  BY <1>6 DEF vars, csrVars, fwdVars, SentinelInv, Reached, node_count
<1> QED  BY <1>1, <1>2, <1>3, <1>4, <1>5, <1>6 DEF Next, CsrStep

LEMMA AlwaysSentinel == Spec => [](FwdInv /\ SentinelInv)
<1>1. FwdInv /\ SentinelInv /\ [Next]_vars => (FwdInv /\ SentinelInv)'
  BY NextFwd, NextSentinel
<1> QED  BY InitFwd, InitSentinel, <1>1, PTL DEF Spec

(* Freeze!EdgeCountExact, for every graph: edge_count is the number of edges *)
(* added, and what it asserts of the sentinel fails exactly if there is an   *)
(* edge from a source that is no node.                                       *)
THEOREM EdgeCountHolds == Spec => []EdgeCountExact
<1>1. FwdInv /\ SentinelInv => EdgeCountExact
  <2> SUFFICES ASSUME FwdInv, SentinelInv, Frozen PROVE EdgeCountExact
    BY DEF EdgeCountExact
  <2> DEFINE last == offsets[current + 1]
  <2>1. /\ Len(forward) = Len(edges) /\ current >= node_count /\ Len(offsets) = current + 1
        /\ frozen.forward_offsets = offsets /\ frozen.forward_edges = forward
    BY DEF FwdInv, ProgressInv, RowsInv, SentinelInv, Frozen
  <2>2. node_count \in Nat /\ current \in Nat /\ Len(edges) \in Nat
    BY NodeCountType DEF FwdInv, BaseInv, RowsInv
  <2>3. \A i \in 1..Len(edges) : edges[i].src \in Nat
    BY EdgeFields DEF FwdInv, BaseInv
  <2>4. /\ last \in Nat /\ last <= Len(edges)
        /\ \A i \in 1..Len(edges) : i <= last <=> edges[i].src < current
    <3>1. current \in 0..current /\ current + 1 \in 1..Len(offsets) /\ offsets \in Seq(Nat)
      BY <2>1, <2>2 DEF FwdInv, RowsInv
    <3>2. /\ offsets[current + 1] <= Len(edges)
          /\ \A i \in 1..Len(edges) : i <= offsets[current + 1] <=> edges[i].src < current
      BY <2>1, <3>1 DEF FwdInv, RowsInv
    <3>3. offsets[current + 1] \in Nat  BY <3>1
    <3> QED  BY <3>2, <3>3
  <2>5. edge_count(frozen) = Len(edges) /\ (edge_count_asserted(frozen) <=> last = Len(edges))
    BY <2>1 DEF edge_count, edge_count_asserted
  <2> HIDE DEF last
  <2>6. ASSUME last = Len(edges), NEW i \in 1..Len(edges) PROVE edges[i].src \in Nodes
    <3>1. \A j \in 1..Len(edges) : edges[j].src < current
      BY <2>2, <2>4, <2>6
    <3>2. current <= node_count
      <4>1. ASSUME NEW j \in 1..Len(edges), current <= edges[j].src PROVE FALSE
        BY <2>2, <2>3, <3>1, <4>1
      <4> QED  BY <4>1 DEF SentinelInv, Reached
    <3> QED  BY <2>2, <2>3, <3>1, <3>2 DEF Nodes
  <2>7. ASSUME \A i \in 1..Len(edges) : edges[i].src \in Nodes PROVE last = Len(edges)
    <3>1. \A i \in 1..Len(edges) : i <= last
      <4>1. \A i \in 1..Len(edges) : edges[i].src < current
        BY <2>1, <2>2, <2>7 DEF Nodes
      <4> QED  BY <2>4, <4>1
    <3>2. CASE Len(edges) = 0  BY <2>4, <3>2
    <3>3. CASE Len(edges) # 0
      <4>1. Len(edges) \in 1..Len(edges)  BY <2>2, <3>3
      <4> QED  BY <2>2, <2>4, <3>1, <4>1
    <3> QED  BY <3>2, <3>3
  <2> QED  BY <2>5, <2>6, <2>7 DEF EdgeCountExact
<1> QED  BY <1>1, AlwaysSentinel, PTL

-----------------------------------------------------------------------------
(* The edges ahead of the next one into node t, once the first k are placed, *)
(* and the slot that an edge gets.                                           *)

Ahead(es, t, k) ==
  {j \in 1..Len(es) : es[j].tgt < t \/ (es[j].tgt = t /\ j <= k)}

SlotFor(es, i) == Cardinality(Ahead(es, es[i].tgt, i - 1))

Hits(es, k, t) == {j \in 1..k : es[j].tgt = t}

LEMMA IntervalFinite ==
  ASSUME NEW n \in Nat, NEW T \in SUBSET (1..n)
  PROVE  IsFiniteSet(T) /\ Cardinality(T) \in Nat /\ Cardinality(T) <= n
<1>1. IsFiniteSet(1..n) /\ Cardinality(1..n) = n
  <2>1. /\ IsFiniteSet(1..n)
        /\ Cardinality(1..n) = IF 1 > n THEN 0 ELSE n - 1 + 1
    BY FS_Interval
  <2> QED  BY <2>1
<1>2. IsFiniteSet(T) /\ Cardinality(T) <= Cardinality(1..n)
  BY <1>1, FS_Subset
<1> QED  BY <1>1, <1>2, FS_CardinalityType

LEMMA AheadFinite ==
  ASSUME NEW es \in Seq(Edge), NEW t, NEW k
  PROVE  /\ IsFiniteSet(Ahead(es, t, k))
         /\ Cardinality(Ahead(es, t, k)) \in Nat
         /\ Cardinality(Ahead(es, t, k)) <= Len(es)
<1>1. Len(es) \in Nat  OBVIOUS
<1>2. Ahead(es, t, k) \in SUBSET (1..Len(es))  BY DEF Ahead
<1> QED  BY <1>1, <1>2, IntervalFinite

\* Placing edge k + 1 moves the next one into the same node by one slot.
LEMMA AheadStep ==
  ASSUME NEW es \in Seq(Edge), NEW k \in Nat, k + 1 <= Len(es), NEW t \in Nat
  PROVE  Cardinality(Ahead(es, t, k + 1)) =
           IF es[k + 1].tgt = t THEN Cardinality(Ahead(es, t, k)) + 1
           ELSE Cardinality(Ahead(es, t, k))
<1>1. k + 1 \in 1..Len(es) /\ \A j \in 1..Len(es) : es[j].tgt \in Nat
  BY EdgeFields
<1>2. CASE es[k + 1].tgt = t
  <2>1. Ahead(es, t, k + 1) = Ahead(es, t, k) \cup {k + 1}
    BY <1>1, <1>2 DEF Ahead
  <2>2. k + 1 \notin Ahead(es, t, k)
    BY <1>1, <1>2 DEF Ahead
  <2> QED  BY <1>2, <2>1, <2>2, AheadFinite, FS_AddElement
<1>3. CASE es[k + 1].tgt # t
  <2>1. Ahead(es, t, k + 1) = Ahead(es, t, k)
    BY <1>1, <1>3 DEF Ahead
  <2> QED  BY <1>3, <2>1
<1> QED  BY <1>2, <1>3

LEMMA SlotBound ==
  ASSUME NEW es \in Seq(Edge), NEW i \in 1..Len(es)
  PROVE  SlotFor(es, i) \in 0..(Len(es) - 1)
<1> DEFINE t == es[i].tgt
<1>1. t \in Nat /\ i - 1 \in Nat /\ (i - 1) + 1 = i /\ Len(es) \in Nat
  BY EdgeFields
<1>2. Cardinality(Ahead(es, t, i)) = Cardinality(Ahead(es, t, i - 1)) + 1
  BY <1>1, AheadStep
<1>3. /\ Cardinality(Ahead(es, t, i)) <= Len(es)
      /\ Cardinality(Ahead(es, t, i - 1)) \in Nat
  BY AheadFinite
<1> QED  BY <1>1, <1>2, <1>3 DEF SlotFor

LEMMA SlotsDiffer ==
  ASSUME NEW es \in Seq(Edge), NEW i \in 1..Len(es), NEW j \in 1..Len(es), i # j
  PROVE  SlotFor(es, i) # SlotFor(es, j)
<1> DEFINE A(x) == Ahead(es, es[x].tgt, x - 1)
<1>1. \A x \in 1..Len(es) : es[x].tgt \in Nat
  BY EdgeFields
<1>2. ASSUME NEW x \in 1..Len(es), NEW y \in 1..Len(es),
             es[x].tgt < es[y].tgt \/ (es[x].tgt = es[y].tgt /\ x < y)
      PROVE  Cardinality(A(x)) # Cardinality(A(y))
  <2>1. A(x) \in SUBSET A(y)  BY <1>1, <1>2 DEF Ahead
  <2>2. x \in A(y) /\ x \notin A(x)  BY <1>1, <1>2 DEF Ahead
  <2>3. IsFiniteSet(A(y))  BY AheadFinite
  <2> HIDE DEF A
  <2> QED  BY <2>1, <2>2, <2>3, FS_Subset
<1>3. \/ es[i].tgt < es[j].tgt \/ (es[i].tgt = es[j].tgt /\ i < j)
      \/ es[j].tgt < es[i].tgt \/ (es[j].tgt = es[i].tgt /\ j < i)
  BY <1>1
<1> QED  BY <1>2, <1>3 DEF SlotFor

\* As many slots as edges: every slot is some edge's.
LEMMA SlotsCover ==
  ASSUME NEW es \in Seq(Edge), NEW s \in 0..(Len(es) - 1)
  PROVE  \E i \in 1..Len(es) : s = SlotFor(es, i)
<1> DEFINE S == 1..Len(es)
           T == 0..(Len(es) - 1)
           f == [i \in S |-> SlotFor(es, i)]
<1>1. Len(es) \in Nat  OBVIOUS
<1>2. f \in [S -> T]  BY SlotBound
<1>3. \A i, j \in S : f[i] = f[j] => i = j  BY SlotsDiffer
<1>4. IsFiniteSet(S) /\ IsFiniteSet(T) /\ Cardinality(S) = Cardinality(T)
  <2>1. /\ IsFiniteSet(1..Len(es))
        /\ Cardinality(1..Len(es)) = IF 1 > Len(es) THEN 0 ELSE Len(es) - 1 + 1
    BY <1>1, FS_Interval
  <2>2. \A b \in Int : /\ IsFiniteSet(0..b)
                      /\ Cardinality(0..b) = IF 0 > b THEN 0 ELSE b - 0 + 1
    BY FS_Interval
  <2>3. Len(es) - 1 \in Int  BY <1>1
  <2>4. IsFiniteSet(S) /\ Cardinality(S) = Len(es)  BY <1>1, <2>1
  <2>5. IsFiniteSet(T) /\ Cardinality(T) = Len(es)
    <3>1. Cardinality(T) = IF 0 > Len(es) - 1 THEN 0 ELSE (Len(es) - 1) - 0 + 1
      BY <2>2, <2>3
    <3> QED  BY <1>1, <2>2, <2>3, <3>1
  <2> QED  BY <2>4, <2>5
<1>5. \A i \in S : f[i] = SlotFor(es, i)  OBVIOUS
<1>6. s \in T  OBVIOUS
<1> HIDE DEF S, T, f
<1>7. SUFFICES ASSUME \A i \in S : f[i] # s PROVE FALSE
  BY <1>5 DEF S
<1>8. f \in [S -> T \ {s}]  BY <1>2, <1>7
<1>9. IsFiniteSet(T \ {s}) /\ Cardinality(T \ {s}) < Cardinality(S)
  <2>1. /\ IsFiniteSet(T \ {s})
        /\ Cardinality(T \ {s}) = IF s \in T THEN Cardinality(T) - 1 ELSE Cardinality(T)
    BY <1>4, FS_RemoveElement
  <2>2. Cardinality(T) \in Nat  BY <1>4, FS_CardinalityType
  <2> QED  BY <1>4, <1>6, <2>1, <2>2
<1>10. \E i, j \in S : i # j /\ f[i] = f[j]
  BY <1>4, <1>8, <1>9, FS_PigeonHole
<1> QED  BY <1>3, <1>10

\* The rows before node t + 1 are those before t, and the row of t.
LEMMA AheadOfNext ==
  ASSUME NEW es \in Seq(Edge), NEW t \in Nat
  PROVE  Cardinality(Ahead(es, t + 1, 0)) =
           Cardinality(Ahead(es, t, 0)) + Cardinality(Hits(es, Len(es), t))
<1> DEFINE A == Ahead(es, t, 0)
           H == Hits(es, Len(es), t)
<1>1. \A j \in 1..Len(es) : es[j].tgt \in Nat
  BY EdgeFields
<1>2. Ahead(es, t + 1, 0) = A \cup H  BY <1>1 DEF Ahead, Hits
<1>3. A \cap H = {}  BY <1>1 DEF Ahead, Hits
<1>4. IsFiniteSet(A) /\ Cardinality(A) \in Nat  BY AheadFinite
<1>5. IsFiniteSet(H) /\ Cardinality(H) \in Nat
  <2>1. H \in SUBSET (1..Len(es)) /\ Len(es) \in Nat  BY DEF Hits
  <2> QED  BY <2>1, IntervalFinite
<1> HIDE DEF A, H
<1>6. Cardinality(A \cup H) = Cardinality(A) + Cardinality(H) - Cardinality(A \cap H)
  BY <1>4, <1>5, FS_Union
<1>7. Cardinality(A \cap H) = 0  BY <1>3, FS_EmptySet
<1>8. Cardinality(A \cup H) = Cardinality(A) + Cardinality(H)
  BY <1>4, <1>5, <1>6, <1>7
<1> QED  BY <1>2, <1>8 DEF A, H

LEMMA AheadOfFirst == ASSUME NEW es \in Seq(Edge) PROVE Cardinality(Ahead(es, 0, 0)) = 0
<1>1. \A j \in 1..Len(es) : es[j].tgt \in Nat
  BY EdgeFields
<1>2. Ahead(es, 0, 0) = {}  BY <1>1 DEF Ahead
<1> QED  BY <1>2, FS_EmptySet

LEMMA HitsNone == ASSUME NEW es, NEW t PROVE Cardinality(Hits(es, 0, t)) = 0
<1>1. Hits(es, 0, t) = {}  BY DEF Hits
<1> QED  BY <1>1, FS_EmptySet

LEMMA HitsStep ==
  ASSUME NEW es, NEW k \in Nat, NEW t
  PROVE  Cardinality(Hits(es, k + 1, t)) =
           IF es[k + 1].tgt = t THEN Cardinality(Hits(es, k, t)) + 1
           ELSE Cardinality(Hits(es, k, t))
<1>1. CASE es[k + 1].tgt = t
  <2>1. Hits(es, k + 1, t) = Hits(es, k, t) \cup {k + 1}  BY <1>1 DEF Hits
  <2>2. k + 1 \notin Hits(es, k, t)  BY DEF Hits
  <2>3. IsFiniteSet(Hits(es, k, t))
    <3>1. Hits(es, k, t) \in SUBSET (1..k)  BY DEF Hits
    <3> QED  BY <3>1, IntervalFinite
  <2> QED  BY <1>1, <2>1, <2>2, <2>3, FS_AddElement
<1>2. CASE es[k + 1].tgt # t
  <2>1. Hits(es, k + 1, t) = Hits(es, k, t)  BY <1>2 DEF Hits
  <2> QED  BY <1>2, <2>1
<1> QED  BY <1>1, <1>2

-----------------------------------------------------------------------------
(* The reverse layout: what has been counted, summed and placed. *)

Counted(k) ==
  /\ DOMAIN counts = Nodes
  /\ \A n \in Nodes : counts[n] = Cardinality(Hits(edges, k, n))

Summed ==
  /\ revOffsets \in Seq(Nat) /\ Len(revOffsets) = next + 1
  /\ \A n \in 0..next : revOffsets[n + 1] = Cardinality(Ahead(edges, n, 0))

Unwritten == slots = [s \in 0..(Len(edges) - 1) |-> Uninit]

\* The slots written are those of the first k edges.
Written(k) ==
  /\ DOMAIN slots = 0..(Len(edges) - 1)
  /\ \A s \in 0..(Len(edges) - 1) : slots[s] # Uninit <=> \E i \in 1..k : s = SlotFor(edges, i)

TargetsInRange(k) == \A i \in 1..k : edges[i].tgt \in Nodes

AllWritten == \A s \in 0..(Len(edges) - 1) : slots[s] # Uninit

RevInv ==
  /\ phase \in {"sort", "forward"} => counts = [n \in Nodes |-> 0] /\ revOffsets = <<0>> /\ Unwritten
  /\ phase = "count" =>
       next <= Len(edges) /\ TargetsInRange(next) /\ Counted(next) /\ revOffsets = <<0>> /\ Unwritten
  /\ phase = "prefix" => next <= node_count /\ Counted(Len(edges)) /\ Summed /\ Unwritten
  /\ phase = "place" =>
       /\ next <= Len(edges) /\ Written(next)
       /\ DOMAIN writePos = 0..node_count
       /\ \A n \in Nodes : writePos[n] = Cardinality(Ahead(edges, n, next))
  /\ phase \notin {"sort", "forward", "count", "panicked"} => TargetsInRange(Len(edges))
  /\ phase \in IndexPhases \cup {"done"} => AllWritten
  /\ phase = "done" => frozen.rev_edges = slots /\ frozen.forward_edges = forward

LEMMA InitRev == Init => RevInv
  BY DEF Init, CsrInit, RevInv, Unwritten, IndexPhases

LEMMA SortRev == ASSUME FwdInv, RevInv, SortEdges PROVE RevInv'
<1>1. Len(edges') = Len(edges)  BY SortFwd
<1>2. /\ phase = "sort" /\ phase' = "forward"
      /\ UNCHANGED <<columns, counts, revOffsets, slots>>
  BY DEF SortEdges, revVars
<1> QED  BY <1>1, <1>2 DEF RevInv, Unwritten, Nodes, node_count, IndexPhases

LEMMA ForwardRev == ASSUME FwdInv, RevInv, ForwardStep PROVE RevInv'
<1>1. CASE SkipToSource \/ PushForward \/ CloseRows
  <2>1. /\ phase = "forward" /\ phase' = phase
        /\ UNCHANGED <<columns, edges, counts, revOffsets, slots>>
    BY <1>1
    DEF SkipToSource, PushForward, CloseRows, AdvanceNode, PushEdge, Over, Past, revVars
  <2> QED  BY <2>1 DEF RevInv, Unwritten, Nodes, node_count, IndexPhases
<1>2. CASE ForwardDone
  <2>1. /\ phase = "forward" /\ phase' = "count" /\ next' = 0
        /\ UNCHANGED <<columns, edges, counts, revOffsets, slots>>
    BY <1>2 DEF ForwardDone, Past, Enter, csrVars, revVars
  <2>2. counts = [n \in Nodes |-> 0] /\ revOffsets = <<0>> /\ Unwritten
    BY <2>1 DEF RevInv
  <2>3. Nodes' = Nodes /\ Unwritten'  BY <2>1, <2>2 DEF Nodes, node_count, Unwritten
  <2>4. Counted(0)  BY <2>2, HitsNone DEF Counted
  <2>5. Counted(next)'  BY <2>1, <2>3, <2>4 DEF Counted
  <2>6. TargetsInRange(next)'  BY <2>1 DEF TargetsInRange
  <2>7. next' <= Len(edges')  BY <2>1 DEF FwdInv, BaseInv
  <2> QED  BY <2>1, <2>2, <2>3, <2>5, <2>6, <2>7 DEF RevInv, IndexPhases
<1> QED  BY <1>1, <1>2 DEF ForwardStep

LEMMA CountRev == ASSUME FwdInv, RevInv, CountIncoming PROVE RevInv'
<1>1. /\ phase = "count" /\ next < Len(edges) /\ Here.tgt < node_count
      /\ counts' = [counts EXCEPT ![Here.tgt] = @ + 1] /\ next' = next + 1
      /\ UNCHANGED <<phase, columns, edges, revOffsets, slots>>
  BY DEF CountIncoming, Over
<1>2. /\ next \in Nat /\ Len(edges) \in Nat /\ edges \in Seq(Edge)
      /\ TargetsInRange(next) /\ Counted(next) /\ revOffsets = <<0>> /\ Unwritten
  BY <1>1 DEF FwdInv, BaseInv, RevInv
<1>3. next + 1 \in 1..Len(edges) /\ Here = edges[next + 1] /\ Here.tgt \in Nat
  BY <1>1, <1>2, EdgeFields DEF Here
<1>4. node_count \in Nat  BY NodeCountType DEF FwdInv, BaseInv
<1>5. Here.tgt \in Nodes  BY <1>1, <1>3, <1>4 DEF Nodes
<1>6. TargetsInRange(next + 1)  BY <1>2, <1>3, <1>5 DEF TargetsInRange
<1>7. \A n \in Nodes : counts'[n] = Cardinality(Hits(edges, next + 1, n))
  <2> SUFFICES ASSUME NEW n \in Nodes
               PROVE  counts'[n] = Cardinality(Hits(edges, next + 1, n))
    OBVIOUS
  <2>1. /\ DOMAIN counts = Nodes /\ counts[n] = Cardinality(Hits(edges, next, n))
    BY <1>2 DEF Counted
  <2>2. counts'[n] = IF n = Here.tgt THEN counts[n] + 1 ELSE counts[n]
    BY <1>1, <1>5, <2>1
  <2>3. Cardinality(Hits(edges, next + 1, n)) =
          IF edges[next + 1].tgt = n THEN Cardinality(Hits(edges, next, n)) + 1
          ELSE Cardinality(Hits(edges, next, n))
    BY <1>2, HitsStep
  <2> QED  BY <1>3, <2>1, <2>2, <2>3
<1>8. DOMAIN counts' = Nodes  BY <1>1, <1>2 DEF Counted
<1>9. Nodes' = Nodes /\ node_count' = node_count  BY <1>1 DEF Nodes, node_count
<1>10. Counted(next)'  BY <1>1, <1>7, <1>8, <1>9 DEF Counted
<1>11. TargetsInRange(next)'  BY <1>1, <1>6, <1>9 DEF TargetsInRange
<1>12. Unwritten'  BY <1>1, <1>2 DEF Unwritten
<1> QED  BY <1>1, <1>2, <1>3, <1>10, <1>11, <1>12 DEF RevInv, IndexPhases

LEMMA CountDoneRev == ASSUME FwdInv, RevInv, CountDone PROVE RevInv'
<1>1. /\ phase = "count" /\ next = Len(edges) /\ phase' = "prefix" /\ next' = 0
      /\ UNCHANGED <<columns, edges, counts, revOffsets, slots>>
  BY DEF CountDone, Past, Enter, csrVars, revVars
<1>2. /\ edges \in Seq(Edge) /\ node_count \in Nat
      /\ TargetsInRange(Len(edges)) /\ Counted(Len(edges)) /\ revOffsets = <<0>> /\ Unwritten
  BY <1>1, NodeCountType DEF FwdInv, BaseInv, RevInv
<1>3. Nodes' = Nodes /\ node_count' = node_count  BY <1>1 DEF Nodes, node_count
<1>4. Summed'
  <2>1. <<0>> \in Seq(Nat) /\ Len(<<0>>) = 1 /\ <<0>>[1] = 0  OBVIOUS
  <2>2. Cardinality(Ahead(edges, 0, 0)) = 0  BY <1>2, AheadOfFirst
  <2>3. \A n \in 0..0 : n = 0  OBVIOUS
  <2>4. revOffsets' = <<0>> /\ next' = 0 /\ edges' = edges  BY <1>1, <1>2
  <2>5. \A n \in 0..next' : n = 0 /\ n + 1 = 1  BY <2>3, <2>4
  <2>6. Len(revOffsets') = next' + 1  BY <2>1, <2>4
  <2> QED  BY <2>1, <2>2, <2>4, <2>5, <2>6 DEF Summed
<1>5. Counted(Len(edges))' /\ TargetsInRange(Len(edges))' /\ Unwritten'
  BY <1>1, <1>2, <1>3 DEF Counted, TargetsInRange, Unwritten
<1> QED  BY <1>1, <1>2, <1>3, <1>4, <1>5 DEF RevInv, IndexPhases

LEMMA PrefixRev == ASSUME FwdInv, RevInv, PrefixSum PROVE RevInv'
<1>1. /\ phase = "prefix" /\ next < node_count
      /\ revOffsets' = Append(revOffsets, revOffsets[next + 1] + counts[next])
      /\ next' = next + 1
      /\ UNCHANGED <<phase, columns, edges, counts, slots>>
  BY DEF PrefixSum
<1>2. /\ edges \in Seq(Edge) /\ next \in Nat /\ node_count \in Nat
      /\ TargetsInRange(Len(edges)) /\ Counted(Len(edges)) /\ Summed /\ Unwritten
  BY <1>1, NodeCountType DEF FwdInv, BaseInv, RevInv
<1>3. Nodes' = Nodes /\ node_count' = node_count  BY <1>1 DEF Nodes, node_count
<1>4. revOffsets[next + 1] + counts[next] = Cardinality(Ahead(edges, next + 1, 0))
  <2>1. next \in Nodes /\ next \in 0..next  BY <1>1, <1>2 DEF Nodes
  <2> QED  BY <1>2, <2>1, AheadOfNext DEF Counted, Summed
<1>5. Cardinality(Ahead(edges, next + 1, 0)) \in Nat  BY <1>2, AheadFinite
<1>6. /\ revOffsets' \in Seq(Nat) /\ Len(revOffsets') = next + 2
      /\ \A i \in 1..(next + 1) : revOffsets'[i] = revOffsets[i]
      /\ revOffsets'[next + 2] = Cardinality(Ahead(edges, next + 1, 0))
  BY <1>1, <1>2, <1>4, <1>5, AppendFacts DEF Summed
<1>7. Summed'
  <2>1. \A n \in 0..(next + 1) : revOffsets'[n + 1] = Cardinality(Ahead(edges, n, 0))
    <3> SUFFICES ASSUME NEW n \in 0..(next + 1)
                 PROVE  revOffsets'[n + 1] = Cardinality(Ahead(edges, n, 0))
      OBVIOUS
    <3>1. CASE n \in 0..next
      <4>1. n + 1 \in 1..(next + 1)  BY <1>2, <3>1
      <4> QED  BY <1>2, <1>6, <3>1, <4>1 DEF Summed
    <3>2. CASE n = next + 1
      <4>1. n + 1 = next + 2  BY <1>2, <3>2
      <4> QED  BY <1>6, <3>2, <4>1
    <3> QED  BY <1>2, <3>1, <3>2
  <2>2. Len(revOffsets') = next' + 1  BY <1>1, <1>2, <1>6
  <2> QED  BY <1>1, <1>6, <2>1, <2>2 DEF Summed
<1>8. Counted(Len(edges))' /\ TargetsInRange(Len(edges))' /\ Unwritten'
  BY <1>1, <1>2, <1>3 DEF Counted, TargetsInRange, Unwritten
<1> QED  BY <1>1, <1>2, <1>3, <1>7, <1>8 DEF RevInv, IndexPhases

LEMMA PrefixDoneRev == ASSUME FwdInv, RevInv, PrefixDone PROVE RevInv'
<1>1. /\ phase = "prefix" /\ next = node_count /\ phase' = "place" /\ next' = 0
      /\ writePos' = [n \in 0..node_count |-> revOffsets[n + 1]]
      /\ UNCHANGED <<columns, edges, slots>>
  BY DEF PrefixDone, Enter, WriteStarts
<1>2. /\ Len(edges) \in Nat /\ node_count \in Nat
      /\ TargetsInRange(Len(edges)) /\ Summed /\ Unwritten
  BY <1>1, NodeCountType DEF FwdInv, BaseInv, RevInv
<1>3. Nodes' = Nodes /\ node_count' = node_count  BY <1>1 DEF Nodes, node_count
<1>4. \A n \in Nodes : writePos'[n] = Cardinality(Ahead(edges, n, 0))
  <2>1. \A n \in Nodes : n \in 0..node_count  BY <1>2 DEF Nodes
  <2> QED  BY <1>1, <1>2, <2>1 DEF Summed
<1>5. Written(next)'
  <2>1. DOMAIN slots = 0..(Len(edges) - 1) /\ \A s \in 0..(Len(edges) - 1) : slots[s] = Uninit
    BY <1>2 DEF Unwritten
  <2> QED  BY <1>1, <2>1 DEF Written
<1>6. TargetsInRange(Len(edges))'  BY <1>1, <1>2, <1>3 DEF TargetsInRange
<1>7. /\ next' <= Len(edges') /\ DOMAIN writePos' = 0..node_count'
      /\ \A n \in Nodes' : writePos'[n] = Cardinality(Ahead(edges', n, next'))
  <2>1. edges' = edges /\ next' = 0 /\ DOMAIN writePos' = 0..node_count  BY <1>1
  <2> QED  BY <1>2, <1>3, <1>4, <2>1
<1>8. /\ phase' = "place" /\ phase' # "done"
      /\ phase' \notin {"sort", "forward", "count", "prefix", "panicked"}
      /\ phase' \notin IndexPhases \cup {"done"}
  BY <1>1 DEF IndexPhases
<1> QED  BY <1>5, <1>6, <1>7, <1>8 DEF RevInv

\* What the unsafe write needs of the next edge.
LEMMA PlaceFresh ==
  ASSUME FwdInv, RevInv, Over("place")
  PROVE  /\ next \in Nat /\ edges \in Seq(Edge) /\ next + 1 \in 1..Len(edges)
         /\ Here = edges[next + 1] /\ Here.tgt \in Nodes
         /\ SlotOf(Here) = SlotFor(edges, next + 1)
         /\ SlotOf(Here) \in DOMAIN slots /\ slots[SlotOf(Here)] = Uninit
<1>1. phase = "place" /\ next < Len(edges)  BY DEF Over
<1>2. next \in Nat /\ edges \in Seq(Edge) /\ next + 1 \in 1..Len(edges) /\ Here = edges[next + 1]
  BY <1>1 DEF FwdInv, BaseInv, Here
<1>3. /\ TargetsInRange(Len(edges)) /\ Written(next)
      /\ \A n \in Nodes : writePos[n] = Cardinality(Ahead(edges, n, next))
  BY <1>1 DEF RevInv
<1>4. Here.tgt \in Nodes  BY <1>2, <1>3 DEF TargetsInRange
<1>5. SlotOf(Here) = SlotFor(edges, next + 1)
  <2>1. (next + 1) - 1 = next  BY <1>2
  <2> QED  BY <1>2, <1>3, <1>4, <2>1 DEF SlotOf, SlotFor
<1>6. SlotOf(Here) \in 0..(Len(edges) - 1)  BY <1>2, <1>5, SlotBound
<1>7. \A i \in 1..next : SlotFor(edges, i) # SlotOf(Here)
  <2>1. \A i \in 1..next : i \in 1..Len(edges) /\ i # next + 1  BY <1>2
  <2> QED  BY <1>2, <1>5, <2>1, SlotsDiffer
<1>8. SlotOf(Here) \in DOMAIN slots /\ slots[SlotOf(Here)] = Uninit
  BY <1>3, <1>6, <1>7 DEF Written
<1> QED  BY <1>2, <1>4, <1>5, <1>8

LEMMA PlaceRev == ASSUME FwdInv, RevInv, Place PROVE RevInv'
<1>1. /\ Over("place") /\ next' = next + 1
      /\ slots' = [slots EXCEPT ![SlotOf(Here)] = [node |-> Here.src, type |-> Here.type]]
      /\ writePos' = [writePos EXCEPT ![Here.tgt] = @ + 1]
      /\ UNCHANGED <<phase, columns, edges>>
  BY DEF Place, Advance
<1>2. phase = "place" /\ next < Len(edges)  BY <1>1 DEF Over
<1>3. /\ next \in Nat /\ edges \in Seq(Edge) /\ next + 1 \in 1..Len(edges)
      /\ Here = edges[next + 1] /\ Here.tgt \in Nodes
      /\ SlotOf(Here) = SlotFor(edges, next + 1)
      /\ SlotOf(Here) \in DOMAIN slots
  BY <1>1, PlaceFresh
<1>4. /\ TargetsInRange(Len(edges)) /\ Written(next) /\ DOMAIN writePos = 0..node_count
      /\ \A n \in Nodes : writePos[n] = Cardinality(Ahead(edges, n, next))
  BY <1>2 DEF RevInv
<1>5. node_count \in Nat  BY NodeCountType DEF FwdInv, BaseInv
<1>6. Nodes' = Nodes /\ node_count' = node_count  BY <1>1 DEF Nodes, node_count
<1>7. DOMAIN writePos' = 0..node_count  BY <1>1, <1>4
<1>8. \A n \in Nodes : writePos'[n] = Cardinality(Ahead(edges, n, next + 1))
  <2> SUFFICES ASSUME NEW n \in Nodes
               PROVE  writePos'[n] = Cardinality(Ahead(edges, n, next + 1))
    OBVIOUS
  <2>1. n \in 0..node_count /\ n \in Nat  BY <1>5 DEF Nodes
  <2>2. writePos'[n] = IF n = Here.tgt THEN writePos[n] + 1 ELSE writePos[n]
    BY <1>1, <1>4, <2>1
  <2>3. next + 1 <= Len(edges)  BY <1>2, <1>3
  <2>4. Cardinality(Ahead(edges, n, next + 1)) =
          IF edges[next + 1].tgt = n THEN Cardinality(Ahead(edges, n, next)) + 1
          ELSE Cardinality(Ahead(edges, n, next))
    BY <1>3, <2>1, <2>3, AheadStep
  <2> QED  BY <1>3, <1>4, <2>2, <2>4
<1>9. [node |-> Here.src, type |-> Here.type] # Uninit
  <2>1. Here \in Edge  BY <1>3, EdgeFields
  <2>2. [node |-> Here.src, type |-> Here.type] \in Entry  BY <2>1 DEF Edge, Entry
  <2> QED  BY <2>2, UninitAssumption
<1>10. Written(next)'
  <2>1. DOMAIN slots' = 0..(Len(edges) - 1)  BY <1>1, <1>4 DEF Written
  <2>2. \A s \in 0..(Len(edges) - 1) :
          slots'[s] # Uninit <=> s = SlotFor(edges, next + 1) \/ slots[s] # Uninit
    BY <1>1, <1>3, <1>4, <1>9 DEF Written
  <2>3. \A s : (\E i \in 1..(next + 1) : s = SlotFor(edges, i))
                 <=> s = SlotFor(edges, next + 1) \/ \E i \in 1..next : s = SlotFor(edges, i)
    <3>1. 1..(next + 1) = 1..next \cup {next + 1}  BY <1>3
    <3> QED  BY <3>1
  <2>4. \A s \in 0..(Len(edges) - 1) :
          slots'[s] # Uninit <=> \E i \in 1..(next + 1) : s = SlotFor(edges, i)
    BY <1>4, <2>2, <2>3 DEF Written
  <2> QED  BY <1>1, <2>1, <2>4 DEF Written
<1>11. TargetsInRange(Len(edges))'  BY <1>1, <1>4, <1>6 DEF TargetsInRange
<1>12. next' <= Len(edges')  BY <1>1, <1>3
<1>13. /\ phase' = "place" /\ \A n \in Nodes' : writePos'[n] = Cardinality(Ahead(edges', n, next'))
  BY <1>1, <1>2, <1>6, <1>8
<1>14. DOMAIN writePos' = 0..node_count'  BY <1>6, <1>7
<1> QED  BY <1>10, <1>11, <1>12, <1>13, <1>14 DEF RevInv, IndexPhases

LEMMA PlaceDoneRev == ASSUME FwdInv, RevInv, PlaceDone PROVE RevInv'
<1>1. /\ phase = "place" /\ next = Len(edges) /\ phase' = "labels"
      /\ UNCHANGED <<columns, edges, slots>>
  BY DEF PlaceDone, Past, Enter, csrVars, revVars
<1>2. edges \in Seq(Edge) /\ TargetsInRange(Len(edges)) /\ Written(Len(edges))
  BY <1>1 DEF FwdInv, BaseInv, RevInv
<1>3. AllWritten'
  <2>1. AllWritten  BY <1>2, SlotsCover DEF AllWritten, Written
  <2> QED  BY <1>1, <2>1 DEF AllWritten
<1>4. TargetsInRange(Len(edges))'  BY <1>1, <1>2 DEF TargetsInRange, Nodes, node_count
<1> QED  BY <1>1, <1>3, <1>4 DEF RevInv, IndexPhases

LEMMA ReverseRev == ASSUME FwdInv, RevInv, ReverseStep PROVE RevInv'
<1>1. CASE CountPanics
  <2>1. phase' = "panicked"  BY <1>1 DEF CountPanics
  <2> QED  BY <2>1 DEF RevInv, IndexPhases
<1> QED
  BY <1>1, CountRev, CountDoneRev, PrefixRev, PrefixDoneRev, PlaceRev, PlaceDoneRev
  DEF ReverseStep

LEMMA IndexRev == ASSUME FwdInv, RevInv, IndexStep, UNCHANGED csrVars PROVE RevInv'
<1>1. /\ phase \in IndexPhases /\ phase' \in IndexPhases \cup {"panicked"} /\ columns' = columns
  BY IndexPhase DEF FwdInv
<1>2. edges' = edges /\ slots' = slots  BY DEF csrVars, revVars
<1>3. AllWritten /\ TargetsInRange(Len(edges))  BY <1>1 DEF RevInv, IndexPhases
<1>4. AllWritten' /\ TargetsInRange(Len(edges))'
  BY <1>1, <1>2, <1>3 DEF AllWritten, TargetsInRange, Nodes, node_count
<1> QED  BY <1>1, <1>4 DEF RevInv, IndexPhases

LEMMA AssembleRev == ASSUME FwdInv, RevInv, Assemble PROVE RevInv'
<1>1. /\ phase = "group" /\ phase' = "done" /\ UNCHANGED <<columns, edges, slots, forward>>
      /\ frozen'.rev_edges = slots /\ frozen'.forward_edges = forward
  BY DEF Assemble, PastNodes, csrVars, revVars, fwdVars
<1>2. AllWritten /\ TargetsInRange(Len(edges))  BY <1>1 DEF RevInv, IndexPhases
<1>3. AllWritten' /\ TargetsInRange(Len(edges))'
  BY <1>1, <1>2 DEF AllWritten, TargetsInRange, Nodes, node_count
<1> QED  BY <1>1, <1>3 DEF RevInv, IndexPhases

LEMMA NextRev == ASSUME FwdInv, RevInv, [Next]_vars PROVE RevInv'
<1>1. CASE UNCHANGED vars
  BY <1>1
  DEF vars, csrVars, fwdVars, revVars, RevInv, Counted, Summed, Unwritten, Written, TargetsInRange,
      AllWritten, Nodes, node_count
<1> QED
  BY <1>1, SortRev, ForwardRev, ReverseRev, IndexRev, AssembleRev DEF Next, CsrStep

LEMMA AlwaysRev == Spec => [](FwdInv /\ RevInv)
<1>1. Init => FwdInv /\ RevInv  BY InitFwd, InitRev
<1>2. FwdInv /\ RevInv /\ [Next]_vars => (FwdInv /\ RevInv)'  BY NextFwd, NextRev
<1> QED  BY <1>1, <1>2, PTL DEF Spec

(* Freeze!SlotsWrittenOnce, for every graph: each unsafe write of             *)
(* build_reverse_csr is in range and to a slot not written before, and no     *)
(* slot is unwritten when the memory is reinterpreted.                        *)
THEOREM SlotsWrittenOnceHolds == Spec => []SlotsWrittenOnce
<1>1. FwdInv /\ RevInv => SlotsWrittenOnce
  <2> SUFFICES ASSUME FwdInv, RevInv PROVE SlotsWrittenOnce
    OBVIOUS
  <2>1. Over("place") => SlotOf(Here) \in DOMAIN slots /\ slots[SlotOf(Here)] = Uninit
    BY PlaceFresh
  <2>2. phase \in IndexPhases => \A s \in 0..(Len(edges) - 1) : slots[s] # Uninit
    BY DEF RevInv, AllWritten
  <2>3. Frozen => \A s \in 0..(edge_count(frozen) - 1) : frozen.rev_edges[s] # Uninit
    BY DEF RevInv, AllWritten, Frozen, edge_count, FwdInv, ProgressInv
  <2> QED  BY <2>1, <2>2, <2>3 DEF SlotsWrittenOnce
<1> QED  BY <1>1, AlwaysRev, PTL

(* Freeze!NoDanglingTarget, for every graph: freeze panics over a target that *)
(* names no node before it allocates the uninitialized memory.                *)
THEOREM NoDanglingTargetHolds == Spec => []NoDanglingTarget
<1>1. RevInv => NoDanglingTarget  BY DEF RevInv, TargetsInRange, NoDanglingTarget
<1> QED  BY <1>1, AlwaysRev, PTL

-----------------------------------------------------------------------------
(* The rows of the reverse layout: where each starts, and what is in it. *)

FromEntry(e) == [node |-> e.src, type |-> e.type]

\* Each of the first k edges is in its slot.
Filled(k) == \A i \in 1..k : slots[SlotFor(edges, i)] = FromEntry(edges[i])

RowStarts ==
  /\ Len(revOffsets) = node_count + 1
  /\ \A n \in 0..node_count : revOffsets[n + 1] = Cardinality(Ahead(edges, n, 0))

RowsPlacedInv ==
  /\ phase = "place" => RowStarts /\ Filled(next)
  /\ phase \in IndexPhases \cup {"done"} => RowStarts /\ Filled(Len(edges))
  /\ phase = "done" => frozen.rev_offsets = revOffsets

LEMMA InitRowsPlaced == Init => RowsPlacedInv
  BY DEF Init, CsrInit, RowsPlacedInv, IndexPhases

LEMMA PrefixDoneRows == ASSUME FwdInv, RevInv, PrefixDone PROVE RowsPlacedInv'
<1>1. /\ phase = "prefix" /\ next = node_count /\ phase' = "place" /\ next' = 0
      /\ UNCHANGED <<columns, edges, revOffsets, slots>>
  BY DEF PrefixDone, Enter
<1>2. RowStarts  BY <1>1 DEF RevInv, Summed, RowStarts
<1>3. RowStarts'  BY <1>1, <1>2 DEF RowStarts, node_count
<1>4. Filled(next)'  BY <1>1 DEF Filled
<1> QED  BY <1>1, <1>3, <1>4 DEF RowsPlacedInv, IndexPhases

LEMMA PlaceRows == ASSUME FwdInv, RevInv, RowsPlacedInv, Place PROVE RowsPlacedInv'
<1>1. /\ Over("place") /\ phase = "place" /\ next' = next + 1
      /\ slots' = [slots EXCEPT ![SlotOf(Here)] = FromEntry(Here)]
      /\ UNCHANGED <<phase, columns, edges, revOffsets>>
  BY DEF Place, Over, FromEntry
<1>2. /\ next \in Nat /\ edges \in Seq(Edge) /\ next + 1 \in 1..Len(edges)
      /\ Here = edges[next + 1] /\ SlotOf(Here) = SlotFor(edges, next + 1)
      /\ SlotOf(Here) \in DOMAIN slots
  BY <1>1, PlaceFresh
<1>3. Filled(next)'
  <2> SUFFICES ASSUME NEW i \in 1..(next + 1)
               PROVE  slots'[SlotFor(edges, i)] = FromEntry(edges[i])
    BY <1>1 DEF Filled
  <2>1. CASE i = next + 1  BY <1>1, <1>2, <2>1
  <2>2. CASE i # next + 1
    <3>1. i \in 1..next /\ i \in 1..Len(edges)  BY <1>2, <2>2
    <3>2. SlotFor(edges, i) # SlotFor(edges, next + 1)  BY <1>2, <2>2, <3>1, SlotsDiffer
    <3> QED  BY <1>1, <1>2, <3>1, <3>2 DEF RowsPlacedInv, Filled
  <2> QED  BY <2>1, <2>2
<1>4. RowStarts'  BY <1>1 DEF RowsPlacedInv, RowStarts, node_count
<1> QED  BY <1>1, <1>3, <1>4 DEF RowsPlacedInv, IndexPhases

LEMMA NextRowsPlaced ==
  ASSUME FwdInv, RevInv, RowsPlacedInv, [Next]_vars PROVE RowsPlacedInv'
<1>1. ASSUME UNCHANGED <<columns, edges, revOffsets, slots>>,
             \/ phase \in CsrPhases /\ phase' \in CsrPhases \ {"place"}
             \/ phase = "place" /\ phase' = "labels" /\ next = Len(edges)
             \/ phase \in IndexPhases /\ phase' \in IndexPhases
             \/ phase = "group" /\ phase' = "done" /\ frozen'.rev_offsets = revOffsets
             \/ phase' = "panicked"
      PROVE  RowsPlacedInv'
  BY <1>1 DEF RowsPlacedInv, RowStarts, Filled, node_count, IndexPhases, CsrPhases
<1>2. CASE SortEdges \/ ForwardStep
  <2>1. phase' \in {"forward", "count"}
    BY <1>2
    DEF SortEdges, ForwardStep, SkipToSource, PushForward, CloseRows, ForwardDone, AdvanceNode,
        PushEdge, Over, Past, Enter
  <2> QED  BY <2>1 DEF RowsPlacedInv, IndexPhases
<1>3. CASE ReverseStep
  <2>1. CASE CountIncoming \/ CountPanics \/ CountDone \/ PrefixSum
    <3>1. phase' \in {"count", "prefix", "panicked"}
      BY <2>1 DEF CountIncoming, CountPanics, CountDone, PrefixSum, Over, Past, Enter
    <3> QED  BY <3>1 DEF RowsPlacedInv, IndexPhases
  <2>2. CASE PlaceDone
    BY <1>1, <2>2 DEF PlaceDone, Past, Enter, csrVars, revVars
  <2> QED  BY <1>3, <2>1, <2>2, PrefixDoneRows, PlaceRows DEF ReverseStep
<1>4. CASE IndexStep /\ UNCHANGED csrVars
  BY <1>1, <1>4, IndexPhase DEF FwdInv, csrVars, revVars
<1>5. CASE Assemble
  BY <1>1, <1>5 DEF Assemble, PastNodes, csrVars, revVars
<1>6. CASE UNCHANGED vars
  BY <1>6
  DEF vars, csrVars, revVars, RowsPlacedInv, RowStarts, Filled, node_count
<1> QED  BY <1>2, <1>3, <1>4, <1>5, <1>6 DEF Next, CsrStep

\* Of the edges into t ahead of the next one, those among the first k.
LEMMA AheadSplit ==
  ASSUME NEW es \in Seq(Edge), NEW t \in Nat, NEW k \in Nat, k <= Len(es)
  PROVE  Cardinality(Ahead(es, t, k)) = Cardinality(Ahead(es, t, 0)) + Cardinality(Hits(es, k, t))
<1> DEFINE A == Ahead(es, t, 0)
           H == Hits(es, k, t)
<1>1. \A j \in 1..Len(es) : es[j].tgt \in Nat
  BY EdgeFields
<1>2. Ahead(es, t, k) = A \cup H  BY <1>1 DEF Ahead, Hits
<1>3. A \cap H = {}  BY <1>1 DEF Ahead, Hits
<1>4. IsFiniteSet(A) /\ Cardinality(A) \in Nat  BY AheadFinite
<1>5. IsFiniteSet(H) /\ Cardinality(H) \in Nat
  <2>1. H \in SUBSET (1..k)  BY DEF Hits
  <2> QED  BY <2>1, IntervalFinite
<1> HIDE DEF A, H
<1>6. Cardinality(A \cup H) = Cardinality(A) + Cardinality(H) - Cardinality(A \cap H)
  BY <1>4, <1>5, FS_Union
<1>7. Cardinality(A \cap H) = 0  BY <1>3, FS_EmptySet
<1> QED  BY <1>2, <1>4, <1>5, <1>6, <1>7 DEF A, H

\* The row of a node is as long as there are edges into it.
LEMMA ReverseRow ==
  ASSUME FwdInv, RevInv, RowsPlacedInv, phase = "done", NEW n \in Nodes
  PROVE  /\ revOffsets[n + 1] = Cardinality(Ahead(edges, n, 0))
         /\ revOffsets[n + 1] \in Nat /\ Cardinality(Incoming(n, Len(edges))) \in Nat
         /\ reverse_edges(frozen, n) =
              [i \in 1..Cardinality(Incoming(n, Len(edges))) |-> slots[revOffsets[n + 1] + i - 1]]
<1>1. RowStarts /\ frozen.rev_offsets = revOffsets /\ frozen.rev_edges = slots
  BY DEF RowsPlacedInv, RevInv
<1>2. edges \in Seq(Edge) /\ node_count \in Nat /\ Len(edges) \in Nat
  BY NodeCountType DEF FwdInv, BaseInv
<1>3. n \in Nat /\ n \in 0..node_count /\ n + 1 \in 0..node_count /\ (n + 1) + 1 = n + 2
  BY <1>2 DEF Nodes
<1>4. /\ revOffsets[n + 1] = Cardinality(Ahead(edges, n, 0))
      /\ revOffsets[n + 2] = Cardinality(Ahead(edges, n + 1, 0))
  BY <1>1, <1>3 DEF RowStarts
<1>5. Incoming(n, Len(edges)) = Hits(edges, Len(edges), n)  BY DEF Incoming, Hits
<1>6. Cardinality(Ahead(edges, n, 0)) \in Nat  BY <1>2, AheadFinite
<1>7. Cardinality(Hits(edges, Len(edges), n)) \in Nat
  <2>1. Hits(edges, Len(edges), n) \in SUBSET (1..Len(edges))  BY DEF Hits
  <2> QED  BY <1>2, <2>1, IntervalFinite
<1>8. revOffsets[n + 2] - revOffsets[n + 1] = Cardinality(Incoming(n, Len(edges)))
  BY <1>2, <1>3, <1>4, <1>5, <1>6, <1>7, AheadOfNext
<1> QED  BY <1>1, <1>4, <1>5, <1>6, <1>7, <1>8 DEF reverse_edges, reverse_edge_range

\* The edge that k edges into its target come before is at place k + 1 of the row.
LEMMA RowsExact == ASSUME FwdInv, RevInv, RowsPlacedInv PROVE ReverseRowsExact
<1> SUFFICES ASSUME phase = "done" PROVE ReverseRowsExact
  BY DEF ReverseRowsExact, Frozen
<1>1. /\ RowStarts /\ Filled(Len(edges)) /\ TargetsInRange(Len(edges))
      /\ frozen.rev_offsets = revOffsets /\ frozen.rev_edges = slots
  BY DEF RowsPlacedInv, RevInv
<1>2. edges \in Seq(Edge) /\ node_count \in Nat /\ Len(edges) \in Nat
  BY NodeCountType DEF FwdInv, BaseInv
<1>3. ASSUME NEW n \in Nodes
      PROVE  /\ n \in Nat
             /\ revOffsets[n + 1] = Cardinality(Ahead(edges, n, 0))
             /\ revOffsets[n + 1] \in Nat /\ Cardinality(Incoming(n, Len(edges))) \in Nat
  BY <1>2, <1>3, ReverseRow DEF Nodes
<1>4. ASSUME NEW n \in Nodes
      PROVE  /\ Len(reverse_edges(frozen, n)) = Cardinality(Incoming(n, Len(edges)))
             /\ \A i \in 1..Cardinality(Incoming(n, Len(edges))) :
                  reverse_edges(frozen, n)[i] = slots[revOffsets[n + 1] + i - 1]
  <2>1. reverse_edges(frozen, n) =
          [i \in 1..Cardinality(Incoming(n, Len(edges))) |-> slots[revOffsets[n + 1] + i - 1]]
    BY ReverseRow
  <2> QED  BY <1>3, <2>1
<1>5. ASSUME NEW i \in 1..Len(edges)
      PROVE  reverse_edges(frozen, edges[i].tgt)[Cardinality(Incoming(edges[i].tgt, i))]
               = [node |-> edges[i].src, type |-> edges[i].type]
  <2> DEFINE n == edges[i].tgt
             k == Cardinality(Incoming(n, i))
  <2>1. n \in Nodes /\ n \in Nat  BY <1>1, <1>3 DEF TargetsInRange
  <2>2. i - 1 \in Nat /\ i - 1 <= Len(edges) /\ (i - 1) + 1 = i  BY <1>2
  <2>3. Incoming(n, i) = Hits(edges, i, n)  BY DEF Incoming, Hits
  <2>4. k = Cardinality(Hits(edges, i - 1, n)) + 1  BY <2>2, <2>3, HitsStep
  <2>5. Cardinality(Hits(edges, i - 1, n)) \in Nat
    <3>1. Hits(edges, i - 1, n) \in SUBSET (1..(i - 1))  BY DEF Hits
    <3> QED  BY <2>2, <3>1, IntervalFinite
  <2>6. revOffsets[n + 1] + k - 1 = SlotFor(edges, i)
    <3>1. SlotFor(edges, i) = Cardinality(Ahead(edges, n, 0)) + Cardinality(Hits(edges, i - 1, n))
      BY <1>2, <2>1, <2>2, AheadSplit DEF SlotFor
    <3> QED  BY <1>3, <2>1, <2>4, <2>5, <3>1
  <2>7. k \in 1..Cardinality(Incoming(n, Len(edges)))
    <3>1. Incoming(n, i) \in SUBSET Incoming(n, Len(edges))  BY <1>2 DEF Incoming
    <3>2. Incoming(n, Len(edges)) \in SUBSET (1..Len(edges))  BY DEF Incoming
    <3>3. IsFiniteSet(Incoming(n, Len(edges)))  BY <1>2, <3>2, IntervalFinite
    <3>4. k <= Cardinality(Incoming(n, Len(edges)))  BY <3>1, <3>3, FS_Subset
    <3> QED  BY <1>3, <2>1, <2>4, <2>5, <3>4
  <2> HIDE DEF n, k
  <2>8. reverse_edges(frozen, n)[k] = slots[SlotFor(edges, i)]
    BY <1>4, <2>1, <2>6, <2>7
  <2> QED  BY <1>1, <2>8 DEF Filled, FromEntry, n, k
<1> QED  BY <1>4, <1>5 DEF ReverseRowsExact

(* Freeze!ReverseRowsExact, for every graph: the reverse rows hold the        *)
(* sources and types of the edges into their node, each once and in the order *)
(* of the sorted edges.                                                       *)
THEOREM ReverseRowsHold == Spec => []ReverseRowsExact
<1>1. RowsPlacedInv /\ (FwdInv /\ RevInv) /\ [Next]_vars => RowsPlacedInv'  BY NextRowsPlaced
<1>2. FwdInv /\ RevInv /\ RowsPlacedInv => ReverseRowsExact  BY RowsExact
<1> QED  BY InitRowsPlaced, AlwaysRev, <1>1, <1>2, PTL DEF Spec
=============================================================================
