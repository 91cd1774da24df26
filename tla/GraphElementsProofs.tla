------------------------ MODULE GraphElementsProofs ------------------------
(****************************************************************************)
(* What the operations of GraphElements do to a graph of the right shape:   *)
(* they keep the shape, and those on edges leave the node lists and the id  *)
(* registries alone.  Loops over an edge list are folds, so the module      *)
(* starts with induction: over the natural numbers from the least           *)
(* counterexample, and from it over the rounds of a fold.                   *)
(****************************************************************************)
EXTENDS GraphElements, TLAPS, WellFoundedInduction, FiniteSetTheorems

-----------------------------------------------------------------------------
(* Induction *)

\* Every non-empty set of natural numbers has a least element.
LEMMA LeastIn ==
    ASSUME NEW T \in SUBSET Nat, T # {}
    PROVE  \E m \in T : \A k \in T : m <= k
<1> DEFINE R == {ss \in Nat \X Nat : ss[1] < ss[2]}
<1>1. IsWellFoundedOn(R, Nat)
  BY NatLessThanWellFounded DEF OpToRel
<1>2. \E m \in T : \A k \in T : <<k, m>> \notin R
  <2> HIDE DEF R
  <2> QED
    BY <1>1, WFMin
<1>3. PICK m \in T : \A k \in T : <<k, m>> \notin R
  BY <1>2
<1>4. \A k \in T : m <= k
  <2> TAKE k \in T
  <2>1. m \in Nat /\ k \in Nat
    OBVIOUS
  <2>2. <<k, m>>[1] = k /\ <<k, m>>[2] = m
    OBVIOUS
  <2>3. ~(k < m)
    BY <1>3, <2>1, <2>2
  <2> QED
    BY <2>1, <2>3
<1> QED
  BY <1>4

\* What Min returns.
LEMMA MinIn ==
    ASSUME NEW T \in SUBSET Nat, T # {}
    PROVE  Min(T) \in T /\ \A k \in T : Min(T) <= k
BY LeastIn DEF Min

\* What Max returns, for a set with a bound.
LEMMA MaxIn ==
    ASSUME NEW N \in Nat, NEW T \in SUBSET (1..N), T # {}
    PROVE  Max(T) \in T /\ \A k \in T : k <= Max(T)
<1> DEFINE D == {N - k : k \in T}
<1>1. D \in SUBSET Nat /\ D # {}
  <2>1. \A k \in T : N - k \in Nat
    OBVIOUS
  <2>2. PICK k \in T : TRUE
    OBVIOUS
  <2>3. N - k \in D
    BY <2>2
  <2> QED
    BY <2>1, <2>3
<1>2. PICK m \in D : \A k \in D : m <= k
  <2> HIDE DEF D
  <2> QED
    BY <1>1, LeastIn
<1>3. PICK x \in T : m = N - x
  OBVIOUS
<1>4. \A k \in T : N - x <= N - k
  BY <1>2, <1>3
<1>5. \A k \in T : x >= k
  BY <1>4
<1>6. Max(T) \in T /\ \A k \in T : Max(T) >= k
  BY <1>5 DEF Max
<1> QED
  BY <1>6

\* Induction over 0..N, for the values of a function.
LEMMA StaysIn ==
    ASSUME NEW V, NEW N \in Nat, NEW f, f[0] \in V,
           \A k \in 1..N : f[k - 1] \in V => f[k] \in V
    PROVE  \A k \in 0..N : f[k] \in V
<1> DEFINE T == {k \in 0..N : f[k] \notin V}
<1>1. SUFFICES ASSUME T # {} PROVE FALSE
  OBVIOUS
<1>2. PICK m \in T : \A k \in T : m <= k
  BY <1>1, LeastIn, T \in SUBSET Nat
<1>3. CASE m = 0
  BY <1>3
<1>4. CASE m # 0
  <2>1. m - 1 \in 0..N /\ m \in 1..N /\ m - 1 \notin T
    BY <1>2, <1>4
  <2> QED
    BY <2>1, <1>2
<1> QED
  BY <1>3, <1>4

\* Recursion over the subsets of 1..N by their greatest elements, the form in
\* which FoldLeft is defined.
Recurses(it, V, base, N, step) ==
    /\ it \in [SUBSET (1..N) -> V]
    /\ \A t \in SUBSET (1..N) :
          it[t] = IF t = {} THEN base ELSE step[Max(t)][it[t \ {Max(t)}]]

\* A function that satisfies the recursion exists.
LEMMA SubsetRecursion ==
    ASSUME NEW V, NEW base \in V, NEW N \in Nat, NEW step \in [1..N -> [V -> V]]
    PROVE  \E it : Recurses(it, V, base, N, step)
<1> USE DEF Recurses
<1> DEFINE Good(n) == \E it : Recurses(it, V, base, n, step)
           T == {n \in 0..N : ~Good(n)}
<1>1. SUFFICES ASSUME T # {} PROVE FALSE
  <2>1. Good(N)
    <3> HIDE DEF Good
    <3> QED
      BY <1>1
  <2> QED
    BY <2>1
<1>2. PICK m \in T : \A k \in T : m <= k
  <2>1. T \in SUBSET Nat
    OBVIOUS
  <2> HIDE DEF T
  <2> QED
    BY <1>1, <2>1, LeastIn
<1>3. m \in 0..N /\ ~Good(m)
  OBVIOUS
<1>4. CASE m = 0
  <2> DEFINE it == [t \in SUBSET (1..0) |-> base]
  <2>1. it \in [SUBSET (1..0) -> V] /\ \A t \in SUBSET (1..0) : t = {} /\ it[t] = base
    OBVIOUS
  <2>2. Good(0)
    BY <2>1
  <2> QED
    BY <1>3, <1>4, <2>2
<1>5. CASE m # 0
  <2>1. m - 1 \in 0..N /\ m \in 1..N /\ m - 1 \notin T
    <3>1. m - 1 \in 0..N /\ m \in 1..N /\ ~(m <= m - 1)
      BY <1>3, <1>5
    <3> HIDE DEF T
    <3> QED
      BY <3>1, <1>2
  <2>2. Good(m - 1)
    <3> HIDE DEF Good
    <3> QED
      BY <2>1
  <2>3. PICK it \in [SUBSET (1..m - 1) -> V] :
           \A t \in SUBSET (1..m - 1) :
              it[t] = IF t = {} THEN base ELSE step[Max(t)][it[t \ {Max(t)}]]
    BY <2>2
  <2> DEFINE at == [t \in SUBSET (1..m) |-> IF m \in t THEN step[m][it[t \ {m}]] ELSE it[t]]
  <2>4. \A t \in SUBSET (1..m) : t \ {m} \in SUBSET (1..m - 1)
    BY <2>1
  <2>5. \A t \in SUBSET (1..m) : m \notin t => t \in SUBSET (1..m - 1)
    BY <2>4
  <2>6. at \in [SUBSET (1..m) -> V]
    <3>1. step[m] \in [V -> V]
      BY <2>1
    <3>2. ASSUME NEW t \in SUBSET (1..m)
          PROVE  (IF m \in t THEN step[m][it[t \ {m}]] ELSE it[t]) \in V
      BY <2>4, <2>5, <3>1
    <3> QED
      BY <3>2
  <2>7. ASSUME NEW t \in SUBSET (1..m), t # {}
        PROVE  at[t] = step[Max(t)][at[t \ {Max(t)}]]
    <3>1. Max(t) \in t /\ \A k \in t : k <= Max(t)
      <4>1. m \in Nat
        BY <2>1
      <4> HIDE DEF T
      <4> QED
        BY <4>1, <2>7, MaxIn
    <3>2. CASE m \in t
      <4>1. Max(t) = m
        <5>1. Max(t) \in 1..m /\ m <= Max(t)
          BY <3>1, <3>2
        <5> QED
          BY <5>1, <2>1
      <4>2. at[t] = step[m][it[t \ {m}]]
        BY <3>2
      <4>3. t \ {m} \in SUBSET (1..m) /\ m \notin t \ {m}
        OBVIOUS
      <4>4. at[t \ {m}] = it[t \ {m}]
        BY <4>3
      <4> HIDE DEF at
      <4> QED
        BY <4>1, <4>2, <4>4
    <3>3. CASE m \notin t
      <4>1. t \in SUBSET (1..m - 1) /\ t \ {Max(t)} \in SUBSET (1..m)
        BY <3>3, <2>5
      <4>2. at[t] = it[t] /\ at[t \ {Max(t)}] = it[t \ {Max(t)}]
        BY <3>3, <4>1
      <4>3. it[t] = step[Max(t)][it[t \ {Max(t)}]]
        BY <2>3, <2>7, <4>1
      <4> HIDE DEF at
      <4> QED
        BY <4>2, <4>3
    <3> QED
      BY <3>2, <3>3
  <2>8. at[{}] = base
    BY <2>3
  <2>9. Good(m)
    <3>1. \A t \in SUBSET (1..m) :
             at[t] = IF t = {} THEN base ELSE step[Max(t)][at[t \ {Max(t)}]]
      BY <2>7, <2>8
    <3> HIDE DEF at
    <3> QED
      BY <2>6, <3>1
  <2> QED
    BY <1>3, <2>9
<1> QED
  BY <1>4, <1>5
-----------------------------------------------------------------------------
(* Sequences *)

\* SelectInSeq finds the first place that holds e.
LEMMA FirstPlace ==
    ASSUME NEW S, NEW s \in Seq(S), NEW e, \E i \in 1..Len(s) : s[i] = e
    PROVE  LET d == SelectInSeq(s, LAMBDA v : v = e)
           IN  d \in 1..Len(s) /\ s[d] = e /\ \A i \in 1..d - 1 : s[i] # e
<1> DEFINE I == {i \in 1..Len(s) : s[i] = e}
<1>1. I \in SUBSET Nat /\ I # {}
  OBVIOUS
<1>2. Min(I) \in I /\ \A i \in I : Min(I) <= i
  <2> HIDE DEF I
  <2> QED
    BY <1>1, MinIn
<1>3. SelectInSeq(s, LAMBDA v : v = e) = Min(I)
  BY <1>1 DEF SelectInSeq
<1> DEFINE d == SelectInSeq(s, LAMBDA v : v = e)
<1>4. d \in I /\ \A i \in I : d <= i
  <2> HIDE DEF I
  <2> QED
    BY <1>2, <1>3
<1> HIDE DEF d
<1>5. d \in 1..Len(s) /\ s[d] = e
  BY <1>4
<1>6. \A i \in 1..d - 1 : s[i] # e
  <2> TAKE i \in 1..d - 1
  <2>1. i \in 1..Len(s) /\ ~(d <= i)
    BY <1>5
  <2> QED
    BY <1>4, <2>1
<1> QED
  BY <1>5, <1>6 DEF d

\* Vector.removeElement: the elements before the first e stay, those behind it
\* move up, and nothing happens if there is none.
LEMMA RemoveFirstProperties ==
    ASSUME NEW S, NEW s \in Seq(S), NEW e
    PROVE  /\ RemoveFirst(s, e) \in Seq(S)
           /\ ~Contains(s, e) => RemoveFirst(s, e) = s
           /\ Contains(s, e) =>
                \E d \in 1..Len(s) :
                   /\ s[d] = e /\ \A i \in 1..d - 1 : s[i] # e
                   /\ Len(RemoveFirst(s, e)) = Len(s) - 1
                   /\ \A i \in 1..Len(s) - 1 :
                         RemoveFirst(s, e)[i] = IF i < d THEN s[i] ELSE s[i + 1]
<1>1. CASE ~Contains(s, e)
  BY <1>1 DEF Contains, RemoveFirst
<1>2. CASE Contains(s, e)
  <2> DEFINE d == SelectInSeq(s, LAMBDA v : v = e)
  <2>1. d \in 1..Len(s) /\ s[d] = e /\ \A i \in 1..d - 1 : s[i] # e
    BY <1>2, FirstPlace DEF Contains
  <2>2. RemoveFirst(s, e) = SubSeq(s, 1, d - 1) \o SubSeq(s, d + 1, Len(s))
    BY <1>2 DEF Contains, RemoveFirst, RemoveAt
  <2> HIDE DEF d
  <2> DEFINE a == SubSeq(s, 1, d - 1)
             b == SubSeq(s, d + 1, Len(s))
  <2>3. a \in Seq(S) /\ Len(a) = d - 1 /\ \A i \in 1..d - 1 : a[i] = s[i]
    BY <2>1
  <2>4. b \in Seq(S) /\ Len(b) = Len(s) - d /\ \A i \in 1..Len(s) - d : b[i] = s[d + i]
    BY <2>1
  <2> HIDE DEF a, b
  <2>5. a \o b \in Seq(S) /\ Len(a \o b) = Len(s) - 1
    BY <2>1, <2>3, <2>4
  <2>6. ASSUME NEW i \in 1..Len(s) - 1
        PROVE  (a \o b)[i] = IF i < d THEN s[i] ELSE s[i + 1]
    <3>1. CASE i < d
      BY <2>1, <2>3, <2>4, <3>1
    <3>2. CASE ~(i < d)
      <4>1. i - (d - 1) \in 1..Len(s) - d /\ d + (i - (d - 1)) = i + 1
        BY <2>1, <3>2
      <4>2. (a \o b)[i] = b[i - (d - 1)]
        BY <2>1, <2>3, <2>4, <3>2
      <4>3. b[i - (d - 1)] = s[d + (i - (d - 1))]
        BY <2>4, <4>1
      <4> QED
        BY <3>2, <4>1, <4>2, <4>3
    <3> QED
      BY <3>1, <3>2
  <2>7. RemoveFirst(s, e) = a \o b
    BY <2>2 DEF a, b
  <2> QED
    BY <1>2, <2>1, <2>5, <2>6, <2>7
<1> QED
  BY <1>1, <1>2

\* What is left after removeElement was there before, and only e can be gone.
LEMMA RemoveFirstRange ==
    ASSUME NEW S, NEW s \in Seq(S), NEW e
    PROVE  /\ ToSet(RemoveFirst(s, e)) \subseteq ToSet(s)
           /\ ToSet(s) \ {e} \subseteq ToSet(RemoveFirst(s, e))
           /\ Len(RemoveFirst(s, e)) \in {Len(s), Len(s) - 1}
<1>1. CASE ~Contains(s, e)
  BY <1>1, RemoveFirstProperties DEF ToSet
<1>2. CASE Contains(s, e)
  <2> DEFINE r == RemoveFirst(s, e)
  <2>1. PICK d \in 1..Len(s) :
           /\ s[d] = e /\ \A i \in 1..d - 1 : s[i] # e
           /\ Len(r) = Len(s) - 1
           /\ \A i \in 1..Len(s) - 1 : r[i] = IF i < d THEN s[i] ELSE s[i + 1]
    BY <1>2, RemoveFirstProperties
  <2>2. r \in Seq(S)
    BY RemoveFirstProperties
  <2> HIDE DEF r
  <2>3. DOMAIN s = 1..Len(s) /\ DOMAIN r = 1..Len(s) - 1
    BY <2>1, <2>2
  <2>4. \A i \in DOMAIN r : \E j \in DOMAIN s : r[i] = s[j]
    <3> TAKE i \in DOMAIN r
    <3>1. i \in 1..Len(s) - 1 /\ i \in DOMAIN s /\ i + 1 \in DOMAIN s
      BY <2>3
    <3> QED
      BY <2>1, <3>1
  <2>5. \A j \in DOMAIN s : s[j] # e => \E i \in DOMAIN r : r[i] = s[j]
    <3>1. SUFFICES ASSUME NEW j \in DOMAIN s, s[j] # e
                   PROVE  \E i \in DOMAIN r : r[i] = s[j]
      OBVIOUS
    <3>2. CASE j < d
      BY <2>1, <2>3, <3>2
    <3>3. CASE ~(j < d)
      <4>1. j # d /\ j - 1 \in DOMAIN r /\ ~(j - 1 < d) /\ (j - 1) + 1 = j
        BY <2>1, <2>3, <3>1, <3>3
      <4> QED
        BY <2>1, <2>3, <4>1
    <3> QED
      BY <3>2, <3>3
  <2>6. ToSet(r) \subseteq ToSet(s) /\ ToSet(s) \ {e} \subseteq ToSet(r)
    BY <2>4, <2>5 DEF ToSet
  <2>7. Len(r) = Len(s) - 1
    BY <2>1
  <2> QED
    BY <2>6, <2>7 DEF r
<1> QED
  BY <1>1, <1>2
-----------------------------------------------------------------------------
(* The shape of a graph *)

EltSets(E) == [nodes : Seq(NodeObjs), edges : Seq(E), reg : [Ids -> NodeObjs \cup {NoNode}]]

Graph == [complete : EltSets(EdgeObjs), visible : EltSets(EdgeObjs \cup {NullEdge}),
          adj : [NodeObjs -> Seq(EdgeObjs)], part : [NodeObjs -> SUBSET NodeObjs],
          hidden : SUBSET EdgeObjs]

\* The ends of an edge, and the ID of a node.
LEMMA Parts ==
    /\ \A e \in EdgeObjs : e.from \in NodeObjs /\ e.to \in NodeObjs /\ e # NullEdge
    /\ \A n \in NodeObjs : n[1] \in Ids /\ n # NoNode
BY GraphAssumption DEF EdgeObjs, NodeObjs

\* The graph TGPanel starts with has the shape.
LEMMA EmptyGraphShape == EmptySet \in EltSets({}) /\ EmptyGraph \in Graph
<1>1. \A E : EmptySet \in EltSets(E)
  BY DEF EmptySet, EltSets
<1>2. [n \in NodeObjs |-> <<>>] \in [NodeObjs -> Seq(EdgeObjs)]
  OBVIOUS
<1>3. [n \in NodeObjs |-> {}] \in [NodeObjs -> SUBSET NodeObjs]
  OBVIOUS
<1> QED
  BY <1>1, <1>2, <1>3 DEF EmptyGraph, Graph

\* The operations on an element set.
LEMMA SetOperations ==
    ASSUME NEW E, NEW set \in EltSets(E), NEW n \in NodeObjs, NEW e
    PROVE  /\ SetAddNode(set, n) \in EltSets(E)
           /\ SetRemoveNode(set, n) \in EltSets(E)
           /\ e \in E => SetAddEdge(set, e) \in EltSets(E)
           /\ SetRemoveEdge(set, e) \in EltSets(E)
<1>1. set.nodes \in Seq(NodeObjs) /\ set.edges \in Seq(E) /\ set.reg \in [Ids -> NodeObjs \cup {NoNode}]
  BY DEF EltSets
<1>2. Append(set.nodes, n) \in Seq(NodeObjs) /\ [set.reg EXCEPT ![n[1]] = n] \in [Ids -> NodeObjs \cup {NoNode}]
  <2>1. Append(set.nodes, n) \in Seq(NodeObjs)
    BY <1>1
  <2>2. [set.reg EXCEPT ![n[1]] = n] \in [Ids -> NodeObjs \cup {NoNode}]
    BY <1>1
  <2> QED
    BY <2>1, <2>2
<1>3. RemoveFirst(set.nodes, n) \in Seq(NodeObjs) /\ [set.reg EXCEPT ![n[1]] = NoNode] \in [Ids -> NodeObjs \cup {NoNode}]
  BY <1>1, RemoveFirstProperties
<1>4. RemoveFirst(set.edges, e) \in Seq(E) /\ (e \in E => Append(set.edges, e) \in Seq(E))
  BY <1>1, RemoveFirstProperties
<1>5. SetAddNode(set, n) \in EltSets(E)
  BY <1>1, <1>2 DEF EltSets, SetAddNode
<1>6. SetRemoveNode(set, n) \in EltSets(E)
  BY <1>1, <1>3 DEF EltSets, SetRemoveNode
<1>7. SetRemoveEdge(set, e) \in EltSets(E) /\ (e \in E => SetAddEdge(set, e) \in EltSets(E))
  BY <1>1, <1>4 DEF EltSets, SetRemoveEdge, SetAddEdge
<1> QED
  BY <1>5, <1>6, <1>7

\* What a graph keeps in the steps that only touch edge lists of nodes.
SameSets(g, h) == h.complete = g.complete /\ h.visible = g.visible /\ h.hidden = g.hidden

\* A new part_id changes nothing but the partitions.
LEMMA NewPartShape ==
    ASSUME NEW g \in Graph, NEW n \in NodeObjs
    PROVE  NewPart(g, n) \in Graph /\ SameSets(g, NewPart(g, n)) /\ NewPart(g, n).adj = g.adj
<1> DEFINE p == [m \in NodeObjs |-> IF m = n THEN {n} ELSE g.part[m] \ {n}]
<1>1. p \in [NodeObjs -> SUBSET NodeObjs]
  BY DEF Graph
<1>2. NewPart(g, n) = [g EXCEPT !.part = p]
  BY DEF NewPart
<1> HIDE DEF p
<1> QED
  BY <1>1, <1>2 DEF Graph, SameSets

\* Node.removeEdge takes the edge from the list of the one node.
LEMMA NodeRemoveEdgeShape ==
    ASSUME NEW g \in Graph, NEW n \in NodeObjs, NEW e
    PROVE  /\ NodeRemoveEdge(g, n, e) \in Graph /\ SameSets(g, NodeRemoveEdge(g, n, e))
           /\ \A m \in NodeObjs : NodeRemoveEdge(g, n, e).adj[m] =
                  IF m = n THEN RemoveFirst(g.adj[m], e) ELSE g.adj[m]
<1> DEFINE h == IF Len(g.adj[n]) = 1 THEN NewPart(g, n) ELSE g
<1>1. h \in Graph /\ SameSets(g, h) /\ h.adj = g.adj
  BY NewPartShape DEF SameSets
<1>2. NodeRemoveEdge(g, n, e) = [h EXCEPT !.adj[n] = RemoveFirst(@, e)]
  BY DEF NodeRemoveEdge
<1> HIDE DEF h
<1>3. h.adj \in [NodeObjs -> Seq(EdgeObjs)] /\ h.adj[n] \in Seq(EdgeObjs)
  BY <1>1 DEF Graph
<1>4. RemoveFirst(h.adj[n], e) \in Seq(EdgeObjs)
  BY <1>3, RemoveFirstProperties
<1>5. [h.adj EXCEPT ![n] = RemoveFirst(@, e)] \in [NodeObjs -> Seq(EdgeObjs)]
  BY <1>3, <1>4
<1>6. NodeRemoveEdge(g, n, e).adj = [h.adj EXCEPT ![n] = RemoveFirst(@, e)]
  BY <1>1, <1>2 DEF Graph
<1>7. NodeRemoveEdge(g, n, e) \in Graph
  BY <1>1, <1>2, <1>5, <1>6 DEF Graph
<1>8. SameSets(h, NodeRemoveEdge(g, n, e))
  BY <1>1, <1>2 DEF Graph, SameSets
<1>9. \A m \in NodeObjs : NodeRemoveEdge(g, n, e).adj[m] =
                           IF m = n THEN RemoveFirst(g.adj[m], e) ELSE g.adj[m]
  BY <1>1, <1>3, <1>6
<1> QED
  BY <1>1, <1>7, <1>8, <1>9 DEF SameSets

\* Node.addEdge appends to the list of the one node.
LEMMA NodeAddEdgeShape ==
    ASSUME NEW g \in Graph, NEW n \in NodeObjs, NEW e \in EdgeObjs
    PROVE  /\ NodeAddEdge(g, n, e) \in Graph /\ SameSets(g, NodeAddEdge(g, n, e))
           /\ \A m \in NodeObjs : NodeAddEdge(g, n, e).adj[m] =
                  IF m = n THEN Append(g.adj[m], e) ELSE g.adj[m]
<1> DEFINE list  == Append(g.adj[n], e)
           I     == {i \in 1..Len(list) : list[i] \notin g.hidden}
           first == SelectInSeq(list, LAMBDA x : x \notin g.hidden)
           near  == Ends(ToSet(list) \ g.hidden)
           class == IF first = 0 THEN {} ELSE near \cup g.part[list[first].from]
           p     == [m \in NodeObjs |-> IF m \in class THEN class ELSE g.part[m] \ near]
<1>1. g.adj \in [NodeObjs -> Seq(EdgeObjs)] /\ g.part \in [NodeObjs -> SUBSET NodeObjs]
  BY DEF Graph
<1>2. list \in Seq(EdgeObjs)
  BY <1>1
<1>3. NodeAddEdge(g, n, e) = [g EXCEPT !.adj[n] = list, !.part = p]
  BY DEF NodeAddEdge
<1> HIDE DEF list
<1>4. near \subseteq NodeObjs
  BY <1>2, Parts DEF Ends, ToSet
<1>5. first = 0 \/ first \in 1..Len(list)
  <2>1. CASE I = {}
    BY <2>1 DEF SelectInSeq
  <2>2. CASE I # {}
    <3>1. first = Min(I) /\ I \in SUBSET Nat
      BY <2>2 DEF SelectInSeq
    <3> HIDE DEF first, near, class, p
    <3>2. Min(I) \in I
      <4> HIDE DEF I
      <4> QED
        BY <2>2, <3>1, MinIn
    <3> QED
      BY <3>1, <3>2
  <2> QED
    BY <2>1, <2>2
<1> HIDE DEF first, near
<1>6. class \subseteq NodeObjs
  BY <1>1, <1>2, <1>4, <1>5, Parts
<1> HIDE DEF class
<1>7. p \in [NodeObjs -> SUBSET NodeObjs]
  BY <1>1, <1>6
<1> HIDE DEF p
<1>8. [g.adj EXCEPT ![n] = list] \in [NodeObjs -> Seq(EdgeObjs)]
  BY <1>1, <1>2
<1>9. NodeAddEdge(g, n, e).adj = [g.adj EXCEPT ![n] = list]
  BY <1>3 DEF Graph
<1>10. NodeAddEdge(g, n, e) \in Graph /\ SameSets(g, NodeAddEdge(g, n, e))
  BY <1>3, <1>7, <1>8, <1>9 DEF Graph, SameSets
<1>11. \A m \in NodeObjs : NodeAddEdge(g, n, e).adj[m] =
                            IF m = n THEN Append(g.adj[m], e) ELSE g.adj[m]
  BY <1>1, <1>9 DEF list
<1> QED
  BY <1>10, <1>11
-----------------------------------------------------------------------------
(* Operations on edges *)

\* The operations on edges leave the nodes of both sets alone.
SameNodes(g, h) ==
    /\ h.complete.nodes = g.complete.nodes /\ h.complete.reg = g.complete.reg
    /\ h.visible.nodes = g.visible.nodes /\ h.visible.reg = g.visible.reg

\* Deleting takes edges from the lists of nodes and adds none.
FewerListed(g, h) == \A n \in NodeObjs : ToSet(h.adj[n]) \subseteq ToSet(g.adj[n])

\* Adding an edge puts it on lists of its ends, and nothing else on any list.
ListedAtEnds(g, h, e) ==
    \A n \in NodeObjs :
       \A x \in ToSet(h.adj[n]) \ ToSet(g.adj[n]) : x = e /\ n \in {e.from, e.to}

\* Vector.addElement: what is in the list afterwards.
LEMMA AppendRange ==
    ASSUME NEW S, NEW s \in Seq(S), NEW e
    PROVE  /\ ToSet(Append(s, e)) = ToSet(s) \cup {e}
           /\ Contains(s, e) <=> e \in ToSet(s)
<1>1. \A i \in DOMAIN s : i \in DOMAIN Append(s, e) /\ Append(s, e)[i] = s[i]
  OBVIOUS
<1>2. Len(s) + 1 \in DOMAIN Append(s, e) /\ Append(s, e)[Len(s) + 1] = e
  OBVIOUS
<1>3. \A i \in DOMAIN Append(s, e) : i \in DOMAIN s \/ i = Len(s) + 1
  OBVIOUS
<1>4. ToSet(Append(s, e)) = ToSet(s) \cup {e}
  BY <1>1, <1>2, <1>3 DEF ToSet
<1>5. Contains(s, e) <=> e \in ToSet(s)
  BY DEF Contains, ToSet
<1> QED
  BY <1>4, <1>5

\* The fields of a graph.
LEMMA GraphFields ==
    ASSUME NEW g \in Graph
    PROVE  /\ g.complete \in EltSets(EdgeObjs) /\ g.visible \in EltSets(EdgeObjs \cup {NullEdge})
           /\ g.complete.nodes \in Seq(NodeObjs) /\ g.complete.edges \in Seq(EdgeObjs)
           /\ g.complete.reg \in [Ids -> NodeObjs \cup {NoNode}]
           /\ g.visible.nodes \in Seq(NodeObjs) /\ g.visible.edges \in Seq(EdgeObjs \cup {NullEdge})
           /\ g.visible.reg \in [Ids -> NodeObjs \cup {NoNode}]
           /\ g.adj \in [NodeObjs -> Seq(EdgeObjs)]
           /\ g.part \in [NodeObjs -> SUBSET NodeObjs]
           /\ g.hidden \in SUBSET EdgeObjs
BY DEF Graph, EltSets

\* GraphEltSet.addEdge: a new edge is appended to the set and to the lists of its
\* two ends.
LEMMA CompleteAddEdgeShape ==
    ASSUME NEW g \in Graph, NEW e \in EdgeObjs \cup {NullEdge}, NEW h, h = CompleteAddEdge(g, e)
    PROVE  /\ h \in Graph /\ SameNodes(g, h) /\ h.visible = g.visible /\ h.hidden = g.hidden
           /\ h.complete.edges = IF e = NullEdge \/ Contains(g.complete.edges, e)
                                 THEN g.complete.edges ELSE Append(g.complete.edges, e)
           /\ ListedAtEnds(g, h, e)
<1>1. CASE e = NullEdge \/ Contains(g.complete.edges, e)
  BY <1>1 DEF CompleteAddEdge, SameNodes, ListedAtEnds
<1>2. CASE ~(e = NullEdge \/ Contains(g.complete.edges, e))
  <2> DEFINE g1 == [g EXCEPT !.complete = SetAddEdge(@, e)]
             g2 == NodeAddEdge(g1, e.from, e)
             g3 == NodeAddEdge(g2, e.to, e)
  <2>1. h = g3
    BY <1>2 DEF CompleteAddEdge
  <2>2. e \in EdgeObjs /\ e.from \in NodeObjs /\ e.to \in NodeObjs
    BY <1>2, Parts
  <2>3. g1 \in Graph
    <3>1. SetAddEdge(g.complete, e) \in EltSets(EdgeObjs)
      BY <2>2, GraphFields, SetOperations
    <3> QED
      BY <3>1 DEF Graph
  <2>4. /\ g1.complete = SetAddEdge(g.complete, e) /\ g1.visible = g.visible
        /\ g1.hidden = g.hidden /\ g1.adj = g.adj
    BY DEF Graph
  <2> HIDE DEF g1
  <2>5. /\ g2 \in Graph /\ SameSets(g1, g2)
        /\ \A m \in NodeObjs : g2.adj[m] = IF m = e.from THEN Append(g1.adj[m], e) ELSE g1.adj[m]
    BY <2>2, <2>3, NodeAddEdgeShape
  <2> HIDE DEF g2
  <2>6. /\ g3 \in Graph /\ SameSets(g2, g3)
        /\ \A m \in NodeObjs : g3.adj[m] = IF m = e.to THEN Append(g2.adj[m], e) ELSE g2.adj[m]
    BY <2>2, <2>5, NodeAddEdgeShape
  <2> HIDE DEF g3
  <2>7. /\ g3.complete = SetAddEdge(g.complete, e) /\ g3.visible = g.visible
        /\ g3.hidden = g.hidden
    BY <2>4, <2>5, <2>6 DEF SameSets
  <2>8. /\ g3.complete.nodes = g.complete.nodes /\ g3.complete.reg = g.complete.reg
        /\ g3.complete.edges = Append(g.complete.edges, e)
    <3>1. g.complete \in EltSets(EdgeObjs)
      BY GraphFields
    <3> QED
      BY <2>7, <3>1 DEF SetAddEdge, EltSets
  <2>9. ASSUME NEW n \in NodeObjs, NEW x \in ToSet(g3.adj[n]), x \notin ToSet(g.adj[n])
        PROVE  x = e /\ n \in {e.from, e.to}
    <3>1. g.adj[n] \in Seq(EdgeObjs) /\ g2.adj \in [NodeObjs -> Seq(EdgeObjs)] /\ g.adj \in [NodeObjs -> Seq(EdgeObjs)]
      BY <2>5, GraphFields
    <3>2. g2.adj[n] = IF n = e.from THEN Append(g.adj[n], e) ELSE g.adj[n]
      BY <2>4, <2>5, <3>1
    <3>3. g3.adj[n] = IF n = e.to THEN Append(g2.adj[n], e) ELSE g2.adj[n]
      BY <2>6, <3>1
    <3>4. /\ ToSet(Append(g.adj[n], e)) = ToSet(g.adj[n]) \cup {e}
          /\ ToSet(Append(g2.adj[n], e)) = ToSet(g2.adj[n]) \cup {e}
      BY <3>1, AppendRange
    <3> QED
      BY <2>9, <3>2, <3>3, <3>4
  <2> QED
    BY <1>2, <2>1, <2>6, <2>7, <2>8, <2>9 DEF SameNodes, ListedAtEnds
<1> QED
  BY <1>1, <1>2

\* GraphEltSet.deleteEdge: the edge leaves the set and the lists of its ends.
LEMMA CompleteDeleteEdgeShape ==
    ASSUME NEW g \in Graph, NEW e \in EdgeObjs, NEW h, h = CompleteDeleteEdge(g, e)
    PROVE  /\ h \in Graph /\ SameNodes(g, h) /\ h.visible = g.visible /\ h.hidden = g.hidden
           /\ h.complete.edges = RemoveFirst(g.complete.edges, e)
           /\ FewerListed(g, h)
<1>1. CASE ~Contains(g.complete.edges, e)
  <2>1. RemoveFirst(g.complete.edges, e) = g.complete.edges
    BY <1>1, GraphFields, RemoveFirstProperties
  <2> QED
    BY <1>1, <2>1 DEF CompleteDeleteEdge, SameNodes, FewerListed
<1>2. CASE Contains(g.complete.edges, e)
  <2> DEFINE g1 == [g EXCEPT !.complete = SetRemoveEdge(@, e)]
             g2 == NodeRemoveEdge(g1, e.from, e)
             g3 == NodeRemoveEdge(g2, e.to, e)
  <2>1. h = g3
    BY <1>2 DEF CompleteDeleteEdge
  <2>2. e.from \in NodeObjs /\ e.to \in NodeObjs
    BY Parts
  <2>3. g1 \in Graph
    <3>1. SetRemoveEdge(g.complete, e) \in EltSets(EdgeObjs)
      BY <2>2, GraphFields, SetOperations
    <3> QED
      BY <3>1 DEF Graph
  <2>4. /\ g1.complete = SetRemoveEdge(g.complete, e) /\ g1.visible = g.visible
        /\ g1.hidden = g.hidden /\ g1.adj = g.adj
    BY DEF Graph
  <2> HIDE DEF g1
  <2>5. /\ g2 \in Graph /\ SameSets(g1, g2)
        /\ \A m \in NodeObjs : g2.adj[m] = IF m = e.from THEN RemoveFirst(g1.adj[m], e) ELSE g1.adj[m]
    BY <2>2, <2>3, NodeRemoveEdgeShape
  <2> HIDE DEF g2
  <2>6. /\ g3 \in Graph /\ SameSets(g2, g3)
        /\ \A m \in NodeObjs : g3.adj[m] = IF m = e.to THEN RemoveFirst(g2.adj[m], e) ELSE g2.adj[m]
    BY <2>2, <2>5, NodeRemoveEdgeShape
  <2> HIDE DEF g3
  <2>7. /\ g3.complete = SetRemoveEdge(g.complete, e) /\ g3.visible = g.visible
        /\ g3.hidden = g.hidden
    BY <2>4, <2>5, <2>6 DEF SameSets
  <2>8. /\ g3.complete.nodes = g.complete.nodes /\ g3.complete.reg = g.complete.reg
        /\ g3.complete.edges = RemoveFirst(g.complete.edges, e)
    <3>1. g.complete \in EltSets(EdgeObjs)
      BY GraphFields
    <3> QED
      BY <2>7, <3>1 DEF SetRemoveEdge, EltSets
  <2>9. ASSUME NEW n \in NodeObjs
        PROVE  ToSet(g3.adj[n]) \subseteq ToSet(g.adj[n])
    <3>1. g.adj[n] \in Seq(EdgeObjs) /\ g2.adj[n] \in Seq(EdgeObjs)
      BY <2>5, GraphFields
    <3>2. /\ ToSet(RemoveFirst(g.adj[n], e)) \subseteq ToSet(g.adj[n])
          /\ ToSet(RemoveFirst(g2.adj[n], e)) \subseteq ToSet(g2.adj[n])
      BY <3>1, RemoveFirstRange
    <3> QED
      BY <2>4, <2>5, <2>6, <3>2
  <2> QED
    BY <2>1, <2>6, <2>7, <2>8, <2>9 DEF SameNodes, FewerListed
<1> QED
  BY <1>1, <1>2

\* VisibleLocality.removeEdge: the edge leaves what is visible.
LEMMA RemoveEdgeShape ==
    ASSUME NEW g \in Graph, NEW e \in EdgeObjs, NEW h, h = removeEdge(g, e)
    PROVE  /\ h \in Graph /\ SameNodes(g, h) /\ h.complete = g.complete /\ h.adj = g.adj
           /\ h.visible.edges = RemoveFirst(g.visible.edges, e)
           /\ g.hidden \subseteq h.hidden /\ h.hidden \subseteq g.hidden \cup {e}
<1>1. CASE ~Contains(g.visible.edges, e)
  <2>1. RemoveFirst(g.visible.edges, e) = g.visible.edges
    BY <1>1, GraphFields, RemoveFirstProperties
  <2> QED
    BY <1>1, <2>1 DEF removeEdge, SameNodes
<1>2. CASE Contains(g.visible.edges, e)
  <2>1. h = [g EXCEPT !.visible = SetRemoveEdge(@, e), !.hidden = @ \cup {e}]
    BY <1>2 DEF removeEdge
  <2>2. SetRemoveEdge(g.visible, e) \in EltSets(EdgeObjs \cup {NullEdge})
    BY Parts, GraphFields, SetOperations
  <2>3. h \in Graph
    BY <2>1, <2>2 DEF Graph
  <2>4. /\ h.visible = SetRemoveEdge(g.visible, e) /\ h.complete = g.complete
        /\ h.adj = g.adj /\ h.hidden = g.hidden \cup {e}
    BY <2>1 DEF Graph
  <2>5. /\ h.visible.nodes = g.visible.nodes /\ h.visible.reg = g.visible.reg
        /\ h.visible.edges = RemoveFirst(g.visible.edges, e)
    BY <2>4, GraphFields DEF SetRemoveEdge, EltSets
  <2> QED
    BY <2>3, <2>4, <2>5 DEF SameNodes
<1> QED
  BY <1>1, <1>2

\* Locality.deleteEdge.
LEMMA DeleteEdgeShape ==
    ASSUME NEW g \in Graph, NEW e \in EdgeObjs, NEW h, h = deleteEdge(g, e)
    PROVE  /\ h \in Graph /\ SameNodes(g, h)
           /\ h.complete.edges = RemoveFirst(g.complete.edges, e)
           /\ h.visible.edges = RemoveFirst(g.visible.edges, e)
           /\ g.hidden \subseteq h.hidden /\ h.hidden \subseteq g.hidden \cup {e}
           /\ FewerListed(g, h)
<1> DEFINE g1 == removeEdge(g, e)
<1>1. h = CompleteDeleteEdge(g1, e)
  BY Parts DEF deleteEdge
<1>2. /\ g1 \in Graph /\ SameNodes(g, g1) /\ g1.complete = g.complete /\ g1.adj = g.adj
      /\ g1.visible.edges = RemoveFirst(g.visible.edges, e)
      /\ g.hidden \subseteq g1.hidden /\ g1.hidden \subseteq g.hidden \cup {e}
  BY RemoveEdgeShape
<1> HIDE DEF g1
<1>3. /\ h \in Graph /\ SameNodes(g1, h) /\ h.visible = g1.visible /\ h.hidden = g1.hidden
      /\ h.complete.edges = RemoveFirst(g1.complete.edges, e)
      /\ FewerListed(g1, h)
  BY <1>1, <1>2, CompleteDeleteEdgeShape
<1> QED
  BY <1>2, <1>3 DEF SameNodes, FewerListed

\* Locality.addEdge, also of a null edge.
LEMMA AddEdgeShape ==
    ASSUME NEW g \in Graph, NEW e \in EdgeObjs \cup {NullEdge}, NEW h, h = addEdge(g, e)
    PROVE  /\ h \in Graph /\ SameNodes(g, h) /\ h.hidden = g.hidden
           /\ h.complete.edges \in {g.complete.edges, Append(g.complete.edges, e)}
           /\ ToSet(h.visible.edges) \subseteq ToSet(g.visible.edges) \cup {e}
           /\ ListedAtEnds(g, h, e)
<1>1. CASE Contains(g.visible.edges, e)
  BY <1>1 DEF addEdge, SameNodes, ListedAtEnds
<1>2. CASE ~Contains(g.visible.edges, e)
  <2> DEFINE g1 == [g EXCEPT !.visible = SetAddEdge(@, e)]
  <2>1. h = CompleteAddEdge(g1, e)
    BY <1>2 DEF addEdge
  <2>3. SetAddEdge(g.visible, e) \in EltSets(EdgeObjs \cup {NullEdge})
    <3>1. Append(g.visible.edges, e) \in Seq(EdgeObjs \cup {NullEdge})
      BY GraphFields
    <3> QED
      BY <3>1, GraphFields DEF SetAddEdge, EltSets
  <2>4. g1 \in Graph
    BY <2>3 DEF Graph
  <2>5. /\ g1.visible = SetAddEdge(g.visible, e) /\ g1.complete = g.complete
        /\ g1.adj = g.adj /\ g1.hidden = g.hidden
    BY DEF Graph
  <2>6. SameNodes(g, g1)
    BY <2>5, GraphFields, ZenonT(30) DEF SetAddEdge, EltSets, SameNodes
  <2>9. ToSet(g1.visible.edges) = ToSet(g.visible.edges) \cup {e}
    <3>1. g1.visible.edges = Append(g.visible.edges, e)
      BY <2>5, GraphFields DEF SetAddEdge, EltSets
    <3> QED
      BY <3>1, GraphFields, AppendRange
  <2> HIDE DEF g1
  <2>10. h.visible = g1.visible
    BY <2>1, <2>4, CompleteAddEdgeShape
  <2>7. /\ h \in Graph /\ SameNodes(g1, h) /\ h.hidden = g1.hidden
        /\ h.complete.edges \in {g1.complete.edges, Append(g1.complete.edges, e)}
        /\ ListedAtEnds(g1, h, e)
    <3>1. h.complete.edges = IF e = NullEdge \/ Contains(g1.complete.edges, e)
                             THEN g1.complete.edges ELSE Append(g1.complete.edges, e)
      BY <2>1, <2>4, CompleteAddEdgeShape
    <3>2. h \in Graph /\ SameNodes(g1, h) /\ h.hidden = g1.hidden /\ ListedAtEnds(g1, h, e)
      BY <2>1, <2>4, CompleteAddEdgeShape
    <3>3. h.complete.edges \in {g1.complete.edges, Append(g1.complete.edges, e)}
      BY <3>1
    <3> QED
      BY <3>2, <3>3
  <2>8. SameNodes(g, h)
    BY <2>6, <2>7 DEF SameNodes
  <2> QED
    BY <2>5, <2>7, <2>8, <2>9, <2>10 DEF ListedAtEnds
<1> QED
  BY <1>1, <1>2
-----------------------------------------------------------------------------
(* Operations on nodes *)

\* The greatest of the first k numbers, as FoldLeft picks it.
LEMMA LastOf ==
    ASSUME NEW k \in Nat \ {0}
    PROVE  Max(1..k) = k /\ (1..k) \ {k} = 1..k - 1 /\ 1..k # {}
<1>1. k \in 1..k
  OBVIOUS
<1>2. Max(1..k) \in 1..k /\ \A i \in 1..k : i <= Max(1..k)
  BY <1>1, MaxIn
<1>3. (1..k) \ {k} = 1..k - 1
  OBVIOUS
<1> QED
  BY <1>1, <1>2, <1>3

\* The loop of Locality.removeNode, round by round.
LEMMA RemoveEdgeRounds ==
    ASSUME NEW g \in Graph, NEW q \in Seq(EdgeObjs)
    PROVE  \E f : /\ f[0] = g
                  /\ \A k \in 1..Len(q) : f[k] = removeEdge(f[k - 1], q[k])
                  /\ removeEdges(g, q) = f[Len(q)]
<1> DEFINE N == Len(q)
           step == [k \in 1..N |-> [v \in Graph |-> removeEdge(v, q[k])]]
           Eq(it) == it = [t \in SUBSET DOMAIN q |->
                             IF t = {} THEN g ELSE removeEdge(it[t \ {Max(t)}], q[Max(t)])]
           it == CHOOSE x : Eq(x)
<1>1. N \in Nat /\ DOMAIN q = 1..N /\ \A k \in 1..N : q[k] \in EdgeObjs
  OBVIOUS
<1> HIDE DEF N
<1>2. step \in [1..N -> [Graph -> Graph]]
  <2>1. \A k \in 1..N : \A v \in Graph : removeEdge(v, q[k]) \in Graph
    BY <1>1, RemoveEdgeShape
  <2> QED
    BY <2>1
<1>3. \E x : Eq(x)
  <2>1. PICK x \in [SUBSET (1..N) -> Graph] :
           \A t \in SUBSET (1..N) : x[t] = IF t = {} THEN g ELSE step[Max(t)][x[t \ {Max(t)}]]
    <3> HIDE DEF step
    <3>1. \E x : Recurses(x, Graph, g, N, step)
      BY <1>1, <1>2, SubsetRecursion
    <3> QED
      BY <3>1 DEF Recurses
  <2>2. ASSUME NEW t \in SUBSET (1..N), t # {}
        PROVE  x[t] = removeEdge(x[t \ {Max(t)}], q[Max(t)])
    <3>1. Max(t) \in 1..N
      BY <1>1, <2>2, MaxIn
    <3>2. x[t \ {Max(t)}] \in Graph
      BY <2>1
    <3> QED
      BY <2>1, <2>2, <3>1, <3>2
  <2>3. Eq(x)
    BY <1>1, <2>1, <2>2
  <2> QED
    BY <2>3
<1>4. Eq(it)
  <2> HIDE DEF Eq
  <2> QED
    BY <1>3
<1>5. removeEdges(g, q) = it[DOMAIN q]
  BY DEF removeEdges, FoldLeft, MapThenFoldSet
<1> HIDE DEF it, step
<1> DEFINE f == [k \in 0..N |-> it[1..k]]
<1>6. it[{}] = g /\ 1..0 = {}
  BY <1>4
<1>7. ASSUME NEW k \in 1..N
      PROVE  it[1..k] = removeEdge(it[1..k - 1], q[k])
  <2>1. k \in Nat \ {0} /\ 1..k \in SUBSET (1..N)
    BY <1>1
  <2>2. Max(1..k) = k /\ (1..k) \ {k} = 1..k - 1 /\ 1..k # {}
    BY <2>1, LastOf
  <2>3. it[1..k] = removeEdge(it[(1..k) \ {Max(1..k)}], q[Max(1..k)])
    BY <1>1, <1>4, <2>1, <2>2
  <2> QED
    BY <2>2, <2>3
<1>8. \A k \in 1..N : f[k] = removeEdge(f[k - 1], q[k])
  <2> TAKE k \in 1..N
  <2>1. k \in 0..N /\ k - 1 \in 0..N
    BY <1>1
  <2> QED
    BY <1>7, <2>1
<1>9. f[0] = g /\ f[N] = it[1..N]
  BY <1>1, <1>6
<1> HIDE DEF f
<1> QED
  BY <1>1, <1>5, <1>8, <1>9 DEF N

\* The loop of GraphEltSet.deleteNode, round by round.
LEMMA DropEdgeRounds ==
    ASSUME NEW g \in Graph, NEW n \in NodeObjs, NEW q \in Seq(EdgeObjs),
           \A v \in Graph, e \in EdgeObjs : DropEdge(v, n, e) \in Graph
    PROVE  \E f : /\ f[0] = g
                  /\ \A k \in 1..Len(q) : f[k] = DropEdge(f[k - 1], n, q[k])
                  /\ DropEdges(g, n, q) = f[Len(q)]
<1> DEFINE N == Len(q)
           step == [k \in 1..N |-> [v \in Graph |-> DropEdge(v, n, q[k])]]
           Eq(it) == it = [t \in SUBSET DOMAIN q |->
                             IF t = {} THEN g ELSE DropEdge(it[t \ {Max(t)}], n, q[Max(t)])]
           it == CHOOSE x : Eq(x)
<1>1. N \in Nat /\ DOMAIN q = 1..N /\ \A k \in 1..N : q[k] \in EdgeObjs
  OBVIOUS
<1> HIDE DEF N
<1>2. step \in [1..N -> [Graph -> Graph]]
  BY <1>1
<1>3. \E x : Eq(x)
  <2>1. PICK x \in [SUBSET (1..N) -> Graph] :
           \A t \in SUBSET (1..N) : x[t] = IF t = {} THEN g ELSE step[Max(t)][x[t \ {Max(t)}]]
    <3> HIDE DEF step
    <3>1. \E x : Recurses(x, Graph, g, N, step)
      BY <1>1, <1>2, SubsetRecursion
    <3> QED
      BY <3>1 DEF Recurses
  <2>2. ASSUME NEW t \in SUBSET (1..N), t # {}
        PROVE  x[t] = DropEdge(x[t \ {Max(t)}], n, q[Max(t)])
    <3>1. Max(t) \in 1..N
      BY <1>1, <2>2, MaxIn
    <3>2. x[t \ {Max(t)}] \in Graph
      BY <2>1
    <3> QED
      BY <2>1, <2>2, <3>1, <3>2
  <2>3. Eq(x)
    BY <1>1, <2>1, <2>2
  <2> QED
    BY <2>3
<1>4. Eq(it)
  <2> HIDE DEF Eq
  <2> QED
    BY <1>3
<1>5. DropEdges(g, n, q) = it[DOMAIN q]
  BY DEF DropEdges, FoldLeft, MapThenFoldSet
<1> HIDE DEF it, step
<1> DEFINE f == [k \in 0..N |-> it[1..k]]
<1>6. it[{}] = g /\ 1..0 = {}
  BY <1>4
<1>7. ASSUME NEW k \in 1..N
      PROVE  it[1..k] = DropEdge(it[1..k - 1], n, q[k])
  <2>1. k \in Nat \ {0} /\ 1..k \in SUBSET (1..N)
    BY <1>1
  <2>2. Max(1..k) = k /\ (1..k) \ {k} = 1..k - 1 /\ 1..k # {}
    BY <2>1, LastOf
  <2>3. it[1..k] = DropEdge(it[(1..k) \ {Max(1..k)}], n, q[Max(1..k)])
    BY <1>1, <1>4, <2>1, <2>2
  <2> QED
    BY <2>2, <2>3
<1>8. \A k \in 1..N : f[k] = DropEdge(f[k - 1], n, q[k])
  <2> TAKE k \in 1..N
  <2>1. k \in 0..N /\ k - 1 \in 0..N
    BY <1>1
  <2> QED
    BY <1>7, <2>1
<1>9. f[0] = g /\ f[N] = it[1..N]
  BY <1>1, <1>6
<1> HIDE DEF f
<1> QED
  BY <1>1, <1>5, <1>8, <1>9 DEF N

\* One round of that loop: the edge leaves the set and the list of one node.
LEMMA DropEdgeShape ==
    ASSUME NEW g \in Graph, NEW n \in NodeObjs, NEW e \in EdgeObjs, NEW h, h = DropEdge(g, n, e)
    PROVE  /\ h \in Graph /\ SameNodes(g, h) /\ h.visible = g.visible /\ h.hidden = g.hidden
           /\ h.complete.edges = RemoveFirst(g.complete.edges, e)
           /\ FewerListed(g, h)
<1> DEFINE g1 == [g EXCEPT !.complete = SetRemoveEdge(@, e)]
           m  == IF e.from = n THEN e.to ELSE e.from
<1>1. h = NodeRemoveEdge(g1, m, e)
  BY DEF DropEdge
<1>2. m \in NodeObjs
  BY Parts
<1> HIDE DEF m
<1>3. g1 \in Graph
  <2>1. SetRemoveEdge(g.complete, e) \in EltSets(EdgeObjs)
    BY GraphFields, SetOperations
  <2> QED
    BY <2>1 DEF Graph
<1>4. /\ g1.complete = SetRemoveEdge(g.complete, e) /\ g1.visible = g.visible
      /\ g1.hidden = g.hidden /\ g1.adj = g.adj
  BY DEF Graph
<1> HIDE DEF g1
<1>5. /\ h \in Graph /\ SameSets(g1, h)
      /\ \A x \in NodeObjs : h.adj[x] = IF x = m THEN RemoveFirst(g1.adj[x], e) ELSE g1.adj[x]
  BY <1>1, <1>2, <1>3, NodeRemoveEdgeShape
<1>6. h.complete = SetRemoveEdge(g.complete, e) /\ h.visible = g.visible /\ h.hidden = g.hidden
  BY <1>4, <1>5 DEF SameSets
<1>7. /\ h.complete.nodes = g.complete.nodes /\ h.complete.reg = g.complete.reg
      /\ h.complete.edges = RemoveFirst(g.complete.edges, e)
  BY <1>6, GraphFields DEF SetRemoveEdge, EltSets
<1>8. ASSUME NEW x \in NodeObjs
      PROVE  ToSet(h.adj[x]) \subseteq ToSet(g.adj[x])
  <2>1. ToSet(RemoveFirst(g.adj[x], e)) \subseteq ToSet(g.adj[x])
    BY GraphFields, RemoveFirstRange
  <2> QED
    BY <1>4, <1>5, <2>1
<1> QED
  BY <1>5, <1>6, <1>7, <1>8 DEF SameNodes, FewerListed

\* Locality.removeNode's loop hides edges of the list it runs over, and no others.
LEMMA RemoveEdgesShape ==
    ASSUME NEW g \in Graph, NEW q \in Seq(EdgeObjs), NEW h, h = removeEdges(g, q)
    PROVE  /\ h \in Graph /\ SameNodes(g, h) /\ h.complete = g.complete /\ h.adj = g.adj
           /\ ToSet(h.visible.edges) \subseteq ToSet(g.visible.edges)
           /\ g.hidden \subseteq h.hidden /\ h.hidden \subseteq g.hidden \cup ToSet(q)
<1> DEFINE V == {v \in Graph : /\ SameNodes(g, v) /\ v.complete = g.complete /\ v.adj = g.adj
                               /\ ToSet(v.visible.edges) \subseteq ToSet(g.visible.edges)
                               /\ g.hidden \subseteq v.hidden
                               /\ v.hidden \subseteq g.hidden \cup ToSet(q)}
<1>1. PICK f : /\ f[0] = g
               /\ \A k \in 1..Len(q) : f[k] = removeEdge(f[k - 1], q[k])
               /\ h = f[Len(q)]
  BY RemoveEdgeRounds
<1>2. g \in V
  BY DEF SameNodes
<1>3. ASSUME NEW k \in 1..Len(q), f[k - 1] \in V
      PROVE  f[k] \in V
  <2> DEFINE v == f[k - 1]
             w == f[k]
  <2>1. q[k] \in EdgeObjs /\ q[k] \in ToSet(q) /\ v \in Graph /\ w = removeEdge(v, q[k])
    BY <1>1, <1>3 DEF ToSet
  <2>2. /\ SameNodes(g, v) /\ v.complete = g.complete /\ v.adj = g.adj
        /\ ToSet(v.visible.edges) \subseteq ToSet(g.visible.edges)
        /\ g.hidden \subseteq v.hidden /\ v.hidden \subseteq g.hidden \cup ToSet(q)
    BY <1>3
  <2> HIDE DEF v, w
  <2>3. /\ w \in Graph /\ SameNodes(v, w) /\ w.complete = v.complete /\ w.adj = v.adj
        /\ w.visible.edges = RemoveFirst(v.visible.edges, q[k])
        /\ v.hidden \subseteq w.hidden /\ w.hidden \subseteq v.hidden \cup {q[k]}
    BY <2>1, RemoveEdgeShape
  <2>4. SameNodes(g, w)
    BY <2>2, <2>3 DEF SameNodes
  <2>6. ToSet(w.visible.edges) \subseteq ToSet(v.visible.edges)
    BY <2>1, <2>3, GraphFields, RemoveFirstRange
  <2>5. w \in V
    BY <2>1, <2>2, <2>3, <2>4, <2>6
  <2> QED
    BY <2>5 DEF w
<1> HIDE DEF V
<1>4. \A k \in 0..Len(q) : f[k] \in V
  <2>1. Len(q) \in Nat /\ f[0] \in V
    BY <1>1, <1>2
  <2> QED
    BY <2>1, <1>3, StaysIn
<1>5. h \in V
  BY <1>1, <1>4
<1> QED
  BY <1>5 DEF V

\* GraphEltSet.deleteNode's loop takes edges of the list it runs over, and no
\* others.
LEMMA DropEdgesShape ==
    ASSUME NEW g \in Graph, NEW n \in NodeObjs, NEW q \in Seq(EdgeObjs), NEW h, h = DropEdges(g, n, q)
    PROVE  /\ h \in Graph /\ SameNodes(g, h) /\ h.visible = g.visible /\ h.hidden = g.hidden
           /\ ToSet(h.complete.edges) \subseteq ToSet(g.complete.edges)
           /\ ToSet(g.complete.edges) \ ToSet(q) \subseteq ToSet(h.complete.edges)
           /\ FewerListed(g, h)
<1> DEFINE V == {v \in Graph :
                   /\ SameNodes(g, v) /\ v.visible = g.visible /\ v.hidden = g.hidden
                   /\ ToSet(v.complete.edges) \subseteq ToSet(g.complete.edges)
                   /\ ToSet(g.complete.edges) \ ToSet(q) \subseteq ToSet(v.complete.edges)
                   /\ FewerListed(g, v)}
<1>1. PICK f : /\ f[0] = g
               /\ \A k \in 1..Len(q) : f[k] = DropEdge(f[k - 1], n, q[k])
               /\ h = f[Len(q)]
  <2>1. \A v \in Graph, e \in EdgeObjs : DropEdge(v, n, e) \in Graph
    BY DropEdgeShape
  <2> QED
    BY <2>1, DropEdgeRounds
<1>2. g \in V
  BY DEF SameNodes, FewerListed
<1>3. ASSUME NEW k \in 1..Len(q), f[k - 1] \in V
      PROVE  f[k] \in V
  <2> DEFINE v == f[k - 1]
             w == f[k]
  <2>1. q[k] \in EdgeObjs /\ q[k] \in ToSet(q) /\ v \in Graph /\ w = DropEdge(v, n, q[k])
    BY <1>1, <1>3 DEF ToSet
  <2>2. /\ SameNodes(g, v) /\ v.visible = g.visible /\ v.hidden = g.hidden
        /\ ToSet(v.complete.edges) \subseteq ToSet(g.complete.edges)
        /\ ToSet(g.complete.edges) \ ToSet(q) \subseteq ToSet(v.complete.edges)
        /\ FewerListed(g, v)
    BY <1>3
  <2> HIDE DEF v, w
  <2>3. /\ w \in Graph /\ SameNodes(v, w) /\ w.visible = v.visible /\ w.hidden = v.hidden
        /\ w.complete.edges = RemoveFirst(v.complete.edges, q[k])
        /\ FewerListed(v, w)
    BY <2>1, DropEdgeShape
  <2>4. /\ ToSet(w.complete.edges) \subseteq ToSet(v.complete.edges)
        /\ ToSet(v.complete.edges) \ {q[k]} \subseteq ToSet(w.complete.edges)
    BY <2>1, <2>3, GraphFields, RemoveFirstRange
  <2>5. SameNodes(g, w) /\ FewerListed(g, w)
    BY <2>2, <2>3 DEF SameNodes, FewerListed
  <2>6. w \in V
    BY <2>1, <2>2, <2>3, <2>4, <2>5
  <2> QED
    BY <2>6 DEF w
<1> HIDE DEF V
<1>4. \A k \in 0..Len(q) : f[k] \in V
  <2>1. Len(q) \in Nat /\ f[0] \in V
    BY <1>1, <1>2
  <2> QED
    BY <2>1, <1>3, StaysIn
<1>5. h \in V
  BY <1>1, <1>4
<1> QED
  BY <1>5 DEF V

\* Locality.removeNode: the node leaves what is visible, and with it edges of its
\* list.
LEMMA RemoveNodeShape ==
    ASSUME NEW g \in Graph, NEW n \in NodeObjs, NEW h, h = removeNode(g, n)
    PROVE  /\ h \in Graph /\ h.complete = g.complete /\ h.adj = g.adj
           /\ ToSet(h.visible.edges) \subseteq ToSet(g.visible.edges)
           /\ g.hidden \subseteq h.hidden /\ h.hidden \subseteq g.hidden \cup ToSet(g.adj[n])
           /\ IF Contains(g.visible.nodes, n)
              THEN /\ h.visible.nodes = RemoveFirst(g.visible.nodes, n)
                   /\ h.visible.reg = [g.visible.reg EXCEPT ![n[1]] = NoNode]
              ELSE h.visible.nodes = g.visible.nodes /\ h.visible.reg = g.visible.reg
<1>1. CASE ~Contains(g.visible.nodes, n)
  BY <1>1 DEF removeNode
<1>2. CASE Contains(g.visible.nodes, n)
  <2> DEFINE g1 == [g EXCEPT !.visible = SetRemoveNode(@, n)]
             q  == g.adj[n]
  <2>1. h = removeEdges(g1, q)
    BY <1>2 DEF removeNode
  <2>2. g1 \in Graph /\ q \in Seq(EdgeObjs)
    <3>1. SetRemoveNode(g.visible, n) \in EltSets(EdgeObjs \cup {NullEdge})
      BY GraphFields, SetOperations
    <3>2. g1 \in Graph
      BY <3>1 DEF Graph
    <3> QED
      BY <3>2, GraphFields
  <2>3. /\ g1.visible = SetRemoveNode(g.visible, n) /\ g1.complete = g.complete
        /\ g1.adj = g.adj /\ g1.hidden = g.hidden
    BY DEF Graph
  <2>4. /\ g1.visible.nodes = RemoveFirst(g.visible.nodes, n)
        /\ g1.visible.reg = [g.visible.reg EXCEPT ![n[1]] = NoNode]
        /\ g1.visible.edges = g.visible.edges
    <3> HIDE DEF g1
    <3> DEFINE v == g.visible
    <3>1. v \in EltSets(EdgeObjs \cup {NullEdge})
      BY GraphFields
    <3>2. g1.visible = SetRemoveNode(v, n)
      BY <2>3
    <3> HIDE DEF v
    <3>3. /\ g1.visible.nodes = RemoveFirst(v.nodes, n)
          /\ g1.visible.reg = [v.reg EXCEPT ![n[1]] = NoNode]
          /\ g1.visible.edges = v.edges
      BY <3>1, <3>2 DEF SetRemoveNode, EltSets
    <3> QED
      BY <3>3 DEF v
  <2> HIDE DEF g1, q
  <2>5. /\ h \in Graph /\ SameNodes(g1, h) /\ h.complete = g1.complete /\ h.adj = g1.adj
        /\ ToSet(h.visible.edges) \subseteq ToSet(g1.visible.edges)
        /\ g1.hidden \subseteq h.hidden /\ h.hidden \subseteq g1.hidden \cup ToSet(q)
    BY <2>1, <2>2, RemoveEdgesShape
  <2> QED
    BY <1>2, <2>3, <2>4, <2>5 DEF SameNodes, q
<1> QED
  BY <1>1, <1>2

\* GraphEltSet.deleteNode: the node leaves the set, and with it edges of its list.
LEMMA CompleteDeleteNodeShape ==
    ASSUME NEW g \in Graph, NEW n \in NodeObjs, NEW h, h = CompleteDeleteNode(g, n)
    PROVE  /\ h \in Graph /\ h.visible = g.visible /\ h.hidden = g.hidden
           /\ ToSet(h.complete.edges) \subseteq ToSet(g.complete.edges)
           /\ ToSet(g.complete.edges) \ ToSet(g.adj[n]) \subseteq ToSet(h.complete.edges)
           /\ FewerListed(g, h)
           /\ IF Contains(g.complete.nodes, n)
              THEN /\ h.complete.nodes = RemoveFirst(g.complete.nodes, n)
                   /\ h.complete.reg = [g.complete.reg EXCEPT ![n[1]] = NoNode]
              ELSE h.complete.nodes = g.complete.nodes /\ h.complete.reg = g.complete.reg
<1>1. CASE ~Contains(g.complete.nodes, n)
  BY <1>1 DEF CompleteDeleteNode, FewerListed
<1>2. CASE Contains(g.complete.nodes, n)
  <2> DEFINE g1 == [g EXCEPT !.complete = SetRemoveNode(@, n)]
             q  == g.adj[n]
  <2>1. h = DropEdges(g1, n, q)
    BY <1>2 DEF CompleteDeleteNode
  <2>2. g1 \in Graph /\ q \in Seq(EdgeObjs)
    <3>1. SetRemoveNode(g.complete, n) \in EltSets(EdgeObjs)
      BY GraphFields, SetOperations
    <3>2. g1 \in Graph
      BY <3>1 DEF Graph
    <3> QED
      BY <3>2, GraphFields
  <2>3. /\ g1.complete = SetRemoveNode(g.complete, n) /\ g1.visible = g.visible
        /\ g1.adj = g.adj /\ g1.hidden = g.hidden
    BY DEF Graph
  <2>4. /\ g1.complete.nodes = RemoveFirst(g.complete.nodes, n)
        /\ g1.complete.reg = [g.complete.reg EXCEPT ![n[1]] = NoNode]
        /\ g1.complete.edges = g.complete.edges
    <3> HIDE DEF g1
    <3> DEFINE c == g.complete
    <3>1. c \in EltSets(EdgeObjs)
      BY GraphFields
    <3>2. g1.complete = SetRemoveNode(c, n)
      BY <2>3
    <3> HIDE DEF c
    <3>3. /\ g1.complete.nodes = RemoveFirst(c.nodes, n)
          /\ g1.complete.reg = [c.reg EXCEPT ![n[1]] = NoNode]
          /\ g1.complete.edges = c.edges
      BY <3>1, <3>2 DEF SetRemoveNode, EltSets
    <3> QED
      BY <3>3 DEF c
  <2> HIDE DEF g1, q
  <2>5. /\ h \in Graph /\ SameNodes(g1, h) /\ h.visible = g1.visible /\ h.hidden = g1.hidden
        /\ ToSet(h.complete.edges) \subseteq ToSet(g1.complete.edges)
        /\ ToSet(g1.complete.edges) \ ToSet(q) \subseteq ToSet(h.complete.edges)
        /\ FewerListed(g1, h)
    BY <2>1, <2>2, DropEdgesShape
  <2>6. FewerListed(g, h)
    BY <2>3, <2>5 DEF FewerListed
  <2> QED
    BY <1>2, <2>3, <2>4, <2>5, <2>6 DEF SameNodes, q
<1> QED
  BY <1>1, <1>2

\* Locality.deleteNode, for two sets with the same nodes.
LEMMA DeleteNodeShape ==
    ASSUME NEW g \in Graph, NEW n \in NodeObjs, NEW h, h = deleteNode(g, n)
    PROVE  /\ h \in Graph
           /\ ToSet(h.visible.edges) \subseteq ToSet(g.visible.edges)
           /\ g.hidden \subseteq h.hidden /\ h.hidden \subseteq g.hidden \cup ToSet(g.adj[n])
           /\ ToSet(h.complete.edges) \subseteq ToSet(g.complete.edges)
           /\ ToSet(g.complete.edges) \ ToSet(g.adj[n]) \subseteq ToSet(h.complete.edges)
           /\ FewerListed(g, h)
           /\ IF Contains(g.complete.nodes, n)
              THEN /\ h.complete.nodes = RemoveFirst(g.complete.nodes, n)
                   /\ h.complete.reg = [g.complete.reg EXCEPT ![n[1]] = NoNode]
              ELSE h.complete.nodes = g.complete.nodes /\ h.complete.reg = g.complete.reg
           /\ IF Contains(g.visible.nodes, n)
              THEN /\ h.visible.nodes = RemoveFirst(g.visible.nodes, n)
                   /\ h.visible.reg = [g.visible.reg EXCEPT ![n[1]] = NoNode]
              ELSE h.visible.nodes = g.visible.nodes /\ h.visible.reg = g.visible.reg
<1> DEFINE g1 == removeNode(g, n)
<1>1. h = CompleteDeleteNode(g1, n)
  BY DEF deleteNode
<1>2. /\ g1 \in Graph /\ g1.complete = g.complete /\ g1.adj = g.adj
      /\ ToSet(g1.visible.edges) \subseteq ToSet(g.visible.edges)
      /\ g.hidden \subseteq g1.hidden /\ g1.hidden \subseteq g.hidden \cup ToSet(g.adj[n])
  BY RemoveNodeShape
<1>3. IF Contains(g.visible.nodes, n)
      THEN /\ g1.visible.nodes = RemoveFirst(g.visible.nodes, n)
           /\ g1.visible.reg = [g.visible.reg EXCEPT ![n[1]] = NoNode]
      ELSE g1.visible.nodes = g.visible.nodes /\ g1.visible.reg = g.visible.reg
  BY RemoveNodeShape
<1> HIDE DEF g1
<1>4. /\ h \in Graph /\ h.visible = g1.visible /\ h.hidden = g1.hidden
      /\ ToSet(h.complete.edges) \subseteq ToSet(g1.complete.edges)
      /\ ToSet(g1.complete.edges) \ ToSet(g1.adj[n]) \subseteq ToSet(h.complete.edges)
      /\ FewerListed(g1, h)
  BY <1>1, <1>2, CompleteDeleteNodeShape
<1>5. IF Contains(g1.complete.nodes, n)
      THEN /\ h.complete.nodes = RemoveFirst(g1.complete.nodes, n)
           /\ h.complete.reg = [g1.complete.reg EXCEPT ![n[1]] = NoNode]
      ELSE h.complete.nodes = g1.complete.nodes /\ h.complete.reg = g1.complete.reg
  BY <1>1, <1>2, CompleteDeleteNodeShape
<1>6. FewerListed(g, h)
  BY <1>2, <1>4 DEF FewerListed
<1> QED
  BY <1>2, <1>3, <1>4, <1>5, <1>6

\* Locality.addNode, for two sets with the same nodes and registries: the node is
\* added to both, or its ID is taken and nothing happens.
LEMMA AddNodeShape ==
    ASSUME NEW g \in Graph, NEW n \in NodeObjs, NEW h, h = addNode(g, n),
           g.visible.nodes = g.complete.nodes, g.visible.reg = g.complete.reg
    PROVE  /\ h \in Graph /\ h.complete.edges = g.complete.edges
           /\ h.visible.edges = g.visible.edges
           /\ h.hidden = g.hidden /\ h.adj = g.adj
           /\ h.visible.nodes = h.complete.nodes /\ h.visible.reg = h.complete.reg
           /\ \/ h.complete.nodes = g.complete.nodes /\ h.complete.reg = g.complete.reg
              \/ /\ g.complete.reg[n[1]] = NoNode
                 /\ h.complete.nodes = Append(g.complete.nodes, n)
                 /\ h.complete.reg = [g.complete.reg EXCEPT ![n[1]] = n]
<1>1. CASE Contains(g.visible.nodes, n) \/ Registered(g.visible, n)
  BY <1>1 DEF addNode
<1>2. CASE ~(Contains(g.visible.nodes, n) \/ Registered(g.visible, n))
  <2> DEFINE c == g.complete
             v == g.visible
  <2>1. ~(Contains(c.nodes, n) \/ Registered(c, n)) /\ c.reg[n[1]] = NoNode
    BY <1>2 DEF Registered
  <2>2. h = [g EXCEPT !.visible = SetAddNode(v, n), !.complete = SetAddNode(c, n)]
    BY <1>2, <2>1 DEF addNode
  <2>3. c \in EltSets(EdgeObjs) /\ v \in EltSets(EdgeObjs \cup {NullEdge})
    BY GraphFields
  <2>4. SetAddNode(c, n) \in EltSets(EdgeObjs) /\ SetAddNode(v, n) \in EltSets(EdgeObjs \cup {NullEdge})
    BY <2>3, SetOperations
  <2>5. h \in Graph
    BY <2>2, <2>4 DEF Graph
  <2>6. /\ h.visible = SetAddNode(v, n) /\ h.complete = SetAddNode(c, n)
        /\ h.hidden = g.hidden /\ h.adj = g.adj
    BY <2>2 DEF Graph
  <2>7. v.nodes = c.nodes /\ v.reg = c.reg
    OBVIOUS
  <2> HIDE DEF c, v
  <2>8. /\ h.complete.nodes = Append(c.nodes, n) /\ h.complete.edges = c.edges
        /\ h.complete.reg = [c.reg EXCEPT ![n[1]] = n]
    BY <2>3, <2>6 DEF SetAddNode, EltSets
  <2>9. /\ h.visible.nodes = Append(v.nodes, n) /\ h.visible.edges = v.edges
        /\ h.visible.reg = [v.reg EXCEPT ![n[1]] = n]
    BY <2>3, <2>6 DEF SetAddNode, EltSets
  <2> QED
    BY <2>1, <2>5, <2>6, <2>7, <2>8, <2>9 DEF c, v
<1> QED
  BY <1>1, <1>2

\* It changes no edge and no list of edges.
LEMMA AddNodeKeeps ==
    ASSUME NEW g \in Graph, NEW n \in NodeObjs, NEW h, h = addNode(g, n),
           g.visible.nodes = g.complete.nodes, g.visible.reg = g.complete.reg
    PROVE  /\ h \in Graph /\ h.complete.edges = g.complete.edges
           /\ h.visible.edges = g.visible.edges
           /\ h.hidden = g.hidden /\ h.adj = g.adj
BY AddNodeShape

\* Locality.clearAll empties both sets, or throws and has only hidden edges.
LEMMA ClearAllShape ==
    ASSUME NEW g \in Graph, NEW h, h = clearAll(g)
    PROVE  /\ h \in Graph /\ h.adj = g.adj
           /\ IF clearAllThrows(g) THEN h.complete = g.complete /\ h.visible = g.visible
              ELSE h.complete = EmptySet /\ h.visible = EmptySet
<1>1. CASE clearAllThrows(g)
  <2> DEFINE s == g.visible.edges
             d == SelectInSeq(s, LAMBDA x : x = NullEdge)
             u == ToSet(SubSeq(s, 1, d - 1))
  <2>1. h = [g EXCEPT !.hidden = @ \cup u]
    BY <1>1 DEF clearAll
  <2>2. s \in Seq(EdgeObjs \cup {NullEdge}) /\ \E i \in 1..Len(s) : s[i] = NullEdge
    BY <1>1, GraphFields DEF clearAllThrows, Contains
  <2> HIDE DEF s
  <2>3. d \in 1..Len(s) /\ \A i \in 1..d - 1 : s[i] # NullEdge
    BY <2>2, FirstPlace
  <2> HIDE DEF d
  <2>4. \A i \in 1..d - 1 : i \in 1..Len(s) /\ SubSeq(s, 1, d - 1)[i] = s[i]
    BY <2>2, <2>3
  <2>5. DOMAIN SubSeq(s, 1, d - 1) = 1..d - 1
    BY <2>2, <2>3
  <2>6. u \subseteq EdgeObjs
    BY <2>2, <2>3, <2>4, <2>5 DEF ToSet
  <2> HIDE DEF u
  <2>7. h \in Graph /\ h.complete = g.complete /\ h.visible = g.visible /\ h.adj = g.adj
    BY <2>1, <2>6 DEF Graph
  <2> QED
    BY <1>1, <2>7
<1>2. CASE ~clearAllThrows(g)
  <2> DEFINE u == ToSet(g.visible.edges)
  <2>1. h = [g EXCEPT !.visible = EmptySet, !.complete = EmptySet, !.hidden = @ \cup u]
    BY <1>2 DEF clearAll
  <2>2. \A E : EmptySet \in EltSets(E)
    BY DEF EmptySet, EltSets
  <2>5. u \subseteq EdgeObjs
    <3>1. g.visible.edges \in Seq(EdgeObjs \cup {NullEdge})
      BY GraphFields
    <3>2. \A i \in 1..Len(g.visible.edges) : g.visible.edges[i] # NullEdge
      BY <1>2, <3>1 DEF clearAllThrows, Contains
    <3> QED
      BY <3>1, <3>2 DEF ToSet
  <2> HIDE DEF u
  <2>3. h \in Graph
    BY <2>1, <2>2, <2>5 DEF Graph
  <2>4. h.complete = EmptySet /\ h.visible = EmptySet /\ h.adj = g.adj
    BY <2>1 DEF Graph
  <2> QED
    BY <1>2, <2>3, <2>4
<1> QED
  BY <1>1, <1>2

\* Locality.findEdge returns null or an edge of the node's list that leads to the
\* other node.
LEMMA FindEdgeShape ==
    ASSUME NEW g \in Graph, NEW n \in NodeObjs, NEW m \in NodeObjs, NEW e, e = findEdge(g, n, m)
    PROVE  e = NullEdge \/ (e \in EdgeObjs /\ e \in ToSet(g.adj[n]) /\ e.to = m)
<1> DEFINE s == g.adj[n]
           I == {i \in 1..Len(s) : s[i].to = m}
           d == SelectInSeq(s, LAMBDA x : x.to = m)
<1>1. s \in Seq(EdgeObjs)
  BY GraphFields
<1>2. e = NullEdge \/ (d # 0 /\ e = s[d])
  BY DEF findEdge
<1> HIDE DEF s
<1>3. CASE I = {}
  <2>1. d = 0
    BY <1>3 DEF SelectInSeq
  <2> QED
    BY <1>2, <2>1
<1>4. CASE I # {}
  <2>1. d = Min(I) /\ I \in SUBSET Nat
    BY <1>4 DEF SelectInSeq
  <2> HIDE DEF d
  <2>2. d \in I
    <3> HIDE DEF I
    <3> QED
      BY <1>4, <2>1, MinIn
  <2>3. d \in DOMAIN s /\ s[d] \in EdgeObjs /\ s[d].to = m
    BY <1>1, <2>2
  <2>4. s[d] \in ToSet(s)
    BY <2>3 DEF ToSet
  <2> QED
    BY <1>2, <2>3, <2>4 DEF s
<1> QED
  BY <1>3, <1>4

-----------------------------------------------------------------------------
(* Lists without repetition, and removing from two lists in step *)

Once(s) == \A j, k \in 1..Len(s) : s[j] = s[k] => j = k

FirstAt(s, e, p) == p \in 1..Len(s) /\ s[p] = e /\ \A i \in 1..p - 1 : s[i] # e

\* Vector.removeElement takes away the element at its first place.
LEMMA RemoveFirstAt ==
    ASSUME NEW S, NEW s \in Seq(S), NEW e, NEW p, FirstAt(s, e, p)
    PROVE  /\ RemoveFirst(s, e) \in Seq(S) /\ Len(RemoveFirst(s, e)) = Len(s) - 1
           /\ \A i \in 1..Len(s) - 1 : RemoveFirst(s, e)[i] = IF i < p THEN s[i] ELSE s[i + 1]
<1>1. p \in 1..Len(s) /\ s[p] = e /\ \A i \in 1..p - 1 : s[i] # e
  BY DEF FirstAt
<1>2. Contains(s, e)
  BY <1>1 DEF Contains
<1>3. PICK d \in 1..Len(s) :
         /\ s[d] = e /\ \A i \in 1..d - 1 : s[i] # e
         /\ Len(RemoveFirst(s, e)) = Len(s) - 1
         /\ \A i \in 1..Len(s) - 1 : RemoveFirst(s, e)[i] = IF i < d THEN s[i] ELSE s[i + 1]
  BY <1>2, RemoveFirstProperties
<1>4. d = p
  <2>1. ~(d < p)
    BY <1>1, <1>3
  <2>2. ~(p < d)
    BY <1>1, <1>3
  <2> QED
    BY <1>1, <1>3, <2>1, <2>2
<1> QED
  BY <1>3, <1>4, RemoveFirstProperties

\* A list that contains an element has a first place of it.
LEMMA HasFirst ==
    ASSUME NEW S, NEW s \in Seq(S), NEW e, Contains(s, e)
    PROVE  \E p : FirstAt(s, e, p)
<1>1. PICK d \in 1..Len(s) : s[d] = e /\ \A i \in 1..d - 1 : s[i] # e
  BY RemoveFirstProperties
<1> QED
  BY <1>1 DEF FirstAt

\* Lists with the same elements in the same places are the same.
LEMMA SameList ==
    ASSUME NEW S, NEW s \in Seq(S), NEW r \in Seq(S), Len(s) = Len(r),
           \A i \in 1..Len(s) : s[i] = r[i]
    PROVE  s = r
OBVIOUS

\* Removing one element and appending another may change places.
LEMMA RemoveAppend ==
    ASSUME NEW S, NEW s \in Seq(S), NEW d \in S, NEW e \in S, d # e
    PROVE  RemoveFirst(Append(s, e), d) = Append(RemoveFirst(s, d), e)
<1> DEFINE a == Append(s, e)
           n == Len(s)
           r == RemoveFirst(s, d)
<1>1. a \in Seq(S) /\ n \in Nat /\ Len(a) = n + 1 /\ a[n + 1] = e /\ \A i \in 1..n : a[i] = s[i]
  OBVIOUS
<1>2. r \in Seq(S)
  BY RemoveFirstProperties
<1>3. CASE Contains(s, d)
  <2>1. PICK p : FirstAt(s, d, p)
    BY <1>3, HasFirst
  <2>2. p \in 1..n /\ s[p] = d /\ \A i \in 1..p - 1 : s[i] # d
    BY <2>1 DEF FirstAt
  <2>3. Len(r) = n - 1 /\ \A i \in 1..n - 1 : r[i] = IF i < p THEN s[i] ELSE s[i + 1]
    BY <2>1, RemoveFirstAt
  <2> HIDE DEF a, r, n
  <2>4. FirstAt(a, d, p)
    BY <1>1, <2>2 DEF FirstAt
  <2>5. /\ RemoveFirst(a, d) \in Seq(S) /\ Len(RemoveFirst(a, d)) = n
        /\ \A i \in 1..n : RemoveFirst(a, d)[i] = IF i < p THEN a[i] ELSE a[i + 1]
    BY <1>1, <2>4, RemoveFirstAt, SMTT(30)
  <2>6. /\ Append(r, e) \in Seq(S) /\ Len(Append(r, e)) = n
        /\ Append(r, e)[n] = e /\ \A i \in 1..n - 1 : Append(r, e)[i] = r[i]
    BY <1>1, <1>2, <2>3
  <2>7. ASSUME NEW i \in 1..n PROVE RemoveFirst(a, d)[i] = Append(r, e)[i]
    <3>1. CASE i = n
      <4>1. ~(n < p)
        BY <1>1, <2>2
      <4> QED
        BY <1>1, <2>5, <2>6, <3>1, <4>1
    <3>2. CASE i # n
      <4>1. i \in 1..n - 1 /\ i + 1 \in 1..n
        BY <1>1, <3>2
      <4>2. a[i] = s[i] /\ a[i + 1] = s[i + 1]
        BY <1>1, <4>1
      <4> QED
        BY <2>3, <2>5, <2>6, <4>1, <4>2
    <3> QED
      BY <3>1, <3>2
  <2>8. RemoveFirst(a, d) = Append(r, e)
    BY <2>5, <2>6, <2>7, SameList
  <2> QED
    BY <2>8 DEF a, r
<1>4. CASE ~Contains(s, d)
  <2>1. r = s
    BY <1>4, RemoveFirstProperties
  <2>2. ~Contains(a, d)
    <3>1. d \notin ToSet(s) /\ ToSet(a) = ToSet(s) \cup {e}
      BY <1>4, AppendRange
    <3> QED
      BY <1>1, <3>1, AppendRange
  <2>3. RemoveFirst(a, d) = a
    BY <1>1, <2>2, RemoveFirstProperties
  <2> QED
    BY <2>1, <2>3
<1> QED
  BY <1>3, <1>4

\* Removing two different elements: d first found before e.
LEMMA RemoveBoth ==
    ASSUME NEW S, NEW s \in Seq(S), NEW d, NEW e, d # e, NEW p, NEW q,
           FirstAt(s, d, p), FirstAt(s, e, q), p < q
    PROVE  RemoveFirst(RemoveFirst(s, e), d) = RemoveFirst(RemoveFirst(s, d), e)
<1> DEFINE n == Len(s)
           a == RemoveFirst(s, d)
           b == RemoveFirst(s, e)
<1>1. /\ p \in 1..n /\ s[p] = d /\ \A i \in 1..p - 1 : s[i] # d
      /\ q \in 1..n /\ s[q] = e /\ \A i \in 1..q - 1 : s[i] # e
  BY DEF FirstAt
<1>2. n \in Nat
  OBVIOUS
<1>3. /\ a \in Seq(S) /\ Len(a) = n - 1
      /\ \A i \in 1..n - 1 : a[i] = IF i < p THEN s[i] ELSE s[i + 1]
  BY RemoveFirstAt
<1>4. /\ b \in Seq(S) /\ Len(b) = n - 1
      /\ \A i \in 1..n - 1 : b[i] = IF i < q THEN s[i] ELSE s[i + 1]
  BY RemoveFirstAt
<1> HIDE DEF n, a, b
<1>5. FirstAt(a, e, q - 1)
  <2>1. q - 1 \in 1..n - 1 /\ ~(q - 1 < p)
    BY <1>1, <1>2
  <2>2. a[q - 1] = s[q]
    BY <1>1, <1>2, <1>3, <2>1
  <2>3. ASSUME NEW i \in 1..(q - 1) - 1 PROVE a[i] # e
    <3>1. i \in 1..n - 1 /\ i \in 1..q - 1 /\ i + 1 \in 1..q - 1
      BY <1>1, <1>2
    <3> QED
      BY <1>1, <1>3, <3>1
  <2> QED
    BY <1>1, <1>3, <2>1, <2>2, <2>3 DEF FirstAt
<1>6. FirstAt(b, d, p)
  <2>1. p \in 1..n - 1
    BY <1>1, <1>2
  <2>2. b[p] = s[p]
    BY <1>4, <2>1
  <2>3. ASSUME NEW i \in 1..p - 1 PROVE b[i] # d
    <3>1. i \in 1..n - 1 /\ i < q
      BY <1>1, <1>2
    <3> QED
      BY <1>1, <1>4, <3>1
  <2> QED
    BY <1>1, <1>4, <2>1, <2>2, <2>3 DEF FirstAt
<1>7. /\ RemoveFirst(a, e) \in Seq(S) /\ Len(RemoveFirst(a, e)) = (n - 1) - 1
      /\ \A i \in 1..(n - 1) - 1 : RemoveFirst(a, e)[i] = IF i < q - 1 THEN a[i] ELSE a[i + 1]
  <2>1. a \in Seq(S)
    BY <1>3
  <2>2. /\ RemoveFirst(a, e) \in Seq(S) /\ Len(RemoveFirst(a, e)) = Len(a) - 1
        /\ \A i \in 1..Len(a) - 1 : RemoveFirst(a, e)[i] = IF i < q - 1 THEN a[i] ELSE a[i + 1]
    BY <2>1, <1>5, RemoveFirstAt
  <2> QED
    BY <1>3, <2>2
<1>8. /\ RemoveFirst(b, d) \in Seq(S) /\ Len(RemoveFirst(b, d)) = (n - 1) - 1
      /\ \A i \in 1..(n - 1) - 1 : RemoveFirst(b, d)[i] = IF i < p THEN b[i] ELSE b[i + 1]
  <2>1. b \in Seq(S)
    BY <1>4
  <2>2. /\ RemoveFirst(b, d) \in Seq(S) /\ Len(RemoveFirst(b, d)) = Len(b) - 1
        /\ \A i \in 1..Len(b) - 1 : RemoveFirst(b, d)[i] = IF i < p THEN b[i] ELSE b[i + 1]
    BY <2>1, <1>6, RemoveFirstAt
  <2> QED
    BY <1>4, <2>2
<1>9. ASSUME NEW i \in 1..(n - 1) - 1 PROVE RemoveFirst(b, d)[i] = RemoveFirst(a, e)[i]
  <2>1. i \in 1..n - 1 /\ i + 1 \in 1..n - 1
    BY <1>2
  <2>2. CASE i < p
    <3>1. i < q /\ i < q - 1
      BY <1>1, <2>2
    <3> QED
      BY <1>3, <1>4, <1>7, <1>8, <2>1, <2>2, <3>1
  <2>3. CASE ~(i < p) /\ i < q - 1
    <3>1. i + 1 < q
      BY <1>1, <2>3
    <3> QED
      BY <1>3, <1>4, <1>7, <1>8, <2>1, <2>3, <3>1
  <2>4. CASE ~(i < p) /\ ~(i < q - 1)
    <3>1. ~(i + 1 < q) /\ ~(i + 1 < p)
      BY <1>1, <2>4
    <3> QED
      BY <1>3, <1>4, <1>7, <1>8, <2>1, <2>4, <3>1
  <2> QED
    BY <2>2, <2>3, <2>4
<1>10. RemoveFirst(b, d) = RemoveFirst(a, e)
  BY <1>7, <1>8, <1>9, SameList
<1> QED
  BY <1>10 DEF a, b

\* The order in which two elements are removed does not matter.
LEMMA RemoveCommutes ==
    ASSUME NEW S, NEW s \in Seq(S), NEW d, NEW e, d # e
    PROVE  RemoveFirst(RemoveFirst(s, e), d) = RemoveFirst(RemoveFirst(s, d), e)
<1>1. ASSUME NEW x, NEW y, ~Contains(s, x)
      PROVE  RemoveFirst(RemoveFirst(s, y), x) = RemoveFirst(RemoveFirst(s, x), y)
  <2>1. RemoveFirst(s, x) = s
    BY <1>1, RemoveFirstProperties
  <2>2. RemoveFirst(s, y) \in Seq(S) /\ ToSet(RemoveFirst(s, y)) \subseteq ToSet(s)
    BY RemoveFirstProperties, RemoveFirstRange
  <2>3. ~Contains(RemoveFirst(s, y), x)
    BY <1>1, <2>2, AppendRange
  <2>4. RemoveFirst(RemoveFirst(s, y), x) = RemoveFirst(s, y)
    BY <2>2, <2>3, RemoveFirstProperties
  <2> QED
    BY <2>1, <2>4
<1>2. CASE Contains(s, d) /\ Contains(s, e)
  <2>1. PICK p : FirstAt(s, d, p)
    BY <1>2, HasFirst
  <2>2. PICK q : FirstAt(s, e, q)
    BY <1>2, HasFirst
  <2>3. p \in Nat /\ q \in Nat /\ p # q
    BY <2>1, <2>2 DEF FirstAt
  <2>4. CASE p < q
    BY <2>1, <2>2, <2>4, RemoveBoth
  <2>5. CASE q < p
    <3>1. RemoveFirst(RemoveFirst(s, d), e) = RemoveFirst(RemoveFirst(s, e), d)
      BY <2>1, <2>2, <2>5, RemoveBoth
    <3> QED
      BY <3>1
  <2> QED
    BY <2>3, <2>4, <2>5
<1>3. CASE ~Contains(s, d)
  BY <1>1, <1>3
<1>4. CASE ~Contains(s, e)
  <2>1. RemoveFirst(RemoveFirst(s, d), e) = RemoveFirst(RemoveFirst(s, e), d)
    BY <1>1, <1>4
  <2> QED
    BY <2>1
<1> QED
  BY <1>2, <1>3, <1>4

\* Removing what was just appended for the first time.
LEMMA RemoveAppended ==
    ASSUME NEW S, NEW s \in Seq(S), NEW e \in S, ~Contains(s, e)
    PROVE  RemoveFirst(Append(s, e), e) = s
<1> DEFINE a == Append(s, e)
           n == Len(s)
<1>1. a \in Seq(S) /\ n \in Nat /\ Len(a) = n + 1 /\ a[n + 1] = e /\ \A i \in 1..n : a[i] = s[i]
  OBVIOUS
<1>2. \A i \in 1..n : s[i] # e
  BY DEF Contains
<1> HIDE DEF a, n
<1>3. FirstAt(a, e, n + 1)
  BY <1>1, <1>2 DEF FirstAt
<1>4. /\ RemoveFirst(a, e) \in Seq(S) /\ Len(RemoveFirst(a, e)) = n
      /\ \A i \in 1..n : RemoveFirst(a, e)[i] = a[i]
  BY <1>1, <1>3, RemoveFirstAt, SMTT(30)
<1>5. RemoveFirst(a, e) = s
  BY <1>1, <1>4, SameList DEF n
<1> QED
  BY <1>5 DEF a

\* Lists without repetition: appending something new, removing something.
LEMMA OnceLists ==
    ASSUME NEW S, NEW s \in Seq(S), Once(s), NEW e \in S
    PROVE  /\ e \notin ToSet(s) => Once(Append(s, e))
           /\ Once(RemoveFirst(s, e)) /\ ToSet(RemoveFirst(s, e)) = ToSet(s) \ {e}
<1> DEFINE n == Len(s)
<1>1. n \in Nat /\ \A j, k \in 1..n : s[j] = s[k] => j = k
  BY DEF Once
<1>2. ASSUME e \notin ToSet(s) PROVE Once(Append(s, e))
  <2> DEFINE a == Append(s, e)
  <2>1. Len(a) = n + 1 /\ a[n + 1] = e /\ \A i \in 1..n : a[i] = s[i]
    OBVIOUS
  <2>2. \A i \in 1..n : s[i] # e
    BY <1>2 DEF ToSet
  <2> HIDE DEF a, n
  <2>3. ASSUME NEW j \in 1..Len(a), NEW k \in 1..Len(a), a[j] = a[k] PROVE j = k
    <3>1. (j \in 1..n \/ j = n + 1) /\ (k \in 1..n \/ k = n + 1)
      BY <1>1, <2>1
    <3> QED
      BY <1>1, <2>1, <2>2, <2>3, <3>1
  <2>4. Once(a)
    BY <2>3 DEF Once
  <2> QED
    BY <2>4 DEF a
<1>3. CASE ~Contains(s, e)
  <2>1. RemoveFirst(s, e) = s /\ e \notin ToSet(s)
    BY <1>3, RemoveFirstProperties, AppendRange
  <2> QED
    BY <1>2, <2>1
<1>4. CASE Contains(s, e)
  <2> DEFINE r == RemoveFirst(s, e)
  <2>1. PICK p : FirstAt(s, e, p)
    BY <1>4, HasFirst
  <2>2. p \in 1..n /\ s[p] = e
    BY <2>1 DEF FirstAt
  <2>3. r \in Seq(S) /\ Len(r) = n - 1 /\ \A i \in 1..n - 1 : r[i] = IF i < p THEN s[i] ELSE s[i + 1]
    BY <2>1, RemoveFirstAt
  <2>4. ToSet(s) \ {e} \subseteq ToSet(r) /\ ToSet(r) \subseteq ToSet(s)
    BY RemoveFirstRange
  <2> HIDE DEF r, n
  <2>5. ASSUME NEW j \in 1..n - 1
        PROVE  \E i \in 1..n : r[j] = s[i] /\ i # p /\ i = IF j < p THEN j ELSE j + 1
    <3>1. CASE j < p
      <4>1. j \in 1..n
        BY <1>1
      <4> QED
        BY <2>2, <2>3, <3>1, <4>1
    <3>2. CASE ~(j < p)
      <4>1. j + 1 \in 1..n /\ j + 1 # p
        BY <1>1, <2>2, <3>2
      <4> QED
        BY <2>3, <3>2, <4>1
    <3> QED
      BY <3>1, <3>2
  <2>6. ASSUME NEW j \in 1..n - 1, NEW k \in 1..n - 1, r[j] = r[k] PROVE j = k
    <3>1. PICK x \in 1..n : r[j] = s[x] /\ x = IF j < p THEN j ELSE j + 1
      BY <2>5
    <3>2. PICK y \in 1..n : r[k] = s[y] /\ y = IF k < p THEN k ELSE k + 1
      BY <2>5
    <3>3. x = y
      BY <1>1, <2>6, <3>1, <3>2
    <3> QED
      BY <1>1, <2>2, <3>1, <3>2, <3>3
  <2>7. Once(r)
    BY <2>3, <2>6 DEF Once
  <2>8. e \notin ToSet(r)
    <3>1. ASSUME NEW j \in 1..n - 1 PROVE r[j] # e
      BY <1>1, <2>2, <2>5
    <3> QED
      BY <2>3, <3>1 DEF ToSet
  <2>9. ToSet(r) = ToSet(s) \ {e}
    BY <2>4, <2>8
  <2> QED
    BY <1>2, <2>7, <2>9 DEF r
<1> QED
  BY <1>3, <1>4

-----------------------------------------------------------------------------
(* The edge lists and the edge set in step *)

\* Every edge is listed once, by the set and by each of its ends in the graph, and
\* no edge leads from a node to itself.
Lists(g) ==
    /\ Once(g.complete.edges)
    /\ \A e \in ToSet(g.complete.edges) : e.from # e.to
    /\ \A n \in ToSet(g.complete.nodes) :
          /\ Once(g.adj[n])
          /\ ToSet(g.adj[n]) = {e \in ToSet(g.complete.edges) : n \in {e.from, e.to}}

\* The visible edges are those of the graph, in the same order, with at most a
\* null edge among them.
InStep(g) == RemoveFirst(g.visible.edges, NullEdge) = g.complete.edges

\* Appending an edge to the set and to the lists of its ends keeps the lists.
LEMMA ListsAdded ==
    ASSUME NEW g \in Graph, NEW h \in Graph, Lists(g), NEW e \in EdgeObjs,
           e \notin ToSet(g.complete.edges), e.from # e.to,
           h.complete.nodes = g.complete.nodes,
           h.complete.edges = Append(g.complete.edges, e),
           \A n \in NodeObjs : h.adj[n] = IF n \in {e.from, e.to} THEN Append(g.adj[n], e)
                                          ELSE g.adj[n]
    PROVE  Lists(h)
<1> DEFINE E == ToSet(g.complete.edges)
<1>1. g.complete.edges \in Seq(EdgeObjs) /\ Once(g.complete.edges)
  BY GraphFields DEF Lists
<1>2. Once(h.complete.edges) /\ ToSet(h.complete.edges) = E \cup {e}
  BY <1>1, OnceLists, AppendRange
<1>3. ASSUME NEW n \in ToSet(g.complete.nodes)
      PROVE  /\ Once(h.adj[n])
             /\ ToSet(h.adj[n]) = {x \in E \cup {e} : n \in {x.from, x.to}}
  <2>1. n \in NodeObjs /\ g.adj[n] \in Seq(EdgeObjs)
    BY GraphFields DEF ToSet
  <2>2. Once(g.adj[n]) /\ ToSet(g.adj[n]) = {x \in E : n \in {x.from, x.to}}
    BY DEF Lists
  <2>3. e \notin ToSet(g.adj[n])
    BY <2>2
  <2>4. Once(Append(g.adj[n], e)) /\ ToSet(Append(g.adj[n], e)) = ToSet(g.adj[n]) \cup {e}
    BY <2>1, <2>2, <2>3, OnceLists, AppendRange
  <2> HIDE DEF E
  <2>5. CASE n \in {e.from, e.to}
    <3>1. h.adj[n] = Append(g.adj[n], e)
      BY <2>1, <2>5
    <3> QED
      BY <2>2, <2>4, <2>5, <3>1
  <2>6. CASE n \notin {e.from, e.to}
    <3>1. h.adj[n] = g.adj[n]
      BY <2>1, <2>6
    <3> QED
      BY <2>2, <2>6, <3>1
  <2> QED
    BY <2>5, <2>6
<1>4. \A x \in E \cup {e} : x.from # x.to
  BY DEF Lists
<1> QED
  BY <1>2, <1>3, <1>4 DEF Lists

\* Removing an edge from the set and from the lists of its ends does, too.
LEMMA ListsRemoved ==
    ASSUME NEW g \in Graph, NEW h \in Graph, Lists(g), NEW e \in EdgeObjs,
           ToSet(h.complete.nodes) \subseteq ToSet(g.complete.nodes),
           h.complete.edges = RemoveFirst(g.complete.edges, e),
           \A n \in ToSet(h.complete.nodes) :
              h.adj[n] = IF n \in {e.from, e.to} THEN RemoveFirst(g.adj[n], e) ELSE g.adj[n]
    PROVE  Lists(h) /\ ToSet(h.complete.edges) = ToSet(g.complete.edges) \ {e}
<1> DEFINE E == ToSet(g.complete.edges)
<1>1. g.complete.edges \in Seq(EdgeObjs) /\ Once(g.complete.edges)
  BY GraphFields DEF Lists
<1>2. Once(h.complete.edges) /\ ToSet(h.complete.edges) = E \ {e}
  BY <1>1, OnceLists
<1>3. ASSUME NEW n \in ToSet(h.complete.nodes)
      PROVE  /\ Once(h.adj[n])
             /\ ToSet(h.adj[n]) = {x \in E \ {e} : n \in {x.from, x.to}}
  <2>0. n \in ToSet(g.complete.nodes)
    OBVIOUS
  <2>1. n \in NodeObjs /\ g.adj[n] \in Seq(EdgeObjs)
    BY <2>0, GraphFields DEF ToSet
  <2>2. Once(g.adj[n]) /\ ToSet(g.adj[n]) = {x \in E : n \in {x.from, x.to}}
    BY <2>0 DEF Lists
  <2>4. Once(RemoveFirst(g.adj[n], e)) /\ ToSet(RemoveFirst(g.adj[n], e)) = ToSet(g.adj[n]) \ {e}
    BY <2>1, <2>2, OnceLists
  <2> HIDE DEF E
  <2>5. CASE n \in {e.from, e.to}
    <3>1. h.adj[n] = RemoveFirst(g.adj[n], e)
      BY <2>5
    <3> QED
      BY <2>2, <2>4, <3>1
  <2>6. CASE n \notin {e.from, e.to}
    <3>1. h.adj[n] = g.adj[n]
      BY <2>6
    <3> QED
      BY <2>2, <2>6, <3>1
  <2> QED
    BY <2>5, <2>6
<1>4. \A x \in E \ {e} : x.from # x.to
  BY DEF Lists
<1> QED
  BY <1>2, <1>3, <1>4 DEF Lists

\* GraphEltSet.addEdge lists the edge at both ends.
LEMMA CompleteAddEdgeLists ==
    ASSUME NEW g \in Graph, NEW e \in EdgeObjs, ~Contains(g.complete.edges, e),
           e.from # e.to, NEW h, h = CompleteAddEdge(g, e)
    PROVE  \A n \in NodeObjs : h.adj[n] = IF n \in {e.from, e.to} THEN Append(g.adj[n], e)
                                          ELSE g.adj[n]
<1> DEFINE g1 == [g EXCEPT !.complete = SetAddEdge(@, e)]
           g2 == NodeAddEdge(g1, e.from, e)
<1>1. h = NodeAddEdge(g2, e.to, e) /\ e.from \in NodeObjs /\ e.to \in NodeObjs
  BY Parts DEF CompleteAddEdge
<1>2. g1 \in Graph /\ g1.adj = g.adj
  <2>1. SetAddEdge(g.complete, e) \in EltSets(EdgeObjs)
    BY <1>1, GraphFields, SetOperations
  <2> QED
    BY <2>1 DEF Graph
<1> HIDE DEF g1
<1>3. /\ g2 \in Graph
      /\ \A n \in NodeObjs : g2.adj[n] = IF n = e.from THEN Append(g.adj[n], e) ELSE g.adj[n]
  BY <1>1, <1>2, NodeAddEdgeShape
<1> HIDE DEF g2
<1>4. \A n \in NodeObjs : h.adj[n] = IF n = e.to THEN Append(g2.adj[n], e) ELSE g2.adj[n]
  BY <1>1, <1>3, NodeAddEdgeShape
<1> QED
  BY <1>3, <1>4

\* Locality.addEdge keeps the lists and the two sets in step.
LEMMA AddEdgeLists ==
    ASSUME NEW g \in Graph, Lists(g), InStep(g), NEW e \in EdgeObjs \cup {NullEdge},
           e # NullEdge => e.from # e.to, NEW h, h = addEdge(g, e)
    PROVE  Lists(h) /\ InStep(h)
<1>1. CASE Contains(g.visible.edges, e)
  BY <1>1 DEF addEdge
<1>2. CASE ~Contains(g.visible.edges, e)
  <2> DEFINE v  == g.visible.edges
             g1 == [g EXCEPT !.visible = SetAddEdge(@, e)]
  <2>1. h = CompleteAddEdge(g1, e)
    BY <1>2 DEF addEdge
  <2>2. v \in Seq(EdgeObjs \cup {NullEdge}) /\ g.complete.edges \in Seq(EdgeObjs)
    BY GraphFields
  <2>3. SetAddEdge(g.visible, e) \in EltSets(EdgeObjs \cup {NullEdge})
    <3>1. Append(g.visible.edges, e) \in Seq(EdgeObjs \cup {NullEdge})
      BY GraphFields
    <3> QED
      BY <3>1, GraphFields DEF SetAddEdge, EltSets
  <2>4. g1 \in Graph
    BY <2>3 DEF Graph
  <2>5. /\ g1.visible = SetAddEdge(g.visible, e) /\ g1.complete = g.complete
        /\ g1.adj = g.adj
    BY DEF Graph
  <2>6. g1.visible.edges = Append(v, e)
    BY <2>5, GraphFields DEF SetAddEdge, EltSets
  <2> HIDE DEF g1
  <2>7. Lists(g1)
    BY <2>5 DEF Lists
  <2>8. RemoveFirst(v, NullEdge) = g.complete.edges
    BY DEF InStep
  <2>9. ~Contains(v, e)
    BY <1>2
  <2> HIDE DEF v
  <2>10. CASE e = NullEdge
    <3>1. h = g1
      BY <2>1, <2>10 DEF CompleteAddEdge
    <3>2. RemoveFirst(v, NullEdge) = v
      BY <2>2, <2>9, <2>10, RemoveFirstProperties
    <3>3. RemoveFirst(Append(v, e), NullEdge) = v
      BY <2>2, <2>9, <2>10, RemoveAppended
    <3>4. InStep(h)
      BY <2>5, <2>6, <2>8, <3>1, <3>2, <3>3 DEF InStep
    <3> QED
      BY <2>7, <3>1, <3>4
  <2>11. CASE e # NullEdge
    <3>1. e \in EdgeObjs /\ e.from # e.to
      BY <2>11
    <3>2. e \notin ToSet(g.complete.edges)
      <4>1. ToSet(g.complete.edges) \subseteq ToSet(v)
        BY <2>2, <2>8, RemoveFirstRange
      <4>2. e \notin ToSet(v)
        BY <2>2, <2>9, AppendRange
      <4> QED
        BY <4>1, <4>2
    <3>3. ~Contains(g1.complete.edges, e)
      BY <2>2, <2>5, <3>2, AppendRange
    <3>4. /\ h \in Graph /\ SameNodes(g1, h) /\ h.visible = g1.visible
          /\ h.complete.edges = Append(g1.complete.edges, e)
      <4>1. h.complete.edges = IF e = NullEdge \/ Contains(g1.complete.edges, e)
                               THEN g1.complete.edges ELSE Append(g1.complete.edges, e)
        BY <2>1, <2>4, CompleteAddEdgeShape
      <4>2. h \in Graph /\ SameNodes(g1, h) /\ h.visible = g1.visible
        BY <2>1, <2>4, CompleteAddEdgeShape
      <4> QED
        BY <2>11, <3>3, <4>1, <4>2
    <3>5. \A n \in NodeObjs : h.adj[n] = IF n \in {e.from, e.to} THEN Append(g1.adj[n], e)
                                         ELSE g1.adj[n]
      BY <2>1, <2>4, <3>1, <3>3, CompleteAddEdgeLists
    <3>6. h.complete.nodes = g1.complete.nodes /\ e \notin ToSet(g1.complete.edges)
      BY <2>5, <3>2, <3>4 DEF SameNodes
    <3>7. Lists(h)
      BY <2>4, <2>7, <3>1, <3>4, <3>5, <3>6, ListsAdded
    <3>8. RemoveFirst(Append(v, e), NullEdge) = Append(RemoveFirst(v, NullEdge), e)
      BY <2>2, <2>11, RemoveAppend
    <3>9. InStep(h)
      BY <2>5, <2>6, <2>8, <3>4, <3>8 DEF InStep
    <3> QED
      BY <3>7, <3>9
  <2> QED
    BY <2>10, <2>11
<1> QED
  BY <1>1, <1>2

\* GraphEltSet.deleteEdge takes an edge off the lists of both ends.
LEMMA CompleteDeleteEdgeLists ==
    ASSUME NEW g \in Graph, NEW e \in EdgeObjs, Contains(g.complete.edges, e),
           e.from # e.to, NEW h, h = CompleteDeleteEdge(g, e)
    PROVE  \A n \in NodeObjs : h.adj[n] = IF n \in {e.from, e.to} THEN RemoveFirst(g.adj[n], e)
                                          ELSE g.adj[n]
<1> DEFINE g1 == [g EXCEPT !.complete = SetRemoveEdge(@, e)]
           g2 == NodeRemoveEdge(g1, e.from, e)
<1>1. h = NodeRemoveEdge(g2, e.to, e) /\ e.from \in NodeObjs /\ e.to \in NodeObjs
  BY Parts DEF CompleteDeleteEdge
<1>2. g1 \in Graph /\ g1.adj = g.adj
  <2>1. SetRemoveEdge(g.complete, e) \in EltSets(EdgeObjs)
    BY <1>1, GraphFields, SetOperations
  <2> QED
    BY <2>1 DEF Graph
<1> HIDE DEF g1
<1>3. /\ g2 \in Graph
      /\ \A n \in NodeObjs : g2.adj[n] = IF n = e.from THEN RemoveFirst(g.adj[n], e) ELSE g.adj[n]
  BY <1>1, <1>2, NodeRemoveEdgeShape
<1> HIDE DEF g2
<1>4. \A n \in NodeObjs : h.adj[n] = IF n = e.to THEN RemoveFirst(g2.adj[n], e) ELSE g2.adj[n]
  BY <1>1, <1>3, NodeRemoveEdgeShape
<1> QED
  BY <1>3, <1>4

\* Removing an edge from both sets keeps them in step.
LEMMA InStepRemoved ==
    ASSUME NEW v \in Seq(EdgeObjs \cup {NullEdge}), NEW e \in EdgeObjs
    PROVE  RemoveFirst(RemoveFirst(v, e), NullEdge) = RemoveFirst(RemoveFirst(v, NullEdge), e)
<1>1. e # NullEdge
  BY Parts
<1> QED
  BY <1>1, RemoveCommutes

\* Locality.deleteEdge keeps the lists and the two sets in step.
LEMMA DeleteEdgeLists ==
    ASSUME NEW g \in Graph, Lists(g), InStep(g), NEW e \in EdgeObjs, NEW h, h = deleteEdge(g, e)
    PROVE  Lists(h) /\ InStep(h)
<1> DEFINE g1 == removeEdge(g, e)
<1>1. h = CompleteDeleteEdge(g1, e)
  BY Parts DEF deleteEdge
<1>2. g1 \in Graph /\ g1.complete = g.complete /\ g1.adj = g.adj
  BY RemoveEdgeShape
<1> HIDE DEF g1
<1>3. Lists(g1)
  BY <1>2 DEF Lists
<1>4. /\ h \in Graph /\ h.complete.edges = RemoveFirst(g.complete.edges, e)
      /\ h.visible.edges = RemoveFirst(g.visible.edges, e) /\ SameNodes(g, h)
  BY DeleteEdgeShape
<1>5. InStep(h)
  <2>1. g.visible.edges \in Seq(EdgeObjs \cup {NullEdge})
    BY GraphFields
  <2> QED
    BY <1>4, <2>1, InStepRemoved DEF InStep
<1>6. CASE ~Contains(g1.complete.edges, e)
  BY <1>1, <1>3, <1>5, <1>6 DEF CompleteDeleteEdge
<1>7. CASE Contains(g1.complete.edges, e)
  <2>1. e \in ToSet(g1.complete.edges)
    BY <1>2, <1>7, GraphFields, AppendRange
  <2>2. e.from # e.to
    BY <1>3, <2>1 DEF Lists
  <2>3. \A n \in NodeObjs : h.adj[n] = IF n \in {e.from, e.to} THEN RemoveFirst(g1.adj[n], e)
                                       ELSE g1.adj[n]
    BY <1>1, <1>2, <1>7, <2>2, CompleteDeleteEdgeLists
  <2>4. h.complete.edges = RemoveFirst(g1.complete.edges, e) /\ h.complete.nodes = g1.complete.nodes
    BY <1>2, <1>4 DEF SameNodes
  <2>5. \A n \in ToSet(h.complete.nodes) : n \in NodeObjs
    BY <1>4, GraphFields DEF ToSet
  <2>6. Lists(h)
    BY <1>2, <1>3, <1>4, <2>3, <2>4, <2>5, ListsRemoved
  <2> QED
    BY <1>5, <2>6
<1> QED
  BY <1>6, <1>7

\* One round of GraphEltSet.deleteNode, for a node that has left the graph.
LEMMA DropEdgeLists ==
    ASSUME NEW g \in Graph, Lists(g), NEW n \in NodeObjs, n \notin ToSet(g.complete.nodes),
           NEW e \in EdgeObjs, n \in {e.from, e.to}, NEW h, h = DropEdge(g, n, e)
    PROVE  Lists(h) /\ ToSet(h.complete.edges) = ToSet(g.complete.edges) \ {e}
<1> DEFINE g1 == [g EXCEPT !.complete = SetRemoveEdge(@, e)]
           m  == IF e.from = n THEN e.to ELSE e.from
<1>1. h = NodeRemoveEdge(g1, m, e)
  BY DEF DropEdge
<1>2. m \in NodeObjs /\ \A x : x # n => (x \in {e.from, e.to} <=> x = m)
  BY Parts
<1> HIDE DEF m
<1>3. g1 \in Graph /\ g1.adj = g.adj
  <2>1. SetRemoveEdge(g.complete, e) \in EltSets(EdgeObjs)
    BY GraphFields, SetOperations
  <2> QED
    BY <2>1 DEF Graph
<1> HIDE DEF g1
<1>4. \A x \in NodeObjs : h.adj[x] = IF x = m THEN RemoveFirst(g.adj[x], e) ELSE g.adj[x]
  BY <1>1, <1>2, <1>3, NodeRemoveEdgeShape
<1>5. h \in Graph /\ SameNodes(g, h) /\ h.complete.edges = RemoveFirst(g.complete.edges, e)
  BY DropEdgeShape
<1>6. h.complete.nodes = g.complete.nodes
  BY <1>5 DEF SameNodes
<1>7. ASSUME NEW x \in ToSet(h.complete.nodes)
      PROVE  h.adj[x] = IF x \in {e.from, e.to} THEN RemoveFirst(g.adj[x], e) ELSE g.adj[x]
  <2>1. x \in NodeObjs
    BY <1>5, GraphFields DEF ToSet
  <2>2. x # n
    BY <1>6
  <2> QED
    BY <1>2, <1>4, <2>1, <2>2
<1> QED
  BY <1>5, <1>6, <1>7, ListsRemoved

\* A set without a node keeps its edges.
LEMMA SetRemoveNodeShape ==
    ASSUME NEW E, NEW set \in EltSets(E), NEW n \in NodeObjs
    PROVE  /\ SetRemoveNode(set, n) \in EltSets(E)
           /\ SetRemoveNode(set, n).nodes = RemoveFirst(set.nodes, n)
           /\ SetRemoveNode(set, n).edges = set.edges
<1>1. SetRemoveNode(set, n) \in EltSets(E)
  BY SetOperations
<1> QED
  BY <1>1 DEF SetRemoveNode, EltSets

\* Locality.deleteNode: the loop over the visible edges of the node and the one
\* over its edges in the graph take the same edges away, in step, and none stays.
LEMMA DeleteNodeLists ==
    ASSUME NEW g \in Graph, Lists(g), InStep(g), NEW n \in NodeObjs,
           g.visible.nodes = g.complete.nodes, Once(g.complete.nodes),
           \A e \in ToSet(g.adj[n]) : n \in {e.from, e.to}, NEW h, h = deleteNode(g, n)
    PROVE  /\ Lists(h) /\ InStep(h)
           /\ Contains(g.complete.nodes, n) =>
                 \A e \in ToSet(h.complete.edges) : n \notin {e.from, e.to}
<1>1. CASE ~Contains(g.complete.nodes, n)
  BY <1>1 DEF deleteNode, removeNode, CompleteDeleteNode
<1>2. CASE Contains(g.complete.nodes, n)
  <2> DEFINE q == g.adj[n]
             L == Len(q)
             a == [g EXCEPT !.visible = SetRemoveNode(@, n)]
             b == removeEdges(a, q)
             c == [b EXCEPT !.complete = SetRemoveNode(@, n)]
  <2>1. b = removeNode(g, n)
    BY <1>2 DEF removeNode
  <2>2. q \in Seq(EdgeObjs) /\ L \in Nat
    BY GraphFields
  <2>3. a \in Graph /\ a.visible.edges = g.visible.edges /\ a.complete = g.complete /\ a.adj = g.adj
    <3>1. /\ SetRemoveNode(g.visible, n) \in EltSets(EdgeObjs \cup {NullEdge})
          /\ SetRemoveNode(g.visible, n).edges = g.visible.edges
      BY GraphFields, SetRemoveNodeShape
    <3> QED
      BY <3>1 DEF Graph
  <2> HIDE DEF a
  <2>4. b \in Graph /\ b.complete = g.complete /\ b.adj = g.adj
    <3> HIDE DEF q
    <3> QED
      BY <2>2, <2>3, RemoveEdgesShape
  <2>5. h = CompleteDeleteNode(b, n)
    BY <2>1 DEF deleteNode
  <2> HIDE DEF b
  <2>6. h = DropEdges(c, n, q)
    BY <1>2, <2>4, <2>5 DEF CompleteDeleteNode
  <2>7. /\ c \in Graph /\ c.complete.edges = g.complete.edges /\ c.adj = g.adj
        /\ c.complete.nodes = RemoveFirst(g.complete.nodes, n) /\ c.visible = b.visible
    <3>1. /\ SetRemoveNode(b.complete, n) \in EltSets(EdgeObjs)
          /\ SetRemoveNode(b.complete, n).nodes = RemoveFirst(b.complete.nodes, n)
          /\ SetRemoveNode(b.complete, n).edges = b.complete.edges
      BY <2>4, GraphFields, SetRemoveNodeShape
    <3>2. c \in Graph /\ c.complete = SetRemoveNode(b.complete, n) /\ c.adj = b.adj /\ c.visible = b.visible
      BY <2>4, <3>1 DEF Graph
    <3> HIDE DEF c
    <3> QED
      BY <2>4, <3>1, <3>2
  <2> HIDE DEF c
  <2>8. ToSet(c.complete.nodes) = ToSet(g.complete.nodes) \ {n}
    BY <2>7, GraphFields, OnceLists
  <2>9. Lists(c)
    BY <2>7, <2>8 DEF Lists
  <2>10. \A k \in 1..L : q[k] \in EdgeObjs /\ n \in {q[k].from, q[k].to}
    BY <2>2 DEF ToSet
  <2>11. ToSet(q) = {e \in ToSet(g.complete.edges) : n \in {e.from, e.to}}
    <3>1. n \in ToSet(g.complete.nodes)
      BY <1>2, GraphFields, AppendRange
    <3> QED
      BY <3>1 DEF Lists
  <2> HIDE DEF q
  <2>12. PICK f : /\ f[0] = a
                  /\ \A k \in 1..L : f[k] = removeEdge(f[k - 1], q[k])
                  /\ b = f[L]
    BY <2>2, <2>3, RemoveEdgeRounds DEF b
  <2>13. PICK d : /\ d[0] = c
                  /\ \A k \in 1..L : d[k] = DropEdge(d[k - 1], n, q[k])
                  /\ h = d[L]
    <3>1. \A v \in Graph, e \in EdgeObjs : DropEdge(v, n, e) \in Graph
      BY DropEdgeShape
    <3> QED
      BY <2>2, <2>6, <2>7, <3>1, DropEdgeRounds, SMTT(30)
  <2> DEFINE V == {k \in 0..L : /\ f[k] \in Graph /\ d[k] \in Graph /\ Lists(d[k])
                                /\ d[k].complete.nodes = c.complete.nodes
                                /\ RemoveFirst(f[k].visible.edges, NullEdge) = d[k].complete.edges
                                /\ \A j \in 1..k : q[j] \notin ToSet(d[k].complete.edges)}
             id == [k \in 0..L |-> k]
  <2> HIDE DEF L
  <2>14. 0 \in V
    <3>1. RemoveFirst(a.visible.edges, NullEdge) = c.complete.edges
      BY <2>3, <2>7 DEF InStep
    <3>2. 0 \in 0..L /\ 1..0 = {}
      BY <2>2
    <3> QED
      BY <2>3, <2>7, <2>9, <2>12, <2>13, <3>1, <3>2
  <2>15. ASSUME NEW k \in 1..L, k - 1 \in V PROVE k \in V
    <3> DEFINE v == f[k - 1]
               w == f[k]
               x == d[k - 1]
               y == d[k]
    <3>1. /\ v \in Graph /\ x \in Graph /\ Lists(x) /\ x.complete.nodes = c.complete.nodes
          /\ RemoveFirst(v.visible.edges, NullEdge) = x.complete.edges
          /\ \A j \in 1..k - 1 : q[j] \notin ToSet(x.complete.edges)
      BY <2>15
    <3>2. w = removeEdge(v, q[k]) /\ y = DropEdge(x, n, q[k])
      BY <2>12, <2>13
    <3>3. q[k] \in EdgeObjs /\ n \in {q[k].from, q[k].to}
      BY <2>10
    <3> HIDE DEF v, w, x, y
    <3>4. w \in Graph /\ w.visible.edges = RemoveFirst(v.visible.edges, q[k])
      BY <3>1, <3>2, <3>3, RemoveEdgeShape
    <3>5. /\ y \in Graph /\ SameNodes(x, y)
          /\ y.complete.edges = RemoveFirst(x.complete.edges, q[k])
      BY <3>1, <3>2, <3>3, DropEdgeShape
    <3>6. Lists(y) /\ ToSet(y.complete.edges) = ToSet(x.complete.edges) \ {q[k]}
      <4>1. n \notin ToSet(x.complete.nodes)
        BY <2>8, <3>1
      <4> QED
        BY <3>1, <3>2, <3>3, <4>1, DropEdgeLists
    <3>7. RemoveFirst(w.visible.edges, NullEdge) = y.complete.edges
      <4>1. v.visible.edges \in Seq(EdgeObjs \cup {NullEdge})
        BY <3>1, GraphFields
      <4> QED
        BY <3>1, <3>3, <3>4, <3>5, <4>1, InStepRemoved
    <3>8. \A j \in 1..k : q[j] \notin ToSet(y.complete.edges)
      <4>1. \A j \in 1..k : j \in 1..k - 1 \/ j = k
        BY <2>2
      <4> QED
        BY <3>1, <3>6, <4>1
    <3>9. k \in 0..L /\ y.complete.nodes = c.complete.nodes
      BY <2>2, <3>1, <3>5 DEF SameNodes
    <3> QED
      BY <3>4, <3>5, <3>6, <3>7, <3>8, <3>9 DEF w, y
  <2>16. L \in V
    <3> HIDE DEF V
    <3>1. id[0] \in V /\ \A k \in 1..L : id[k - 1] \in V => id[k] \in V
      <4>1. \A k \in 1..L : k \in 0..L /\ k - 1 \in 0..L
        BY <2>2
      <4> QED
        BY <2>2, <2>14, <2>15, <4>1
    <3> HIDE DEF id
    <3>2. \A k \in 0..L : id[k] \in V
      BY <2>2, <3>1, StaysIn
    <3> QED
      BY <2>2, <3>2 DEF id
  <2>17. /\ Lists(h) /\ RemoveFirst(b.visible.edges, NullEdge) = h.complete.edges
         /\ \A j \in 1..L : q[j] \notin ToSet(h.complete.edges)
    BY <2>12, <2>13, <2>16
  <2>18. h.visible = b.visible /\ ToSet(h.complete.edges) \subseteq ToSet(g.complete.edges)
    <3>1. c \in Graph
      BY <2>7
    <3>2. h.visible = c.visible /\ ToSet(h.complete.edges) \subseteq ToSet(c.complete.edges)
      BY <2>2, <2>6, <3>1, DropEdgesShape
    <3> QED
      BY <2>7, <3>2
  <2>19. \A e \in ToSet(q) : e \notin ToSet(h.complete.edges)
    BY <2>2, <2>17 DEF ToSet, L
  <2> QED
    BY <2>11, <2>17, <2>18, <2>19 DEF InStep
<1> QED
  BY <1>1, <1>2
=============================================================================
