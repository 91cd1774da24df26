------------------------ MODULE TopologyViewerProofs ------------------------
(****************************************************************************)
(* Proofs about TopologyViewer, for any number of sources, IDs and links:   *)
(* the types; that the id registry and the node lists agree (Registry);     *)
(* that the scan of the edge list under the monitor stays in range          *)
(* (ScanInv); that updatePartitions takes no edge on screen away (EdgeInv); *)
(* that the edge lists of the nodes and both sets agree (TidyInv); and, for *)
(* a single source, that edges end in the graph (RootedInv), what           *)
(* updatePartitions leaves behind (Tied), and the counters (Ledger).        *)
(****************************************************************************)
EXTENDS TopologyViewer, GraphElementsProofs

-----------------------------------------------------------------------------
(* The inductive invariants *)

NodeOrNull == NodeObjs \cup {NoNode}

Threads ==
    [pc : {"off", "dial", "begin", "idle", "ended", "delNode", "findTo", "addFrom", "addTo",
           "connect", "addEdge", "delEdge", "upd", "del", "delHidden", "count", "scan", "tie", "done"},
     op : {"", "node", "addFrom", "addTo", "edge", "remove_node", "remove_edge"},
     tag : {"", "edge", "modify_edge", "remove_edge"},
     link : Links \cup {<<>>},
     from : NodeOrNull, to : NodeOrNull, edge : EdgeObjs \cup {NullEdge},
     i : Nat, partitions : Seq(NodeOrNull), try_cnt : 0..2]

Updating == {"upd", "del", "delHidden", "count", "scan", "tie", "done"}

\* A thread with the variables its place in startElement and updatePartitions
\* relies on.
Fit(x) ==
    /\ x \in Threads
    /\ x.pc \in {"findTo", "addFrom", "addTo", "connect", "addEdge", "delEdge"} => x.link \in Links
    /\ x.pc \in Updating /\ x.op \in {"addFrom", "addTo"} => x.link \in Links
    /\ x.pc \in {"delNode", "addTo", "connect", "addEdge", "delEdge"} => x.from \in NodeObjs
    /\ x.pc \in {"connect", "addEdge", "delEdge"} => x.to \in NodeObjs
    /\ x.pc \in Updating /\ x.op \in {"addFrom", "addTo"} => x.from \in NodeObjs
    /\ x.pc \in Updating /\ x.op = "addTo" => x.to \in NodeObjs
    /\ x.pc = "delHidden" => x.edge \in EdgeObjs
    /\ x.pc \in {"count", "scan"} => x.i >= 1
    /\ x.pc = "tie" => x.i >= 2
    /\ NoNode \in ToSet(x.partitions) => Len(x.partitions) = 1

TypeInv ==
    /\ graph \in Graph
    /\ owner \in Sources \cup {NoThread}
    /\ th \in [Sources -> Threads]
    /\ \A t \in Sources : Fit(th[t])
    /\ nodeCnt \in Int /\ edgeCnt \in Int

\* Both sets have the same nodes and the same registry, and the registry finds
\* exactly the nodes of the list, each under its own ID.
Registry(g) ==
    /\ g.visible.nodes = g.complete.nodes /\ g.visible.reg = g.complete.reg
    /\ \A j \in 1..Len(g.complete.nodes) :
          g.complete.reg[g.complete.nodes[j][1]] = g.complete.nodes[j]
    /\ \A j, k \in 1..Len(g.complete.nodes) :
          g.complete.nodes[j] = g.complete.nodes[k] => j = k
    /\ \A id \in Ids : g.complete.reg[id] # NoNode =>
          g.complete.reg[id] \in ToSet(g.complete.nodes) /\ g.complete.reg[id][1] = id

\* The thread alone in the graph has its index inside the edge list, and one
\* below while it deletes the edge it found.
Alone(t) == owner = t \/ Sources = {t}

ScanInv ==
    \A t \in Sources : Alone(t) =>
       /\ th[t].pc = "del" => th[t].i <= Len(graph.complete.edges)
       /\ th[t].pc = "delHidden" => th[t].i + 1 <= Len(graph.complete.edges)

\* Nodes list only edges that end at them.
OwnEdges(g) == \A n \in NodeObjs : \A e \in ToSet(g.adj[n]) : n \in {e.from, e.to}

\* What a thread is about to delete: an edge found invisible still is, and the
\* ends of a link have the IDs the element names.
EdgeInv ==
    /\ OwnEdges(graph)
    /\ \A t \in Sources :
          /\ th[t].pc = "delHidden" => th[t].edge \in graph.hidden
          /\ th[t].pc \in {"findTo", "delEdge"} /\ th[t].from # NoNode => th[t].from[1] = th[t].link[1]
          /\ th[t].pc = "delEdge" => th[t].to[1] = th[t].link[2]

\* Without <modify_edge> no null edge is ever put on screen.
NullInv ==
    /\ NullEdge \notin ToSet(graph.visible.edges)
    /\ \A t \in Sources :
          /\ th[t].tag # "modify_edge"
          /\ th[t].pc = "addEdge" => th[t].edge # NullEdge

\* With a single source nothing is on screen before its connection is opened.
StartInv == \A t \in Sources : Sources = {t} /\ th[t].pc = "off" => graph.visible.edges = <<>>
-----------------------------------------------------------------------------
(* Objects: what is forgotten and what is new *)

\* Filtering an edge list leaves a list of some of its edges.
LEMMA KeptShape ==
    ASSUME NEW q \in Seq(EdgeObjs), NEW E
    PROVE  Kept(q, E) \in Seq(EdgeObjs) /\ ToSet(Kept(q, E)) \subseteq ToSet(q)
<1> DEFINE N == Len(q)
           V == {l \in Seq(EdgeObjs) : ToSet(l) \subseteq ToSet(q)}
           step == [k \in 1..N |-> [l \in V |-> Keep(l, q[k], E)]]
           Eq(it) == it = [t \in SUBSET DOMAIN q |->
                             IF t = {} THEN <<>> ELSE Keep(it[t \ {Max(t)}], q[Max(t)], E)]
           it == CHOOSE x : Eq(x)
<1>1. /\ N \in Nat /\ DOMAIN q = 1..N
      /\ \A k \in 1..N : q[k] \in EdgeObjs /\ q[k] \in ToSet(q)
  BY DEF ToSet
<1>2. <<>> \in V
  BY DEF ToSet
<1>3. ASSUME NEW l \in V, NEW k \in 1..N PROVE Keep(l, q[k], E) \in V
  <2>1. Append(l, q[k]) \in Seq(EdgeObjs) /\ ToSet(Append(l, q[k])) = ToSet(l) \cup {q[k]}
    BY <1>1, AppendRange
  <2> QED
    BY <1>1, <2>1 DEF Keep
<1> HIDE DEF N, V
<1>4. step \in [1..N -> [V -> V]]
  BY <1>3
<1>5. \E x : Eq(x)
  <2>1. PICK x : Recurses(x, V, <<>>, N, step)
    <3> HIDE DEF step
    <3> QED
      BY <1>1, <1>2, <1>4, SubsetRecursion
  <2>2. /\ x \in [SUBSET (1..N) -> V]
        /\ \A t \in SUBSET (1..N) : x[t] = IF t = {} THEN <<>> ELSE step[Max(t)][x[t \ {Max(t)}]]
    BY <2>1 DEF Recurses
  <2>3. ASSUME NEW t \in SUBSET (1..N), t # {}
        PROVE  x[t] = Keep(x[t \ {Max(t)}], q[Max(t)], E)
    <3>1. Max(t) \in 1..N
      BY <1>1, <2>3, MaxIn
    <3>2. x[t \ {Max(t)}] \in V
      BY <2>2
    <3> QED
      BY <2>2, <2>3, <3>1, <3>2
  <2>4. Eq(x)
    BY <1>1, <2>2, <2>3
  <2> QED
    BY <2>4
<1>6. Eq(it)
  <2> HIDE DEF Eq
  <2> QED
    BY <1>5
<1>7. Kept(q, E) = it[DOMAIN q]
  BY DEF Kept, FoldLeft, MapThenFoldSet
<1> HIDE DEF it, step
<1> DEFINE f == [k \in 0..N |-> it[1..k]]
<1>8. f[0] \in V
  BY <1>1, <1>2, <1>6
<1>9. ASSUME NEW k \in 1..N, f[k - 1] \in V
      PROVE  f[k] \in V
  <2>1. k \in Nat \ {0} /\ 1..k \in SUBSET (1..N) /\ k \in 0..N /\ k - 1 \in 0..N
    BY <1>1
  <2>2. Max(1..k) = k /\ (1..k) \ {k} = 1..k - 1 /\ 1..k # {}
    BY <2>1, LastOf
  <2>3. it[1..k] = Keep(it[(1..k) \ {Max(1..k)}], q[Max(1..k)], E)
    BY <1>1, <1>6, <2>1, <2>2
  <2>4. f[k] = Keep(f[k - 1], q[k], E)
    BY <2>1, <2>2, <2>3
  <2> HIDE DEF f
  <2> QED
    BY <1>3, <1>9, <2>4
<1>10. \A k \in 0..N : f[k] \in V
  <2> HIDE DEF f
  <2> QED
    BY <1>1, <1>8, <1>9, StaysIn
<1>11. Kept(q, E) \in V
  BY <1>1, <1>7, <1>10
<1> QED
  BY <1>11 DEF V

\* Forgetting unreachable objects leaves both sets as they are, forgets no edge
\* that is held, and lists no edge anew.
LEMMA SweptShape ==
    ASSUME NEW g \in Graph, NEW ths, NEW h, h = Swept(g, ths)
    PROVE  /\ h \in Graph /\ h.complete = g.complete /\ h.visible = g.visible
           /\ h.hidden = g.hidden \cap Held(ths, g).edges
           /\ FewerListed(g, h)
<1> DEFINE held == Held(ths, g)
           p == [n \in NodeObjs |-> IF n \in held.nodes THEN g.part[n] \cap held.nodes ELSE {}]
           a == [n \in NodeObjs |-> IF Contains(g.complete.nodes, n) THEN g.adj[n]
                                    ELSE Kept(g.adj[n], EdgesOf(g))]
<1>1. h = [g EXCEPT !.hidden = @ \cap held.edges, !.part = p, !.adj = a]
  BY DEF Swept
<1> HIDE DEF held
<1>2. p \in [NodeObjs -> SUBSET NodeObjs]
  BY GraphFields
<1>3. \A n \in NodeObjs : /\ Kept(g.adj[n], EdgesOf(g)) \in Seq(EdgeObjs)
                          /\ ToSet(Kept(g.adj[n], EdgesOf(g))) \subseteq ToSet(g.adj[n])
  BY GraphFields, KeptShape
<1>4. a \in [NodeObjs -> Seq(EdgeObjs)] /\ \A n \in NodeObjs : ToSet(a[n]) \subseteq ToSet(g.adj[n])
  BY <1>3, GraphFields
<1> HIDE DEF a, p
<1>5. h \in Graph
  BY <1>1, <1>2, <1>4 DEF Graph
<1>6. /\ h.complete = g.complete /\ h.visible = g.visible /\ h.adj = a
      /\ h.hidden = g.hidden \cap held.edges
  BY <1>1 DEF Graph
<1> QED
  BY <1>4, <1>5, <1>6 DEF FewerListed, held

\* What is held: the edges of the graph and the one a thread has in hand.
LEMMA HeldEdges ==
    ASSUME NEW ths, NEW g
    PROVE  /\ Held(ths, g).edges = EdgesOf(g) \cup ({ths[t].edge : t \in Sources} \ {NullEdge})
           /\ ToSet(g.complete.edges) \ {NullEdge} \subseteq Held(ths, g).edges
BY DEF Held, EdgesOf

\* A new Node object has the ID it was made for.
LEMMA FreeNodesShape ==
    ASSUME NEW id \in Ids, NEW n \in FreeNodes(id)
    PROVE  n \in NodeObjs /\ n[1] = id
<1> DEFINE free == {k \in 1..Copies : <<id, k>> \notin Held(th, graph).nodes}
<1>1. n \in {<<id, k>> : k \in {k \in free : k = Min(free)}}
  BY DEF FreeNodes
<1>2. PICK k \in free : n = <<id, k>>
  BY <1>1
<1>3. k \in 1..Copies
  OBVIOUS
<1> QED
  BY <1>2, <1>3 DEF NodeObjs

\* A new Node object has an empty edge list.
LEMMA WithNewNodeShape ==
    ASSUME NEW g \in Graph, NEW n \in NodeObjs, NEW h, h = WithNewNode(g, n)
    PROVE  h \in Graph /\ SameSets(g, h) /\ FewerListed(g, h)
<1> DEFINE g1 == NewPart(g, n)
<1>1. g1 \in Graph /\ SameSets(g, g1) /\ g1.adj = g.adj
  BY NewPartShape
<1>2. h = [g1 EXCEPT !.adj[n] = <<>>]
  BY DEF WithNewNode
<1> HIDE DEF g1
<1>3. [g1.adj EXCEPT ![n] = <<>>] \in [NodeObjs -> Seq(EdgeObjs)]
  BY <1>1, GraphFields
<1>4. h \in Graph /\ SameSets(g1, h) /\ h.adj = [g1.adj EXCEPT ![n] = <<>>]
  BY <1>1, <1>2, <1>3 DEF Graph, SameSets
<1>5. ASSUME NEW m \in NodeObjs PROVE ToSet(h.adj[m]) \subseteq ToSet(g.adj[m])
  BY <1>1, <1>4, GraphFields DEF ToSet
<1> QED
  BY <1>1, <1>4, <1>5 DEF SameSets, FewerListed

\* The values of a function on a finite set are finitely many.
LEMMA ImageFinite ==
    ASSUME NEW S, IsFiniteSet(S), NEW f
    PROVE  IsFiniteSet({f[x] : x \in S})
<1> DEFINE T == {f[x] : x \in S}
           g == [x \in S |-> f[x]]
<1>1. g \in Surjection(S, T)
  BY DEF Surjection
<1> HIDE DEF g, T
<1>2. IsFiniteSet(T)
  BY <1>1, FS_Surjection
<1> QED
  BY <1>2 DEF T

\* A list has finitely many elements.
LEMMA ListFinite ==
    ASSUME NEW S, NEW s \in Seq(S)
    PROVE  IsFiniteSet(ToSet(s))
<1>1. DOMAIN s = 1..Len(s) /\ Len(s) \in Nat
  OBVIOUS
<1>2. IsFiniteSet(DOMAIN s)
  BY <1>1, FS_Interval
<1> QED
  BY <1>2, ImageFinite DEF ToSet

\* A new Edge object is none that is held: there are more numbers to tell it apart
\* than there are objects.
LEMMA NewEdgeShape ==
    ASSUME TypeInv, NEW n \in NodeObjs, NEW m \in NodeObjs, NEW e, e = NewEdge(n, m)
    PROVE  /\ e \in EdgeObjs /\ e.from = n /\ e.to = m /\ e \notin Held(th, graph).edges
<1> DEFINE held == Held(th, graph).edges
           C == Cardinality(held)
           Obj(k) == [from |-> n, to |-> m, k |-> k]
           K == {k \in 0..C : Obj(k) \notin held}
<1>1. IsFiniteSet(held) /\ C \in Nat
  <2>1. IsFiniteSet(ToSet(graph.complete.edges)) /\ IsFiniteSet(ToSet(graph.visible.edges))
    <3>1. /\ graph.complete.edges \in Seq(EdgeObjs)
          /\ graph.visible.edges \in Seq(EdgeObjs \cup {NullEdge})
      BY GraphFields DEF TypeInv
    <3> QED
      BY <3>1, ListFinite
  <2>2. IsFiniteSet({th[t].edge : t \in Sources})
    <3> DEFINE f == [t \in Sources |-> th[t].edge]
    <3>1. {f[t] : t \in Sources} = {th[t].edge : t \in Sources}
      OBVIOUS
    <3> HIDE DEF f
    <3>2. IsFiniteSet({f[t] : t \in Sources})
      BY ImageFinite, ViewerAssumption
    <3> QED
      BY <3>1, <3>2
  <2>3. held = ((ToSet(graph.complete.edges) \cup ToSet(graph.visible.edges))
                \cup {th[t].edge : t \in Sources}) \ {NullEdge}
    BY HeldEdges DEF EdgesOf
  <2>4. IsFiniteSet(held)
    <3> DEFINE A == ToSet(graph.complete.edges) \cup ToSet(graph.visible.edges)
               B == A \cup {th[t].edge : t \in Sources}
    <3>1. IsFiniteSet(A)
      BY <2>1, FS_Union
    <3> HIDE DEF A
    <3>2. IsFiniteSet(B)
      BY <2>2, <3>1, FS_Union
    <3>3. held = B \ {NullEdge}
      BY <2>3 DEF A
    <3> HIDE DEF B
    <3>4. IsFiniteSet(B \ {NullEdge})
      BY <3>2, FS_Difference
    <3> QED
      BY <3>3, <3>4
  <2> QED
    BY <2>4, FS_CardinalityType
<1> HIDE DEF held, C
<1>2. K # {}
  <2>1. SUFFICES ASSUME K = {} PROVE FALSE
    OBVIOUS
  <2> DEFINE f == [k \in 0..C |-> Obj(k)]
  <2>2. f \in [0..C -> held] /\ \A j, k \in 0..C : f[j] = f[k] => j = k
    BY <2>1
  <2>3. Cardinality(0..C) = C + 1 /\ IsFiniteSet(0..C)
    BY <1>1, FS_Interval
  <2> HIDE DEF f
  <2>4. \E j, k \in 0..C : j # k /\ f[j] = f[k]
    BY <1>1, <2>2, <2>3, FS_PigeonHole DEF C
  <2> QED
    BY <2>2, <2>4
<1>3. Min(K) \in K
  <2>1. K \in SUBSET Nat
    BY <1>1
  <2> HIDE DEF K
  <2> QED
    BY <1>2, <2>1, MinIn
<1>4. e = Obj(Min(K))
  BY DEF NewEdge, held, C
<1> QED
  BY <1>1, <1>3, <1>4 DEF EdgeObjs, held
-----------------------------------------------------------------------------
(* Types *)

\* The fields of a thread.
LEMMA ThreadFields ==
    ASSUME NEW x \in Threads
    PROVE  /\ x.from \in NodeOrNull /\ x.to \in NodeOrNull /\ x.edge \in EdgeObjs \cup {NullEdge}
           /\ x.i \in Nat /\ x.partitions \in Seq(NodeOrNull) /\ x.try_cnt \in 0..2
           /\ x.link \in Links \cup {<<>>}
BY DEF Threads

\* A thread between two elements or without a connection.
LEMMA ThreadFit ==
    ASSUME NEW where \in {"off", "dial", "idle", "ended"}, NEW tries \in 0..2
    PROVE  /\ Fit(Thread(where, tries)) /\ Thread(where, tries).pc = where
           /\ Thread(where, tries).from = NoNode /\ Thread(where, tries).tag = ""
           /\ Thread(where, tries).i = 0
<1>1. <<>> \in Seq(NodeOrNull) /\ ToSet(<<>>) = {}
  BY DEF ToSet
<1>2. Thread(where, tries) \in Threads
  BY <1>1 DEF Thread, Threads, NodeOrNull
<1> QED
  BY <1>1, <1>2 DEF Fit, Thread, Updating

\* After a failed connection or a Throwable, run() dials again or ends.
LEMMA AgainFit ==
    ASSUME NEW tries \in 0..3
    PROVE  Fit(Again(tries)) /\ Again(tries).pc \in {"dial", "ended"} /\ Again(tries).tag = ""
<1>1. CASE Reconnect /\ tries < 3
  <2> DEFINE x == Thread("dial", tries)
  <2>1. Again(tries) = x /\ tries \in 0..2
    BY <1>1 DEF Again
  <2>2. Fit(x) /\ x.pc = "dial" /\ x.tag = ""
    BY <2>1, ThreadFit
  <2> HIDE DEF x
  <2> QED
    BY <2>1, <2>2
<1>2. CASE ~(Reconnect /\ tries < 3)
  <2>1. Again(tries) = Thread("ended", 0)
    BY <1>2 DEF Again
  <2>2. 0 \in 0..2 /\ "ended" \in {"off", "dial", "idle", "ended"}
    OBVIOUS
  <2>3. Fit(Thread("ended", 0)) /\ Thread("ended", 0).pc = "ended" /\ Thread("ended", 0).tag = ""
    BY <2>2, ThreadFit
  <2> QED
    BY <2>1, <2>3
<1> QED
  BY <1>1, <1>2

\* Dropped is such a thread.
LEMMA DroppedFit ==
    ASSUME TypeInv, NEW t \in Sources
    PROVE  Fit(Dropped(t)) /\ Dropped(t).pc \in {"dial", "ended"} /\ Dropped(t).tag = ""
<1>1. th[t].try_cnt \in 0..3
  <2>1. th[t].try_cnt \in 0..2
    BY ThreadFields DEF TypeInv
  <2> QED
    BY <2>1
<1> QED
  BY <1>1, AgainFit DEF Dropped

\* A thread on its way into updatePartitions.
LEMMA ToUpdateFit ==
    ASSUME TypeInv, NEW t \in Sources, NEW op \in {"node", "edge", "remove_node", "remove_edge"},
           NEW a \in NodeOrNull, NEW b \in NodeOrNull
    PROVE  Fit([ToUpdate(t, op) EXCEPT !.from = a, !.to = b])
<1> DEFINE x == th[t]
           y == [ToUpdate(t, op) EXCEPT !.from = a, !.to = b]
<1>1. x \in Threads /\ (NoNode \in ToSet(x.partitions) => Len(x.partitions) = 1)
  BY DEF TypeInv, Fit
<1>2. y = [x EXCEPT !.pc = "upd", !.op = op, !.edge = NullEdge, !.from = a, !.to = b]
  BY <1>1 DEF ToUpdate, Threads
<1> HIDE DEF x, y
<1>3. y \in Threads /\ y.pc = "upd" /\ y.op = op /\ y.partitions = x.partitions
  BY <1>1, <1>2 DEF Threads
<1>4. Fit(y)
  BY <1>1, <1>3 DEF Fit
<1> QED
  BY <1>4 DEF y

\* A step of thread t leaves the other threads alone.
LEMMA ThreadStep ==
    ASSUME TypeInv, NEW t \in Sources, NEW x, Fit(x), th' = [th EXCEPT ![t] = x]
    PROVE  /\ th' \in [Sources -> Threads] /\ (\A u \in Sources : Fit(th'[u]))
           /\ th'[t] = x /\ \A u \in Sources \ {t} : th'[u] = th[u]
BY DEF TypeInv, Fit

\* The connection, and elements that leave the graph alone.
LEMMA TypeConnection ==
    ASSUME TypeInv, NEW t \in Sources,
           startDocument(t) \/ refused(t) \/ endDocument(t)
    PROVE  TypeInv'
<1>1. th[t] \in Threads /\ Fit(th[t]) /\ th \in [Sources -> Threads]
  BY DEF TypeInv
<1>2. CASE startDocument(t)
  <2> DEFINE x == [th[t] EXCEPT !.pc = "begin"]
  <2>1. th' = [th EXCEPT ![t] = x]
    BY <1>1, <1>2 DEF startDocument
  <2>2. x \in Threads /\ x.pc = "begin" /\ x.partitions = th[t].partitions
    BY <1>1 DEF Threads
  <2>3. Fit(x)
    BY <1>1, <2>2 DEF Fit, Updating
  <2> HIDE DEF x
  <2>4. th' \in [Sources -> Threads] /\ \A u \in Sources : Fit(th'[u])
    BY <2>1, <2>3, ThreadStep
  <2> QED
    BY <1>2, <2>4 DEF TypeInv, startDocument, resetCounter
<1>3. CASE refused(t)
  <2>1. th[t].try_cnt + 1 \in 0..3
    BY <1>1, ThreadFields
  <2>2. th' = [th EXCEPT ![t] = Again(th[t].try_cnt + 1)]
    BY <1>3 DEF refused
  <2>3. Fit(Again(th[t].try_cnt + 1))
    BY <2>1, AgainFit
  <2>4. th' \in [Sources -> Threads] /\ \A u \in Sources : Fit(th'[u])
    BY <2>2, <2>3, ThreadStep
  <2> QED
    BY <1>3, <2>4 DEF TypeInv, refused
<1>4. CASE endDocument(t)
  <2>1. th' = [th EXCEPT ![t] = Dropped(t)]
    BY <1>4 DEF endDocument
  <2>2. th' \in [Sources -> Threads] /\ \A u \in Sources : Fit(th'[u])
    BY <2>1, DroppedFit, ThreadStep
  <2> QED
    BY <1>4, <2>2 DEF TypeInv, endDocument
<1> QED
  BY <1>2, <1>3, <1>4

\* What clears the graph: "Connect to host" and <topology>.
LEMMA TypeClear ==
    ASSUME TypeInv, NEW t \in Sources, Connect(t) \/ topology(t)
    PROVE  TypeInv'
<1>1. th[t] \in Threads /\ th \in [Sources -> Threads] /\ graph \in Graph
  BY DEF TypeInv
<1>2. clearAll(graph) \in Graph
  BY <1>1, ClearAllShape
<1>3. Swept(clearAll(graph), th') \in Graph
  BY <1>2, SweptShape
<1>4. CASE Connect(t)
  <2>1. th' \in [Sources -> Threads] /\ \A u \in Sources : Fit(th'[u])
    <3>1. CASE clearAllThrows(graph)
      BY <1>4, <3>1 DEF Connect, TypeInv
    <3>2. CASE ~clearAllThrows(graph)
      <4>1. th' = [th EXCEPT ![t] = Thread("dial", 0)]
        BY <1>4, <3>2 DEF Connect
      <4>2. "dial" \in {"off", "dial", "idle", "ended"} /\ 0 \in 0..2
        OBVIOUS
      <4>3. Fit(Thread("dial", 0))
        BY <4>2, ThreadFit
      <4> QED
        BY <4>1, <4>3, ThreadStep
    <3> QED
      BY <3>1, <3>2
  <2>2. graph' \in Graph /\ nodeCnt' \in Int /\ edgeCnt' \in Int
    BY <1>3, <1>4 DEF Connect, resetCounter, TypeInv
  <2> QED
    BY <1>4, <2>1, <2>2 DEF Connect, TypeInv
<1>5. CASE topology(t)
  <2> DEFINE x == IF clearAllThrows(graph) THEN Dropped(t) ELSE Thread("idle", th[t].try_cnt)
  <2>1. th' = [th EXCEPT ![t] = x]
    BY <1>1, <1>5 DEF topology
  <2>2. Fit(x)
    <3>1. "idle" \in {"off", "dial", "idle", "ended"} /\ th[t].try_cnt \in 0..2
      BY <1>1, ThreadFields
    <3>2. Fit(Thread("idle", th[t].try_cnt))
      BY <3>1, ThreadFit
    <3> QED
      BY <3>2, DroppedFit
  <2> HIDE DEF x
  <2>3. th' \in [Sources -> Threads] /\ \A u \in Sources : Fit(th'[u])
    BY <2>1, <2>2, ThreadStep
  <2> QED
    BY <1>3, <1>5, <2>3 DEF topology, TypeInv
<1> QED
  BY <1>4, <1>5

\* findNode returns a node or null.
LEMMA FindNodeShape ==
    ASSUME NEW g \in Graph, NEW id \in Ids
    PROVE  findNode(g, id) \in NodeOrNull
BY GraphFields DEF findNode, NodeOrNull

\* The node elements.
LEMMA TypeNodeElement ==
    ASSUME TypeInv, Registry(graph), NEW t \in Sources, NEW id \in Ids,
           node(t, id) \/ modify_node(t, id) \/ remove_node(t, id)
    PROVE  TypeInv'
<1>1. th[t] \in Threads /\ Fit(th[t]) /\ th \in [Sources -> Threads] /\ graph \in Graph
  BY DEF TypeInv
<1>2. CASE node(t, id)
  <2>1. PICK n \in FreeNodes(id) :
           LET g == WithNewNode(graph, n)
           IN  /\ th' = IF addNodeThrows(g, n) THEN th ELSE [th EXCEPT ![t] = ToUpdate(t, "node")]
               /\ graph' = Swept(addNode(g, n), th')
    BY <1>2 DEF node
  <2> DEFINE g == WithNewNode(graph, n)
  <2>2. n \in NodeObjs
    BY FreeNodesShape
  <2>3. g \in Graph /\ SameSets(graph, g)
    BY <1>1, <2>2, WithNewNodeShape
  <2>4. th' = (IF addNodeThrows(g, n) THEN th ELSE [th EXCEPT ![t] = ToUpdate(t, "node")])
        /\ graph' = Swept(addNode(g, n), th')
    BY <2>1
  <2> HIDE DEF g
  <2>5. addNode(g, n) \in Graph
    <3>1. g.visible.nodes = g.complete.nodes /\ g.visible.reg = g.complete.reg
      BY <2>3 DEF Registry, SameSets
    <3> QED
      BY <2>2, <2>3, <3>1, AddNodeKeeps
  <2>6. graph' \in Graph
    BY <2>4, <2>5, SweptShape
  <2>7. th' \in [Sources -> Threads] /\ \A u \in Sources : Fit(th'[u])
    <3>1. CASE addNodeThrows(g, n)
      BY <2>4, <3>1 DEF TypeInv
    <3>2. CASE ~addNodeThrows(g, n)
      <4> DEFINE x == [ToUpdate(t, "node") EXCEPT !.from = th[t].from, !.to = th[t].to]
      <4>1. x = ToUpdate(t, "node")
        BY <1>1 DEF ToUpdate, Threads
      <4>2. Fit(x)
        BY <1>1, ThreadFields, ToUpdateFit
      <4> HIDE DEF x
      <4>3. th' = [th EXCEPT ![t] = x]
        BY <2>4, <3>2, <4>1
      <4> QED
        BY <4>2, <4>3, ThreadStep
    <3> QED
      BY <3>1, <3>2
  <2> QED
    BY <1>2, <2>6, <2>7 DEF TypeInv, node
<1>3. CASE modify_node(t, id)
  <2>1. th' \in [Sources -> Threads] /\ \A u \in Sources : Fit(th'[u])
    <3>1. CASE UNCHANGED th
      BY <3>1 DEF TypeInv
    <3>2. CASE th' = [th EXCEPT ![t] = Dropped(t)]
      BY <3>2, DroppedFit, ThreadStep
    <3> QED
      BY <1>3, <3>1, <3>2 DEF modify_node
  <2> QED
    BY <1>3, <2>1 DEF TypeInv, modify_node
<1>4. CASE remove_node(t, id)
  <2> DEFINE n == findNode(graph, id)
             x == [th[t] EXCEPT !.from = n, !.op = "remove_node",
                                !.pc = IF n = NoNode THEN "done" ELSE "delNode"]
  <2>1. th' = [th EXCEPT ![t] = x]
    BY <1>1, <1>4 DEF remove_node
  <2>2. n \in NodeOrNull
    BY <1>1, FindNodeShape
  <2> HIDE DEF n
  <2>3. /\ x \in Threads /\ x.partitions = th[t].partitions /\ x.from = n /\ x.op = "remove_node"
        /\ x.pc = IF n = NoNode THEN "done" ELSE "delNode"
    BY <1>1, <2>2 DEF Threads
  <2> HIDE DEF x
  <2>4. Fit(x)
    BY <1>1, <2>2, <2>3 DEF Fit, Updating, NodeOrNull
  <2>5. th' \in [Sources -> Threads] /\ \A u \in Sources : Fit(th'[u])
    BY <2>1, <2>4, ThreadStep
  <2> QED
    BY <1>4, <2>5 DEF TypeInv, remove_node
<1> QED
  BY <1>2, <1>3, <1>4

\* The steps of the threads lead to threads that fit where they are; first the
\* ones that leave the graph alone.
ThreadsFit == th \in [Sources -> Threads] /\ \A u \in Sources : Fit(th[u])

\* The first and the second findNode of an edge element.
LEMMA FitFind ==
    ASSUME TypeInv, NEW t \in Sources,
           (\E tag \in {"edge", "modify_edge", "remove_edge"}, link \in Links :
               edgeElement(t, tag, link)) \/ findTo(t)
    PROVE  ThreadsFit'
<1> DEFINE y == th[t]
<1>1. y \in Threads /\ Fit(y) /\ th \in [Sources -> Threads] /\ graph \in Graph
  BY DEF TypeInv
<1>2. CASE \E tag \in {"edge", "modify_edge", "remove_edge"}, link \in Links :
               edgeElement(t, tag, link)
  <2>1. PICK tag \in {"edge", "modify_edge", "remove_edge"}, link \in Links :
               edgeElement(t, tag, link)
    BY <1>2
  <2> DEFINE n == findNode(graph, link[1])
             x == [y EXCEPT !.pc = "findTo", !.tag = tag, !.link = link, !.from = n]
  <2>2. th' = [th EXCEPT ![t] = x]
    BY <1>1, <2>1 DEF edgeElement
  <2>3. n \in NodeOrNull
    BY <1>1, FindNodeShape, ViewerAssumption
  <2> HIDE DEF n, y
  <2>4. x \in Threads /\ x.pc = "findTo" /\ x.link = link /\ x.partitions = y.partitions
    BY <1>1, <2>3 DEF Threads
  <2> HIDE DEF x
  <2>5. Fit(x)
    BY <1>1, <2>4 DEF Fit, Updating
  <2> QED
    BY <2>2, <2>5, ThreadStep DEF ThreadsFit
<1>3. CASE findTo(t)
  <2> DEFINE to == findNode(graph, y.link[2])
             gone == y.tag = "remove_edge" /\ (y.from = NoNode \/ to = NoNode)
             next == IF y.tag # "remove_edge" THEN "addFrom" ELSE "delEdge"
             x == [y EXCEPT !.to = to, !.pc = next]
             z == IF gone THEN Thread("idle", y.try_cnt) ELSE x
  <2>1. th' = [th EXCEPT ![t] = z]
    BY <1>1, <1>3 DEF findTo
  <2>2. y.link \in Links /\ to \in NodeOrNull
    BY <1>1, <1>3, FindNodeShape, ViewerAssumption DEF findTo, Fit
  <2>3. "idle" \in {"off", "dial", "idle", "ended"} /\ y.try_cnt \in 0..2
    BY <1>1, ThreadFields
  <2>4. Fit(Thread("idle", y.try_cnt))
    BY <2>3, ThreadFit
  <2> HIDE DEF to, y
  <2>5. /\ x \in Threads /\ x.link = y.link /\ x.partitions = y.partitions
        /\ x.from = y.from /\ x.to = to /\ x.pc = next /\ y.from \in NodeOrNull
    BY <1>1, <2>2 DEF Threads
  <2> HIDE DEF x
  <2>6. ASSUME ~gone PROVE Fit(x)
    BY <1>1, <2>2, <2>5, <2>6 DEF Fit, Updating, NodeOrNull
  <2>7. Fit(z)
    BY <2>4, <2>6
  <2> HIDE DEF z
  <2> QED
    BY <2>1, <2>7, ThreadStep DEF ThreadsFit
<1> QED
  BY <1>2, <1>3

\* addEnd: a new end is kept, and the thread goes on or into updatePartitions.
LEMMA FitEnd ==
    ASSUME TypeInv, NEW t \in Sources, NEW n \in NodeOrNull,
           NEW pc \in {"addFrom", "addTo"}, NEW x,
           th[t].pc = pc,
           LET end == IF pc = "addFrom" THEN "from" ELSE "to"
               next == IF pc = "addFrom" THEN "addTo" ELSE "connect"
           IN  \/ th[t][end] # NoNode /\ x = [th[t] EXCEPT !.pc = next]
               \/ n \in NodeObjs /\ x = [th[t] EXCEPT ![end] = n, !.pc = next]
               \/ n \in NodeObjs /\ x = [ToUpdate(t, pc) EXCEPT ![end] = n]
    PROVE  Fit(x)
<1> DEFINE y == th[t]
<1>1. y \in Threads /\ Fit(y)
  BY DEF TypeInv
<1>2. /\ y.link \in Links /\ y.from \in NodeOrNull /\ y.to \in NodeOrNull
      /\ y.pc = pc /\ (pc = "addTo" => y.from \in NodeObjs)
      /\ (NoNode \in ToSet(y.partitions) => Len(y.partitions) = 1)
  BY <1>1, ThreadFields DEF Fit
<1>3. \/ pc = "addFrom" /\ \/ y.from # NoNode /\ x = [y EXCEPT !.pc = "addTo"]
                           \/ n \in NodeObjs /\ x = [y EXCEPT !.from = n, !.pc = "addTo"]
                           \/ n \in NodeObjs /\ x = [y EXCEPT !.pc = "upd", !.op = pc, !.edge = NullEdge, !.from = n]
      \/ pc = "addTo" /\ \/ y.to # NoNode /\ x = [y EXCEPT !.pc = "connect"]
                         \/ n \in NodeObjs /\ x = [y EXCEPT !.to = n, !.pc = "connect"]
                         \/ n \in NodeObjs /\ x = [y EXCEPT !.pc = "upd", !.op = pc, !.edge = NullEdge, !.to = n]
  <2>1. CASE pc = "addFrom"
    BY <2>1, <1>1 DEF ToUpdate
  <2>2. CASE pc = "addTo"
    BY <2>2, <1>1 DEF ToUpdate
  <2> QED
    BY <2>1, <2>2
<1> HIDE DEF y
<1>4. /\ x \in Threads /\ x.link = y.link /\ x.partitions = y.partitions
      /\ \/ pc = "addFrom" /\ x.pc = "addTo" /\ x.from \in NodeObjs
         \/ pc = "addFrom" /\ x.pc = "upd" /\ x.op = pc /\ x.from \in NodeObjs
         \/ pc = "addTo" /\ x.pc = "connect" /\ x.to \in NodeObjs /\ x.from = y.from
         \/ pc = "addTo" /\ x.pc = "upd" /\ x.op = pc /\ x.to \in NodeObjs /\ x.from = y.from
  <2>1. n \in NodeObjs => n \in NodeOrNull
    BY DEF NodeOrNull
  <2>2. y.from # NoNode => y.from \in NodeObjs
    BY <1>2 DEF NodeOrNull
  <2>3. y.to # NoNode => y.to \in NodeObjs
    BY <1>2 DEF NodeOrNull
  <2>4. CASE pc = "addFrom"
    <3>1. CASE y.from # NoNode /\ x = [y EXCEPT !.pc = "addTo"]
      BY <1>1, <2>2, <2>4, <3>1 DEF Threads
    <3>2. CASE n \in NodeObjs /\ x = [y EXCEPT !.from = n, !.pc = "addTo"]
      BY <1>1, <2>1, <2>4, <3>2 DEF Threads
    <3>3. CASE n \in NodeObjs /\ x = [y EXCEPT !.pc = "upd", !.op = pc, !.edge = NullEdge, !.from = n]
      BY <1>1, <2>1, <2>4, <3>3 DEF Threads
    <3> QED
      BY <1>3, <2>4, <3>1, <3>2, <3>3
  <2>5. CASE pc = "addTo"
    <3>1. CASE y.to # NoNode /\ x = [y EXCEPT !.pc = "connect"]
      BY <1>1, <2>3, <2>5, <3>1 DEF Threads
    <3>2. CASE n \in NodeObjs /\ x = [y EXCEPT !.to = n, !.pc = "connect"]
      BY <1>1, <2>1, <2>5, <3>2 DEF Threads
    <3>3. CASE n \in NodeObjs /\ x = [y EXCEPT !.pc = "upd", !.op = pc, !.edge = NullEdge, !.to = n]
      BY <1>1, <2>1, <2>5, <3>3 DEF Threads
    <3> QED
      BY <1>3, <2>5, <3>1, <3>2, <3>3
  <2> QED
    BY <2>4, <2>5
<1> QED
  BY <1>2, <1>4 DEF Fit, Updating

-----------------------------------------------------------------------------
(* The registry under the operations on the graph *)

\* Operations on edges leave the registry alone.
LEMMA RegistrySame ==
    ASSUME NEW g, NEW h, Registry(g), SameNodes(g, h)
    PROVE  Registry(h)
BY DEF Registry, SameNodes

\* Forgetting objects does, too.
LEMMA RegistrySwept ==
    ASSUME NEW g \in Graph, Registry(g), NEW ths
    PROVE  Swept(g, ths) \in Graph /\ Registry(Swept(g, ths))
<1>1. /\ Swept(g, ths) \in Graph
      /\ Swept(g, ths).complete = g.complete /\ Swept(g, ths).visible = g.visible
  BY SweptShape
<1>2. SameNodes(g, Swept(g, ths))
  BY <1>1 DEF SameNodes
<1> QED
  BY <1>1, <1>2, RegistrySame

\* A node is added only under an ID that is free.
LEMMA RegistryAdd ==
    ASSUME NEW g \in Graph, Registry(g), NEW n \in NodeObjs
    PROVE  addNode(g, n) \in Graph /\ Registry(addNode(g, n))
<1> DEFINE h == addNode(g, n)
           N == g.complete.nodes
           R == g.complete.reg
           M == Len(N)
<1>1. g.visible.nodes = N /\ g.visible.reg = R
  BY DEF Registry
<1>2. /\ h \in Graph /\ h.visible.nodes = h.complete.nodes /\ h.visible.reg = h.complete.reg
      /\ \/ h.complete.nodes = N /\ h.complete.reg = R
         \/ R[n[1]] = NoNode /\ h.complete.nodes = Append(N, n)
            /\ h.complete.reg = [R EXCEPT ![n[1]] = n]
  BY <1>1, AddNodeShape
<1>3. N \in Seq(NodeObjs) /\ M \in Nat /\ R \in [Ids -> NodeObjs \cup {NoNode}]
      /\ \A j \in 1..M : N[j] \in NodeObjs
  BY GraphFields
<1>4. /\ \A j \in 1..M : R[N[j][1]] = N[j]
      /\ \A j, k \in 1..M : N[j] = N[k] => j = k
      /\ \A id \in Ids : R[id] # NoNode => R[id] \in ToSet(N) /\ R[id][1] = id
  BY DEF Registry
<1>5. n[1] \in Ids /\ n # NoNode /\ \A m \in NodeObjs : m[1] \in Ids /\ m # NoNode
  BY Parts
<1> HIDE DEF h, N, R, M
<1>6. CASE h.complete.nodes = N /\ h.complete.reg = R
  BY <1>2, <1>4, <1>6 DEF Registry, h, N, R, M
<1>7. CASE /\ R[n[1]] = NoNode /\ h.complete.nodes = Append(N, n)
           /\ h.complete.reg = [R EXCEPT ![n[1]] = n]
  <2> DEFINE A == Append(N, n)
             Q == [R EXCEPT ![n[1]] = n]
  <2>1. /\ Len(A) = M + 1 /\ A[M + 1] = n /\ \A j \in 1..M : A[j] = N[j]
        /\ ToSet(A) = ToSet(N) \cup {n}
    BY <1>3, AppendRange DEF M
  <2>2. \A j \in 1..M : N[j][1] # n[1]
    BY <1>3, <1>4, <1>5, <1>7
  <2>3. /\ Q[n[1]] = n /\ \A id \in Ids : id # n[1] => Q[id] = R[id]
    BY <1>3, <1>5
  <2> HIDE DEF A, Q
  <2>4. \A j \in 1..Len(A) : Q[A[j][1]] = A[j]
    <3> SUFFICES ASSUME NEW j \in 1..Len(A) PROVE Q[A[j][1]] = A[j]
      OBVIOUS
    <3>1. CASE j = M + 1
      BY <2>1, <2>3, <3>1
    <3>2. CASE j \in 1..M
      BY <1>3, <1>4, <1>5, <2>1, <2>2, <2>3, <3>2
    <3> QED
      BY <1>3, <2>1, <3>1, <3>2
  <2>5. \A j, k \in 1..Len(A) : A[j] = A[k] => j = k
    <3> SUFFICES ASSUME NEW j \in 1..Len(A), NEW k \in 1..Len(A), A[j] = A[k] PROVE j = k
      OBVIOUS
    <3>1. (j \in 1..M \/ j = M + 1) /\ (k \in 1..M \/ k = M + 1)
      BY <1>3, <2>1
    <3> QED
      BY <1>4, <2>1, <2>2, <3>1
  <2>6. \A id \in Ids : Q[id] # NoNode => Q[id] \in ToSet(A) /\ Q[id][1] = id
    BY <1>4, <2>1, <2>3
  <2>7. h.complete.nodes = A /\ h.complete.reg = Q
    BY <1>7 DEF A, Q
  <2>8. Registry(h)
    BY <1>2, <2>4, <2>5, <2>6, <2>7 DEF Registry
  <2> QED
    BY <1>2, <2>8 DEF h
<1> QED
  BY <1>2, <1>6, <1>7 DEF h

\* Removing a node frees its ID.
LEMMA RegistryDelete ==
    ASSUME NEW g \in Graph, Registry(g), NEW n \in NodeObjs
    PROVE  deleteNode(g, n) \in Graph /\ Registry(deleteNode(g, n))
<1> DEFINE h == deleteNode(g, n)
           N == g.complete.nodes
           R == g.complete.reg
           M == Len(N)
<1>1. g.visible.nodes = N /\ g.visible.reg = R
  BY DEF Registry
<1>2. /\ h \in Graph
      /\ IF Contains(N, n)
         THEN h.complete.nodes = RemoveFirst(N, n) /\ h.complete.reg = [R EXCEPT ![n[1]] = NoNode]
         ELSE h.complete.nodes = N /\ h.complete.reg = R
      /\ h.visible.nodes = h.complete.nodes /\ h.visible.reg = h.complete.reg
  BY <1>1, DeleteNodeShape
<1>3. N \in Seq(NodeObjs) /\ M \in Nat /\ R \in [Ids -> NodeObjs \cup {NoNode}]
      /\ \A j \in 1..M : N[j] \in NodeObjs
  BY GraphFields
<1>4. /\ \A j \in 1..M : R[N[j][1]] = N[j]
      /\ \A j, k \in 1..M : N[j] = N[k] => j = k
      /\ \A id \in Ids : R[id] # NoNode => R[id] \in ToSet(N) /\ R[id][1] = id
  BY DEF Registry
<1>5. n[1] \in Ids /\ n # NoNode /\ \A m \in NodeObjs : m[1] \in Ids /\ m # NoNode
  BY Parts
<1> HIDE DEF h, N, R, M
<1>6. CASE ~Contains(N, n)
  BY <1>2, <1>4, <1>6 DEF Registry, h, N, R, M
<1>7. CASE Contains(N, n)
  <2> DEFINE A == RemoveFirst(N, n)
             Q == [R EXCEPT ![n[1]] = NoNode]
  <2>1. PICK d \in 1..M : /\ N[d] = n /\ Len(A) = M - 1
                          /\ \A j \in 1..M - 1 : A[j] = IF j < d THEN N[j] ELSE N[j + 1]
    BY <1>3, <1>7, RemoveFirstProperties DEF M
  <2>2. ToSet(N) \ {n} \subseteq ToSet(A)
    BY <1>3, RemoveFirstRange
  <2>3. \A id \in Ids : Q[id] = IF id = n[1] THEN NoNode ELSE R[id]
    BY <1>3
  <2>4. \A m \in NodeObjs : m[1] \in Ids
    BY <1>5
  <2> HIDE DEF A, Q
  <2>5. ASSUME NEW j \in 1..Len(A)
        PROVE  \E i \in 1..M : A[j] = N[i] /\ i # d /\ i = IF j < d THEN j ELSE j + 1
    <3>1. CASE j < d
      BY <1>3, <2>1, <3>1
    <3>2. CASE ~(j < d)
      <4>1. j + 1 \in 1..M /\ j + 1 # d
        BY <1>3, <2>1, <3>2
      <4> QED
        BY <1>3, <2>1, <3>2, <4>1
    <3> QED
      BY <3>1, <3>2
  <2>6. \A i \in 1..M : i # d => N[i][1] # n[1]
    <3> SUFFICES ASSUME NEW i \in 1..M, N[i][1] = n[1] PROVE i = d
      OBVIOUS
    <3>1. R[N[i][1]] = N[i] /\ R[N[d][1]] = N[d]
      BY <1>4
    <3>2. N[i] = N[d]
      BY <2>1, <3>1
    <3> QED
      BY <1>4, <3>2
  <2>7. \A j \in 1..Len(A) : Q[A[j][1]] = A[j]
    <3> SUFFICES ASSUME NEW j \in 1..Len(A) PROVE Q[A[j][1]] = A[j]
      OBVIOUS
    <3>1. PICK i \in 1..M : A[j] = N[i] /\ i # d
      BY <2>5
    <3>2. A[j][1] \in Ids /\ A[j][1] # n[1]
      BY <1>3, <2>4, <2>6, <3>1
    <3> QED
      BY <1>4, <2>3, <3>1, <3>2
  <2>8. \A j, k \in 1..Len(A) : A[j] = A[k] => j = k
    <3> SUFFICES ASSUME NEW j \in 1..Len(A), NEW k \in 1..Len(A), A[j] = A[k] PROVE j = k
      OBVIOUS
    <3>1. PICK x \in 1..M : A[j] = N[x] /\ x = IF j < d THEN j ELSE j + 1
      BY <2>5
    <3>2. PICK y \in 1..M : A[k] = N[y] /\ y = IF k < d THEN k ELSE k + 1
      BY <2>5
    <3>3. N[x] = N[y] => x = y
      BY <1>4
    <3>4. x = y
      BY <3>1, <3>2, <3>3
    <3> QED
      BY <1>3, <2>1, <3>1, <3>2, <3>4
  <2>9. \A id \in Ids : Q[id] # NoNode => Q[id] \in ToSet(A) /\ Q[id][1] = id
    BY <1>4, <2>2, <2>3
  <2>10. h.complete.nodes = A /\ h.complete.reg = Q
    BY <1>2, <1>7 DEF A, Q
  <2>11. Registry(h)
    BY <1>2, <2>7, <2>8, <2>9, <2>10 DEF Registry
  <2> QED
    BY <1>2, <2>11 DEF h
<1> QED
  BY <1>6, <1>7

\* clearAll empties the lists and the registry, or stops before it touches them.
LEMMA RegistryClear ==
    ASSUME NEW g \in Graph, Registry(g)
    PROVE  clearAll(g) \in Graph /\ Registry(clearAll(g))
<1> DEFINE h == clearAll(g)
<1>1. /\ h \in Graph
      /\ IF clearAllThrows(g) THEN h.complete = g.complete /\ h.visible = g.visible
         ELSE h.complete = EmptySet /\ h.visible = EmptySet
  BY ClearAllShape
<1> HIDE DEF h
<1>2. CASE clearAllThrows(g)
  BY <1>1, <1>2 DEF Registry, h
<1>3. CASE ~clearAllThrows(g)
  <2>1. /\ EmptySet.nodes = <<>> /\ Len(<<>>) = 0 /\ 1..0 = {}
        /\ \A id \in Ids : EmptySet.reg[id] = NoNode
    BY DEF EmptySet
  <2> QED
    BY <1>1, <1>3, <2>1 DEF Registry, h
<1> QED
  BY <1>2, <1>3

-----------------------------------------------------------------------------
(* Every step leaves a graph with a registry *)

\* The nodes updatePartitions ties together are no nulls.
LEMMA TieNodes ==
    ASSUME NEW x, Fit(x), x.pc = "tie", x.i <= Len(x.partitions)
    PROVE  /\ x.i - 1 \in 1..Len(x.partitions) /\ x.i \in 1..Len(x.partitions)
           /\ \A k \in 1..Len(x.partitions) : x.partitions[k] \in NodeObjs
<1>1. /\ x.partitions \in Seq(NodeOrNull) /\ x.i \in Nat /\ x.i >= 2
      /\ (NoNode \in ToSet(x.partitions) => Len(x.partitions) = 1)
  BY ThreadFields DEF Fit
<1>2. NoNode \notin ToSet(x.partitions) /\ Len(x.partitions) \in Nat
  BY <1>1
<1>3. \A k \in 1..Len(x.partitions) : x.partitions[k] \in NodeOrNull /\ x.partitions[k] # NoNode
  BY <1>1, <1>2 DEF ToSet
<1> QED
  BY <1>1, <1>2, <1>3 DEF NodeOrNull

\* The graph with a new invisible edge that is in no set yet.
LEMMA HideNewShape ==
    ASSUME NEW g \in Graph, NEW e \in EdgeObjs, NEW h, h = [g EXCEPT !.hidden = @ \cup {e}]
    PROVE  /\ h \in Graph /\ h.complete = g.complete /\ h.visible = g.visible /\ h.adj = g.adj
           /\ h.hidden = g.hidden \cup {e}
BY DEF Graph

\* What a step that writes puts in place of the graph.
LEMMA GraphWritten ==
    ASSUME TypeInv, Registry(graph), NEW t \in Sources,
           \/ Connect(t) \/ topology(t) \/ delNode(t) \/ addEdgeStep(t) \/ delEdge(t)
           \/ delHidden(t) \/ tie(t) \/ addFrom(t) \/ addTo(t)
           \/ \E id \in Ids : node(t, id)
    PROVE  graph' \in Graph /\ Registry(graph')
<1> DEFINE y == th[t]
<1>1. y \in Threads /\ Fit(y) /\ graph \in Graph
  BY DEF TypeInv
<1>2. CASE Connect(t) \/ topology(t)
  <2>1. graph' = Swept(clearAll(graph), th')
    BY <1>2 DEF Connect, topology
  <2> QED
    BY <1>1, <2>1, RegistryClear, RegistrySwept
<1>3. ASSUME NEW n \in NodeObjs, graph' = Swept(addNode(WithNewNode(graph, n), n), th')
      PROVE  graph' \in Graph /\ Registry(graph')
  <2>1. WithNewNode(graph, n) \in Graph /\ SameSets(graph, WithNewNode(graph, n))
    BY <1>1, WithNewNodeShape
  <2>2. Registry(WithNewNode(graph, n))
    BY <2>1, RegistrySame DEF SameSets, SameNodes
  <2> QED
    BY <1>3, <2>1, <2>2, RegistryAdd, RegistrySwept
<1>4. CASE \E id \in Ids : node(t, id)
  <2>1. PICK id \in Ids : node(t, id)
    BY <1>4
  <2>2. PICK n \in FreeNodes(id) : graph' = Swept(addNode(WithNewNode(graph, n), n), th')
    BY <2>1 DEF node
  <2> QED
    BY <1>3, <2>2, FreeNodesShape
<1>5. ASSUME NEW pc \in {"addFrom", "addTo"}, NEW end \in {"from", "to"}, NEW next,
             addEnd(t, pc, end, next)
      PROVE  graph' \in Graph /\ Registry(graph')
  <2>1. CASE UNCHANGED graph
    BY <1>1, <2>1
  <2>2. CASE ~UNCHANGED graph
    <3>1. PICK n \in FreeNodes(y.link[IF end = "from" THEN 1 ELSE 2]) :
             graph' = Swept(addNode(WithNewNode(graph, n), n), th')
      BY <1>5, <2>2 DEF addEnd
    <3>2. y.link \in Links
      BY <1>1, <1>5 DEF addEnd, Fit
    <3>3. y.link[IF end = "from" THEN 1 ELSE 2] \in Ids
      BY <3>2, ViewerAssumption
    <3>4. n \in NodeObjs
      BY <3>1, <3>3, FreeNodesShape
    <3> QED
      BY <1>3, <3>1, <3>4
  <2> QED
    BY <2>1, <2>2
<1>6. CASE addFrom(t) \/ addTo(t)
  BY <1>5, <1>6 DEF addFrom, addTo
<1>7. CASE delNode(t)
  <2>1. y.from \in NodeObjs /\ graph' = Swept(deleteNode(graph, y.from), th')
    BY <1>1, <1>7 DEF delNode, Fit
  <2> QED
    BY <1>1, <2>1, RegistryDelete, RegistrySwept
<1>8. ASSUME NEW g \in Graph, SameNodes(graph, g), graph' = Swept(g, th')
      PROVE  graph' \in Graph /\ Registry(graph')
  BY <1>8, RegistrySame, RegistrySwept
<1>9. CASE addEdgeStep(t)
  <2>1. y.edge \in EdgeObjs \cup {NullEdge} /\ graph' = Swept(addEdge(graph, y.edge), th')
    BY <1>1, <1>9, ThreadFields DEF addEdgeStep
  <2>2. addEdge(graph, y.edge) \in Graph /\ SameNodes(graph, addEdge(graph, y.edge))
    BY <1>1, <2>1, AddEdgeShape
  <2> QED
    BY <1>8, <2>1, <2>2
<1>10. ASSUME NEW e \in EdgeObjs \cup {NullEdge}, graph' = Swept(deleteEdge(graph, e), th')
       PROVE  graph' \in Graph /\ Registry(graph')
  <2>1. CASE e \in EdgeObjs
    BY <1>1, <1>8, <1>10, <2>1, DeleteEdgeShape
  <2>2. CASE e = NullEdge
    <3>1. deleteEdge(graph, e) = graph
      BY <2>2 DEF deleteEdge
    <3> QED
      BY <1>1, <1>8, <1>10, <3>1 DEF SameNodes
  <2> QED
    BY <2>1, <2>2
<1>11. CASE delEdge(t)
  <2> DEFINE e == findEdge(graph, y.from, y.to)
  <2>1. y.from \in NodeObjs /\ y.to \in NodeObjs /\ graph' = Swept(deleteEdge(graph, e), th')
    BY <1>1, <1>11 DEF delEdge, Fit
  <2>2. e \in EdgeObjs \cup {NullEdge}
    BY <1>1, <2>1, FindEdgeShape
  <2> HIDE DEF e
  <2> QED
    BY <1>10, <2>1, <2>2
<1>12. CASE delHidden(t)
  BY <1>1, <1>10, <1>12, ThreadFields DEF delHidden
<1>13. CASE tie(t)
  <2>1. CASE UNCHANGED graph
    BY <1>1, <2>1
  <2>2. CASE ~UNCHANGED graph
    <3> DEFINE e == NewEdge(y.partitions[y.i - 1], y.partitions[y.i])
               g == [graph EXCEPT !.hidden = @ \cup {e}]
    <3>1. y.i <= Len(y.partitions) /\ y.pc = "tie" /\ graph' = Swept(addEdge(g, e), th')
      BY <1>1, <1>13, <2>2, ThreadFields DEF tie
    <3>2. y.partitions[y.i - 1] \in NodeObjs /\ y.partitions[y.i] \in NodeObjs
      BY <1>1, <3>1, TieNodes
    <3>3. e \in EdgeObjs
      BY <3>2, NewEdgeShape
    <3> HIDE DEF e
    <3>4. g \in Graph /\ g.complete = graph.complete /\ g.visible = graph.visible
      BY <1>1, <3>3, HideNewShape
    <3> HIDE DEF g
    <3>5. addEdge(g, e) \in Graph /\ SameNodes(g, addEdge(g, e))
      BY <3>3, <3>4, AddEdgeShape
    <3>6. SameNodes(graph, addEdge(g, e))
      BY <3>4, <3>5 DEF SameNodes
    <3> QED
      BY <1>8, <3>1, <3>5, <3>6
  <2> QED
    BY <2>1, <2>2
<1> QED
  BY <1>2, <1>4, <1>6, <1>7, <1>9, <1>11, <1>12, <1>13

-----------------------------------------------------------------------------
(* Every step leaves threads that fit where they are *)

\* The steps of startElement between its calls of updatePartitions.
LEMMA FitElement ==
    ASSUME TypeInv, NEW t \in Sources,
           \/ addFrom(t) \/ addTo(t) \/ connect(t) \/ addEdgeStep(t) \/ delNode(t) \/ delEdge(t)
    PROVE  ThreadsFit'
<1> DEFINE y == th[t]
<1>1. y \in Threads /\ Fit(y) /\ th \in [Sources -> Threads] /\ graph \in Graph
  BY DEF TypeInv
<1>2. y.from \in NodeOrNull /\ y.to \in NodeOrNull /\ NoNode \in NodeOrNull
  BY <1>1, ThreadFields DEF NodeOrNull
<1>3. CASE addFrom(t)
  <2>1. addEnd(t, "addFrom", "from", "addTo")
    BY <1>3 DEF addFrom
  <2>2. CASE y.from # NoNode
    <3>1. th' = [th EXCEPT ![t] = [y EXCEPT !.pc = "addTo"]] /\ y.pc = "addFrom"
      BY <1>1, <2>1, <2>2 DEF addEnd
    <3>2. Fit([y EXCEPT !.pc = "addTo"])
      BY <1>2, <2>2, <3>1, FitEnd
    <3> QED
      BY <3>1, <3>2, ThreadStep DEF ThreadsFit
  <2>3. CASE y.from = NoNode
    <3>1. PICK n \in FreeNodes(y.link[1]) :
             th' = [th EXCEPT ![t] = IF addNodeThrows(WithNewNode(graph, n), n)
                                     THEN [y EXCEPT !["from"] = n, !.pc = "addTo"]
                                     ELSE [ToUpdate(t, "addFrom") EXCEPT !["from"] = n]]
      BY <1>1, <2>1, <2>3 DEF addEnd
    <3>2. y.pc = "addFrom" /\ y.link \in Links
      BY <1>1, <2>1 DEF addEnd, Fit
    <3>3. y.link[1] \in Ids
      BY <3>2, ViewerAssumption
    <3>4. n \in NodeObjs /\ n \in NodeOrNull
      BY <3>1, <3>3, FreeNodesShape DEF NodeOrNull
    <3>5. /\ Fit([y EXCEPT !["from"] = n, !.pc = "addTo"])
          /\ Fit([ToUpdate(t, "addFrom") EXCEPT !["from"] = n])
      BY <3>2, <3>4, FitEnd
    <3> QED
      BY <3>1, <3>5, ThreadStep DEF ThreadsFit
  <2> QED
    BY <2>2, <2>3
<1>4. CASE addTo(t)
  <2>1. addEnd(t, "addTo", "to", "connect")
    BY <1>4 DEF addTo
  <2>2. CASE y.to # NoNode
    <3>1. th' = [th EXCEPT ![t] = [y EXCEPT !.pc = "connect"]] /\ y.pc = "addTo"
      BY <1>1, <2>1, <2>2 DEF addEnd
    <3>2. Fit([y EXCEPT !.pc = "connect"])
      BY <1>2, <2>2, <3>1, FitEnd
    <3> QED
      BY <3>1, <3>2, ThreadStep DEF ThreadsFit
  <2>3. CASE y.to = NoNode
    <3>1. PICK n \in FreeNodes(y.link[2]) :
             th' = [th EXCEPT ![t] = IF addNodeThrows(WithNewNode(graph, n), n)
                                     THEN [y EXCEPT !["to"] = n, !.pc = "connect"]
                                     ELSE [ToUpdate(t, "addTo") EXCEPT !["to"] = n]]
      BY <1>1, <2>1, <2>3 DEF addEnd
    <3>2. y.pc = "addTo" /\ y.link \in Links
      BY <1>1, <2>1 DEF addEnd, Fit
    <3>3. y.link[2] \in Ids
      BY <3>2, ViewerAssumption
    <3>4. n \in NodeObjs /\ n \in NodeOrNull
      BY <3>1, <3>3, FreeNodesShape DEF NodeOrNull
    <3>5. /\ Fit([y EXCEPT !["to"] = n, !.pc = "connect"])
          /\ Fit([ToUpdate(t, "addTo") EXCEPT !["to"] = n])
      BY <3>2, <3>4, FitEnd
    <3> QED
      BY <3>1, <3>5, ThreadStep DEF ThreadsFit
  <2> QED
    BY <2>2, <2>3
<1>5. CASE connect(t)
  <2> DEFINE e == IF y.tag = "modify_edge" THEN findEdge(graph, y.from, y.to)
                  ELSE NewEdge(y.from, y.to)
             x == [y EXCEPT !.pc = "addEdge", !.edge = e]
  <2>1. th' = [th EXCEPT ![t] = x]
    BY <1>1, <1>5 DEF connect
  <2>2. y.from \in NodeObjs /\ y.to \in NodeObjs /\ y.link \in Links
    BY <1>1, <1>5 DEF connect, Fit
  <2>3. findEdge(graph, y.from, y.to) \in EdgeObjs \cup {NullEdge} /\ NewEdge(y.from, y.to) \in EdgeObjs
    BY <1>1, <2>2, FindEdgeShape, NewEdgeShape
  <2>4. e \in EdgeObjs \cup {NullEdge}
    BY <2>3
  <2> HIDE DEF e, y
  <2>5. /\ x \in Threads /\ x.pc = "addEdge" /\ x.link = y.link /\ x.from = y.from
        /\ x.to = y.to /\ x.partitions = y.partitions
    BY <1>1, <2>4 DEF Threads
  <2> HIDE DEF x
  <2>6. Fit(x)
    BY <1>1, <2>2, <2>5 DEF Fit, Updating
  <2> QED
    BY <2>1, <2>6, ThreadStep DEF ThreadsFit
<1>6. CASE addEdgeStep(t)
  <2>1. th' = [th EXCEPT ![t] = IF addEdgeThrows(graph, y.edge) THEN Dropped(t)
                                ELSE [ToUpdate(t, "edge") EXCEPT !.from = NoNode, !.to = NoNode]]
    BY <1>1, <1>6 DEF addEdgeStep
  <2>2. Fit(Dropped(t)) /\ Fit([ToUpdate(t, "edge") EXCEPT !.from = NoNode, !.to = NoNode])
    BY <1>2, DroppedFit, ToUpdateFit
  <2> QED
    BY <2>1, <2>2, ThreadStep DEF ThreadsFit
<1>7. CASE delNode(t)
  <2> DEFINE x == [ToUpdate(t, "remove_node") EXCEPT !.from = NoNode, !.to = y.to]
  <2>1. th' = [th EXCEPT ![t] = x]
    <3>1. [ToUpdate(t, "remove_node") EXCEPT !.from = NoNode] = x
      BY <1>1 DEF ToUpdate, Threads
    <3> HIDE DEF x
    <3> QED
      BY <1>7, <3>1 DEF delNode
  <2>2. Fit(x)
    BY <1>2, ToUpdateFit
  <2> HIDE DEF x
  <2> QED
    BY <2>1, <2>2, ThreadStep DEF ThreadsFit
<1>8. CASE delEdge(t)
  <2>1. th' = [th EXCEPT ![t] = [ToUpdate(t, "remove_edge") EXCEPT !.from = NoNode, !.to = NoNode]]
    BY <1>8 DEF delEdge
  <2>2. Fit([ToUpdate(t, "remove_edge") EXCEPT !.from = NoNode, !.to = NoNode])
    BY <1>2, ToUpdateFit
  <2> QED
    BY <2>1, <2>2, ThreadStep DEF ThreadsFit
<1> QED
  BY <1>3, <1>4, <1>5, <1>6, <1>7, <1>8

\* A step inside updatePartitions keeps op, link, from and to.
LEMMA FitSame ==
    ASSUME NEW y, Fit(y), y.pc \in Updating, NEW x \in Threads, x.pc \in Updating,
           x.op = y.op, x.link = y.link, x.from = y.from, x.to = y.to,
           x.pc = "delHidden" => x.edge \in EdgeObjs,
           x.pc \in {"count", "scan"} => x.i >= 1,
           x.pc = "tie" => x.i >= 2,
           NoNode \in ToSet(x.partitions) => Len(x.partitions) = 1
    PROVE  Fit(x)
BY DEF Fit, Updating

\* The steps of updatePartitions.
LEMMA FitUpdate ==
    ASSUME TypeInv, NEW t \in Sources,
           \/ upd(t) \/ del(t) \/ delHidden(t) \/ count(t) \/ scan(t) \/ tie(t) \/ done(t)
    PROVE  ThreadsFit'
<1> DEFINE y == th[t]
<1>1. y \in Threads /\ Fit(y) /\ th \in [Sources -> Threads] /\ graph \in Graph
  BY DEF TypeInv
<1>2. /\ y.i \in Nat /\ y.partitions \in Seq(NodeOrNull) /\ Len(y.partitions) \in Nat
      /\ (NoNode \in ToSet(y.partitions) => Len(y.partitions) = 1)
  BY <1>1, ThreadFields DEF Fit
<1>3. /\ graph.complete.edges \in Seq(EdgeObjs) /\ graph.complete.nodes \in Seq(NodeObjs)
      /\ Len(graph.complete.edges) \in Nat /\ Len(graph.complete.nodes) \in Nat
  BY <1>1, GraphFields
<1>4. CASE upd(t)
  <2> DEFINE x == [y EXCEPT !.pc = "del", !.i = Len(graph.complete.edges)]
  <2>1. th' = [th EXCEPT ![t] = x] /\ y.pc \in Updating
    BY <1>1, <1>4 DEF upd, Updating
  <2> HIDE DEF y
  <2>2. /\ x \in Threads /\ x.pc = "del" /\ x.op = y.op /\ x.link = y.link
        /\ x.from = y.from /\ x.to = y.to /\ x.partitions = y.partitions
    BY <1>1, <1>3 DEF Threads
  <2>3. Fit(x)
    BY <1>1, <1>2, <2>1, <2>2, FitSame DEF Updating
  <2> HIDE DEF x
  <2> QED
    BY <2>1, <2>3, ThreadStep DEF ThreadsFit
<1>5. CASE del(t)
  <2> DEFINE edges == graph.complete.edges
             a == [y EXCEPT !.pc = "count", !.i = 1]
             b == [y EXCEPT !.pc = "delHidden", !.edge = edges[y.i], !.i = y.i - 1]
             c == [y EXCEPT !.i = y.i - 1]
             x == IF y.i = 0 THEN a
                  ELSE IF y.i > Len(edges) THEN Dropped(t)
                  ELSE IF edges[y.i] \in graph.hidden THEN b ELSE c
  <2>1. th' = [th EXCEPT ![t] = x] /\ y.pc = "del" /\ y.pc \in Updating
    BY <1>1, <1>5 DEF del, Updating
  <2> HIDE DEF y
  <2>2. /\ a \in Threads /\ a.pc = "count" /\ a.op = y.op /\ a.link = y.link /\ a.i = 1
        /\ a.from = y.from /\ a.to = y.to /\ a.partitions = y.partitions
    BY <1>1 DEF Threads
  <2>3. Fit(a)
    <3> HIDE DEF a
    <3>1. a.pc \in Updating /\ a.pc # "delHidden" /\ a.pc # "tie" /\ a.i >= 1
      BY <2>2 DEF Updating
    <3> QED
      BY <1>1, <1>2, <2>1, <2>2, <3>1, FitSame
  <2>4. ASSUME y.i # 0, ~(y.i > Len(edges)) PROVE Fit(b)
    <3>1. edges[y.i] \in EdgeObjs /\ y.i - 1 \in Nat
      BY <1>2, <1>3, <2>4
    <3>2. /\ b \in Threads /\ b.pc = "delHidden" /\ b.op = y.op /\ b.link = y.link
          /\ b.edge = edges[y.i]
          /\ b.from = y.from /\ b.to = y.to /\ b.partitions = y.partitions
      BY <1>1, <3>1 DEF Threads
    <3> HIDE DEF b
    <3> QED
      BY <1>1, <1>2, <2>1, <3>1, <3>2, FitSame DEF Updating
  <2>5. ASSUME y.i # 0 PROVE Fit(c)
    <3>1. y.i - 1 \in Nat
      BY <1>2, <2>5
    <3>2. /\ c \in Threads /\ c.pc = y.pc /\ c.op = y.op /\ c.link = y.link
          /\ c.from = y.from /\ c.to = y.to /\ c.partitions = y.partitions
      BY <1>1, <3>1 DEF Threads
    <3> HIDE DEF c
    <3> QED
      BY <1>1, <1>2, <2>1, <3>2, FitSame DEF Updating
  <2>6. Fit(Dropped(t))
    BY DroppedFit
  <2> HIDE DEF a, b, c
  <2>7. Fit(x)
    BY <2>3, <2>4, <2>5, <2>6
  <2> HIDE DEF x
  <2> QED
    BY <2>1, <2>7, ThreadStep DEF ThreadsFit
<1>6. CASE delHidden(t)
  <2> DEFINE x == [y EXCEPT !.pc = "del", !.edge = NullEdge]
  <2>1. th' = [th EXCEPT ![t] = x] /\ y.pc \in Updating
    BY <1>1, <1>6 DEF delHidden, Updating
  <2> HIDE DEF y
  <2>2. /\ x \in Threads /\ x.pc = "del" /\ x.op = y.op /\ x.link = y.link
        /\ x.from = y.from /\ x.to = y.to /\ x.partitions = y.partitions
    BY <1>1 DEF Threads
  <2>3. Fit(x)
    BY <1>1, <1>2, <2>1, <2>2, FitSame DEF Updating
  <2> HIDE DEF x
  <2> QED
    BY <2>1, <2>3, ThreadStep DEF ThreadsFit
<1>7. CASE count(t)
  <2> DEFINE more == ~(y.i > Len(graph.complete.nodes))
             a == [y EXCEPT !.pc = "tie", !.i = 2]
             b == [y EXCEPT !.pc = "scan"]
             x == IF more THEN b ELSE a
  <2>1. th' = [th EXCEPT ![t] = x] /\ y.pc \in Updating /\ y.pc = "count"
    BY <1>1, <1>7 DEF count, Updating
  <2>2. y.i >= 1
    BY <1>1, <2>1 DEF Fit
  <2> HIDE DEF y, more
  <2>3. /\ a \in Threads /\ a.pc = "tie" /\ a.op = y.op /\ a.link = y.link /\ a.i = 2
        /\ a.from = y.from /\ a.to = y.to /\ a.partitions = y.partitions
    BY <1>1 DEF Threads
  <2>4. /\ b \in Threads /\ b.pc = "scan" /\ b.op = y.op /\ b.link = y.link /\ b.i = y.i
        /\ b.from = y.from /\ b.to = y.to /\ b.partitions = y.partitions
    BY <1>1 DEF Threads
  <2> HIDE DEF a, b
  <2>5. Fit(a)
    BY <1>1, <1>2, <2>1, <2>3, FitSame DEF Updating
  <2>6. Fit(b)
    BY <1>1, <1>2, <2>1, <2>2, <2>4, FitSame DEF Updating
  <2>7. Fit(x)
    BY <2>5, <2>6
  <2> HIDE DEF x
  <2> QED
    BY <2>1, <2>7, ThreadStep DEF ThreadsFit
<1>8. CASE scan(t)
  <2> DEFINE nodes == graph.complete.nodes
             known == ToSet(y.partitions)
             fails == IF nodes = <<>> THEN known # {} ELSE y.i > Len(nodes) \/ NoNode \in known
             n == IF nodes = <<>> THEN NoNode ELSE nodes[y.i]
             new == \A m \in known : graph.part[m] # graph.part[n]
             p == IF new THEN Append(y.partitions, n) ELSE y.partitions
             a == [y EXCEPT !.pc = "count", !.i = y.i + 1, !.partitions = p]
             x == IF fails THEN Dropped(t) ELSE a
  <2>1. th' = [th EXCEPT ![t] = x] /\ y.pc \in Updating /\ y.pc = "scan"
    <3>1. th' = [th EXCEPT ![t] = x]
      BY <1>8 DEF scan
    <3>2. y.pc = "scan"
      BY <1>8 DEF scan
    <3> QED
      BY <3>1, <3>2 DEF Updating
  <2>2. y.i >= 1
    BY <1>1, <2>1 DEF Fit
  <2>3. ASSUME ~fails PROVE /\ p \in Seq(NodeOrNull)
                            /\ (NoNode \in ToSet(p) => Len(p) = 1)
    <3>1. CASE nodes = <<>>
      <4>1. known = {} /\ n = NoNode
        BY <2>3, <3>1
      <4>2. y.partitions = <<>>
        <5>1. \A k \in 1..Len(y.partitions) : y.partitions[k] \in known
          BY <1>2 DEF ToSet
        <5>2. Len(y.partitions) = 0
          BY <1>2, <4>1, <5>1
        <5> QED
          BY <1>2, <5>2
      <4>3. p = Append(<<>>, NoNode)
        BY <4>1, <4>2
      <4>4. <<>> \in Seq(NodeOrNull) /\ NoNode \in NodeOrNull
        BY DEF NodeOrNull
      <4>5. /\ Append(<<>>, NoNode) \in Seq(NodeOrNull)
            /\ Len(Append(<<>>, NoNode)) = Len(<<>>) + 1 /\ Len(<<>>) = 0
        BY <4>4
      <4> HIDE DEF p
      <4> QED
        BY <4>3, <4>5
    <3>2. CASE nodes # <<>>
      <4>1. NoNode \notin known /\ y.i \in 1..Len(nodes)
        BY <1>2, <1>3, <2>2, <2>3, <3>2
      <4>2. n \in NodeObjs
        BY <1>3, <3>2, <4>1
      <4>3. n \in NodeOrNull /\ n # NoNode
        BY <4>2, Parts DEF NodeOrNull
      <4> HIDE DEF n, new, known
      <4>4. Append(y.partitions, n) \in Seq(NodeOrNull) /\ ToSet(Append(y.partitions, n)) = known \cup {n}
        BY <1>2, <4>3, AppendRange DEF known
      <4> QED
        BY <1>2, <4>1, <4>3, <4>4 DEF known
    <3> QED
      BY <3>1, <3>2
  <2> HIDE DEF y, p, fails
  <2>4. ASSUME ~fails PROVE Fit(a)
    <3>1. /\ a \in Threads /\ a.pc = "count" /\ a.op = y.op /\ a.link = y.link /\ a.i = y.i + 1
          /\ a.from = y.from /\ a.to = y.to /\ a.partitions = p
      <4>1. y.i + 1 \in Nat /\ p \in Seq(NodeOrNull)
        BY <1>2, <2>3, <2>4
      <4> QED
        BY <1>1, <4>1 DEF Threads
    <3> HIDE DEF a
    <3>2. a.i >= 1 /\ a.pc \in Updating /\ a.pc # "delHidden" /\ a.pc # "tie"
      BY <1>2, <3>1 DEF Updating
    <3> QED
      BY <1>1, <2>1, <2>3, <2>4, <3>1, <3>2, FitSame
  <2>5. Fit(Dropped(t))
    BY DroppedFit
  <2> HIDE DEF a
  <2>6. Fit(x)
    BY <2>4, <2>5
  <2> HIDE DEF x
  <2> QED
    BY <2>1, <2>6, ThreadStep DEF ThreadsFit
<1>9. CASE tie(t)
  <2> DEFINE last == y.i > Len(y.partitions)
             a == [y EXCEPT !.pc = "done", !.partitions = <<>>, !.i = 0]
             b == [y EXCEPT !.i = y.i + 1]
             x == IF last THEN a ELSE b
  <2>1. th' = [th EXCEPT ![t] = x] /\ y.pc \in Updating /\ y.pc = "tie"
    BY <1>1, <1>9 DEF tie, Updating
  <2>2. y.i >= 2
    BY <1>1, <2>1 DEF Fit
  <2>3. <<>> \in Seq(NodeOrNull) /\ ToSet(<<>>) = {}
    BY DEF ToSet
  <2> HIDE DEF y, last
  <2>4. /\ a \in Threads /\ a.pc = "done" /\ a.op = y.op /\ a.link = y.link
        /\ a.from = y.from /\ a.to = y.to /\ a.partitions = <<>>
    BY <1>1, <2>3 DEF Threads
  <2>5. /\ b \in Threads /\ b.pc = y.pc /\ b.op = y.op /\ b.link = y.link /\ b.i = y.i + 1
        /\ b.from = y.from /\ b.to = y.to /\ b.partitions = y.partitions
    <3>1. y.i + 1 \in Nat
      BY <1>2
    <3> QED
      BY <1>1, <3>1 DEF Threads
  <2> HIDE DEF a, b
  <2>6. Fit(a)
    BY <1>1, <2>1, <2>3, <2>4, FitSame DEF Updating
  <2>7. b.i >= 2
    BY <1>2, <2>2, <2>5
  <2>8. Fit(b)
    BY <1>1, <1>2, <2>1, <2>5, <2>7, FitSame
  <2>9. Fit(x)
    BY <2>6, <2>8
  <2> HIDE DEF x
  <2> QED
    BY <2>1, <2>9, ThreadStep DEF ThreadsFit
<1>10. CASE done(t)
  <2> DEFINE a == [y EXCEPT !.pc = "addTo", !.op = ""]
             b == [y EXCEPT !.pc = "connect", !.op = ""]
             x == CASE y.op = "addFrom" -> a [] y.op = "addTo" -> b
                    [] OTHER -> Thread("idle", y.try_cnt)
  <2>1. th' = [th EXCEPT ![t] = x] /\ y.pc \in Updating
    BY <1>1, <1>10 DEF done, Updating
  <2>2. "idle" \in {"off", "dial", "idle", "ended"} /\ y.try_cnt \in 0..2
    BY <1>1, ThreadFields
  <2>3. Fit(Thread("idle", y.try_cnt))
    BY <2>2, ThreadFit
  <2> HIDE DEF y
  <2>4. /\ a \in Threads /\ a.pc = "addTo" /\ a.link = y.link
        /\ a.from = y.from /\ a.partitions = y.partitions
    BY <1>1 DEF Threads
  <2>5. /\ b \in Threads /\ b.pc = "connect" /\ b.link = y.link
        /\ b.from = y.from /\ b.to = y.to /\ b.partitions = y.partitions
    BY <1>1 DEF Threads
  <2> HIDE DEF a, b
  <2>6. ASSUME y.op = "addFrom" PROVE Fit(a)
    BY <1>1, <1>2, <2>1, <2>4, <2>6 DEF Fit, Updating
  <2>7. ASSUME y.op = "addTo" PROVE Fit(b)
    BY <1>1, <1>2, <2>1, <2>5, <2>7 DEF Fit, Updating
  <2>8. Fit(x)
    BY <2>3, <2>6, <2>7
  <2> HIDE DEF x
  <2> QED
    BY <2>1, <2>8, ThreadStep DEF ThreadsFit
<1> QED
  BY <1>4, <1>5, <1>6, <1>7, <1>8, <1>9, <1>10

-----------------------------------------------------------------------------
(* The types and the registry, as invariants *)

\* The steps that read the graph only.
LEMMA GraphRead ==
    ASSUME NEW t \in Sources,
           \/ startDocument(t) \/ refused(t) \/ endDocument(t)
           \/ (\E id \in Ids : modify_node(t, id) \/ remove_node(t, id))
           \/ (\E tag \in {"edge", "modify_edge", "remove_edge"}, link \in Links :
                  edgeElement(t, tag, link))
           \/ findTo(t) \/ connect(t) \/ upd(t) \/ del(t) \/ count(t) \/ scan(t) \/ done(t)
    PROVE  UNCHANGED graph
BY DEF startDocument, refused, endDocument, modify_node, remove_node, edgeElement, findTo,
       connect, upd, del, count, scan, done

\* The owner and the counters keep their types.
LEMMA TypeRest ==
    ASSUME TypeInv, NEW t \in Sources,
           \/ (\E tag \in {"edge", "modify_edge", "remove_edge"}, link \in Links :
                  edgeElement(t, tag, link))
           \/ Step(t)
    PROVE  owner' \in Sources \cup {NoThread} /\ nodeCnt' \in Int /\ edgeCnt' \in Int
<1>1. owner \in Sources \cup {NoThread} /\ nodeCnt \in Int /\ edgeCnt \in Int
  BY DEF TypeInv
<1>2. Count(nodeCnt, 1) \in Int /\ Count(nodeCnt, -1) \in Int
      /\ Count(edgeCnt, 1) \in Int /\ Count(edgeCnt, -1) \in Int
  BY <1>1 DEF Count
<1>3. CASE done(t)
  <2>1. /\ nodeCnt' \in {nodeCnt, Count(nodeCnt, 1), Count(nodeCnt, -1)}
        /\ edgeCnt' \in {edgeCnt, Count(edgeCnt, -1)}
        /\ owner' \in {owner, NoThread}
    BY <1>3 DEF done
  <2> QED
    BY <1>1, <1>2, <2>1
<1>4. CASE connect(t)
  <2>1. edgeCnt' \in {edgeCnt, Count(edgeCnt, 1)} /\ nodeCnt' = nodeCnt /\ owner' = owner
    BY <1>4 DEF connect
  <2> QED
    BY <1>1, <1>2, <2>1
<1>5. CASE ~done(t) /\ ~connect(t)
  <2>1. nodeCnt' = nodeCnt /\ edgeCnt' = edgeCnt /\ owner' \in {owner, NoThread, t}
    BY <1>5 DEF Step, edgeElement, findTo, addFrom, addTo, addEnd, addEdgeStep, delNode, delEdge,
                upd, del, delHidden, count, scan, tie
  <2> QED
    BY <1>1, <2>1
<1> QED
  BY <1>3, <1>4, <1>5

\* Every step keeps the types and the registry.
LEMMA InvStep ==
    ASSUME TypeInv, Registry(graph), Next
    PROVE  TypeInv' /\ Registry(graph')
<1>1. PICK t \in Sources : \/ Connect(t) \/ startDocument(t) \/ refused(t) \/ endDocument(t)
                           \/ Element(t) \/ Step(t)
  BY DEF Next
<1>2. graph' \in Graph /\ Registry(graph')
  <2>1. CASE UNCHANGED graph
    BY <2>1 DEF TypeInv
  <2>2. CASE ~UNCHANGED graph
    BY <1>1, <2>2, GraphRead, GraphWritten DEF Element, Step
  <2> QED
    BY <2>1, <2>2
<1>3. CASE Connect(t) \/ startDocument(t) \/ refused(t) \/ endDocument(t) \/ topology(t)
  BY <1>2, <1>3, TypeConnection, TypeClear
<1>4. CASE \E id \in Ids : node(t, id) \/ modify_node(t, id) \/ remove_node(t, id)
  BY <1>2, <1>4, TypeNodeElement
<1>5. CASE \/ (\E tag \in {"edge", "modify_edge", "remove_edge"}, link \in Links :
                  edgeElement(t, tag, link))
           \/ Step(t)
  <2>1. owner' \in Sources \cup {NoThread} /\ nodeCnt' \in Int /\ edgeCnt' \in Int
    BY <1>5, TypeRest
  <2>2. ThreadsFit'
    BY <1>5, FitFind, FitElement, FitUpdate DEF Step
  <2> QED
    BY <1>2, <2>1, <2>2 DEF TypeInv, ThreadsFit
<1> QED
  BY <1>1, <1>3, <1>4, <1>5 DEF Element

\* The state the viewer starts in.
LEMMA InvInit ==
    ASSUME Init
    PROVE  TypeInv /\ Registry(graph)
<1>1. graph \in Graph
  BY EmptyGraphShape DEF Init
<1>2. /\ EmptyGraph.complete = EmptySet /\ EmptyGraph.visible = EmptySet
      /\ EmptySet.nodes = <<>> /\ Len(<<>>) = 0 /\ 1..0 = {}
      /\ \A id \in Ids : EmptySet.reg[id] = NoNode
  BY DEF EmptyGraph, EmptySet
<1>3. Registry(graph)
  BY <1>2 DEF Init, Registry
<1>4. "off" \in {"off", "dial", "idle", "ended"} /\ 0 \in 0..2
  OBVIOUS
<1>5. Fit(Thread("off", 0))
  BY <1>4, ThreadFit
<1>6. th = [t \in Sources |-> Thread("off", 0)]
  BY DEF Init
<1>7. Thread("off", 0) \in Threads
  BY <1>5 DEF Fit
<1>8. th \in [Sources -> Threads] /\ \A t \in Sources : Fit(th[t])
  BY <1>5, <1>6, <1>7
<1> QED
  BY <1>1, <1>3, <1>8 DEF TypeInv, Init

\* The types of what the threads and the graph hold, and the registry, in every
\* state the viewer reaches.
LEMMA Invariance == Spec => [](TypeInv /\ Registry(graph))
<1>1. Init => TypeInv /\ Registry(graph)
  BY InvInit
<1>2. TypeInv /\ Registry(graph) /\ [Next]_vars => (TypeInv /\ Registry(graph))'
  <2> SUFFICES ASSUME TypeInv, Registry(graph), [Next]_vars
               PROVE  TypeInv' /\ Registry(graph')
    OBVIOUS
  <2>1. CASE Next
    BY <2>1, InvStep
  <2>2. CASE UNCHANGED vars
    BY <2>2 DEF vars, TypeInv
  <2> QED
    BY <2>1, <2>2
<1> QED
  BY <1>1, <1>2, PTL DEF Spec

\* Types are kept.  In particular no thread reaches addEdge or deleteEdge with a
\* null end, and run() never counts a third failed connection.
THEOREM ViewerTypes == Spec => []TypeOK
<1>1. TypeInv => TypeOK
  <2> SUFFICES ASSUME TypeInv PROVE TypeOK
    OBVIOUS
  <2>1. graph \in Graph
    BY DEF TypeInv
  <2>2. \A s \in {"complete", "visible"} :
           /\ graph[s].nodes \in Seq(NodeObjs)
           /\ graph[s].reg \in [Ids -> NodeObjs \cup {NoNode}]
    BY <2>1, GraphFields
  <2>3. graph.part \in [NodeObjs -> SUBSET NodeObjs]
    BY <2>1, GraphFields
  <2>4. ASSUME NEW t \in Sources
        PROVE  /\ th[t].try_cnt \in 0..2
               /\ th[t].pc \in {"connect", "addEdge", "delEdge"} =>
                     {th[t].from, th[t].to} \subseteq NodeObjs
    BY ThreadFields DEF TypeInv, Fit
  <2> QED
    BY <2>2, <2>3, <2>4 DEF TypeOK, TypeInv
<1> QED
  BY <1>1, Invariance, PTL

\* A list that holds every element once is as long as the set of its elements.
LEMMA ListCardinality ==
    ASSUME NEW S, NEW s \in Seq(S), \A j, k \in 1..Len(s) : s[j] = s[k] => j = k
    PROVE  Cardinality(ToSet(s)) = Len(s)
<1>1. Len(s) \in Nat /\ DOMAIN s = 1..Len(s)
  OBVIOUS
<1>2. s \in Bijection(1..Len(s), ToSet(s))
  BY <1>1 DEF Bijection, Injection, Surjection, IsInjective, ToSet
<1>3. IsFiniteSet(1..Len(s)) /\ Cardinality(1..Len(s)) = Len(s)
  BY <1>1, FS_Interval, SMTT(30)
<1>4. ExistsBijection(1..Len(s), ToSet(s))
  BY <1>2 DEF ExistsBijection
<1> QED
  BY <1>3, <1>4, FS_Bijection

\* GraphEltSet: in both sets the registry names exactly the nodes of the list, and
\* a second node with an ID that is taken is never listed, whatever the sources
\* send and however their threads interleave.
THEOREM ViewerRegistry == Spec => []RegistryAgrees
<1>1. TypeInv /\ Registry(graph) => RegistryAgrees
  <2> SUFFICES ASSUME TypeInv, Registry(graph), NEW s \in {"complete", "visible"}
               PROVE  /\ Cardinality(ToSet(graph[s].nodes)) = Len(graph[s].nodes)
                      /\ \A id \in Ids : graph[s].reg[id] =
                           LET ns == {n \in ToSet(graph[s].nodes) : n[1] = id}
                           IN  IF ns = {} THEN NoNode ELSE CHOOSE n \in ns : ns = {n}
    BY DEF RegistryAgrees
  <2> DEFINE N == graph[s].nodes
             R == graph[s].reg
  <2>1. graph \in Graph
    BY DEF TypeInv
  <2>2. /\ N \in Seq(NodeObjs)
        /\ \A j \in 1..Len(N) : R[N[j][1]] = N[j]
        /\ \A j, k \in 1..Len(N) : N[j] = N[k] => j = k
        /\ \A id \in Ids : R[id] # NoNode => R[id] \in ToSet(N) /\ R[id][1] = id
    <3>1. CASE s = "complete"
      BY <2>1, <3>1, GraphFields DEF Registry
    <3>2. CASE s = "visible"
      BY <2>1, <3>2, GraphFields DEF Registry
    <3> QED
      BY <3>1, <3>2
  <2> HIDE DEF N, R
  <2>3. Cardinality(ToSet(N)) = Len(N)
    BY <2>2, ListCardinality
  <2>4. \A n \in ToSet(N) : R[n[1]] = n /\ n # NoNode
    BY <2>2, Parts DEF ToSet
  <2>5. ASSUME NEW id \in Ids
        PROVE  R[id] = LET ns == {n \in ToSet(N) : n[1] = id}
                       IN  IF ns = {} THEN NoNode ELSE CHOOSE n \in ns : ns = {n}
    <3> DEFINE ns == {n \in ToSet(N) : n[1] = id}
    <3>1. CASE R[id] = NoNode
      <4>1. ns = {}
        BY <2>4, <3>1
      <4> QED
        BY <3>1, <4>1
    <3>2. CASE R[id] # NoNode
      <4>1. R[id] \in ToSet(N) /\ R[id][1] = id
        BY <2>2, <3>2
      <4>2. ns = {R[id]}
        BY <2>4, <4>1
      <4> HIDE DEF ns
      <4>3. (CHOOSE n \in ns : ns = {n}) = R[id]
        BY <4>2
      <4>4. ns # {}
        BY <4>2
      <4>5. (IF ns = {} THEN NoNode ELSE CHOOSE n \in ns : ns = {n}) = R[id]
        BY <4>3, <4>4
      <4> QED
        BY <4>5 DEF ns
    <3> QED
      BY <3>1, <3>2
  <2> QED
    BY <2>3, <2>5 DEF N, R
<1> QED
  BY <1>1, Invariance, PTL

-----------------------------------------------------------------------------
(* The backward loop of updatePartitions under the monitor *)

\* A step of thread t never changes another thread.
LEMMA OthersStay ==
    ASSUME TypeInv, NEW t \in Sources,
           \/ Connect(t) \/ startDocument(t) \/ refused(t) \/ endDocument(t)
           \/ Element(t) \/ Step(t)
    PROVE  \A u \in Sources \ {t} : th'[u] = th[u]
<1>1. th \in [Sources -> Threads]
  BY DEF TypeInv
<1>2. CASE Connect(t) \/ startDocument(t) \/ refused(t) \/ endDocument(t) \/ topology(t)
  BY <1>1, <1>2 DEF Connect, startDocument, refused, endDocument, topology
<1>3. CASE \E id \in Ids : node(t, id) \/ modify_node(t, id) \/ remove_node(t, id)
  BY <1>1, <1>3 DEF node, modify_node, remove_node
<1>4. CASE \E tag \in {"edge", "modify_edge", "remove_edge"}, link \in Links :
               edgeElement(t, tag, link)
  BY <1>1, <1>4 DEF edgeElement
<1>5. CASE findTo(t) \/ connect(t) \/ addEdgeStep(t) \/ delNode(t) \/ delEdge(t)
  BY <1>1, <1>5 DEF findTo, connect, addEdgeStep, delNode, delEdge
<1>6. ASSUME NEW pc, NEW end, NEW next, addEnd(t, pc, end, next)
      PROVE  \A u \in Sources \ {t} : th'[u] = th[u]
  BY <1>1, <1>6 DEF addEnd
<1>7. CASE addFrom(t) \/ addTo(t)
  BY <1>6, <1>7 DEF addFrom, addTo
<1>8. CASE upd(t) \/ del(t) \/ delHidden(t) \/ count(t) \/ scan(t) \/ tie(t) \/ done(t)
  BY <1>1, <1>8 DEF upd, del, delHidden, count, scan, tie, done
<1> QED
  BY <1>2, <1>3, <1>4, <1>5, <1>7, <1>8 DEF Element, Step

\* What changes the graph needs the monitor, and a thread that takes it for
\* itself finds it free.
LEMMA NeedsMonitor ==
    ASSUME NEW t \in Sources,
           \/ Connect(t) \/ startDocument(t) \/ refused(t) \/ endDocument(t)
           \/ Element(t) \/ Step(t)
    PROVE  /\ UNCHANGED graph \/ owner \in {NoThread, t}
           /\ owner' \in {owner, t, NoThread}
           /\ owner' # owner => owner' = NoThread \/ delNode(t)
<1>1. CASE Connect(t) \/ startDocument(t) \/ refused(t) \/ endDocument(t) \/ topology(t)
  BY <1>1 DEF Connect, startDocument, refused, endDocument, topology, CanEnter
<1>2. CASE \E id \in Ids : node(t, id) \/ modify_node(t, id) \/ remove_node(t, id)
  BY <1>2 DEF node, modify_node, remove_node, CanEnter
<1>3. CASE \E tag \in {"edge", "modify_edge", "remove_edge"}, link \in Links :
               edgeElement(t, tag, link)
  BY <1>3 DEF edgeElement
<1>4. CASE findTo(t) \/ connect(t) \/ addEdgeStep(t) \/ delNode(t) \/ delEdge(t)
  BY <1>4 DEF findTo, connect, addEdgeStep, delNode, delEdge, CanEnter
<1>5. CASE addFrom(t) \/ addTo(t)
  BY <1>5 DEF addFrom, addTo, addEnd, CanEnter
<1>6. CASE upd(t) \/ del(t) \/ delHidden(t) \/ count(t) \/ scan(t) \/ tie(t) \/ done(t)
  BY <1>6 DEF upd, del, delHidden, count, scan, tie, done, CanEnter
<1> QED
  BY <1>1, <1>2, <1>3, <1>4, <1>5, <1>6 DEF Element, Step

\* Where a thread may come from: the steps that lead to the places the invariants
\* speak of, and the step that sets its element.
CameFrom(t) ==
    /\ th'[t].pc \in {"del", "delHidden"} => upd(t) \/ del(t) \/ delHidden(t)
    /\ th'[t].pc = "findTo" => \E tag \in {"edge", "modify_edge", "remove_edge"}, link \in Links :
                                  edgeElement(t, tag, link)
    /\ th'[t].pc = "delEdge" => findTo(t)
    /\ th'[t].pc = "addEdge" => connect(t)
    /\ th'[t].pc = "off" => Connect(t) /\ clearAllThrows(graph)
    /\ \/ th'[t].tag \in {"", th[t].tag}
       \/ \E tag \in {"edge", "modify_edge", "remove_edge"}, link \in Links :
             edgeElement(t, tag, link)

\* Every step leads where CameFrom says.
LEMMA StepCameFrom ==
    ASSUME TypeInv, NEW t \in Sources,
           \/ Connect(t) \/ startDocument(t) \/ refused(t) \/ endDocument(t)
           \/ Element(t) \/ Step(t)
    PROVE  CameFrom(t)
<1> DEFINE y == th[t]
           z == th'[t]
<1>1. th \in [Sources -> Threads] /\ y \in Threads
  BY DEF TypeInv
<1>2. Dropped(t).pc \in {"dial", "ended"} /\ Dropped(t).tag = ""
  BY DroppedFit
<1>3. y.try_cnt \in 0..2 /\ y.try_cnt + 1 \in 0..3 /\ 0 \in 0..2
  BY <1>1, ThreadFields
<1>4. /\ Thread("dial", 0).pc = "dial" /\ Thread("dial", 0).tag = ""
      /\ Thread("idle", y.try_cnt).pc = "idle" /\ Thread("idle", y.try_cnt).tag = ""
  BY <1>3, ThreadFit
<1>5. Again(y.try_cnt + 1).pc \in {"dial", "ended"} /\ Again(y.try_cnt + 1).tag = ""
  BY <1>3, AgainFit
<1>6. CASE startDocument(t) \/ refused(t) \/ endDocument(t)
  <2>1. \/ z = [y EXCEPT !.pc = "begin"] \/ z = Again(y.try_cnt + 1) \/ z = Dropped(t)
    BY <1>1, <1>6 DEF startDocument, refused, endDocument
  <2>2. [y EXCEPT !.pc = "begin"].pc = "begin" /\ [y EXCEPT !.pc = "begin"].tag = y.tag
    BY <1>1 DEF Threads
  <2>3. z.pc \in {"begin", "dial", "ended"} /\ z.tag \in {"", y.tag}
    BY <1>2, <1>5, <2>1, <2>2
  <2> QED
    BY <2>3 DEF CameFrom
<1>7. CASE Connect(t)
  <2>1. \/ z = y /\ clearAllThrows(graph) /\ y.pc = "off"
        \/ z = Thread("dial", 0)
    BY <1>1, <1>7 DEF Connect
  <2> QED
    BY <1>4, <1>7, <2>1 DEF CameFrom
<1>8. CASE topology(t)
  <2>1. z = Dropped(t) \/ z = Thread("idle", y.try_cnt)
    BY <1>1, <1>8 DEF topology
  <2>2. z.pc \in {"idle", "dial", "ended"} /\ z.tag = ""
    BY <1>2, <1>4, <2>1
  <2> QED
    BY <2>2 DEF CameFrom
<1>9. ASSUME NEW op PROVE ToUpdate(t, op).pc = "upd" /\ ToUpdate(t, op).tag = y.tag
  BY <1>1 DEF ToUpdate, Threads
<1>10. CASE \E id \in Ids : node(t, id) \/ modify_node(t, id) \/ remove_node(t, id)
  <2>1. PICK id \in Ids : node(t, id) \/ modify_node(t, id) \/ remove_node(t, id)
    BY <1>10
  <2>2. CASE node(t, id)
    <3>1. y.pc = "idle" /\ (z = y \/ z = ToUpdate(t, "node"))
      BY <1>1, <2>2 DEF node
    <3>2. z.pc \in {"idle", "upd"} /\ z.tag = y.tag
      BY <1>9, <3>1
    <3> QED
      BY <3>2 DEF CameFrom
  <2>3. CASE modify_node(t, id)
    <3>1. y.pc = "idle" /\ (z = y \/ z = Dropped(t))
      BY <1>1, <2>3 DEF modify_node
    <3>2. z.pc \in {"idle", "dial", "ended"} /\ z.tag \in {"", y.tag}
      BY <1>2, <3>1
    <3> QED
      BY <3>2 DEF CameFrom
  <2>4. CASE remove_node(t, id)
    <3>1. z.pc \in {"done", "delNode"} /\ z.tag = y.tag
      BY <1>1, <2>4 DEF remove_node, Threads
    <3> QED
      BY <3>1 DEF CameFrom
  <2> QED
    BY <2>1, <2>2, <2>3, <2>4
<1>11. CASE \E tag \in {"edge", "modify_edge", "remove_edge"}, link \in Links :
               edgeElement(t, tag, link)
  <2>1. PICK tag \in {"edge", "modify_edge", "remove_edge"}, link \in Links :
               edgeElement(t, tag, link)
    BY <1>11
  <2>2. z = [y EXCEPT !.pc = "findTo", !.tag = tag, !.link = link,
                      !.from = findNode(graph, link[1])]
    BY <1>1, <2>1 DEF edgeElement
  <2>3. z.pc = "findTo"
    BY <1>1, <2>2 DEF Threads
  <2> QED
    BY <1>11, <2>3 DEF CameFrom
<1>12. CASE findTo(t)
  <2> DEFINE x(pc) == [y EXCEPT !.to = findNode(graph, y.link[2]), !.pc = pc]
  <2>1. z \in {x("addFrom"), x("delEdge"), Thread("idle", y.try_cnt)}
    BY <1>1, <1>12 DEF findTo
  <2>2. /\ x("addFrom").pc = "addFrom" /\ x("delEdge").pc = "delEdge"
        /\ x("addFrom").tag = y.tag /\ x("delEdge").tag = y.tag
    BY <1>1 DEF Threads
  <2> HIDE DEF x
  <2>3. z.pc \in {"addFrom", "delEdge", "idle"} /\ z.tag \in {"", y.tag}
    BY <1>4, <2>1, <2>2
  <2> QED
    BY <1>12, <2>3 DEF CameFrom
<1>13. CASE connect(t)
  <2>1. z.pc = "addEdge" /\ z.tag = y.tag
    BY <1>1, <1>13 DEF connect, Threads
  <2> QED
    BY <1>13, <2>1 DEF CameFrom
<1>14. CASE addEdgeStep(t) \/ delNode(t) \/ delEdge(t)
  <2> DEFINE x(op) == [ToUpdate(t, op) EXCEPT !.from = NoNode, !.to = NoNode]
             w == [ToUpdate(t, "remove_node") EXCEPT !.from = NoNode]
  <2>1. z \in {x("edge"), x("remove_edge"), w, Dropped(t)}
    BY <1>1, <1>14 DEF addEdgeStep, delNode, delEdge
  <2>2. /\ x("edge").pc = "upd" /\ x("remove_edge").pc = "upd" /\ w.pc = "upd"
        /\ x("edge").tag = y.tag /\ x("remove_edge").tag = y.tag /\ w.tag = y.tag
    BY <1>1 DEF ToUpdate, Threads
  <2> HIDE DEF x, w
  <2>3. z.pc \in {"upd", "dial", "ended"} /\ z.tag \in {"", y.tag}
    BY <1>2, <2>1, <2>2
  <2> QED
    BY <2>3 DEF CameFrom
<1>15. CASE addFrom(t)
  <2>1. \E n : z \in {[y EXCEPT !.pc = "addTo"], [y EXCEPT !["from"] = n, !.pc = "addTo"],
                      [ToUpdate(t, "addFrom") EXCEPT !["from"] = n]}
    BY <1>1, <1>15 DEF addFrom, addEnd
  <2>2. z.pc \in {"addTo", "upd"} /\ z.tag = y.tag
    BY <1>1, <2>1 DEF ToUpdate, Threads
  <2> QED
    BY <2>2 DEF CameFrom
<1>16. CASE addTo(t)
  <2>1. \E n : z \in {[y EXCEPT !.pc = "connect"], [y EXCEPT !["to"] = n, !.pc = "connect"],
                      [ToUpdate(t, "addTo") EXCEPT !["to"] = n]}
    BY <1>1, <1>16 DEF addTo, addEnd
  <2>2. z.pc \in {"connect", "upd"} /\ z.tag = y.tag
    BY <1>1, <2>1 DEF ToUpdate, Threads
  <2> QED
    BY <2>2 DEF CameFrom
<1>17. CASE upd(t) \/ delHidden(t)
  <2>1. \/ z = [y EXCEPT !.pc = "del", !.i = Len(graph.complete.edges)]
        \/ z = [y EXCEPT !.pc = "del", !.edge = NullEdge]
    BY <1>1, <1>17 DEF upd, delHidden
  <2>2. z.pc = "del" /\ z.tag = y.tag
    BY <1>1, <2>1 DEF Threads
  <2> QED
    BY <1>17, <2>2 DEF CameFrom
<1>18. CASE del(t)
  <2>1. \/ z \in {[y EXCEPT !.pc = "count", !.i = 1], Dropped(t), [y EXCEPT !.i = y.i - 1],
                  [y EXCEPT !.pc = "delHidden", !.edge = graph.complete.edges[y.i], !.i = y.i - 1]}
        /\ y.pc = "del"
    BY <1>1, <1>18 DEF del
  <2>2. z = Dropped(t) \/ (z.pc \in {"count", "del", "delHidden"} /\ z.tag = y.tag)
    BY <1>1, <2>1 DEF Threads
  <2>3. z.pc \in {"count", "del", "delHidden", "dial", "ended"} /\ z.tag \in {"", y.tag}
    BY <1>2, <2>2
  <2> QED
    BY <1>18, <2>3 DEF CameFrom
<1>19. CASE count(t)
  <2>1. z.pc \in {"tie", "scan"} /\ z.tag = y.tag
    BY <1>1, <1>19 DEF count, Threads
  <2> QED
    BY <2>1 DEF CameFrom
<1>20. CASE scan(t)
  <2>1. (z.pc = "count" /\ z.tag = y.tag) \/ z = Dropped(t)
    BY <1>1, <1>20 DEF scan, Threads
  <2>2. z.pc \in {"count", "dial", "ended"} /\ z.tag \in {"", y.tag}
    BY <1>2, <2>1
  <2> QED
    BY <2>2 DEF CameFrom
<1>21. CASE tie(t)
  <2>1. \/ z = [y EXCEPT !.pc = "done", !.partitions = <<>>, !.i = 0]
        \/ z = [y EXCEPT !.i = y.i + 1] /\ y.pc = "tie"
    BY <1>1, <1>21 DEF tie
  <2>2. z.pc \in {"done", "tie"} /\ z.tag = y.tag
    BY <1>1, <2>1 DEF Threads
  <2> QED
    BY <2>2 DEF CameFrom
<1>22. CASE done(t)
  <2>1. \/ z \in {[y EXCEPT !.pc = "addTo", !.op = ""], [y EXCEPT !.pc = "connect", !.op = ""]}
        \/ z = Thread("idle", y.try_cnt)
    BY <1>1, <1>22 DEF done
  <2>2. (z.pc \in {"addTo", "connect"} /\ z.tag = y.tag) \/ z = Thread("idle", y.try_cnt)
    BY <1>1, <2>1 DEF Threads
  <2>3. z.pc \in {"addTo", "connect", "idle"} /\ z.tag \in {"", y.tag}
    BY <1>4, <2>2
  <2> QED
    BY <2>3 DEF CameFrom
<1> QED
  BY <1>6, <1>7, <1>8, <1>10, <1>11, <1>12, <1>13, <1>14, <1>15, <1>16, <1>17, <1>18, <1>19,
     <1>20, <1>21, <1>22 DEF Element, Step

\* The index of the loop stays inside the edge list of the thread that is alone.
LEMMA ScanStep ==
    ASSUME TypeInv, ScanInv, Next
    PROVE  ScanInv'
<1>1. PICK t \in Sources : \/ Connect(t) \/ startDocument(t) \/ refused(t) \/ endDocument(t)
                           \/ Element(t) \/ Step(t)
  BY DEF Next
<1>2. \A u \in Sources \ {t} : th'[u] = th[u]
  BY <1>1, OthersStay
<1>3. graph \in Graph /\ th \in [Sources -> Threads] /\ \A u \in Sources : th[u].i \in Nat
  BY ThreadFields DEF TypeInv
<1>4. graph.complete.edges \in Seq(EdgeObjs) /\ Len(graph.complete.edges) \in Nat
  BY <1>3, GraphFields
<1>5. /\ UNCHANGED graph \/ owner \in {NoThread, t}
      /\ owner' \in {owner, t, NoThread}
      /\ owner' # owner => owner' = NoThread \/ delNode(t)
  BY <1>1, NeedsMonitor
<1> DEFINE InLoop(u) == /\ th[u].pc = "del" => th[u].i <= Len(graph.complete.edges)
                        /\ th[u].pc = "delHidden" => th[u].i + 1 <= Len(graph.complete.edges)
<1>6. SUFFICES ASSUME NEW u \in Sources, Alone(u)' PROVE InLoop(u)'
  BY DEF ScanInv
<1>7. CASE u # t
  <2>1. owner' = u /\ owner' \notin {NoThread, t}
    BY <1>6, <1>7, ViewerAssumption DEF Alone
  <2>2. owner = u /\ UNCHANGED graph
    BY <1>5, <2>1
  <2>3. th'[u] = th[u]
    BY <1>2, <1>7
  <2> QED
    BY <2>2, <2>3 DEF ScanInv, Alone
<1>8. CASE u = t
  <2>1. CASE th'[t].pc \notin {"del", "delHidden"}
    BY <1>8, <2>1
  <2>2. CASE th'[t].pc \in {"del", "delHidden"}
    <3>1. upd(t) \/ del(t) \/ delHidden(t)
      BY <1>1, <2>2, StepCameFrom DEF CameFrom
    <3>2. Alone(t)
      <4>1. delNode(t) => th[t].pc = "delNode"
        BY DEF delNode
      <4>2. ~delNode(t)
        BY <3>1, <4>1 DEF upd, del, delHidden
      <4>3. owner' = t => owner = t
        BY <1>5, <4>2, ViewerAssumption
      <4> QED
        BY <1>6, <1>8, <4>3 DEF Alone
    <3>3. InLoop(t)
      BY <3>2 DEF ScanInv
    <3>4. CASE upd(t)
      <4> DEFINE x == th[t]
                 L == Len(graph.complete.edges)
                 z == [x EXCEPT !.pc = "del", !.i = L]
      <4>1. th'[t] = z /\ UNCHANGED graph
        BY <1>3, <3>4 DEF upd
      <4>2. th'[t].pc = "del" /\ th'[t].i = L
        <5>1. x \in Threads
          BY <1>3
        <5> HIDE DEF x, L
        <5>2. z.pc = "del" /\ z.i = L
          BY <5>1 DEF Threads
        <5> HIDE DEF z
        <5> QED
          BY <4>1, <5>2
      <4> QED
        BY <1>4, <1>8, <4>1, <4>2
    <3>5. CASE del(t)
      <4>1. th[t].pc = "del" /\ th[t].i <= Len(graph.complete.edges) /\ UNCHANGED graph
        BY <3>3, <3>5 DEF del
      <4>2. \/ th'[t] = [th[t] EXCEPT !.pc = "count", !.i = 1]
            \/ th'[t] = [th[t] EXCEPT !.pc = "delHidden", !.edge = graph.complete.edges[th[t].i],
                                      !.i = th[t].i - 1]
            \/ th'[t] = [th[t] EXCEPT !.i = th[t].i - 1]
        BY <1>3, <1>4, <3>5, <4>1 DEF del
      <4>3. \/ th'[t].pc = "count"
            \/ th'[t].pc = "delHidden" /\ th'[t].i = th[t].i - 1
            \/ th'[t].pc = "del" /\ th'[t].i = th[t].i - 1
        BY <1>3, <4>1, <4>2 DEF Threads
      <4> QED
        BY <1>3, <1>4, <1>8, <4>1, <4>3
    <3>6. CASE delHidden(t)
      <4>1. th'[t] = [th[t] EXCEPT !.pc = "del", !.edge = NullEdge]
            /\ graph' = Swept(deleteEdge(graph, th[t].edge), th') /\ th[t].pc = "delHidden"
        BY <1>3, <3>6 DEF delHidden
      <4>2. th[t].edge \in EdgeObjs
        BY <4>1 DEF TypeInv, Fit
      <4> DEFINE h == deleteEdge(graph, th[t].edge)
      <4>3. h \in Graph /\ h.complete.edges = RemoveFirst(graph.complete.edges, th[t].edge)
        BY <1>3, <4>2, DeleteEdgeShape
      <4>4. graph'.complete.edges = h.complete.edges
        BY <4>1, <4>3, SweptShape
      <4> HIDE DEF h
      <4>5. Len(graph'.complete.edges) \in {Len(graph.complete.edges), Len(graph.complete.edges) - 1}
        BY <1>4, <4>3, <4>4, RemoveFirstRange
      <4>6. th'[t].pc = "del" /\ th'[t].i = th[t].i
        BY <1>3, <4>1 DEF Threads
      <4> QED
        BY <1>3, <1>4, <1>8, <3>3, <4>1, <4>5, <4>6
    <3> QED
      BY <3>1, <3>4, <3>5, <3>6
  <2> QED
    BY <2>1, <2>2
<1> QED
  BY <1>7, <1>8

\* TGPanel.updatePartitions: a thread that is alone in the graph, because it is the
\* only source or because TGPanel.deleteNode called updatePartitions inside the
\* monitor, never reads beyond the edge list, however many invisible edges it
\* deletes on the way down.
THEOREM ViewerScan == Spec => []ScanInRange
<1>1. Init => ScanInv
  <2> SUFFICES ASSUME Init PROVE ScanInv
    OBVIOUS
  <2>1. "off" \in {"off", "dial", "idle", "ended"} /\ 0 \in 0..2
    OBVIOUS
  <2>2. \A t \in Sources : th[t].pc = "off"
    BY <2>1, ThreadFit DEF Init
  <2> QED
    BY <2>2 DEF ScanInv
<1>2. (TypeInv /\ Registry(graph)) /\ ScanInv /\ [Next]_vars => ScanInv'
  <2> SUFFICES ASSUME TypeInv, ScanInv, [Next]_vars PROVE ScanInv'
    OBVIOUS
  <2>1. CASE Next
    BY <2>1, ScanStep
  <2>2. CASE UNCHANGED vars
    BY <2>2 DEF vars, ScanInv, Alone
  <2> QED
    BY <2>1, <2>2
<1>3. ScanInv => ScanInRange
  BY DEF ScanInv, ScanInRange, Alone
<1> QED
  BY <1>1, <1>2, <1>3, Invariance, PTL DEF Spec

-----------------------------------------------------------------------------
(* Edges on screen *)

\* Taking edges off the lists of nodes keeps OwnEdges.
LEMMA OwnFewer ==
    ASSUME NEW g, NEW h, OwnEdges(g), FewerListed(g, h)
    PROVE  OwnEdges(h)
BY DEF OwnEdges, FewerListed

\* Listing an edge at its ends keeps it, too.
LEMMA OwnAdded ==
    ASSUME NEW g, NEW h, NEW e, OwnEdges(g), ListedAtEnds(g, h, e)
    PROVE  OwnEdges(h)
<1> SUFFICES ASSUME NEW n \in NodeObjs, NEW x \in ToSet(h.adj[n]) PROVE n \in {x.from, x.to}
  BY DEF OwnEdges
<1>1. CASE x \in ToSet(g.adj[n])
  BY <1>1 DEF OwnEdges
<1>2. CASE x \notin ToSet(g.adj[n])
  <2>1. x = e /\ n \in {e.from, e.to}
    BY <1>2 DEF ListedAtEnds
  <2> QED
    BY <2>1
<1> QED
  BY <1>1, <1>2

\* clearAll makes edges invisible and none visible again.
LEMMA ClearAllHides ==
    ASSUME NEW g \in Graph
    PROVE  g.hidden \subseteq clearAll(g).hidden
<1> DEFINE X == ToSet(SubSeq(g.visible.edges, 1,
                        SelectInSeq(g.visible.edges, LAMBDA x : x = NullEdge) - 1))
       Y == ToSet(g.visible.edges)
<1>1. clearAll(g) = IF clearAllThrows(g) THEN [g EXCEPT !.hidden = @ \cup X]
                    ELSE [g EXCEPT !.visible = EmptySet, !.complete = EmptySet, !.hidden = @ \cup Y]
  BY DEF clearAll
<1> HIDE DEF X, Y
<1> QED
  BY <1>1 DEF Graph

\* The edges on screen that a step of thread t may take away.
Exposed(t, e) ==
    \/ th[t].pc = "delNode" /\ th[t].from \in {e.from, e.to}
    \/ th[t].pc = "delEdge" /\ th[t].from = e.from /\ th[t].to = e.to
    \/ th[t].pc \in {"begin", "off"}

\* Where a null edge on screen comes from.
NullShown(t, h) ==
    NullEdge \in ToSet(h.visible.edges) =>
       NullEdge \in ToSet(graph.visible.edges) \/ (th[t].pc = "addEdge" /\ th[t].edge = NullEdge)

\* What a step that writes does to edges: it makes no edge visible again, and only
\* exposed edges leave the screen.
LEMMA EdgesWritten ==
    ASSUME TypeInv, Registry(graph), EdgeInv, NEW t \in Sources,
           \/ Connect(t) \/ topology(t) \/ delNode(t) \/ addEdgeStep(t) \/ delEdge(t)
           \/ delHidden(t) \/ tie(t) \/ addFrom(t) \/ addTo(t)
           \/ \E id \in Ids : node(t, id),
           ~UNCHANGED graph
    PROVE  \E h \in Graph :
              /\ graph' = Swept(h, th') /\ graph.hidden \subseteq h.hidden /\ OwnEdges(h)
              /\ NullShown(t, h)
              /\ \A e \in Edges \ graph.hidden :
                    Exposed(t, e) \/ e \in ToSet(h.complete.edges) \ h.hidden
<1> DEFINE y == th[t]
           Good(h) == /\ graph' = Swept(h, th') /\ graph.hidden \subseteq h.hidden /\ OwnEdges(h)
                      /\ NullShown(t, h)
                      /\ \A e \in Edges \ graph.hidden :
                            Exposed(t, e) \/ e \in ToSet(h.complete.edges) \ h.hidden
<1>1. y \in Threads /\ Fit(y) /\ graph \in Graph /\ OwnEdges(graph)
  BY DEF TypeInv, EdgeInv
<1>2. graph.complete.edges \in Seq(EdgeObjs) /\ graph.adj \in [NodeObjs -> Seq(EdgeObjs)]
  BY <1>1, GraphFields
<1>3. SUFFICES \E h \in Graph : Good(h)
  OBVIOUS
<1>4. CASE Connect(t) \/ topology(t)
  <2> DEFINE h == clearAll(graph)
  <2>1. graph' = Swept(h, th') /\ y.pc \in {"off", "begin"}
    BY <1>4 DEF Connect, topology
  <2>2. h \in Graph /\ h.adj = graph.adj /\ graph.hidden \subseteq h.hidden
    BY <1>1, ClearAllShape, ClearAllHides
  <2>5. h.visible \in {graph.visible, EmptySet}
    BY <1>1, ClearAllShape
  <2> HIDE DEF h
  <2>6. NullShown(t, h)
    BY <2>5 DEF NullShown, EmptySet, ToSet
  <2>3. OwnEdges(h)
    BY <1>1, <2>2 DEF OwnEdges
  <2>4. Good(h)
    BY <2>1, <2>2, <2>3, <2>6 DEF Exposed
  <2> QED
    BY <2>2, <2>4
<1>5. ASSUME NEW n \in NodeObjs, graph' = Swept(addNode(WithNewNode(graph, n), n), th')
      PROVE  \E h \in Graph : Good(h)
  <2> DEFINE g == WithNewNode(graph, n)
             h == addNode(g, n)
  <2>1. g \in Graph /\ SameSets(graph, g) /\ FewerListed(graph, g)
    BY <1>1, WithNewNodeShape
  <2> HIDE DEF g
  <2>2. g.visible.nodes = g.complete.nodes /\ g.visible.reg = g.complete.reg
    BY <2>1 DEF Registry, SameSets
  <2>3. /\ h \in Graph /\ h.complete.edges = g.complete.edges /\ h.hidden = g.hidden
        /\ h.adj = g.adj /\ h.visible.edges = g.visible.edges
    <3>1. h = addNode(g, n)
      OBVIOUS
    <3> HIDE DEF h
    <3> QED
      BY <2>1, <2>2, <3>1, AddNodeKeeps
  <2> HIDE DEF h
  <2>4. OwnEdges(g)
    BY <1>1, <2>1, OwnFewer
  <2>5. OwnEdges(h)
    BY <2>3, <2>4 DEF OwnEdges
  <2>6. /\ h.complete.edges = graph.complete.edges /\ h.hidden = graph.hidden
        /\ h.visible.edges = graph.visible.edges
    BY <2>1, <2>3 DEF SameSets
  <2>7. graph' = Swept(h, th')
    BY <1>5 DEF g, h
  <2>8. Good(h)
    BY <2>5, <2>6, <2>7 DEF Edges, NullShown
  <2> QED
    BY <2>3, <2>8
<1>6. CASE \E id \in Ids : node(t, id)
  <2>1. PICK id \in Ids : node(t, id)
    BY <1>6
  <2>2. PICK n \in FreeNodes(id) : graph' = Swept(addNode(WithNewNode(graph, n), n), th')
    BY <2>1 DEF node
  <2> QED
    BY <1>5, <2>2, FreeNodesShape
<1>7. ASSUME NEW pc \in {"addFrom", "addTo"}, NEW end \in {"from", "to"}, NEW next,
             addEnd(t, pc, end, next)
      PROVE  \E h \in Graph : Good(h)
  <2>1. PICK n \in FreeNodes(y.link[IF end = "from" THEN 1 ELSE 2]) :
           graph' = Swept(addNode(WithNewNode(graph, n), n), th')
    BY <1>7 DEF addEnd
  <2>2. y.link \in Links
    BY <1>1, <1>7 DEF addEnd, Fit
  <2>3. y.link[IF end = "from" THEN 1 ELSE 2] \in Ids
    BY <2>2, ViewerAssumption
  <2>4. n \in NodeObjs
    BY <2>1, <2>3, FreeNodesShape
  <2> QED
    BY <1>5, <2>1, <2>4
<1>8. CASE addFrom(t) \/ addTo(t)
  BY <1>7, <1>8 DEF addFrom, addTo
<1>9. CASE delNode(t)
  <2> DEFINE h == deleteNode(graph, y.from)
  <2>1. y.from \in NodeObjs /\ graph' = Swept(h, th') /\ y.pc = "delNode"
    BY <1>1, <1>9 DEF delNode, Fit
  <2>2. /\ h \in Graph /\ graph.hidden \subseteq h.hidden
        /\ ToSet(h.visible.edges) \subseteq ToSet(graph.visible.edges)
        /\ h.hidden \subseteq graph.hidden \cup ToSet(graph.adj[y.from])
        /\ ToSet(graph.complete.edges) \ ToSet(graph.adj[y.from]) \subseteq ToSet(h.complete.edges)
        /\ FewerListed(graph, h)
    <3>1. h = deleteNode(graph, y.from)
      OBVIOUS
    <3> HIDE DEF h, y
    <3> QED
      BY <1>1, <2>1, <3>1, DeleteNodeShape
  <2> HIDE DEF h
  <2>3. OwnEdges(h)
    BY <1>1, <2>2, OwnFewer
  <2>4. ASSUME NEW e \in Edges \ graph.hidden
        PROVE  Exposed(t, e) \/ e \in ToSet(h.complete.edges) \ h.hidden
    <3>1. CASE e \in ToSet(graph.adj[y.from])
      BY <1>1, <2>1, <3>1 DEF OwnEdges, Exposed
    <3>2. CASE e \notin ToSet(graph.adj[y.from])
      BY <2>2, <3>2 DEF Edges
    <3> QED
      BY <3>1, <3>2
  <2>5. NullShown(t, h)
    BY <2>2 DEF NullShown
  <2> QED
    BY <2>1, <2>2, <2>3, <2>4, <2>5
<1>10. CASE addEdgeStep(t)
  <2> DEFINE h == addEdge(graph, y.edge)
  <2>1. y.edge \in EdgeObjs \cup {NullEdge} /\ graph' = Swept(h, th') /\ y.pc = "addEdge"
    BY <1>1, <1>10, ThreadFields DEF addEdgeStep
  <2>2. /\ h \in Graph /\ h.hidden = graph.hidden /\ ListedAtEnds(graph, h, y.edge)
        /\ ToSet(h.visible.edges) \subseteq ToSet(graph.visible.edges) \cup {y.edge}
        /\ h.complete.edges \in {graph.complete.edges, Append(graph.complete.edges, y.edge)}
    <3>1. h = addEdge(graph, y.edge)
      OBVIOUS
    <3> HIDE DEF h, y
    <3> QED
      BY <1>1, <2>1, <3>1, AddEdgeShape
  <2> HIDE DEF h
  <2>3. OwnEdges(h)
    BY <1>1, <2>2, OwnAdded
  <2>4. ToSet(graph.complete.edges) \subseteq ToSet(h.complete.edges)
    <3>1. ToSet(Append(graph.complete.edges, y.edge)) = ToSet(graph.complete.edges) \cup {y.edge}
      BY <1>2, AppendRange
    <3> QED
      BY <2>2, <3>1
  <2>5. NullShown(t, h)
    BY <2>1, <2>2 DEF NullShown
  <2> QED
    BY <2>1, <2>2, <2>3, <2>4, <2>5 DEF Edges
<1>11. ASSUME NEW d \in EdgeObjs, graph' = Swept(deleteEdge(graph, d), th'),
              d \in Edges \ graph.hidden => Exposed(t, d)
       PROVE  \E h \in Graph : Good(h)
  <2> DEFINE h == deleteEdge(graph, d)
  <2>1. /\ h \in Graph /\ graph.hidden \subseteq h.hidden
        /\ h.hidden \subseteq graph.hidden \cup {d} /\ FewerListed(graph, h)
        /\ h.complete.edges = RemoveFirst(graph.complete.edges, d)
        /\ h.visible.edges = RemoveFirst(graph.visible.edges, d)
    BY <1>1, DeleteEdgeShape
  <2>2. graph' = Swept(h, th')
    BY <1>11
  <2> HIDE DEF h
  <2>3. ToSet(graph.complete.edges) \ {d} \subseteq ToSet(h.complete.edges)
    BY <1>2, <2>1, RemoveFirstRange
  <2>4. OwnEdges(h)
    BY <1>1, <2>1, OwnFewer
  <2>5. ASSUME NEW e \in Edges \ graph.hidden
        PROVE  Exposed(t, e) \/ e \in ToSet(h.complete.edges) \ h.hidden
    <3>1. CASE e = d
      BY <1>11, <3>1
    <3>2. CASE e # d
      BY <2>1, <2>3, <3>2 DEF Edges
    <3> QED
      BY <3>1, <3>2
  <2>6. NullShown(t, h)
    <3>1. graph.visible.edges \in Seq(EdgeObjs \cup {NullEdge})
      BY <1>1, GraphFields
    <3>2. ToSet(h.visible.edges) \subseteq ToSet(graph.visible.edges)
      BY <2>1, <3>1, RemoveFirstRange
    <3> QED
      BY <3>2 DEF NullShown
  <2> QED
    BY <2>1, <2>2, <2>4, <2>5, <2>6
<1>12. CASE delEdge(t)
  <2> DEFINE d == findEdge(graph, y.from, y.to)
  <2>1. /\ y.from \in NodeObjs /\ y.to \in NodeObjs /\ y.link \in Links /\ y.pc = "delEdge"
        /\ graph' = Swept(deleteEdge(graph, d), th')
    BY <1>1, <1>12 DEF delEdge, Fit
  <2>2. d = NullEdge \/ (d \in EdgeObjs /\ d \in ToSet(graph.adj[y.from]) /\ d.to = y.to)
    BY <1>1, <2>1, FindEdgeShape
  <2> HIDE DEF d
  <2>3. CASE d = NullEdge
    <3>1. deleteEdge(graph, d) = graph
      BY <2>3 DEF deleteEdge
    <3>2. Good(graph)
      BY <1>1, <2>1, <3>1 DEF Edges, NullShown
    <3> QED
      BY <1>1, <3>2
  <2>4. CASE d # NullEdge
    <3>1. y.from \in {d.from, d.to} /\ d.to = y.to
      BY <1>1, <2>1, <2>2, <2>4 DEF OwnEdges
    <3>2. y.from[1] = y.link[1] /\ y.to[1] = y.link[2]
      <4>1. y.from # NoNode
        BY <2>1, Parts
      <4> QED
        BY <2>1, <4>1 DEF EdgeInv
    <3>3. y.link[1] # y.link[2]
      BY <2>1, ViewerAssumption
    <3>4. y.from # y.to
      BY <3>2, <3>3
    <3>5. y.from = d.from /\ y.to = d.to
      BY <3>1, <3>4
    <3>6. Exposed(t, d)
      BY <2>1, <3>5 DEF Exposed
    <3> QED
      BY <1>11, <2>1, <2>2, <2>4, <3>6
  <2> QED
    BY <2>3, <2>4
<1>13. CASE delHidden(t)
  <2>1. y.edge \in EdgeObjs /\ graph' = Swept(deleteEdge(graph, y.edge), th') /\ y.pc = "delHidden"
    BY <1>1, <1>13 DEF delHidden, Fit
  <2>2. y.edge \in graph.hidden
    BY <2>1 DEF EdgeInv
  <2> QED
    BY <1>11, <2>1, <2>2
<1>14. CASE tie(t)
  <2> DEFINE e == NewEdge(y.partitions[y.i - 1], y.partitions[y.i])
             g == [graph EXCEPT !.hidden = @ \cup {e}]
             h == addEdge(g, e)
  <2>1. y.i <= Len(y.partitions) /\ y.pc = "tie" /\ graph' = Swept(h, th')
    BY <1>1, <1>14, ThreadFields DEF tie
  <2>2. y.partitions[y.i - 1] \in NodeObjs /\ y.partitions[y.i] \in NodeObjs
    BY <1>1, <2>1, TieNodes
  <2>3. e \in EdgeObjs /\ e \notin Held(th, graph).edges
    BY <2>2, NewEdgeShape
  <2> HIDE DEF e
  <2>4. /\ g \in Graph /\ g.complete = graph.complete /\ g.adj = graph.adj
        /\ g.visible = graph.visible /\ g.hidden = graph.hidden \cup {e}
    BY <1>1, <2>3, HideNewShape
  <2> HIDE DEF g
  <2>5. /\ h \in Graph /\ h.hidden = g.hidden /\ ListedAtEnds(g, h, e)
        /\ ToSet(h.visible.edges) \subseteq ToSet(g.visible.edges) \cup {e}
        /\ h.complete.edges \in {g.complete.edges, Append(g.complete.edges, e)}
    BY <2>3, <2>4, AddEdgeShape
  <2> HIDE DEF h
  <2>6. OwnEdges(g)
    BY <1>1, <2>4 DEF OwnEdges
  <2>7. OwnEdges(h)
    BY <2>5, <2>6, OwnAdded
  <2>8. ToSet(graph.complete.edges) \subseteq ToSet(h.complete.edges)
    <3>1. ToSet(Append(graph.complete.edges, e)) = ToSet(graph.complete.edges) \cup {e}
      BY <1>2, AppendRange
    <3> QED
      BY <2>4, <2>5, <3>1
  <2>9. e \notin Edges
    <3>1. ToSet(graph.complete.edges) \ {NullEdge} \subseteq Held(th, graph).edges
      BY HeldEdges
    <3>2. e # NullEdge
      BY <2>3, Parts
    <3> QED
      BY <2>3, <3>1, <3>2 DEF Edges
  <2>10. ASSUME NEW x \in Edges \ graph.hidden
         PROVE  x \in ToSet(h.complete.edges) \ h.hidden
    BY <2>4, <2>5, <2>8, <2>9 DEF Edges
  <2>11. NullShown(t, h)
    BY <2>3, <2>4, <2>5, Parts DEF NullShown
  <2>12. Good(h)
    BY <2>1, <2>4, <2>5, <2>7, <2>10, <2>11
  <2> QED
    BY <2>5, <2>12
<1> QED
  BY <1>4, <1>6, <1>8, <1>9, <1>10, <1>12, <1>13, <1>14

\* Every step: what is written, if anything is.
LEMMA EdgesStep ==
    ASSUME TypeInv, Registry(graph), EdgeInv, NEW t \in Sources,
           \/ Connect(t) \/ startDocument(t) \/ refused(t) \/ endDocument(t)
           \/ Element(t) \/ Step(t),
           ~UNCHANGED graph
    PROVE  \E h \in Graph :
              /\ graph' = Swept(h, th') /\ graph.hidden \subseteq h.hidden /\ OwnEdges(h)
              /\ NullShown(t, h)
              /\ \A e \in Edges \ graph.hidden :
                    Exposed(t, e) \/ e \in ToSet(h.complete.edges) \ h.hidden
<1>1. \/ Connect(t) \/ topology(t) \/ delNode(t) \/ addEdgeStep(t) \/ delEdge(t)
      \/ delHidden(t) \/ tie(t) \/ addFrom(t) \/ addTo(t)
      \/ \E id \in Ids : node(t, id)
  BY GraphRead DEF Element, Step
<1> QED
  BY <1>1, EdgesWritten

\* Every step keeps EdgeInv: an edge that was found invisible stays so while a
\* thread is about to delete it, though other threads write the graph in between.
LEMMA EdgeInvStep ==
    ASSUME TypeInv, Registry(graph), EdgeInv, Next
    PROVE  EdgeInv'
<1>1. PICK t \in Sources : \/ Connect(t) \/ startDocument(t) \/ refused(t) \/ endDocument(t)
                           \/ Element(t) \/ Step(t)
  BY DEF Next
<1>2. \A u \in Sources \ {t} : th'[u] = th[u]
  BY <1>1, OthersStay
<1>3. graph \in Graph /\ th \in [Sources -> Threads] /\ th[t] \in Threads /\ Fit(th[t])
  BY DEF TypeInv
<1>4. CameFrom(t)
  BY <1>1, StepCameFrom
<1>5. UNCHANGED graph \/ \E h \in Graph : graph' = Swept(h, th') /\ graph.hidden \subseteq h.hidden
                                          /\ OwnEdges(h)
  BY <1>1, EdgesStep
<1>6. OwnEdges(graph')
  <2>1. CASE UNCHANGED graph
    BY <2>1 DEF EdgeInv
  <2>2. CASE ~UNCHANGED graph
    <3>1. PICK h \in Graph : graph' = Swept(h, th') /\ OwnEdges(h)
      BY <1>5, <2>2
    <3>2. FewerListed(h, graph')
      BY <3>1, SweptShape
    <3> QED
      BY <3>1, <3>2, OwnFewer
  <2> QED
    BY <2>1, <2>2
<1>7. ASSUME NEW u \in Sources, th'[u].edge \in graph.hidden
      PROVE  th'[u].edge \in graph'.hidden
  <2>1. CASE UNCHANGED graph
    BY <1>7, <2>1
  <2>2. CASE ~UNCHANGED graph
    <3>1. PICK h \in Graph : graph' = Swept(h, th') /\ graph.hidden \subseteq h.hidden
      BY <1>5, <2>2
    <3>2. graph'.hidden = h.hidden \cap Held(th', h).edges
      BY <3>1, SweptShape
    <3>3. th'[u].edge # NullEdge
      <4>1. graph.hidden \in SUBSET EdgeObjs
        BY <1>3, GraphFields
      <4> QED
        BY <1>7, <4>1, Parts
    <3>4. th'[u].edge \in Held(th', h).edges
      <4>1. Held(th', h).edges = EdgesOf(h) \cup ({th'[v].edge : v \in Sources} \ {NullEdge})
        BY HeldEdges
      <4> QED
        BY <3>3, <4>1
    <3> QED
      BY <1>7, <3>1, <3>2, <3>4
  <2> QED
    BY <2>1, <2>2
<1>8. ASSUME NEW u \in Sources, u # t
      PROVE  /\ th'[u].pc = "delHidden" => th'[u].edge \in graph'.hidden
             /\ th'[u].pc \in {"findTo", "delEdge"} /\ th'[u].from # NoNode
                   => th'[u].from[1] = th'[u].link[1]
             /\ th'[u].pc = "delEdge" => th'[u].to[1] = th'[u].link[2]
  <2>1. th'[u] = th[u]
    BY <1>2, <1>8
  <2>2. /\ th[u].pc = "delHidden" => th[u].edge \in graph.hidden
        /\ th[u].pc \in {"findTo", "delEdge"} /\ th[u].from # NoNode
              => th[u].from[1] = th[u].link[1]
        /\ th[u].pc = "delEdge" => th[u].to[1] = th[u].link[2]
    BY DEF EdgeInv
  <2>3. th'[u].pc = "delHidden" => th'[u].edge \in graph'.hidden
    BY <1>7, <2>1, <2>2
  <2> QED
    BY <2>1, <2>2, <2>3
<1>9. ASSUME th'[t].pc = "delHidden" PROVE th'[t].edge \in graph'.hidden
  <2>1. upd(t) \/ del(t) \/ delHidden(t)
    BY <1>4, <1>9 DEF CameFrom
  <2>2. ~upd(t) /\ ~delHidden(t)
    <3>1. \A n : [th[t] EXCEPT !.pc = "del", !.i = n].pc = "del"
      BY <1>3 DEF Threads
    <3>2. [th[t] EXCEPT !.pc = "del", !.edge = NullEdge].pc = "del"
      BY <1>3 DEF Threads
    <3>3. upd(t) => th'[t] = [th[t] EXCEPT !.pc = "del", !.i = Len(graph.complete.edges)]
      BY <1>3 DEF upd
    <3>4. delHidden(t) => th'[t] = [th[t] EXCEPT !.pc = "del", !.edge = NullEdge]
      BY <1>3 DEF delHidden
    <3> QED
      BY <1>9, <3>1, <3>2, <3>3, <3>4
  <2>3. del(t)
    BY <2>1, <2>2
  <2> DEFINE e == graph.complete.edges[th[t].i]
  <2>4. \/ th'[t] \in {[th[t] EXCEPT !.pc = "count", !.i = 1], Dropped(t), [th[t] EXCEPT !.i = th[t].i - 1]}
        \/ th'[t] = [th[t] EXCEPT !.pc = "delHidden", !.edge = e, !.i = th[t].i - 1]
           /\ e \in graph.hidden
    BY <1>3, <2>3 DEF del
  <2>5. th[t].pc = "del" /\ Dropped(t).pc \in {"dial", "ended"}
    BY <2>3, DroppedFit DEF del
  <2> HIDE DEF e
  <2>6. th'[t].edge = e /\ e \in graph.hidden
    <3>1. [th[t] EXCEPT !.pc = "count", !.i = 1].pc = "count"
      BY <1>3 DEF Threads
    <3>2. [th[t] EXCEPT !.i = th[t].i - 1].pc = "del"
      BY <1>3, <2>5 DEF Threads
    <3>3. [th[t] EXCEPT !.pc = "delHidden", !.edge = e, !.i = th[t].i - 1].edge = e
      BY <1>3 DEF Threads
    <3> QED
      BY <1>9, <2>4, <2>5, <3>1, <3>2, <3>3
  <2> QED
    BY <1>7, <2>6
<1>10. ASSUME NEW id \in Ids, findNode(graph, id) # NoNode PROVE findNode(graph, id)[1] = id
  BY <1>10 DEF findNode, Registry
<1>11. ASSUME th'[t].pc = "findTo", th'[t].from # NoNode PROVE th'[t].from[1] = th'[t].link[1]
  <2>1. PICK tag \in {"edge", "modify_edge", "remove_edge"}, link \in Links :
             edgeElement(t, tag, link)
    BY <1>4, <1>11 DEF CameFrom
  <2>2. th'[t] = [th[t] EXCEPT !.pc = "findTo", !.tag = tag, !.link = link,
                               !.from = findNode(graph, link[1])]
    BY <1>3, <2>1 DEF edgeElement
  <2>3. th'[t].link = link /\ th'[t].from = findNode(graph, link[1])
    BY <1>3, <2>2 DEF Threads
  <2>4. link[1] \in Ids
    BY ViewerAssumption
  <2> QED
    BY <1>10, <1>11, <2>3, <2>4
<1>12. ASSUME th'[t].pc = "delEdge"
       PROVE  /\ th'[t].from # NoNode => th'[t].from[1] = th'[t].link[1]
              /\ th'[t].to[1] = th'[t].link[2]
  <2>1. findTo(t)
    BY <1>4, <1>12 DEF CameFrom
  <2> DEFINE to == findNode(graph, th[t].link[2])
             x(pc) == [th[t] EXCEPT !.to = to, !.pc = pc]
  <2>2. \/ th'[t] = x("addFrom") \/ th'[t] = Thread("idle", th[t].try_cnt)
        \/ th'[t] = x("delEdge") /\ th[t].from # NoNode /\ to # NoNode
    BY <1>3, <2>1 DEF findTo
  <2>3. th[t].link \in Links /\ th[t].pc = "findTo"
    BY <1>3, <2>1 DEF findTo, Fit
  <2>4. "idle" \in {"off", "dial", "idle", "ended"} /\ th[t].try_cnt \in 0..2
    BY <1>3, ThreadFields
  <2>5. Thread("idle", th[t].try_cnt).pc = "idle"
    BY <2>4, ThreadFit
  <2>6. th[t].link[2] \in Ids
    BY <2>3, ViewerAssumption
  <2>7. to # NoNode => to[1] = th[t].link[2]
    BY <1>10, <2>6
  <2> HIDE DEF to
  <2>8. x("addFrom").pc = "addFrom"
    BY <1>3 DEF Threads
  <2>9. x("delEdge").from = th[t].from /\ x("delEdge").to = to /\ x("delEdge").link = th[t].link
    BY <1>3 DEF Threads
  <2> HIDE DEF x
  <2>10. th'[t] = x("delEdge") /\ th[t].from # NoNode /\ to # NoNode
    BY <1>12, <2>2, <2>5, <2>8
  <2>11. th[t].from[1] = th[t].link[1]
    BY <2>3, <2>10 DEF EdgeInv
  <2> QED
    BY <2>7, <2>9, <2>10, <2>11
<1>13. ASSUME NEW u \in Sources
       PROVE  /\ th'[u].pc = "delHidden" => th'[u].edge \in graph'.hidden
              /\ th'[u].pc \in {"findTo", "delEdge"} /\ th'[u].from # NoNode
                    => th'[u].from[1] = th'[u].link[1]
              /\ th'[u].pc = "delEdge" => th'[u].to[1] = th'[u].link[2]
  BY <1>8, <1>9, <1>11, <1>12
<1> QED
  BY <1>6, <1>13 DEF EdgeInv

\* Without <modify_edge> no null edge appears; and a single source opens its
\* connection with nothing on screen.
Calm == ("modify_edge" \notin Tags => NullInv) /\ StartInv

\* Every step keeps Calm.
LEMMA CalmStep ==
    ASSUME TypeInv, Registry(graph), EdgeInv, Calm, Next
    PROVE  Calm'
<1>1. PICK t \in Sources : \/ Connect(t) \/ startDocument(t) \/ refused(t) \/ endDocument(t)
                           \/ Element(t) \/ Step(t)
  BY DEF Next
<1>2. \A u \in Sources \ {t} : th'[u] = th[u]
  BY <1>1, OthersStay
<1>3. th \in [Sources -> Threads] /\ th[t] \in Threads /\ Fit(th[t]) /\ graph \in Graph
  BY DEF TypeInv
<1>4. CameFrom(t)
  BY <1>1, StepCameFrom
<1>5. ASSUME "modify_edge" \notin Tags PROVE NullInv'
  <2>1. NullInv
    BY <1>5 DEF Calm
  <2>2. NullEdge \notin ToSet(graph'.visible.edges)
    <3>1. CASE UNCHANGED graph
      BY <2>1, <3>1 DEF NullInv
    <3>2. CASE ~UNCHANGED graph
      <4>1. PICK h \in Graph : graph' = Swept(h, th') /\ NullShown(t, h)
        BY <1>1, <3>2, EdgesStep
      <4>2. graph'.visible = h.visible
        BY <4>1, SweptShape
      <4> QED
        BY <2>1, <4>1, <4>2 DEF NullInv, NullShown
    <3> QED
      BY <3>1, <3>2
  <2>3. th'[t].tag # "modify_edge"
    <3>1. CASE th'[t].tag \in {"", th[t].tag}
      BY <2>1, <3>1 DEF NullInv
    <3>2. CASE th'[t].tag \notin {"", th[t].tag}
      <4>1. PICK tag \in {"edge", "modify_edge", "remove_edge"}, link \in Links :
                 edgeElement(t, tag, link)
        BY <1>4, <3>2 DEF CameFrom
      <4>2. tag \in Tags /\ th'[t] = [th[t] EXCEPT !.pc = "findTo", !.tag = tag, !.link = link,
                                                  !.from = findNode(graph, link[1])]
        BY <1>3, <4>1 DEF edgeElement
      <4>3. th'[t].tag = tag
        BY <1>3, <4>2 DEF Threads
      <4> QED
        BY <1>5, <4>2, <4>3
    <3> QED
      BY <3>1, <3>2
  <2>4. ASSUME th'[t].pc = "addEdge" PROVE th'[t].edge # NullEdge
    <3>1. connect(t)
      BY <1>4, <2>4 DEF CameFrom
    <3>2. th[t].from \in NodeObjs /\ th[t].to \in NodeObjs
      BY <1>3, <3>1 DEF connect, Fit
    <3>3. th[t].tag # "modify_edge"
      BY <2>1 DEF NullInv
    <3> DEFINE e == NewEdge(th[t].from, th[t].to)
    <3>4. th'[t] = [th[t] EXCEPT !.pc = "addEdge", !.edge = e]
      BY <1>3, <3>1, <3>3 DEF connect
    <3>5. e \in EdgeObjs
      BY <3>2, NewEdgeShape
    <3> HIDE DEF e
    <3>6. th'[t].edge = e
      BY <1>3, <3>4 DEF Threads
    <3> QED
      BY <3>5, <3>6, Parts
  <2>5. ASSUME NEW u \in Sources
        PROVE  th'[u].tag # "modify_edge" /\ (th'[u].pc = "addEdge" => th'[u].edge # NullEdge)
    <3>1. CASE u = t
      BY <2>3, <2>4, <3>1
    <3>2. CASE u # t
      BY <1>2, <2>1, <3>2 DEF NullInv
    <3> QED
      BY <3>1, <3>2
  <2> QED
    BY <2>2, <2>5 DEF NullInv
<1>6. StartInv'
  <2> SUFFICES ASSUME NEW u \in Sources, Sources = {u}, th'[u].pc = "off"
               PROVE  graph'.visible.edges = <<>>
    BY DEF StartInv
  <2>1. u = t
    OBVIOUS
  <2>2. Connect(t) /\ clearAllThrows(graph)
    BY <1>4, <2>1 DEF CameFrom
  <2>3. graph.visible.edges = <<>>
    BY <2>1, <2>2 DEF Connect, Calm, StartInv
  <2>4. ~clearAllThrows(graph)
    BY <2>3 DEF clearAllThrows, Contains
  <2> QED
    BY <2>2, <2>4
<1> QED
  BY <1>5, <1>6 DEF Calm

\* The invariants about edges, in every state the viewer reaches.
LEMMA EdgeInvariance == Spec => [](TypeInv /\ Registry(graph) /\ EdgeInv /\ Calm)
<1>1. Init => EdgeInv /\ Calm
  <2> SUFFICES ASSUME Init PROVE EdgeInv /\ Calm
    OBVIOUS
  <2>1. "off" \in {"off", "dial", "idle", "ended"} /\ 0 \in 0..2
    OBVIOUS
  <2>2. \A t \in Sources : th[t].pc = "off" /\ th[t].tag = ""
    BY <2>1, ThreadFit DEF Init
  <2>3. graph.visible.edges = <<>> /\ (\A n \in NodeObjs : graph.adj[n] = <<>>) /\ ToSet(<<>>) = {}
    BY DEF Init, EmptyGraph, EmptySet, ToSet
  <2>4. EdgeInv
    BY <2>2, <2>3 DEF EdgeInv, OwnEdges
  <2>5. Calm
    BY <2>2, <2>3 DEF Calm, NullInv, StartInv
  <2> QED
    BY <2>4, <2>5
<1>2. (TypeInv /\ Registry(graph)) /\ (EdgeInv /\ Calm) /\ [Next]_vars => (EdgeInv /\ Calm)'
  <2> SUFFICES ASSUME TypeInv, Registry(graph), EdgeInv, Calm, [Next]_vars
               PROVE  EdgeInv' /\ Calm'
    OBVIOUS
  <2>1. CASE Next
    BY <2>1, EdgeInvStep, CalmStep
  <2>2. CASE UNCHANGED vars
    BY <2>2 DEF vars, EdgeInv, Calm, NullInv, StartInv
  <2> QED
    BY <2>1, <2>2
<1> QED
  BY <1>1, <1>2, Invariance, PTL DEF Spec

\* TGPanel: an edge on screen leaves the graph or becomes invisible only in the
\* step that removes it, removes one of its ends or clears the graph, for sources
\* that send no <modify_edge> and for a single source.  updatePartitions, which
\* deletes edges it found invisible outside the monitor, never takes one.
THEOREM ViewerShownEdges ==
    ASSUME "modify_edge" \notin Tags \/ \E s : Sources = {s}
    PROVE  Spec => ShownEdgesStay
<1> DEFINE Stay(e) ==
              \/ e \in Edges' \ graph.hidden'
              \/ \E t \in Sources :
                    \/ th[t].pc = "delNode" /\ th[t].from \in {e.from, e.to}
                    \/ th[t].pc = "delEdge" /\ th[t].from = e.from /\ th[t].to = e.to
                    \/ th[t].pc \in {"begin", "off"} /\ th'[t] # th[t]
<1>1. (TypeInv /\ Registry(graph) /\ EdgeInv /\ Calm) /\ [Next]_vars
         => [\A e \in Edges \ graph.hidden : Stay(e)]_vars
  <2> SUFFICES ASSUME TypeInv, Registry(graph), EdgeInv, Calm, Next,
                      NEW e \in Edges \ graph.hidden
               PROVE  Stay(e)
    OBVIOUS
  <2>1. PICK t \in Sources : \/ Connect(t) \/ startDocument(t) \/ refused(t) \/ endDocument(t)
                             \/ Element(t) \/ Step(t)
    BY DEF Next
  <2>2. CASE UNCHANGED graph
    BY <2>2 DEF Edges
  <2>3. CASE ~UNCHANGED graph
    <3>1. PICK h \in Graph : /\ graph' = Swept(h, th')
                             /\ Exposed(t, e) \/ e \in ToSet(h.complete.edges) \ h.hidden
      BY <2>1, <2>3, EdgesStep
    <3>2. graph'.complete = h.complete /\ graph'.hidden \subseteq h.hidden
      BY <3>1, SweptShape
    <3>3. CASE e \in ToSet(h.complete.edges) \ h.hidden
      BY <3>2, <3>3 DEF Edges
    <3>4. CASE Exposed(t, e) /\ th[t].pc \notin {"begin", "off"}
      BY <3>4 DEF Exposed
    <3>5. CASE th[t].pc \in {"begin", "off"}
      <4>1. Connect(t) \/ topology(t)
        <5>1. \/ Connect(t) \/ topology(t) \/ delNode(t) \/ addEdgeStep(t) \/ delEdge(t)
              \/ delHidden(t) \/ tie(t) \/ addFrom(t) \/ addTo(t)
              \/ \E id \in Ids : node(t, id)
          BY <2>1, <2>3, GraphRead DEF Element, Step
        <5> QED
          BY <3>5, <5>1 DEF delNode, addEdgeStep, delEdge, delHidden, tie, addFrom, addTo,
                            addEnd, node
      <4>2. th \in [Sources -> Threads] /\ th[t].try_cnt \in 0..2 /\ 0 \in 0..2
        BY ThreadFields DEF TypeInv
      <4>3. /\ Dropped(t).pc \in {"dial", "ended"} /\ Thread("dial", 0).pc = "dial"
            /\ Thread("idle", th[t].try_cnt).pc = "idle"
        BY <4>2, DroppedFit, ThreadFit
      <4>4. CASE Connect(t)
        <5>1. NullEdge \notin ToSet(graph.visible.edges)
          <6>1. CASE "modify_edge" \notin Tags
            BY <6>1 DEF Calm, NullInv
          <6>2. CASE \E s : Sources = {s}
            <7>1. Sources = {t}
              BY <6>2
            <7>2. graph.visible.edges = <<>>
              BY <4>4, <7>1 DEF Connect, Calm, StartInv
            <7> QED
              BY <7>2 DEF ToSet
          <6> QED
            BY <6>1, <6>2
        <5>2. ~clearAllThrows(graph)
          <6>1. graph.visible.edges \in Seq(EdgeObjs \cup {NullEdge})
            BY GraphFields DEF TypeInv
          <6> QED
            BY <5>1, <6>1, AppendRange DEF clearAllThrows
        <5>3. th'[t] = Thread("dial", 0)
          BY <4>2, <4>4, <5>2 DEF Connect
        <5>4. th'[t] # th[t]
          BY <3>5, <4>3, <5>3
        <5> QED
          BY <3>5, <5>4
      <4>5. CASE topology(t)
        <5>1. th'[t] = Dropped(t) \/ th'[t] = Thread("idle", th[t].try_cnt)
          BY <4>2, <4>5 DEF topology
        <5>2. th'[t] # th[t]
          BY <3>5, <4>3, <5>1
        <5> QED
          BY <3>5, <5>2
      <4> QED
        BY <4>1, <4>4, <4>5
    <3> QED
      BY <3>1, <3>3, <3>4, <3>5
  <2> QED
    BY <2>2, <2>3
<1> QED
  BY <1>1, EdgeInvariance, PTL DEF Spec, ShownEdgesStay

-----------------------------------------------------------------------------
(* How a thread moves *)

\* A thread with an edge element, both ends looked up.
Linked(x) ==
    \/ x.pc \in {"addFrom", "addTo", "connect", "addEdge", "delEdge"}
    \/ x.pc \in Updating /\ x.op \in {"addFrom", "addTo"}

Apart(x) == ~Linked(x) /\ x.pc # "findTo"

\* Where updatePartitions has collected nodes, and what a step does to them.
Collecting == {"count", "scan", "tie"}
KeepsFound(y, z) ==
    \/ z.partitions = <<>>
    \/ z.partitions = y.partitions /\ (y.pc \in Collecting => z.pc \in Collecting)

SameEnds(y, z) == z.link = y.link /\ z.from = y.from /\ z.to = y.to

MoveApart(y, z) == Apart(z) /\ KeepsFound(y, z)

MoveNamed(y, z) ==
    /\ z.pc = "findTo" /\ z.link \in Links /\ z.from = findNode(graph, z.link[1])
    /\ KeepsFound(y, z)

MoveFound(y, z) ==
    /\ y.pc = "findTo" /\ z.pc \in {"addFrom", "delEdge"} /\ z.link = y.link
    /\ z.from = y.from /\ z.to = findNode(graph, y.link[2]) /\ KeepsFound(y, z)

MoveOn(y, z) ==
    /\ SameEnds(y, z) /\ KeepsFound(y, z)
    /\ \/ y.pc = "addFrom" /\ z.pc = "addTo" /\ y.from # NoNode
       \/ y.pc = "addTo" /\ z.pc = "connect" /\ y.to # NoNode
       \/ y.pc \in Updating /\ z.pc \in Updating /\ z.op = y.op
       \/ y.pc = "done" /\ y.op = "addFrom" /\ z.pc = "addTo"
       \/ y.pc = "done" /\ y.op = "addTo" /\ z.pc = "connect"

MoveCreates(y, z, end, n, next) ==
    /\ y[end] = NoNode /\ z[end] = n /\ z.link = y.link /\ KeepsFound(y, z)
    /\ n \in FreeNodes(y.link[IF end = "from" THEN 1 ELSE 2])
    /\ graph' = Swept(addNode(WithNewNode(graph, n), n), th')
    /\ IF addNodeThrows(WithNewNode(graph, n), n) THEN z.pc = next
       ELSE z.pc = "upd" /\ z.op = y.pc

MoveNew(y, z) ==
    \/ \E n : /\ y.pc = "addFrom" /\ z.to = y.to
              /\ MoveCreates(y, z, "from", n, "addTo")
    \/ \E n : /\ y.pc = "addTo" /\ z.from = y.from
              /\ MoveCreates(y, z, "to", n, "connect")

MoveConnect(y, z) ==
    /\ y.pc = "connect" /\ z.pc = "addEdge" /\ SameEnds(y, z) /\ KeepsFound(y, z)
    /\ z.edge = IF y.tag = "modify_edge" THEN findEdge(graph, y.from, y.to)
                ELSE NewEdge(y.from, y.to)

MoveScan(y, z) ==
    /\ y.pc = "scan" /\ z.pc = "count" /\ z.op = y.op /\ SameEnds(y, z)
    /\ \E n \in NodeOrNull : /\ z.partitions = Append(y.partitions, n)
             /\ \/ n = NoNode /\ graph.complete.nodes = <<>>
                \/ n \in ToSet(graph.complete.nodes)
             /\ n \notin ToSet(y.partitions)

\* What a step of a thread does to its own variables.
Moves(y, z) ==
    \/ MoveApart(y, z) \/ MoveNamed(y, z) \/ MoveFound(y, z) \/ MoveOn(y, z)
    \/ MoveNew(y, z) \/ MoveConnect(y, z) \/ MoveScan(y, z)

\* The steps that make the ends of an edge.
LEMMA EndMoves ==
    ASSUME TypeInv, NEW t \in Sources, addFrom(t) \/ addTo(t)
    PROVE  \/ MoveOn(th[t], th'[t]) /\ UNCHANGED graph
           \/ MoveNew(th[t], th'[t])
<1> DEFINE y == th[t]
           z == th'[t]
<1>1. th \in [Sources -> Threads] /\ y \in Threads
  BY DEF TypeInv
<1>2. CASE addFrom(t)
  <2>1. addEnd(t, "addFrom", "from", "addTo") /\ y.pc = "addFrom" /\ y.pc \notin Collecting
    BY <1>2 DEF addFrom, addEnd, Collecting
  <2>2. CASE y.from # NoNode
    <3>1. z = [y EXCEPT !.pc = "addTo"]
      BY <1>1, <2>1, <2>2 DEF addEnd
    <3>2. z.pc = "addTo" /\ SameEnds(y, z) /\ z.partitions = y.partitions
      BY <1>1, <3>1 DEF Threads, SameEnds
    <3>3. MoveOn(y, z)
      BY <2>1, <2>2, <3>2 DEF MoveOn, KeepsFound
    <3> QED
      BY <2>1, <2>2, <3>3 DEF addEnd
  <2>3. CASE y.from = NoNode
    <3>1. PICK n \in FreeNodes(y.link[1]) :
             /\ z = IF addNodeThrows(WithNewNode(graph, n), n)
                    THEN [y EXCEPT !["from"] = n, !.pc = "addTo"]
                    ELSE [ToUpdate(t, "addFrom") EXCEPT !["from"] = n]
             /\ graph' = Swept(addNode(WithNewNode(graph, n), n), th')
      BY <1>1, <2>1, <2>3 DEF addEnd
    <3>2. /\ z.from = n /\ z.to = y.to /\ z.link = y.link /\ z.partitions = y.partitions
          /\ IF addNodeThrows(WithNewNode(graph, n), n) THEN z.pc = "addTo"
             ELSE z.pc = "upd" /\ z.op = "addFrom"
      BY <1>1, <3>1 DEF ToUpdate, Threads
    <3>3. y["from"] = NoNode /\ z["from"] = n
      BY <2>3, <3>2
    <3>4. MoveCreates(y, z, "from", n, "addTo")
      BY <2>1, <3>1, <3>2, <3>3 DEF MoveCreates, KeepsFound
    <3> QED
      BY <2>1, <3>2, <3>4 DEF MoveNew
  <2> QED
    BY <2>2, <2>3
<1>3. CASE addTo(t)
  <2>1. addEnd(t, "addTo", "to", "connect") /\ y.pc = "addTo" /\ y.pc \notin Collecting
    BY <1>3 DEF addTo, addEnd, Collecting
  <2>2. CASE y.to # NoNode
    <3>1. z = [y EXCEPT !.pc = "connect"]
      BY <1>1, <2>1, <2>2 DEF addEnd
    <3>2. z.pc = "connect" /\ SameEnds(y, z) /\ z.partitions = y.partitions
      BY <1>1, <3>1 DEF Threads, SameEnds
    <3>3. MoveOn(y, z)
      BY <2>1, <2>2, <3>2 DEF MoveOn, KeepsFound
    <3> QED
      BY <2>1, <2>2, <3>3 DEF addEnd
  <2>3. CASE y.to = NoNode
    <3>1. PICK n \in FreeNodes(y.link[2]) :
             /\ z = IF addNodeThrows(WithNewNode(graph, n), n)
                    THEN [y EXCEPT !["to"] = n, !.pc = "connect"]
                    ELSE [ToUpdate(t, "addTo") EXCEPT !["to"] = n]
             /\ graph' = Swept(addNode(WithNewNode(graph, n), n), th')
      BY <1>1, <2>1, <2>3 DEF addEnd
    <3>2. /\ z.to = n /\ z.from = y.from /\ z.link = y.link /\ z.partitions = y.partitions
          /\ IF addNodeThrows(WithNewNode(graph, n), n) THEN z.pc = "connect"
             ELSE z.pc = "upd" /\ z.op = "addTo"
      BY <1>1, <3>1 DEF ToUpdate, Threads
    <3>3. y["to"] = NoNode /\ z["to"] = n
      BY <2>3, <3>2
    <3>4. MoveCreates(y, z, "to", n, "connect")
      BY <2>1, <3>1, <3>2, <3>3 DEF MoveCreates, KeepsFound
    <3> QED
      BY <2>1, <3>2, <3>4 DEF MoveNew
  <2> QED
    BY <2>2, <2>3
<1> QED
  BY <1>2, <1>3

\* The steps outside updatePartitions.
LEMMA ElementMoves ==
    ASSUME TypeInv, NEW t \in Sources,
           \/ Connect(t) \/ startDocument(t) \/ refused(t) \/ endDocument(t) \/ Element(t)
           \/ findTo(t) \/ addFrom(t) \/ addTo(t) \/ connect(t) \/ addEdgeStep(t)
           \/ delNode(t) \/ delEdge(t)
    PROVE  th'[t] = th[t] \/ Moves(th[t], th'[t])
<1> DEFINE y == th[t]
           z == th'[t]
<1>1. th \in [Sources -> Threads] /\ y \in Threads /\ Fit(y)
  BY DEF TypeInv
<1>2. \A w, k : Thread(w, k).pc = w /\ Thread(w, k).partitions = <<>>
  BY DEF Thread
<1>3. Again(y.try_cnt + 1).pc \in {"dial", "ended"} /\ Again(y.try_cnt + 1).partitions = <<>>
  BY <1>2 DEF Again
<1>4. Dropped(t).pc \in {"dial", "ended"} /\ Dropped(t).partitions = <<>>
  BY <1>2 DEF Again, Dropped
<1>5. ASSUME NEW x, x.pc \in {"dial", "ended", "idle"}, x.partitions = <<>>
      PROVE  MoveApart(y, x)
  BY <1>5 DEF MoveApart, Apart, Linked, Updating, KeepsFound
<1>6. CASE Connect(t) \/ refused(t) \/ endDocument(t) \/ topology(t)
  <2>1. \/ z = y \/ z = Thread("dial", 0) \/ z = Again(y.try_cnt + 1) \/ z = Dropped(t)
        \/ z = Thread("idle", y.try_cnt)
    BY <1>1, <1>6 DEF Connect, refused, endDocument, topology
  <2> QED
    BY <1>2, <1>3, <1>4, <1>5, <2>1 DEF Moves
<1>7. CASE startDocument(t)
  <2>1. z = [y EXCEPT !.pc = "begin"] /\ y.pc = "dial"
    BY <1>1, <1>7 DEF startDocument
  <2>2. z.pc = "begin" /\ z.partitions = y.partitions
    BY <1>1, <2>1 DEF Threads
  <2>3. MoveApart(y, z)
    BY <2>1, <2>2 DEF MoveApart, Apart, Linked, Updating, KeepsFound, Collecting
  <2> QED
    BY <2>3 DEF Moves
<1>8. ASSUME NEW op \in {"node", "edge", "remove_node", "remove_edge"}, NEW a, NEW b,
             z = [ToUpdate(t, op) EXCEPT !.from = a, !.to = b], y.pc \notin Collecting
      PROVE  Moves(y, z)
  <2>1. z.pc = "upd" /\ z.op = op /\ z.partitions = y.partitions
    BY <1>1, <1>8 DEF ToUpdate, Threads
  <2>2. MoveApart(y, z)
    BY <1>8, <2>1 DEF MoveApart, Apart, Linked, KeepsFound
  <2> QED
    BY <2>2 DEF Moves
<1>9. CASE \E id \in Ids : node(t, id) \/ modify_node(t, id)
  <2>1. \/ z = y
        \/ z = Dropped(t)
        \/ z = ToUpdate(t, "node") /\ y.pc = "idle"
    BY <1>1, <1>9 DEF node, modify_node
  <2>2. ToUpdate(t, "node") = [ToUpdate(t, "node") EXCEPT !.from = y.from, !.to = y.to]
    BY <1>1 DEF ToUpdate, Threads
  <2>3. y.pc = "idle" => y.pc \notin Collecting
    BY DEF Collecting
  <2>4. CASE z = Dropped(t)
    BY <1>4, <1>5, <2>4 DEF Moves
  <2>5. CASE z = ToUpdate(t, "node") /\ y.pc = "idle"
    <3>1. z = [ToUpdate(t, "node") EXCEPT !.from = y.from, !.to = y.to]
      BY <2>2, <2>5
    <3>2. \E a, b : z = [ToUpdate(t, "node") EXCEPT !.from = a, !.to = b]
      BY <3>1
    <3>3. y.pc \notin Collecting
      BY <2>3, <2>5
    <3>4. Moves(y, z)
      <4> HIDE DEF y, z
      <4> QED
        BY <1>8, <3>2, <3>3
    <3> QED
      BY <3>4
  <2> QED
    BY <2>1, <2>4, <2>5
<1>10. CASE \E id \in Ids : remove_node(t, id)
  <2>1. PICK id \in Ids : remove_node(t, id)
    BY <1>10
  <2> DEFINE n == findNode(graph, id)
             pc == IF n = NoNode THEN "done" ELSE "delNode"
  <2>2. z = [y EXCEPT !.from = n, !.op = "remove_node", !.pc = pc] /\ y.pc = "idle"
    BY <1>1, <2>1 DEF remove_node
  <2>3. pc \in {"done", "delNode"}
    OBVIOUS
  <2> HIDE DEF n, pc
  <2>4. z.pc = pc /\ z.op = "remove_node" /\ z.partitions = y.partitions
    BY <1>1, <2>2 DEF Threads
  <2>5. MoveApart(y, z)
    BY <2>2, <2>3, <2>4 DEF MoveApart, Apart, Linked, Updating, KeepsFound, Collecting
  <2> QED
    BY <2>5 DEF Moves
<1>11. CASE \E tag \in {"edge", "modify_edge", "remove_edge"}, link \in Links :
                edgeElement(t, tag, link)
  <2>1. PICK tag \in {"edge", "modify_edge", "remove_edge"}, link \in Links :
             edgeElement(t, tag, link)
    BY <1>11
  <2>2. z = [y EXCEPT !.pc = "findTo", !.tag = tag, !.link = link, !.from = findNode(graph, link[1])]
        /\ y.pc = "idle"
    BY <1>1, <2>1 DEF edgeElement
  <2>3. /\ z.pc = "findTo" /\ z.link = link /\ z.from = findNode(graph, link[1])
        /\ z.partitions = y.partitions
    BY <1>1, <2>2 DEF Threads
  <2>4. MoveNamed(y, z)
    BY <2>2, <2>3 DEF MoveNamed, KeepsFound, Collecting
  <2> QED
    BY <2>4 DEF Moves
<1>12. CASE findTo(t)
  <2> DEFINE to == findNode(graph, y.link[2])
             x(pc) == [y EXCEPT !.to = to, !.pc = pc]
  <2>1. \/ z = x("addFrom") \/ z = x("delEdge") \/ z = Thread("idle", y.try_cnt)
    BY <1>1, <1>12 DEF findTo
  <2>2. y.pc = "findTo"
    BY <1>12 DEF findTo
  <2> HIDE DEF to
  <2>3. \A pc : /\ x(pc).pc = pc /\ x(pc).to = to /\ x(pc).from = y.from /\ x(pc).link = y.link
                /\ x(pc).partitions = y.partitions
    BY <1>1 DEF Threads
  <2> HIDE DEF x
  <2>4. \A pc \in {"addFrom", "delEdge"} : MoveFound(y, x(pc))
    BY <2>2, <2>3 DEF MoveFound, KeepsFound, Collecting, to
  <2> QED
    BY <1>2, <1>5, <2>1, <2>4 DEF Moves
<1>13. CASE addEdgeStep(t) \/ delEdge(t)
  <2>1. \/ z = Dropped(t)
        \/ \E op \in {"edge", "remove_edge"} :
              z = [ToUpdate(t, op) EXCEPT !.from = NoNode, !.to = NoNode]
    BY <1>1, <1>13 DEF addEdgeStep, delEdge
  <2>2. y.pc \notin Collecting
    BY <1>13 DEF addEdgeStep, delEdge, Collecting
  <2>3. CASE z = Dropped(t)
    BY <1>4, <1>5, <2>3 DEF Moves
  <2>4. ASSUME NEW op \in {"edge", "remove_edge"},
               z = [ToUpdate(t, op) EXCEPT !.from = NoNode, !.to = NoNode]
        PROVE  Moves(y, z)
    <3> HIDE DEF y, z
    <3> QED
      BY <1>8, <2>2, <2>4
  <2> QED
    BY <2>1, <2>3, <2>4
<1>14. CASE delNode(t)
  <2>1. [ToUpdate(t, "remove_node") EXCEPT !.from = NoNode]
           = [ToUpdate(t, "remove_node") EXCEPT !.from = NoNode, !.to = y.to]
    BY <1>1 DEF ToUpdate, Threads
  <2>2. z = [ToUpdate(t, "remove_node") EXCEPT !.from = NoNode] /\ y.pc = "delNode"
    BY <1>1, <1>14 DEF delNode
  <2>3. y.pc \notin Collecting
    BY <2>2 DEF Collecting
  <2>4. z = [ToUpdate(t, "remove_node") EXCEPT !.from = NoNode, !.to = y.to]
    BY <2>1, <2>2
  <2>5. Moves(y, z)
    <3> HIDE DEF y, z
    <3> QED
      BY <1>8, <2>3, <2>4
  <2> QED
    BY <2>5
<1>15. CASE connect(t)
  <2> DEFINE e == IF y.tag = "modify_edge" THEN findEdge(graph, y.from, y.to)
                  ELSE NewEdge(y.from, y.to)
  <2>1. z = [y EXCEPT !.pc = "addEdge", !.edge = e] /\ y.pc = "connect"
    BY <1>1, <1>15 DEF connect
  <2> HIDE DEF e
  <2>2. /\ z.pc = "addEdge" /\ z.edge = e /\ SameEnds(y, z) /\ z.partitions = y.partitions
    BY <1>1, <2>1 DEF Threads, SameEnds
  <2>3. MoveConnect(y, z)
    BY <2>1, <2>2 DEF MoveConnect, KeepsFound, Collecting, e
  <2> QED
    BY <2>3 DEF Moves
<1>16. CASE addFrom(t) \/ addTo(t)
  BY <1>16, EndMoves DEF Moves
<1> QED
  BY <1>6, <1>7, <1>9, <1>10, <1>11, <1>12, <1>13, <1>14, <1>15, <1>16 DEF Element

\* The steps of updatePartitions.
LEMMA UpdateMoves ==
    ASSUME TypeInv, NEW t \in Sources,
           \/ upd(t) \/ del(t) \/ delHidden(t) \/ count(t) \/ scan(t) \/ tie(t) \/ done(t)
    PROVE  Moves(th[t], th'[t])
<1> DEFINE y == th[t]
           z == th'[t]
<1>1. th \in [Sources -> Threads] /\ y \in Threads /\ Fit(y) /\ graph \in Graph
  BY DEF TypeInv
<1>2. \A w, k : Thread(w, k).pc = w /\ Thread(w, k).partitions = <<>>
  BY DEF Thread
<1>3. Dropped(t).pc \in {"dial", "ended"} /\ Dropped(t).partitions = <<>>
  BY <1>2 DEF Again, Dropped
<1>4. ASSUME NEW x, x.pc \in {"dial", "ended", "idle"}, x.partitions = <<>>, z = x
      PROVE  Moves(y, z)
  BY <1>4 DEF Moves, MoveApart, Apart, Linked, Updating, KeepsFound
<1>5. ASSUME y.pc \in Updating, z.pc \in Updating, z.op = y.op, SameEnds(y, z), KeepsFound(y, z)
      PROVE  Moves(y, z)
  BY <1>5 DEF Moves, MoveOn
<1>6. CASE upd(t) \/ delHidden(t)
  <2>1. PICK i, e : z = [y EXCEPT !.pc = "del", !.i = i, !.edge = e] /\ y.pc \in {"upd", "delHidden"}
    <3>1. CASE upd(t)
      <4>1. z = [y EXCEPT !.pc = "del", !.i = Len(graph.complete.edges)] /\ y.pc = "upd"
        BY <1>1, <3>1 DEF upd
      <4>2. z = [y EXCEPT !.pc = "del", !.i = Len(graph.complete.edges), !.edge = y.edge]
        BY <1>1, <4>1 DEF Threads
      <4> QED
        BY <4>1, <4>2
    <3>2. CASE delHidden(t)
      <4>1. z = [y EXCEPT !.pc = "del", !.edge = NullEdge] /\ y.pc = "delHidden"
        BY <1>1, <3>2 DEF delHidden
      <4>2. z = [y EXCEPT !.pc = "del", !.i = y.i, !.edge = NullEdge]
        BY <1>1, <4>1 DEF Threads
      <4> QED
        BY <4>1, <4>2
    <3> QED
      BY <1>6, <3>1, <3>2
  <2>2. z.pc = "del" /\ z.op = y.op /\ SameEnds(y, z) /\ z.partitions = y.partitions
    BY <1>1, <2>1 DEF Threads, SameEnds
  <2> QED
    BY <1>5, <2>1, <2>2 DEF Updating, KeepsFound, Collecting
<1>7. CASE del(t)
  <2> DEFINE e == graph.complete.edges[y.i]
             a == [y EXCEPT !.pc = "count", !.i = 1]
             b == [y EXCEPT !.pc = "delHidden", !.edge = e, !.i = y.i - 1]
             c == [y EXCEPT !.i = y.i - 1]
  <2>1. (z = Dropped(t) \/ z = a \/ z = b \/ z = c) /\ y.pc = "del"
    BY <1>1, <1>7 DEF del
  <2> HIDE DEF e
  <2>2. \A x \in {a, b, c} : /\ x.pc \in {"count", "delHidden", y.pc} /\ x.op = y.op /\ SameEnds(y, x)
                             /\ x.partitions = y.partitions
    <3>1. /\ a.pc = "count" /\ a.op = y.op /\ SameEnds(y, a) /\ a.partitions = y.partitions
      BY <1>1 DEF Threads, SameEnds
    <3>2. /\ b.pc = "delHidden" /\ b.op = y.op /\ SameEnds(y, b) /\ b.partitions = y.partitions
      BY <1>1 DEF Threads, SameEnds
    <3>3. /\ c.pc = y.pc /\ c.op = y.op /\ SameEnds(y, c) /\ c.partitions = y.partitions
      BY <1>1 DEF Threads, SameEnds
    <3> HIDE DEF a, b, c
    <3> QED
      BY <3>1, <3>2, <3>3
  <2> HIDE DEF a, b, c
  <2>3. CASE z # Dropped(t)
    BY <1>5, <2>1, <2>2, <2>3 DEF Updating, KeepsFound, Collecting
  <2> QED
    BY <1>3, <1>4, <2>3
<1>8. CASE count(t)
  <2> DEFINE a == [y EXCEPT !.pc = "tie", !.i = 2]
             b == [y EXCEPT !.pc = "scan"]
  <2>1. (z = a \/ z = b) /\ y.pc = "count"
    BY <1>1, <1>8 DEF count
  <2>2. \A x \in {a, b} : /\ x.pc \in {"tie", "scan"} /\ x.op = y.op /\ SameEnds(y, x)
                          /\ x.partitions = y.partitions
    BY <1>1 DEF Threads, SameEnds
  <2> HIDE DEF a, b
  <2> QED
    BY <1>5, <2>1, <2>2 DEF Updating, KeepsFound, Collecting
<1>9. CASE scan(t)
  <2> DEFINE nodes == graph.complete.nodes
             i     == y.i
             found == y.partitions
             known == ToSet(found)
             fails == IF nodes = <<>> THEN known # {} ELSE i > Len(nodes) \/ NoNode \in known
             n     == IF nodes = <<>> THEN NoNode ELSE nodes[i]
             new   == \A m \in known : graph.part[m] # graph.part[n]
             x(p)  == [y EXCEPT !.pc = "count", !.i = i + 1, !.partitions = p]
  <2>1. /\ z = (IF fails THEN Dropped(t) ELSE x(IF new THEN Append(found, n) ELSE found))
        /\ y.pc = "scan"
    BY <1>1, <1>9 DEF scan
  <2>2. \A p : /\ x(p).pc = "count" /\ x(p).op = y.op /\ SameEnds(y, x(p))
               /\ x(p).partitions = p
    BY <1>1 DEF Threads, SameEnds
  <2>3. new => n \notin known
    OBVIOUS
  <2>4. ~fails => \/ n = NoNode /\ nodes = <<>>
                  \/ n \in ToSet(nodes)
    <3> SUFFICES ASSUME ~fails, nodes # <<>> PROVE n \in ToSet(nodes)
      OBVIOUS
    <3>1. nodes \in Seq(NodeObjs) /\ i \in Nat /\ i >= 1 /\ i <= Len(nodes)
      BY <1>1, <2>1, GraphFields, ThreadFields, SMTT(30) DEF Fit
    <3> QED
      BY <3>1 DEF ToSet
  <2>5. ~fails => n \in NodeOrNull
    <3>1. ToSet(nodes) \subseteq NodeObjs
      BY <1>1, GraphFields DEF ToSet
    <3> QED
      BY <2>4, <3>1 DEF NodeOrNull
  <2> HIDE DEF x, fails, new, n
  <2>6. CASE fails
    BY <1>3, <1>4, <2>1, <2>6
  <2>7. CASE ~fails /\ new
    <3>1. z = x(Append(found, n))
      BY <2>1, <2>7
    <3>2. MoveScan(y, z)
      BY <2>1, <2>2, <2>3, <2>4, <2>5, <2>7, <3>1 DEF MoveScan
    <3> QED
      BY <3>2 DEF Moves
  <2>8. CASE ~fails /\ ~new
    <3>1. z = x(found)
      BY <2>1, <2>8
    <3> QED
      BY <1>5, <2>1, <2>2, <3>1 DEF Updating, KeepsFound, Collecting
  <2> QED
    BY <2>6, <2>7, <2>8
<1>10. CASE tie(t)
  <2> DEFINE a == [y EXCEPT !.pc = "done", !.partitions = <<>>, !.i = 0]
             b == [y EXCEPT !.i = y.i + 1]
  <2>1. (z = a \/ z = b) /\ y.pc = "tie"
    BY <1>1, <1>10 DEF tie
  <2>2. /\ a.pc = "done" /\ a.op = y.op /\ SameEnds(y, a) /\ a.partitions = <<>>
        /\ b.pc = y.pc /\ b.op = y.op /\ SameEnds(y, b) /\ b.partitions = y.partitions
    BY <1>1 DEF Threads, SameEnds
  <2> HIDE DEF a, b
  <2>3. CASE z = a
    BY <1>5, <2>1, <2>2, <2>3 DEF Updating, KeepsFound, Collecting
  <2>4. CASE z = b
    <3>1. y.pc \in Updating /\ z.pc \in Updating /\ z.op = y.op /\ KeepsFound(y, z)
      BY <2>1, <2>2, <2>4 DEF Updating, KeepsFound, Collecting
    <3>2. SameEnds(y, z)
      BY <2>2, <2>4
    <3> QED
      BY <1>5, <3>1, <3>2
  <2> QED
    BY <2>1, <2>3, <2>4
<1>11. CASE done(t)
  <2> DEFINE a == [y EXCEPT !.pc = "addTo", !.op = ""]
             b == [y EXCEPT !.pc = "connect", !.op = ""]
  <2>1. /\ \/ z = a /\ y.op = "addFrom"
           \/ z = b /\ y.op = "addTo"
           \/ z = Thread("idle", y.try_cnt)
        /\ y.pc = "done"
    <3>1. y.pc = "done"
      BY <1>11 DEF done
    <3> DEFINE x == CASE y.op = "addFrom" -> a [] y.op = "addTo" -> b
                      [] OTHER -> Thread("idle", y.try_cnt)
    <3>2. th' = [th EXCEPT ![t] = x]
      BY <1>1, <1>11 DEF done
    <3>3. z = x
      <4> HIDE DEF x
      <4> QED
        BY <1>1, <3>2
    <3>4. \/ x = a /\ y.op = "addFrom"
          \/ x = b /\ y.op = "addTo"
          \/ x = Thread("idle", y.try_cnt)
      <4> HIDE DEF a, b, y
      <4> QED
        OBVIOUS
    <3> HIDE DEF x
    <3> QED
      BY <3>1, <3>3, <3>4
  <2>2. /\ a.pc = "addTo" /\ SameEnds(y, a) /\ a.partitions = y.partitions
        /\ b.pc = "connect" /\ SameEnds(y, b) /\ b.partitions = y.partitions
    BY <1>1 DEF Threads, SameEnds
  <2> HIDE DEF a, b
  <2>3. CASE z = Thread("idle", y.try_cnt)
    BY <1>2, <1>4, <2>3
  <2>4. CASE z # Thread("idle", y.try_cnt)
    <3>1. MoveOn(y, z)
      BY <2>1, <2>2, <2>4 DEF MoveOn, KeepsFound, Collecting
    <3> QED
      BY <3>1 DEF Moves
  <2> QED
    BY <2>3, <2>4
<1> QED
  BY <1>6, <1>7, <1>8, <1>9, <1>10, <1>11

\* Every step.
LEMMA StepMoves ==
    ASSUME TypeInv, NEW t \in Sources,
           \/ Connect(t) \/ startDocument(t) \/ refused(t) \/ endDocument(t)
           \/ Element(t) \/ Step(t)
    PROVE  th'[t] = th[t] \/ Moves(th[t], th'[t])
BY ElementMoves, UpdateMoves DEF Step

-----------------------------------------------------------------------------
(* The lists of edges *)

\* A new Node object is none of the graph's, and no edge of the graph ends at it.
LEMMA FreeNodesNew ==
    ASSUME TypeInv, NEW id \in Ids, NEW n \in FreeNodes(id)
    PROVE  /\ n \notin ToSet(graph.complete.nodes)
           /\ \A e \in ToSet(graph.complete.edges) : n \notin {e.from, e.to}
<1> DEFINE held == Held(th, graph)
           free == {k \in 1..Copies : <<id, k>> \notin held.nodes}
<1>1. n \in NodeObjs /\ n # NoNode
  BY FreeNodesShape, GraphAssumption
<1>2. n \notin held.nodes
  <2>1. n \in {<<id, k>> : k \in {k \in free : k = Min(free)}}
    BY DEF FreeNodes
  <2>2. PICK k \in free : n = <<id, k>>
    BY <2>1
  <2> QED
    BY <2>2
<1>3. /\ ToSet(graph.complete.nodes) \ {NoNode} \subseteq held.nodes
      /\ Ends(held.edges) \ {NoNode} \subseteq held.nodes
      /\ ToSet(graph.complete.edges) \ {NullEdge} \subseteq held.edges
  BY DEF Held, EdgesOf
<1>4. \A e \in ToSet(graph.complete.edges) : e # NullEdge
  <2>1. graph.complete.edges \in Seq(EdgeObjs)
    BY GraphFields DEF TypeInv
  <2> QED
    BY <2>1, GraphAssumption DEF ToSet
<1>5. ASSUME NEW e \in ToSet(graph.complete.edges), n \in {e.from, e.to} PROVE FALSE
  <2>1. e \in held.edges
    BY <1>3, <1>4
  <2>2. n \in Ends(held.edges)
    BY <1>5, <2>1 DEF Ends
  <2> QED
    BY <1>1, <1>2, <1>3, <2>2
<1> QED
  BY <1>1, <1>2, <1>3, <1>5

\* A graph with the same edges, nodes and lists of its nodes is as tidy.
LEMMA ListsSame ==
    ASSUME NEW g, NEW h, Lists(g), InStep(g), h.complete.edges = g.complete.edges,
           h.visible.edges = g.visible.edges, h.complete.nodes = g.complete.nodes,
           \A n \in ToSet(g.complete.nodes) : h.adj[n] = g.adj[n]
    PROVE  Lists(h) /\ InStep(h)
BY DEF Lists, InStep

\* Forgetting objects leaves the lists of the graph's nodes as they are.
LEMMA ListsSwept ==
    ASSUME NEW g \in Graph, Lists(g), InStep(g), NEW ths
    PROVE  Lists(Swept(g, ths)) /\ InStep(Swept(g, ths))
<1> DEFINE h == Swept(g, ths)
<1>1. h.complete = g.complete /\ h.visible = g.visible /\ h \in Graph
  BY SweptShape
<1>2. h.adj = [n \in NodeObjs |-> IF Contains(g.complete.nodes, n) THEN g.adj[n]
                                  ELSE Kept(g.adj[n], EdgesOf(g))]
  BY DEF Swept, Graph
<1> HIDE DEF h
<1>3. ASSUME NEW n \in ToSet(g.complete.nodes) PROVE h.adj[n] = g.adj[n]
  <2>1. n \in NodeObjs
    BY GraphFields DEF ToSet
  <2>2. Contains(g.complete.nodes, n)
    BY GraphFields, AppendRange
  <2> QED
    BY <1>2, <2>1, <2>2
<1>4. Lists(h) /\ InStep(h)
  BY <1>1, <1>3, ListsSame
<1> QED
  BY <1>4 DEF h

\* A node added to the graph is the last of the list.
LEMMA AddedNode ==
    ASSUME NEW g \in Graph, NEW n \in NodeObjs,
           g.visible.nodes = g.complete.nodes, g.visible.reg = g.complete.reg
    PROVE  /\ addNode(g, n) \in Graph /\ addNode(g, n).complete.edges = g.complete.edges
           /\ addNode(g, n).visible.edges = g.visible.edges /\ addNode(g, n).adj = g.adj
           /\ \/ addNode(g, n).complete.nodes = g.complete.nodes
              \/ addNode(g, n).complete.nodes = Append(g.complete.nodes, n)
<1> DEFINE h == addNode(g, n)
           N == g.complete.nodes
           R == g.complete.reg
<1>1. h = addNode(g, n) /\ g.visible.nodes = N /\ g.visible.reg = R
  OBVIOUS
<1> HIDE DEF h
<1>2. /\ h \in Graph /\ h.complete.edges = g.complete.edges
      /\ h.visible.edges = g.visible.edges /\ h.adj = g.adj
  BY <1>1, AddNodeShape
<1>3. \/ h.complete.nodes = N /\ h.complete.reg = R
      \/ R[n[1]] = NoNode /\ h.complete.nodes = Append(N, n)
         /\ h.complete.reg = [R EXCEPT ![n[1]] = n]
  BY <1>1, AddNodeShape
<1> QED
  BY <1>2, <1>3 DEF h

\* A new node has no edges and an empty list.
LEMMA NewNodeLists ==
    ASSUME TypeInv, Registry(graph), Lists(graph), InStep(graph),
           NEW id \in Ids, NEW n \in FreeNodes(id),
           NEW h, h = addNode(WithNewNode(graph, n), n)
    PROVE  h \in Graph /\ Lists(h) /\ InStep(h)
<1> DEFINE g == WithNewNode(graph, n)
<1>1. graph \in Graph
  BY DEF TypeInv
<1>2. n \in NodeObjs
  BY FreeNodesShape
<1>3. /\ n \notin ToSet(graph.complete.nodes)
      /\ \A e \in ToSet(graph.complete.edges) : n \notin {e.from, e.to}
  BY FreeNodesNew
<1>4. g \in Graph /\ SameSets(graph, g)
  BY <1>1, <1>2, WithNewNodeShape
<1>5. g.adj[n] = <<>> /\ \A m \in NodeObjs \ {n} : g.adj[m] = graph.adj[m]
  <2> DEFINE g1 == NewPart(graph, n)
  <2>1. g1 \in Graph /\ g1.adj = graph.adj
    BY <1>1, <1>2, NewPartShape
  <2>2. g = [g1 EXCEPT !.adj[n] = <<>>]
    BY DEF WithNewNode
  <2> HIDE DEF g1
  <2>3. g.adj = [g1.adj EXCEPT ![n] = <<>>]
    BY <2>1, <2>2 DEF Graph
  <2>4. graph.adj \in [NodeObjs -> Seq(EdgeObjs)]
    BY <1>1, GraphFields
  <2> QED
    BY <1>2, <2>1, <2>3, <2>4
<1>6. g.visible.nodes = g.complete.nodes /\ g.visible.reg = g.complete.reg
  BY <1>4 DEF SameSets, Registry
<1> HIDE DEF g
<1>7. h = addNode(g, n)
  BY DEF g
<1>8. /\ h \in Graph /\ h.complete.edges = g.complete.edges
      /\ h.visible.edges = g.visible.edges /\ h.adj = g.adj
      /\ ToSet(h.complete.nodes) \subseteq ToSet(g.complete.nodes) \cup {n}
  <2>1. /\ h \in Graph /\ h.complete.edges = g.complete.edges
        /\ h.visible.edges = g.visible.edges /\ h.adj = g.adj
        /\ h.complete.nodes = g.complete.nodes \/ h.complete.nodes = Append(g.complete.nodes, n)
    BY <1>2, <1>4, <1>6, <1>7, AddedNode
  <2>2. ToSet(Append(g.complete.nodes, n)) = ToSet(g.complete.nodes) \cup {n}
    BY <1>2, <1>4, GraphFields, AppendRange
  <2> QED
    BY <2>1, <2>2
<1>9. ToSet(<<>>) = {} /\ Once(<<>>)
  BY DEF ToSet, Once
<1>10. \A m \in ToSet(graph.complete.nodes) : m \in NodeObjs \ {n}
  <2>1. graph.complete.nodes \in Seq(NodeObjs)
    BY <1>1, GraphFields
  <2> QED
    BY <1>3, <2>1 DEF ToSet
<1>11. /\ h.complete.edges = graph.complete.edges /\ h.visible.edges = graph.visible.edges
       /\ ToSet(h.complete.nodes) \subseteq ToSet(graph.complete.nodes) \cup {n}
       /\ h.adj[n] = <<>> /\ \A m \in NodeObjs \ {n} : h.adj[m] = graph.adj[m]
  BY <1>4, <1>5, <1>8 DEF SameSets
<1>12. Lists(h)
  <2>1. ASSUME NEW m \in ToSet(h.complete.nodes)
        PROVE  /\ Once(h.adj[m])
               /\ ToSet(h.adj[m]) = {e \in ToSet(h.complete.edges) : m \in {e.from, e.to}}
    <3>1. CASE m = n
      BY <1>3, <1>9, <1>11, <3>1
    <3>2. CASE m \in ToSet(graph.complete.nodes)
      BY <1>10, <1>11, <3>2 DEF Lists
    <3> QED
      BY <1>11, <3>1, <3>2
  <2> QED
    BY <1>11, <2>1 DEF Lists
<1>13. InStep(h)
  BY <1>11 DEF InStep
<1> QED
  BY <1>8, <1>12, <1>13

\* Clearing the graph leaves nothing to list, or everything as it was.
LEMMA ClearAllLists ==
    ASSUME NEW g \in Graph, Lists(g), InStep(g), NEW h, h = clearAll(g)
    PROVE  h \in Graph /\ Lists(h) /\ InStep(h)
<1>1. /\ h \in Graph /\ h.adj = g.adj
      /\ IF clearAllThrows(g) THEN h.complete = g.complete /\ h.visible = g.visible
         ELSE h.complete = EmptySet /\ h.visible = EmptySet
  BY ClearAllShape
<1>2. CASE clearAllThrows(g)
  BY <1>1, <1>2, ListsSame
<1>3. CASE ~clearAllThrows(g)
  <2>1. /\ h.complete.edges = <<>> /\ h.complete.nodes = <<>> /\ h.visible.edges = <<>>
        /\ ToSet(<<>>) = {} /\ Once(<<>>)
    BY <1>1, <1>3 DEF EmptySet, ToSet, Once
  <2>2. RemoveFirst(<<>>, NullEdge) = <<>>
    <3>1. <<>> \in Seq({}) /\ ~Contains(<<>>, NullEdge)
      BY DEF Contains
    <3> QED
      BY <3>1, RemoveFirstProperties
  <2>3. Lists(h)
    BY <2>1 DEF Lists
  <2>4. InStep(h)
    BY <2>1, <2>2 DEF InStep
  <2> QED
    BY <1>1, <2>3, <2>4
<1> QED
  BY <1>2, <1>3

\* A thread whose variables are in order: the nodes it collected are distinct and
\* dropped with the loop; the ends it found or made for a link carry the link's
\* IDs; the edge it is about to add leads from one node to another.
Straight(x) ==
    /\ Once(x.partitions)
    /\ x.pc \notin Collecting => x.partitions = <<>>
    /\ (x.pc = "findTo" \/ Linked(x)) /\ x.from # NoNode => x.from[1] = x.link[1]
    /\ Linked(x) /\ x.to # NoNode => x.to[1] = x.link[2]
    /\ x.pc = "addEdge" /\ x.edge # NullEdge => x.edge.from # x.edge.to

\* findNode returns a node of the graph with that ID, or null.
LEMMA FindNodeId ==
    ASSUME Registry(graph), NEW id \in Ids, findNode(graph, id) # NoNode
    PROVE  findNode(graph, id)[1] = id /\ findNode(graph, id) \in ToSet(graph.complete.nodes)
BY DEF Registry, findNode

\* The ends of a link are different nodes.
LEMMA StraightEnds ==
    ASSUME NEW x, Fit(x), Straight(x), Linked(x), x.from \in NodeObjs, x.to \in NodeObjs
    PROVE  x.from # x.to
<1>1. x.link \in Links
  BY DEF Fit, Linked
<1>2. x.link[1] # x.link[2]
  BY <1>1, ViewerAssumption
<1>3. x.from # NoNode /\ x.to # NoNode
  BY GraphAssumption
<1> QED
  BY <1>2, <1>3 DEF Straight

\* Every step leaves the variables of its thread in order.
LEMMA StraightStep ==
    ASSUME TypeInv, Registry(graph), OwnEdges(graph), NEW t \in Sources,
           NEW y, NEW z, y = th[t], Fit(y), Fit(z), Straight(y), Moves(y, z)
    PROVE  Straight(z)
<1>1. KeepsFound(y, z) => Once(z.partitions) /\ (z.pc \notin Collecting => z.partitions = <<>>)
  <2>1. Once(<<>>)
    BY DEF Once
  <2> QED
    BY <2>1 DEF KeepsFound, Straight
<1>2. CASE MoveApart(y, z)
  BY <1>1, <1>2 DEF MoveApart, Apart, Linked, Straight
<1>3. CASE MoveNamed(y, z)
  <2>1. z.link \in Links /\ z.link[1] \in Ids
    BY <1>3, ViewerAssumption DEF MoveNamed
  <2>2. z.from # NoNode => z.from[1] = z.link[1]
    BY <1>3, <2>1, FindNodeId DEF MoveNamed
  <2>3. ~Linked(z) /\ z.pc # "addEdge"
    BY <1>3 DEF MoveNamed, Linked, Updating
  <2>4. KeepsFound(y, z)
    BY <1>3 DEF MoveNamed
  <2> QED
    BY <1>1, <2>2, <2>3, <2>4 DEF Straight
<1>4. CASE MoveFound(y, z)
  <2>1. y.link \in Links
    BY <1>4 DEF MoveFound, Fit
  <2>2. y.link[2] \in Ids
    BY <2>1, ViewerAssumption
  <2>3. z.to # NoNode => z.to[1] = z.link[2]
    BY <1>4, <2>2, FindNodeId DEF MoveFound
  <2>4. z.from # NoNode => z.from[1] = z.link[1]
    BY <1>4 DEF MoveFound, Straight
  <2>5. z.pc # "addEdge" /\ KeepsFound(y, z)
    BY <1>4 DEF MoveFound
  <2> QED
    BY <1>1, <2>3, <2>4, <2>5 DEF Straight
<1>5. CASE MoveOn(y, z)
  <2>1. z.pc # "addEdge" /\ z.pc # "findTo" /\ (Linked(z) => Linked(y))
    BY <1>5 DEF MoveOn, Linked, Updating
  <2>2. KeepsFound(y, z) /\ SameEnds(y, z)
    BY <1>5 DEF MoveOn
  <2> QED
    BY <1>1, <2>1, <2>2 DEF Straight, SameEnds
<1>6. ASSUME NEW n, y.pc = "addFrom", z.to = y.to, MoveCreates(y, z, "from", n, "addTo")
      PROVE  Straight(z)
  <2>1. y.link \in Links /\ Linked(y)
    BY <1>6 DEF Fit, Linked
  <2>2. y.link[1] \in Ids
    BY <2>1, ViewerAssumption
  <2>3. n \in FreeNodes(y.link[1]) /\ z.from = n /\ z.link = y.link /\ KeepsFound(y, z)
    BY <1>6 DEF MoveCreates
  <2>4. n[1] = y.link[1]
    BY <2>2, <2>3, FreeNodesShape
  <2>5. z.pc \in {"addTo", "upd"}
    BY <1>6 DEF MoveCreates
  <2> QED
    BY <1>1, <1>6, <2>1, <2>3, <2>4, <2>5 DEF Straight
<1>7. ASSUME NEW n, y.pc = "addTo", z.from = y.from, MoveCreates(y, z, "to", n, "connect")
      PROVE  Straight(z)
  <2>1. y.link \in Links /\ Linked(y)
    BY <1>7 DEF Fit, Linked
  <2>2. y.link[2] \in Ids
    BY <2>1, ViewerAssumption
  <2>3. n \in FreeNodes(y.link[2]) /\ z.to = n /\ z.link = y.link /\ KeepsFound(y, z)
    BY <1>7 DEF MoveCreates
  <2>4. n[1] = y.link[2]
    BY <2>2, <2>3, FreeNodesShape
  <2>5. z.pc \in {"connect", "upd"}
    BY <1>7 DEF MoveCreates
  <2> QED
    BY <1>1, <1>7, <2>1, <2>3, <2>4, <2>5 DEF Straight
<1>8. CASE MoveConnect(y, z)
  <2>1. /\ y.pc = "connect" /\ z.pc = "addEdge" /\ SameEnds(y, z) /\ KeepsFound(y, z)
        /\ z.edge = IF y.tag = "modify_edge" THEN findEdge(graph, y.from, y.to)
                    ELSE NewEdge(y.from, y.to)
    BY <1>8 DEF MoveConnect
  <2>2. y.from \in NodeObjs /\ y.to \in NodeObjs /\ Linked(y)
    BY <2>1 DEF Fit, Linked
  <2>3. y.from # y.to
    BY <2>2, StraightEnds
  <2>4. graph \in Graph
    BY DEF TypeInv
  <2>5. CASE z.edge = findEdge(graph, y.from, y.to)
    <3>1. z.edge = NullEdge \/ (z.edge \in EdgeObjs /\ z.edge \in ToSet(graph.adj[y.from]) /\ z.edge.to = y.to)
      BY <2>2, <2>4, <2>5, FindEdgeShape
    <3>2. z.edge # NullEdge => y.from \in {z.edge.from, z.edge.to}
      BY <2>2, <3>1 DEF OwnEdges
    <3>3. z.edge # NullEdge => z.edge.from # z.edge.to
      BY <2>3, <3>1, <3>2
    <3> QED
      BY <1>1, <2>1, <2>2, <3>3 DEF Straight, SameEnds
  <2>6. CASE z.edge = NewEdge(y.from, y.to)
    <3>1. z.edge.from = y.from /\ z.edge.to = y.to
      BY <2>2, <2>6, NewEdgeShape
    <3> QED
      BY <1>1, <2>1, <2>2, <2>3, <3>1 DEF Straight, SameEnds
  <2> QED
    BY <2>1, <2>5, <2>6
<1>9. CASE MoveScan(y, z)
  <2>1. /\ y.pc = "scan" /\ z.pc = "count" /\ z.op = y.op /\ SameEnds(y, z)
        /\ \E n \in NodeOrNull : z.partitions = Append(y.partitions, n) /\ n \notin ToSet(y.partitions)
    BY <1>9 DEF MoveScan
  <2>2. PICK n \in NodeOrNull : z.partitions = Append(y.partitions, n) /\ n \notin ToSet(y.partitions)
    BY <2>1
  <2>3. y.partitions \in Seq(NodeOrNull) /\ Once(y.partitions)
    BY ThreadFields DEF Fit, Straight
  <2>4. Once(z.partitions)
    BY <2>2, <2>3, OnceLists
  <2>5. Linked(z) => Linked(y)
    BY <2>1 DEF Linked, Updating
  <2> QED
    BY <2>1, <2>4, <2>5 DEF Straight, SameEnds, Collecting
<1> QED
  BY <1>2, <1>3, <1>4, <1>5, <1>6, <1>7, <1>8, <1>9 DEF Moves, MoveNew

\* Every step that writes keeps the lists.
LEMMA ListsWritten ==
    ASSUME TypeInv, Registry(graph), OwnEdges(graph), Lists(graph), InStep(graph),
           NEW t \in Sources, Straight(th[t]),
           \/ Connect(t) \/ topology(t) \/ delNode(t) \/ addEdgeStep(t) \/ delEdge(t)
           \/ delHidden(t) \/ tie(t) \/ addFrom(t) \/ addTo(t)
           \/ \E id \in Ids : node(t, id)
    PROVE  Lists(graph') /\ InStep(graph')
<1> DEFINE y == th[t]
<1>1. y \in Threads /\ Fit(y) /\ graph \in Graph
  BY DEF TypeInv
<1>2. ASSUME NEW h \in Graph, Lists(h), InStep(h), graph' = Swept(h, th')
      PROVE  Lists(graph') /\ InStep(graph')
  BY <1>2, ListsSwept
<1>3. CASE Connect(t) \/ topology(t)
  <2>1. graph' = Swept(clearAll(graph), th')
    BY <1>3 DEF Connect, topology
  <2>2. clearAll(graph) \in Graph /\ Lists(clearAll(graph)) /\ InStep(clearAll(graph))
    BY <1>1, ClearAllLists
  <2> QED
    BY <1>2, <2>1, <2>2
<1>4. ASSUME NEW id \in Ids, NEW n \in FreeNodes(id),
             graph' = Swept(addNode(WithNewNode(graph, n), n), th')
      PROVE  Lists(graph') /\ InStep(graph')
  <2> DEFINE h == addNode(WithNewNode(graph, n), n)
  <2>1. h \in Graph /\ Lists(h) /\ InStep(h)
    BY NewNodeLists
  <2>2. graph' = Swept(h, th')
    BY <1>4
  <2> HIDE DEF h
  <2> QED
    BY <1>2, <2>1, <2>2
<1>5. CASE \E id \in Ids : node(t, id)
  <2>1. PICK id \in Ids : node(t, id)
    BY <1>5
  <2>2. PICK n \in FreeNodes(id) : graph' = Swept(addNode(WithNewNode(graph, n), n), th')
    BY <2>1 DEF node
  <2> QED
    BY <1>4, <2>2
<1>6. ASSUME NEW pc \in {"addFrom", "addTo"}, NEW end \in {"from", "to"}, NEW next,
             addEnd(t, pc, end, next)
      PROVE  Lists(graph') /\ InStep(graph')
  <2>1. CASE UNCHANGED graph
    BY <2>1
  <2>2. CASE ~UNCHANGED graph
    <3>1. PICK n \in FreeNodes(y.link[IF end = "from" THEN 1 ELSE 2]) :
             graph' = Swept(addNode(WithNewNode(graph, n), n), th')
      BY <1>6, <2>2 DEF addEnd
    <3>2. y.link \in Links
      BY <1>1, <1>6 DEF addEnd, Fit
    <3>3. y.link[IF end = "from" THEN 1 ELSE 2] \in Ids
      BY <3>2, ViewerAssumption
    <3> QED
      BY <1>4, <3>1, <3>3
  <2> QED
    BY <2>1, <2>2
<1>7. CASE addFrom(t) \/ addTo(t)
  BY <1>6, <1>7 DEF addFrom, addTo
<1>8. CASE delNode(t)
  <2> DEFINE n == y.from
             h == deleteNode(graph, n)
  <2>1. n \in NodeObjs /\ graph' = Swept(h, th')
    BY <1>1, <1>8 DEF delNode, Fit
  <2>2. \A e \in ToSet(graph.adj[n]) : n \in {e.from, e.to}
    BY <2>1 DEF OwnEdges
  <2>3. graph.visible.nodes = graph.complete.nodes /\ Once(graph.complete.nodes)
    BY DEF Registry, Once
  <2> HIDE DEF n
  <2>4. h \in Graph
    BY <1>1, <2>1, DeleteNodeShape
  <2>5. h = deleteNode(graph, n)
    OBVIOUS
  <2> HIDE DEF h
  <2>6. Lists(h) /\ InStep(h)
    BY <1>1, <2>1, <2>2, <2>3, <2>5, DeleteNodeLists
  <2> QED
    BY <1>2, <2>1, <2>4, <2>6
<1>9. CASE addEdgeStep(t)
  <2> DEFINE e == y.edge
             h == addEdge(graph, e)
  <2>1. e \in EdgeObjs \cup {NullEdge} /\ graph' = Swept(h, th') /\ y.pc = "addEdge"
    BY <1>1, <1>9, ThreadFields DEF addEdgeStep
  <2>2. e # NullEdge => e.from # e.to
    BY <2>1 DEF Straight
  <2> HIDE DEF e
  <2>3. h \in Graph
    BY <1>1, <2>1, AddEdgeShape
  <2>4. Lists(h) /\ InStep(h)
    BY <1>1, <2>1, <2>2, AddEdgeLists
  <2> HIDE DEF h
  <2> QED
    BY <1>2, <2>1, <2>3, <2>4
<1>10. ASSUME NEW e \in EdgeObjs \cup {NullEdge}, graph' = Swept(deleteEdge(graph, e), th')
       PROVE  Lists(graph') /\ InStep(graph')
  <2>1. CASE e \in EdgeObjs
    <3>1. /\ deleteEdge(graph, e) \in Graph /\ Lists(deleteEdge(graph, e))
          /\ InStep(deleteEdge(graph, e))
      BY <1>1, <2>1, DeleteEdgeShape, DeleteEdgeLists
    <3> QED
      BY <1>2, <1>10, <3>1
  <2>2. CASE e = NullEdge
    <3>1. deleteEdge(graph, e) = graph
      BY <2>2 DEF deleteEdge
    <3> QED
      BY <1>1, <1>2, <1>10, <3>1
  <2> QED
    BY <2>1, <2>2
<1>11. CASE delEdge(t)
  <2> DEFINE e == findEdge(graph, y.from, y.to)
  <2>1. y.from \in NodeObjs /\ y.to \in NodeObjs /\ graph' = Swept(deleteEdge(graph, e), th')
    BY <1>1, <1>11 DEF delEdge, Fit
  <2>2. e \in EdgeObjs \cup {NullEdge}
    BY <1>1, <2>1, FindEdgeShape
  <2> HIDE DEF e
  <2> QED
    BY <1>10, <2>1, <2>2
<1>12. CASE delHidden(t)
  BY <1>1, <1>10, <1>12, ThreadFields DEF delHidden
<1>13. CASE tie(t)
  <2>1. CASE UNCHANGED graph
    BY <2>1
  <2>2. CASE ~UNCHANGED graph
    <3> DEFINE n == y.partitions[y.i - 1]
               m == y.partitions[y.i]
               e == NewEdge(n, m)
               g == [graph EXCEPT !.hidden = @ \cup {e}]
               h == addEdge(g, e)
    <3>1. y.i <= Len(y.partitions) /\ y.pc = "tie" /\ graph' = Swept(h, th')
      BY <1>1, <1>13, <2>2, ThreadFields DEF tie
    <3>2. /\ y.i - 1 \in 1..Len(y.partitions) /\ y.i \in 1..Len(y.partitions)
          /\ n \in NodeObjs /\ m \in NodeObjs
      BY <1>1, <3>1, TieNodes
    <3>3. n # m
      <4>1. y.i \in Nat
        BY <1>1, ThreadFields
      <4>2. y.i - 1 # y.i
        BY <4>1
      <4> QED
        BY <3>2, <4>2 DEF Straight, Once
    <3> HIDE DEF n, m
    <3>4. e \in EdgeObjs /\ e.from = n /\ e.to = m
      BY <3>2, NewEdgeShape
    <3> HIDE DEF e
    <3>5. /\ g \in Graph /\ g.complete = graph.complete /\ g.visible = graph.visible
          /\ g.adj = graph.adj
      BY <1>1, <3>4, HideNewShape
    <3> HIDE DEF g
    <3>6. Lists(g) /\ InStep(g)
      BY <3>5, ListsSame
    <3>7. h = addEdge(g, e) /\ e \in EdgeObjs \cup {NullEdge} /\ (e # NullEdge => e.from # e.to)
      BY <3>3, <3>4
    <3> HIDE DEF h
    <3>8. h \in Graph
      BY <3>5, <3>7, AddEdgeShape
    <3>9. Lists(h) /\ InStep(h)
      BY <3>5, <3>6, <3>7, AddEdgeLists
    <3> QED
      BY <1>2, <3>1, <3>8, <3>9
  <2> QED
    BY <2>1, <2>2
<1> QED
  BY <1>3, <1>5, <1>7, <1>8, <1>9, <1>11, <1>12, <1>13

\* The lists are in order, and so is every thread.
TidyInv == Lists(graph) /\ InStep(graph) /\ \A t \in Sources : Straight(th[t])

\* Every step keeps them so.
LEMMA TidyStep ==
    ASSUME TypeInv, TypeInv', Registry(graph), OwnEdges(graph), TidyInv, Next
    PROVE  TidyInv'
<1>1. PICK t \in Sources :
         \/ Connect(t) \/ startDocument(t) \/ refused(t) \/ endDocument(t)
         \/ Element(t) \/ Step(t)
  BY DEF Next
<1>2. Lists(graph') /\ InStep(graph')
  <2>1. CASE UNCHANGED graph
    BY <2>1 DEF TidyInv
  <2>2. CASE \/ Connect(t) \/ topology(t) \/ delNode(t) \/ addEdgeStep(t) \/ delEdge(t)
             \/ delHidden(t) \/ tie(t) \/ addFrom(t) \/ addTo(t)
             \/ \E id \in Ids : node(t, id)
    BY <2>2, ListsWritten DEF TidyInv
  <2> QED
    BY <1>1, <2>1, <2>2, GraphRead DEF Element, Step
<1>3. Straight(th'[t])
  <2> DEFINE y == th[t]
             z == th'[t]
  <2>1. Fit(y) /\ Straight(y)
    BY DEF TypeInv, TidyInv
  <2>2. Fit(z)
    BY DEF TypeInv
  <2>3. z = y \/ Moves(y, z)
    BY <1>1, StepMoves
  <2> QED
    BY <2>1, <2>2, <2>3, StraightStep
<1>4. \A u \in Sources \ {t} : Straight(th'[u])
  <2>1. \A u \in Sources \ {t} : th'[u] = th[u]
    BY <1>1, OthersStay
  <2> QED
    BY <2>1 DEF TidyInv
<1> QED
  BY <1>2, <1>3, <1>4 DEF TidyInv

\* The lists and the threads are in order in every state the viewer reaches.
LEMMA TidyInvariance == Spec => [](TypeInv /\ Registry(graph) /\ EdgeInv /\ TidyInv)
<1>1. Init => TidyInv
  <2> SUFFICES ASSUME Init PROVE TidyInv
    OBVIOUS
  <2>1. /\ graph.complete.edges = <<>> /\ graph.complete.nodes = <<>> /\ graph.visible.edges = <<>>
        /\ ToSet(<<>>) = {} /\ Once(<<>>)
    BY DEF Init, EmptyGraph, EmptySet, ToSet, Once
  <2>2. RemoveFirst(<<>>, NullEdge) = <<>>
    <3>1. <<>> \in Seq({}) /\ ~Contains(<<>>, NullEdge)
      BY DEF Contains
    <3> QED
      BY <3>1, RemoveFirstProperties
  <2>3. Lists(graph) /\ InStep(graph)
    BY <2>1, <2>2 DEF Lists, InStep
  <2>4. \A t \in Sources : th[t].pc = "off" /\ th[t].partitions = <<>>
    BY DEF Init, Thread
  <2>5. \A t \in Sources : Straight(th[t])
    BY <2>1, <2>4 DEF Straight, Linked, Updating
  <2> QED
    BY <2>3, <2>5 DEF TidyInv
<1>2. /\ TypeInv /\ TypeInv' /\ Registry(graph) /\ EdgeInv /\ TidyInv /\ [Next]_vars
      => TidyInv'
  <2> SUFFICES ASSUME TypeInv, TypeInv', Registry(graph), EdgeInv, TidyInv, [Next]_vars
               PROVE  TidyInv'
    OBVIOUS
  <2>1. CASE Next
    BY <2>1, TidyStep DEF EdgeInv
  <2>2. CASE UNCHANGED vars
    BY <2>2 DEF vars, TidyInv
  <2> QED
    BY <2>1, <2>2
<1> QED
  BY <1>1, <1>2, EdgeInvariance, PTL DEF Spec

\* GraphEltSet and Node: the complete set lists no edge twice, and every node of
\* the graph lists exactly the edges that end at it, once each, whatever the
\* sources send and however the threads interleave.
THEOREM ViewerLists == Spec => []ListsAgree
<1>1. TypeInv /\ TidyInv => ListsAgree
  <2> SUFFICES ASSUME TypeInv, TidyInv PROVE ListsAgree
    OBVIOUS
  <2>1. /\ graph.complete.edges \in Seq(EdgeObjs) /\ graph.complete.nodes \in Seq(NodeObjs)
        /\ graph.adj \in [NodeObjs -> Seq(EdgeObjs)]
    BY GraphFields DEF TypeInv
  <2>2. Lists(graph)
    BY DEF TidyInv
  <2>3. Cardinality(Edges) = Len(graph.complete.edges)
    <3>1. Once(graph.complete.edges)
      BY <2>2 DEF Lists
    <3> QED
      BY <2>1, <3>1, ListCardinality DEF Edges, Once
  <2>4. ASSUME NEW n \in Nodes
        PROVE  /\ ToSet(graph.adj[n]) = {e \in Edges : n \in {e.from, e.to}}
               /\ Len(graph.adj[n]) = Cardinality(ToSet(graph.adj[n]))
    <3>1. /\ Once(graph.adj[n])
          /\ ToSet(graph.adj[n]) = {e \in Edges : n \in {e.from, e.to}}
      BY <2>2 DEF Lists, Nodes, Edges
    <3>2. n \in NodeObjs
      BY <2>1 DEF Nodes, ToSet
    <3>3. graph.adj[n] \in Seq(EdgeObjs)
      BY <2>1, <3>2
    <3>4. Cardinality(ToSet(graph.adj[n])) = Len(graph.adj[n])
      BY <3>1, <3>3, ListCardinality DEF Once
    <3> QED
      BY <3>1, <3>4
  <2> QED
    BY <2>3, <2>4 DEF ListsAgree
<1> QED
  BY <1>1, TidyInvariance, PTL

\* TGPanel and VisibleLocality: as long as the locality is not shifted, what is on
\* screen is what there is, node for node, edge for edge and ID for ID, and at
\* most one null edge besides, in every interleaving of the threads.
THEOREM ViewerVisible == Spec => []VisibleIsComplete
<1>1. Registry(graph) /\ TidyInv => VisibleIsComplete
  BY DEF Registry, TidyInv, InStep, VisibleIsComplete
<1> QED
  BY <1>1, TidyInvariance, PTL

-----------------------------------------------------------------------------
(* One source: edges end in the graph *)

EndsIn(g) ==
    \A e \in ToSet(g.complete.edges) : {e.from, e.to} \subseteq ToSet(g.complete.nodes)

\* A thread whose node variables name nodes of the graph, and that holds null for
\* an end of a link only while the graph has no node of that ID.
Rooted(x, g) ==
    /\ x.pc = "findTo" \/ Linked(x) =>
          /\ x.from \in ToSet(g.complete.nodes) \cup {NoNode}
          /\ x.from = NoNode => g.complete.reg[x.link[1]] = NoNode
    /\ Linked(x) =>
          /\ x.to \in ToSet(g.complete.nodes) \cup {NoNode}
          /\ x.to = NoNode => g.complete.reg[x.link[2]] = NoNode
    /\ ToSet(x.partitions) \subseteq ToSet(g.complete.nodes) \cup {NoNode}
    /\ x.pc = "addEdge" /\ x.edge # NullEdge =>
          {x.edge.from, x.edge.to} \subseteq ToSet(g.complete.nodes)

\* A thread that deals with no link and has collected nothing relies on no node.
LEMMA RootedApart ==
    ASSUME NEW x, Apart(x), x.partitions = <<>>, NEW g
    PROVE  Rooted(x, g)
<1>1. ToSet(x.partitions) = {}
  BY DEF ToSet
<1> QED
  BY <1>1 DEF Apart, Linked, Rooted

\* The steps after which the graph has other nodes than before.
LEMMA NodesChange ==
    ASSUME TypeInv, Registry(graph), NEW t \in Sources,
           \/ Connect(t) \/ startDocument(t) \/ refused(t) \/ endDocument(t)
           \/ Element(t) \/ Step(t)
    PROVE  \/ SameNodes(graph, graph')
           \/ MoveNew(th[t], th'[t])
           \/ th[t].pc \in {"off", "begin", "idle", "delNode"} /\ Apart(th'[t])
<1> DEFINE y == th[t]
           z == th'[t]
<1>1. th \in [Sources -> Threads] /\ y \in Threads /\ Fit(y) /\ graph \in Graph
  BY DEF TypeInv
<1>2. \A w, k : Thread(w, k).pc = w
  BY DEF Thread
<1>3. Dropped(t).pc \in {"dial", "ended"}
  BY <1>2 DEF Again, Dropped
<1>4. CASE UNCHANGED graph
  BY <1>4 DEF SameNodes
<1>5. CASE Connect(t) \/ topology(t)
  <2>1. /\ \/ z = y /\ y.pc = "off"
           \/ z = Thread("dial", 0) \/ z = Dropped(t) \/ z = Thread("idle", y.try_cnt)
        /\ y.pc \in {"off", "begin"}
    BY <1>1, <1>5 DEF Connect, topology
  <2>2. z.pc \in {"off", "dial", "ended", "idle"}
    BY <1>2, <1>3, <2>1
  <2> QED
    BY <2>1, <2>2 DEF Apart, Linked, Updating
<1>6. CASE \E id \in Ids : node(t, id)
  <2>1. (z = y \/ z = ToUpdate(t, "node")) /\ y.pc = "idle"
    BY <1>1, <1>6 DEF node
  <2>2. ToUpdate(t, "node").pc = "upd" /\ ToUpdate(t, "node").op = "node"
    BY <1>1 DEF ToUpdate, Threads
  <2> QED
    BY <2>1, <2>2 DEF Apart, Linked, Updating
<1>7. CASE delNode(t)
  <2>1. z = [ToUpdate(t, "remove_node") EXCEPT !.from = NoNode] /\ y.pc = "delNode"
    BY <1>1, <1>7 DEF delNode
  <2>2. z.pc = "upd" /\ z.op = "remove_node"
    BY <1>1, <2>1 DEF ToUpdate, Threads
  <2> QED
    BY <2>1, <2>2 DEF Apart, Linked
<1>8. CASE addFrom(t) \/ addTo(t)
  BY <1>8, EndMoves DEF SameNodes
<1>9. ASSUME NEW g \in Graph, SameNodes(graph, g), graph' = Swept(g, th')
      PROVE  SameNodes(graph, graph')
  <2>1. graph'.complete = g.complete /\ graph'.visible = g.visible
    BY <1>9, SweptShape
  <2> QED
    BY <1>9, <2>1 DEF SameNodes
<1>10. CASE addEdgeStep(t)
  <2>1. y.edge \in EdgeObjs \cup {NullEdge} /\ graph' = Swept(addEdge(graph, y.edge), th')
    BY <1>1, <1>10, ThreadFields DEF addEdgeStep
  <2>2. addEdge(graph, y.edge) \in Graph /\ SameNodes(graph, addEdge(graph, y.edge))
    BY <1>1, <2>1, AddEdgeShape
  <2> QED
    BY <1>9, <2>1, <2>2
<1>11. ASSUME NEW e \in EdgeObjs \cup {NullEdge}, graph' = Swept(deleteEdge(graph, e), th')
       PROVE  SameNodes(graph, graph')
  <2>1. CASE e \in EdgeObjs
    BY <1>1, <1>9, <1>11, <2>1, DeleteEdgeShape
  <2>2. CASE e = NullEdge
    <3>1. deleteEdge(graph, e) = graph
      BY <2>2 DEF deleteEdge
    <3> QED
      BY <1>1, <1>9, <1>11, <3>1 DEF SameNodes
  <2> QED
    BY <2>1, <2>2
<1>12. CASE delEdge(t)
  <2> DEFINE e == findEdge(graph, y.from, y.to)
  <2>1. y.from \in NodeObjs /\ y.to \in NodeObjs /\ graph' = Swept(deleteEdge(graph, e), th')
    BY <1>1, <1>12 DEF delEdge, Fit
  <2>2. e \in EdgeObjs \cup {NullEdge}
    BY <1>1, <2>1, FindEdgeShape
  <2> HIDE DEF e
  <2> QED
    BY <1>11, <2>1, <2>2
<1>13. CASE delHidden(t)
  BY <1>1, <1>11, <1>13, ThreadFields DEF delHidden
<1>14. CASE tie(t)
  <2>1. CASE ~UNCHANGED graph
    <3> DEFINE n == y.partitions[y.i - 1]
               m == y.partitions[y.i]
               e == NewEdge(n, m)
               g == [graph EXCEPT !.hidden = @ \cup {e}]
    <3>1. y.i <= Len(y.partitions) /\ y.pc = "tie" /\ graph' = Swept(addEdge(g, e), th')
      BY <1>1, <1>14, <2>1, ThreadFields DEF tie
    <3>2. n \in NodeObjs /\ m \in NodeObjs
      BY <1>1, <3>1, TieNodes
    <3> HIDE DEF n, m
    <3>3. e \in EdgeObjs
      BY <3>2, NewEdgeShape
    <3> HIDE DEF e
    <3>4. g \in Graph /\ g.complete = graph.complete /\ g.visible = graph.visible
      BY <1>1, <3>3, HideNewShape
    <3> HIDE DEF g
    <3>5. addEdge(g, e) \in Graph /\ SameNodes(g, addEdge(g, e))
      BY <3>3, <3>4, AddEdgeShape
    <3>6. SameNodes(graph, addEdge(g, e))
      BY <3>4, <3>5 DEF SameNodes
    <3> QED
      BY <1>9, <3>1, <3>5, <3>6
  <2> QED
    BY <1>4, <2>1
<1> QED
  BY <1>4, <1>5, <1>6, <1>7, <1>8, <1>10, <1>12, <1>13, <1>14, GraphRead DEF Element, Step

\* Adding an edge between nodes of the graph, or a null edge.
LEMMA EndsAdded ==
    ASSUME NEW g \in Graph, EndsIn(g), NEW e \in EdgeObjs \cup {NullEdge},
           e # NullEdge => {e.from, e.to} \subseteq ToSet(g.complete.nodes),
           NEW h, h = addEdge(g, e)
    PROVE  h \in Graph /\ EndsIn(h)
<1>1. /\ h \in Graph /\ h.complete.nodes = g.complete.nodes
      /\ h.complete.edges \in {g.complete.edges, Append(g.complete.edges, e)}
  BY AddEdgeShape DEF SameNodes
<1>2. g.complete.edges \in Seq(EdgeObjs) /\ h.complete.edges \in Seq(EdgeObjs)
  BY <1>1, GraphFields
<1>3. ASSUME NEW f \in ToSet(h.complete.edges)
      PROVE  f \in ToSet(g.complete.edges) \/ (f = e /\ e # NullEdge)
  <2>1. f # NullEdge
    BY <1>2, GraphAssumption DEF ToSet
  <2>2. f \in ToSet(g.complete.edges) \/ f = e
    <3>1. g.complete.edges \in Seq(EdgeObjs \cup {NullEdge})
      BY <1>2
    <3>2. ToSet(Append(g.complete.edges, e)) = ToSet(g.complete.edges) \cup {e}
      BY <3>1, AppendRange
    <3> QED
      BY <1>1, <3>2
  <2> QED
    BY <2>1, <2>2
<1> QED
  BY <1>1, <1>3 DEF EndsIn

\* Every step that writes leaves a graph whose edges end at its nodes, if the
\* thread that takes it holds nodes of the graph only.
LEMMA EndsWritten ==
    ASSUME TypeInv, Registry(graph), OwnEdges(graph), Lists(graph), InStep(graph),
           EndsIn(graph), NEW t \in Sources, Straight(th[t]), Rooted(th[t], graph),
           \/ Connect(t) \/ topology(t) \/ delNode(t) \/ addEdgeStep(t) \/ delEdge(t)
           \/ delHidden(t) \/ tie(t) \/ addFrom(t) \/ addTo(t)
           \/ \E id \in Ids : node(t, id)
    PROVE  EndsIn(graph')
<1> DEFINE y == th[t]
<1>1. y \in Threads /\ Fit(y) /\ graph \in Graph
  BY DEF TypeInv
<1>2. ASSUME NEW h \in Graph, EndsIn(h), graph' = Swept(h, th')
      PROVE  EndsIn(graph')
  <2>1. graph'.complete = h.complete
    BY <1>2, SweptShape
  <2> QED
    BY <1>2, <2>1 DEF EndsIn
<1>3. CASE Connect(t) \/ topology(t)
  <2> DEFINE h == clearAll(graph)
  <2>1. graph' = Swept(h, th')
    BY <1>3 DEF Connect, topology
  <2>2. h \in Graph /\ h.complete \in {graph.complete, EmptySet}
    BY <1>1, ClearAllShape
  <2>3. EmptySet.edges = <<>> /\ ToSet(<<>>) = {}
    BY DEF EmptySet, ToSet
  <2> HIDE DEF h
  <2>4. EndsIn(h)
    BY <2>2, <2>3 DEF EndsIn
  <2> QED
    BY <1>2, <2>1, <2>2, <2>4
<1>4. ASSUME NEW n \in NodeObjs, graph' = Swept(addNode(WithNewNode(graph, n), n), th')
      PROVE  EndsIn(graph')
  <2> DEFINE g == WithNewNode(graph, n)
             h == addNode(g, n)
  <2>1. g \in Graph /\ SameSets(graph, g)
    BY <1>1, WithNewNodeShape
  <2>2. graph' = Swept(h, th')
    BY <1>4
  <2> HIDE DEF g
  <2>3. g.visible.nodes = g.complete.nodes /\ g.visible.reg = g.complete.reg
    BY <2>1 DEF SameSets, Registry
  <2>4. /\ h \in Graph /\ h.complete.edges = g.complete.edges
        /\ h.complete.nodes = g.complete.nodes \/ h.complete.nodes = Append(g.complete.nodes, n)
    BY <2>1, <2>3, AddedNode
  <2>5. ToSet(Append(g.complete.nodes, n)) = ToSet(g.complete.nodes) \cup {n}
    BY <2>1, GraphFields, AppendRange
  <2> HIDE DEF h
  <2>6. EndsIn(h)
    BY <2>1, <2>4, <2>5 DEF EndsIn, SameSets
  <2> QED
    BY <1>2, <2>2, <2>4, <2>6
<1>5. CASE \E id \in Ids : node(t, id)
  <2>1. PICK id \in Ids : node(t, id)
    BY <1>5
  <2>2. PICK n \in FreeNodes(id) : graph' = Swept(addNode(WithNewNode(graph, n), n), th')
    BY <2>1 DEF node
  <2> QED
    BY <1>4, <2>2, FreeNodesShape
<1>6. ASSUME NEW pc \in {"addFrom", "addTo"}, NEW end \in {"from", "to"}, NEW next,
             addEnd(t, pc, end, next)
      PROVE  EndsIn(graph')
  <2>1. CASE UNCHANGED graph
    BY <2>1
  <2>2. CASE ~UNCHANGED graph
    <3>1. PICK n \in FreeNodes(y.link[IF end = "from" THEN 1 ELSE 2]) :
             graph' = Swept(addNode(WithNewNode(graph, n), n), th')
      BY <1>6, <2>2 DEF addEnd
    <3>2. y.link \in Links
      BY <1>1, <1>6 DEF addEnd, Fit
    <3>3. y.link[IF end = "from" THEN 1 ELSE 2] \in Ids
      BY <3>2, ViewerAssumption
    <3>4. n \in NodeObjs
      BY <3>1, <3>3, FreeNodesShape
    <3> QED
      BY <1>4, <3>1, <3>4
  <2> QED
    BY <2>1, <2>2
<1>7. CASE addFrom(t) \/ addTo(t)
  BY <1>6, <1>7 DEF addFrom, addTo
<1>8. CASE delNode(t)
  <2> DEFINE n == y.from
             h == deleteNode(graph, n)
             N == graph.complete.nodes
  <2>1. n \in NodeObjs /\ graph' = Swept(h, th')
    BY <1>1, <1>8 DEF delNode, Fit
  <2>2. \A e \in ToSet(graph.adj[n]) : n \in {e.from, e.to}
    BY <2>1 DEF OwnEdges
  <2>3. graph.visible.nodes = N /\ Once(N)
    BY DEF Registry, Once
  <2> HIDE DEF n
  <2>4. h = deleteNode(graph, n)
    OBVIOUS
  <2> HIDE DEF h
  <2>5. /\ h \in Graph /\ ToSet(h.complete.edges) \subseteq ToSet(graph.complete.edges)
        /\ IF Contains(N, n) THEN h.complete.nodes = RemoveFirst(N, n) ELSE h.complete.nodes = N
    BY <1>1, <2>1, <2>4, DeleteNodeShape
  <2>6. Contains(N, n) => \A e \in ToSet(h.complete.edges) : n \notin {e.from, e.to}
    BY <1>1, <2>1, <2>2, <2>3, <2>4, DeleteNodeLists
  <2>7. ToSet(RemoveFirst(N, n)) = ToSet(N) \ {n}
    BY <1>1, <2>1, <2>3, GraphFields, OnceLists
  <2>8. EndsIn(h)
    BY <2>5, <2>6, <2>7 DEF EndsIn
  <2> QED
    BY <1>2, <2>1, <2>5, <2>8
<1>9. CASE addEdgeStep(t)
  <2> DEFINE e == y.edge
             h == addEdge(graph, e)
  <2>1. e \in EdgeObjs \cup {NullEdge} /\ graph' = Swept(h, th') /\ y.pc = "addEdge"
    BY <1>1, <1>9, ThreadFields DEF addEdgeStep
  <2>2. e # NullEdge => {e.from, e.to} \subseteq ToSet(graph.complete.nodes)
    BY <2>1 DEF Rooted
  <2> HIDE DEF e
  <2>3. h \in Graph /\ EndsIn(h)
    BY <1>1, <2>1, <2>2, EndsAdded
  <2> HIDE DEF h
  <2> QED
    BY <1>2, <2>1, <2>3
<1>10. ASSUME NEW e \in EdgeObjs \cup {NullEdge}, graph' = Swept(deleteEdge(graph, e), th')
       PROVE  EndsIn(graph')
  <2> DEFINE h == deleteEdge(graph, e)
  <2>1. CASE e \in EdgeObjs
    <3>1. h = deleteEdge(graph, e)
      OBVIOUS
    <3> HIDE DEF h
    <3>2. /\ h \in Graph /\ h.complete.nodes = graph.complete.nodes
          /\ h.complete.edges = RemoveFirst(graph.complete.edges, e)
      BY <1>1, <2>1, <3>1, DeleteEdgeShape DEF SameNodes
    <3>3. ToSet(h.complete.edges) \subseteq ToSet(graph.complete.edges)
      BY <1>1, <2>1, <3>2, GraphFields, OnceLists DEF Lists
    <3>4. EndsIn(h)
      BY <3>2, <3>3 DEF EndsIn
    <3> QED
      BY <1>2, <1>10, <3>1, <3>2, <3>4
  <2>2. CASE e = NullEdge
    <3>1. h = graph
      BY <2>2 DEF deleteEdge
    <3> QED
      BY <1>1, <1>2, <1>10, <3>1
  <2> QED
    BY <2>1, <2>2
<1>11. CASE delEdge(t)
  <2> DEFINE e == findEdge(graph, y.from, y.to)
  <2>1. y.from \in NodeObjs /\ y.to \in NodeObjs /\ graph' = Swept(deleteEdge(graph, e), th')
    BY <1>1, <1>11 DEF delEdge, Fit
  <2>2. e \in EdgeObjs \cup {NullEdge}
    BY <1>1, <2>1, FindEdgeShape
  <2> HIDE DEF e
  <2> QED
    BY <1>10, <2>1, <2>2
<1>12. CASE delHidden(t)
  BY <1>1, <1>10, <1>12, ThreadFields DEF delHidden
<1>13. CASE tie(t)
  <2>1. CASE UNCHANGED graph
    BY <2>1
  <2>2. CASE ~UNCHANGED graph
    <3> DEFINE n == y.partitions[y.i - 1]
               m == y.partitions[y.i]
               e == NewEdge(n, m)
               g == [graph EXCEPT !.hidden = @ \cup {e}]
               h == addEdge(g, e)
    <3>1. y.i <= Len(y.partitions) /\ y.pc = "tie" /\ graph' = Swept(h, th')
      BY <1>1, <1>13, <2>2, ThreadFields DEF tie
    <3>2. /\ y.i - 1 \in 1..Len(y.partitions) /\ y.i \in 1..Len(y.partitions)
          /\ n \in NodeObjs /\ m \in NodeObjs
      BY <1>1, <3>1, TieNodes
    <3>3. n \in ToSet(graph.complete.nodes) /\ m \in ToSet(graph.complete.nodes)
      <4>1. n \in ToSet(y.partitions) /\ m \in ToSet(y.partitions)
        BY <1>1, <3>2, ThreadFields DEF ToSet
      <4>2. n # NoNode /\ m # NoNode
        BY <3>2, GraphAssumption
      <4> QED
        BY <4>1, <4>2 DEF Rooted
    <3> HIDE DEF n, m
    <3>4. e \in EdgeObjs /\ e.from = n /\ e.to = m
      BY <3>2, NewEdgeShape
    <3> HIDE DEF e
    <3>5. g \in Graph /\ g.complete = graph.complete
      BY <1>1, <3>4, HideNewShape
    <3> HIDE DEF g
    <3>6. EndsIn(g)
      BY <3>5 DEF EndsIn
    <3>7. /\ h = addEdge(g, e) /\ e \in EdgeObjs \cup {NullEdge}
          /\ {e.from, e.to} \subseteq ToSet(g.complete.nodes)
      BY <3>3, <3>4, <3>5
    <3> HIDE DEF h
    <3>8. h \in Graph /\ EndsIn(h)
      BY <3>5, <3>6, <3>7, EndsAdded
    <3> QED
      BY <1>2, <3>1, <3>8
  <2> QED
    BY <2>1, <2>2
<1> QED
  BY <1>3, <1>5, <1>7, <1>8, <1>9, <1>11, <1>12, <1>13

\* Steps that make no node leave the thread with nodes of the graph they found.
LEMMA RootedMove ==
    ASSUME TypeInv, Registry(graph), OwnEdges(graph), Lists(graph), EndsIn(graph),
           NEW t \in Sources, NEW y, NEW z, y = th[t], Fit(y), Straight(y),
           Rooted(y, graph), Moves(y, z), ~MoveNew(y, z)
    PROVE  Rooted(z, graph)
<1> DEFINE N == ToSet(graph.complete.nodes)
<1>1. KeepsFound(y, z) => ToSet(z.partitions) \subseteq N \cup {NoNode}
  <2>1. ToSet(<<>>) = {}
    BY DEF ToSet
  <2> QED
    BY <2>1 DEF KeepsFound, Rooted
<1>2. CASE MoveApart(y, z)
  BY <1>1, <1>2 DEF MoveApart, Apart, Linked, Rooted
<1>3. CASE MoveNamed(y, z)
  <2>1. z.link \in Links /\ z.link[1] \in Ids
    BY <1>3, ViewerAssumption DEF MoveNamed
  <2>2. z.from = findNode(graph, z.link[1]) /\ z.pc = "findTo" /\ KeepsFound(y, z)
    BY <1>3 DEF MoveNamed
  <2>3. z.from # NoNode => z.from \in N
    BY <2>1, <2>2, FindNodeId
  <2>4. z.from = NoNode => graph.complete.reg[z.link[1]] = NoNode
    BY <2>2 DEF findNode
  <2>5. ~Linked(z)
    BY <2>2 DEF Linked, Updating
  <2> QED
    BY <1>1, <2>2, <2>3, <2>4, <2>5 DEF Rooted
<1>4. CASE MoveFound(y, z)
  <2>1. y.link \in Links
    BY <1>4 DEF MoveFound, Fit
  <2>2. y.link[2] \in Ids
    BY <2>1, ViewerAssumption
  <2>3. /\ y.pc = "findTo" /\ z.pc \in {"addFrom", "delEdge"} /\ z.link = y.link
        /\ z.from = y.from /\ z.to = findNode(graph, y.link[2]) /\ KeepsFound(y, z)
    BY <1>4 DEF MoveFound
  <2>4. z.to # NoNode => z.to \in N
    BY <2>2, <2>3, FindNodeId
  <2>5. z.to = NoNode => graph.complete.reg[z.link[2]] = NoNode
    BY <2>3 DEF findNode
  <2> QED
    BY <1>1, <2>3, <2>4, <2>5 DEF Rooted
<1>5. CASE MoveOn(y, z)
  <2>1. z.pc # "addEdge" /\ z.pc # "findTo" /\ (Linked(z) => Linked(y))
    BY <1>5 DEF MoveOn, Linked, Updating
  <2>2. KeepsFound(y, z) /\ z.link = y.link /\ z.from = y.from /\ z.to = y.to
    BY <1>5 DEF MoveOn, SameEnds
  <2> QED
    BY <1>1, <2>1, <2>2 DEF Rooted
<1>6. CASE MoveConnect(y, z)
  <2>1. /\ y.pc = "connect" /\ z.pc = "addEdge" /\ SameEnds(y, z) /\ KeepsFound(y, z)
        /\ z.edge = IF y.tag = "modify_edge" THEN findEdge(graph, y.from, y.to)
                    ELSE NewEdge(y.from, y.to)
    BY <1>6 DEF MoveConnect
  <2>2. y.from \in NodeObjs /\ y.to \in NodeObjs /\ Linked(y)
    BY <2>1 DEF Fit, Linked
  <2>3. y.from # NoNode /\ y.to # NoNode
    BY <2>2, GraphAssumption
  <2>4. y.from \in N /\ y.to \in N
    BY <2>2, <2>3 DEF Rooted
  <2>5. graph \in Graph
    BY DEF TypeInv
  <2>6. z.edge # NullEdge => {z.edge.from, z.edge.to} \subseteq N
    <3>1. CASE z.edge = findEdge(graph, y.from, y.to)
      <4>1. z.edge = NullEdge \/ z.edge \in ToSet(graph.adj[y.from])
        BY <2>2, <2>5, <3>1, FindEdgeShape
      <4>2. z.edge # NullEdge => z.edge \in ToSet(graph.complete.edges)
        BY <2>4, <4>1 DEF Lists
      <4> QED
        BY <4>2 DEF EndsIn
    <3>2. CASE z.edge = NewEdge(y.from, y.to)
      <4>1. z.edge.from = y.from /\ z.edge.to = y.to
        BY <2>2, <3>2, NewEdgeShape
      <4> QED
        BY <2>4, <4>1
    <3> QED
      BY <2>1, <3>1, <3>2
  <2>7. z.link = y.link /\ z.from = y.from /\ z.to = y.to /\ z.pc # "findTo"
    BY <2>1 DEF SameEnds
  <2> QED
    BY <1>1, <2>1, <2>3, <2>4, <2>6, <2>7 DEF Rooted
<1>7. CASE MoveScan(y, z)
  <2>1. /\ y.pc = "scan" /\ z.pc = "count" /\ z.op = y.op /\ SameEnds(y, z)
        /\ \E n \in NodeOrNull : z.partitions = Append(y.partitions, n) /\ n \in N \cup {NoNode}
    BY <1>7 DEF MoveScan
  <2>2. PICK n \in NodeOrNull : z.partitions = Append(y.partitions, n) /\ n \in N \cup {NoNode}
    BY <2>1
  <2>3. y.partitions \in Seq(NodeOrNull)
    BY ThreadFields DEF Fit
  <2>4. ToSet(z.partitions) = ToSet(y.partitions) \cup {n}
    BY <2>2, <2>3, AppendRange
  <2>5. ToSet(z.partitions) \subseteq N \cup {NoNode}
    BY <2>2, <2>4 DEF Rooted
  <2>6. Linked(z) => Linked(y)
    BY <2>1 DEF Linked, Updating
  <2>7. z.link = y.link /\ z.from = y.from /\ z.to = y.to
    BY <2>1 DEF SameEnds
  <2> QED
    BY <2>1, <2>5, <2>6, <2>7 DEF Rooted
<1> QED
  BY <1>2, <1>3, <1>4, <1>5, <1>6, <1>7 DEF Moves

\* A node made for an ID the graph does not have is added to it.
LEMMA AddedFresh ==
    ASSUME TypeInv, Registry(graph), NEW id \in Ids, NEW n \in FreeNodes(id),
           graph.complete.reg[id] = NoNode
    PROVE  LET g == WithNewNode(graph, n)
               h == Swept(addNode(g, n), th')
           IN  /\ ~addNodeThrows(g, n)
               /\ h.complete.nodes = Append(graph.complete.nodes, n)
               /\ ToSet(h.complete.nodes) = ToSet(graph.complete.nodes) \cup {n}
               /\ h.complete.reg = [graph.complete.reg EXCEPT ![id] = n]
<1> DEFINE g == WithNewNode(graph, n)
           h == addNode(g, n)
<1>1. n \in NodeObjs /\ n[1] = id /\ graph \in Graph
  BY FreeNodesShape DEF TypeInv
<1>2. g \in Graph /\ g.complete = graph.complete /\ g.visible = graph.visible
  BY <1>1, WithNewNodeShape DEF SameSets
<1> HIDE DEF g
<1>3. ~Registered(g.complete, n) /\ ~Registered(g.visible, n)
  BY <1>1, <1>2 DEF Registered, Registry
<1>4. ~Contains(g.complete.nodes, n) /\ ~Contains(g.visible.nodes, n)
  <2>1. n \notin ToSet(graph.complete.nodes) /\ graph.visible.nodes = graph.complete.nodes
    BY FreeNodesNew DEF Registry
  <2> QED
    BY <1>2, <2>1 DEF Contains, ToSet
<1>5. ~addNodeThrows(g, n)
  BY <1>3 DEF addNodeThrows
<1>6. h = [g EXCEPT !.visible = SetAddNode(g.visible, n), !.complete = SetAddNode(g.complete, n)]
  BY <1>3, <1>4 DEF addNode
<1>7. h.complete = SetAddNode(graph.complete, n)
  BY <1>2, <1>6 DEF Graph
<1>8. graph.complete \in EltSets(EdgeObjs) /\ graph.complete.nodes \in Seq(NodeObjs)
  BY <1>1, GraphFields
<1>9. /\ SetAddNode(graph.complete, n).nodes = Append(graph.complete.nodes, n)
      /\ SetAddNode(graph.complete, n).reg = [graph.complete.reg EXCEPT ![id] = n]
  BY <1>1, <1>8 DEF SetAddNode, EltSets
<1>10. ToSet(Append(graph.complete.nodes, n)) = ToSet(graph.complete.nodes) \cup {n}
  BY <1>8, AppendRange
<1>11. h \in Graph
  <2>1. g.visible.nodes = g.complete.nodes /\ g.visible.reg = g.complete.reg
    BY <1>2 DEF Registry
  <2> QED
    BY <1>1, <1>2, <2>1, AddedNode
<1> HIDE DEF h
<1>12. Swept(h, th').complete = h.complete
  BY <1>11, SweptShape
<1> QED
  BY <1>5, <1>7, <1>9, <1>10, <1>12 DEF g, h

\* The steps that make an end of an edge hold on to a node of the graph.
LEMMA RootedNew ==
    ASSUME TypeInv, Registry(graph), NEW t \in Sources, NEW y, NEW z, y = th[t], Fit(y),
           Straight(y), Rooted(y, graph), MoveNew(y, z)
    PROVE  Rooted(z, graph')
<1> DEFINE N == ToSet(graph.complete.nodes)
           R == graph.complete.reg
<1>1. ASSUME NEW pc \in {"addFrom", "addTo"}, y.pc = pc
      PROVE  /\ y.link \in Links /\ y.link[1] \in Ids /\ y.link[2] \in Ids
             /\ y.link[1] # y.link[2] /\ Linked(y) /\ y.partitions = <<>>
  <2>1. y.link \in Links
    BY <1>1 DEF Fit
  <2> QED
    BY <1>1, <2>1, ViewerAssumption DEF Linked, Straight, Collecting
<1>2. R \in [Ids -> NodeObjs \cup {NoNode}]
  BY GraphFields DEF TypeInv
<1>3. ToSet(<<>>) = {}
  BY DEF ToSet
<1>4. KeepsFound(y, z) /\ y.partitions = <<>> => z.partitions = <<>>
  BY DEF KeepsFound
<1>5. ASSUME NEW n, y.pc = "addFrom", z.to = y.to, MoveCreates(y, z, "from", n, "addTo")
      PROVE  Rooted(z, graph')
  <2>1. /\ y.from = NoNode /\ z.from = n /\ z.link = y.link /\ KeepsFound(y, z)
        /\ n \in FreeNodes(y.link[1])
        /\ graph' = Swept(addNode(WithNewNode(graph, n), n), th')
        /\ IF addNodeThrows(WithNewNode(graph, n), n) THEN z.pc = "addTo"
           ELSE z.pc = "upd" /\ z.op = "addFrom"
    BY <1>5 DEF MoveCreates
  <2>2. y.link[1] \in Ids /\ R[y.link[1]] = NoNode
    BY <1>1, <1>5, <2>1 DEF Rooted
  <2>3. /\ ~addNodeThrows(WithNewNode(graph, n), n)
        /\ ToSet(graph'.complete.nodes) = N \cup {n}
        /\ graph'.complete.reg = [R EXCEPT ![y.link[1]] = n]
    BY <2>1, <2>2, AddedFresh
  <2>4. n # NoNode
    BY <2>1, <2>2, FreeNodesShape, GraphAssumption
  <2>5. graph'.complete.reg[y.link[2]] = R[y.link[2]]
    BY <1>1, <1>2, <1>5, <2>3
  <2>6. z.to \in N \cup {NoNode} /\ (z.to = NoNode => R[y.link[2]] = NoNode)
    BY <1>1, <1>5 DEF Rooted
  <2>7. z.pc = "upd" /\ z.partitions = <<>>
    BY <1>1, <1>4, <1>5, <2>1, <2>3
  <2> QED
    BY <1>3, <2>1, <2>3, <2>4, <2>5, <2>6, <2>7 DEF Rooted
<1>6. ASSUME NEW n, y.pc = "addTo", z.from = y.from, MoveCreates(y, z, "to", n, "connect")
      PROVE  Rooted(z, graph')
  <2>1. /\ y.to = NoNode /\ z.to = n /\ z.link = y.link /\ KeepsFound(y, z)
        /\ n \in FreeNodes(y.link[2])
        /\ graph' = Swept(addNode(WithNewNode(graph, n), n), th')
        /\ IF addNodeThrows(WithNewNode(graph, n), n) THEN z.pc = "connect"
           ELSE z.pc = "upd" /\ z.op = "addTo"
    BY <1>6 DEF MoveCreates
  <2>2. y.link[2] \in Ids /\ R[y.link[2]] = NoNode
    BY <1>1, <1>6, <2>1 DEF Rooted
  <2>3. /\ ~addNodeThrows(WithNewNode(graph, n), n)
        /\ ToSet(graph'.complete.nodes) = N \cup {n}
    BY <2>1, <2>2, AddedFresh
  <2>4. n # NoNode
    BY <2>1, <2>2, FreeNodesShape, GraphAssumption
  <2>5. z.from \in N /\ z.from # NoNode
    BY <1>1, <1>6, GraphAssumption DEF Rooted, Fit
  <2>6. z.pc = "upd" /\ z.partitions = <<>>
    BY <1>1, <1>4, <1>6, <2>1, <2>3
  <2> QED
    BY <1>3, <2>1, <2>3, <2>4, <2>5, <2>6 DEF Rooted
<1> QED
  BY <1>5, <1>6 DEF MoveNew

\* Edges end in the graph, and every thread holds nodes of the graph only.
RootedInv == EndsIn(graph) /\ \A t \in Sources : Rooted(th[t], graph)

\* A step of the only source keeps it so.
LEMMA RootedStep ==
    ASSUME TypeInv, Registry(graph), OwnEdges(graph), TidyInv, RootedInv, Next,
           \E s : Sources = {s}
    PROVE  RootedInv'
<1>1. PICK t \in Sources :
         \/ Connect(t) \/ startDocument(t) \/ refused(t) \/ endDocument(t)
         \/ Element(t) \/ Step(t)
  BY DEF Next
<1>2. Sources = {t}
  OBVIOUS
<1> DEFINE y == th[t]
           z == th'[t]
<1>3. Fit(y) /\ Straight(y) /\ Rooted(y, graph) /\ Lists(graph) /\ InStep(graph) /\ EndsIn(graph)
  BY DEF TypeInv, TidyInv, RootedInv
<1>4. EndsIn(graph')
  <2>1. CASE UNCHANGED graph
    BY <1>3, <2>1
  <2>2. CASE \/ Connect(t) \/ topology(t) \/ delNode(t) \/ addEdgeStep(t) \/ delEdge(t)
             \/ delHidden(t) \/ tie(t) \/ addFrom(t) \/ addTo(t)
             \/ \E id \in Ids : node(t, id)
    BY <1>3, <2>2, EndsWritten
  <2> QED
    BY <1>1, <2>1, <2>2, GraphRead DEF Element, Step
<1>5. Rooted(z, graph')
  <2>1. z = y \/ Moves(y, z)
    BY <1>1, StepMoves
  <2>2. CASE MoveNew(y, z)
    BY <1>3, <2>2, RootedNew
  <2>3. CASE ~MoveNew(y, z)
    <3>1. Rooted(z, graph)
      BY <1>3, <2>1, <2>3, RootedMove
    <3>2. CASE SameNodes(graph, graph')
      BY <3>1, <3>2 DEF Rooted, SameNodes
    <3>3. CASE ~SameNodes(graph, graph')
      <4>1. y.pc \in {"off", "begin", "idle", "delNode"} /\ Apart(z)
        BY <1>1, <2>3, <3>3, NodesChange
      <4>2. y.partitions = <<>>
        BY <1>3, <4>1 DEF Straight, Collecting
      <4>3. z.partitions = <<>>
        <5>1. ASSUME Moves(y, z) PROVE KeepsFound(y, z)
          BY <2>3, <4>1, <5>1 DEF Moves, MoveApart, MoveNamed, MoveFound, MoveOn, MoveConnect, MoveScan
        <5> QED
          BY <2>1, <4>2, <5>1 DEF KeepsFound
      <4> QED
        BY <4>1, <4>3, RootedApart
    <3> QED
      BY <3>2, <3>3
  <2> QED
    BY <2>2, <2>3
<1> QED
  BY <1>2, <1>4, <1>5 DEF RootedInv

\* So it is in every state the viewer reaches with a single source.
LEMMA RootedInvariance ==
    ASSUME \E s : Sources = {s}
    PROVE  Spec => [](TypeInv /\ Registry(graph) /\ EdgeInv /\ TidyInv /\ RootedInv)
<1>1. Init => RootedInv
  <2> SUFFICES ASSUME Init PROVE RootedInv
    OBVIOUS
  <2>1. graph.complete.edges = <<>> /\ ToSet(<<>>) = {}
    BY DEF Init, EmptyGraph, EmptySet, ToSet
  <2>2. \A t \in Sources : th[t].pc = "off" /\ th[t].partitions = <<>>
    BY DEF Init, Thread
  <2>3. \A t \in Sources : Apart(th[t])
    BY <2>2 DEF Apart, Linked, Updating
  <2>4. \A t \in Sources : Rooted(th[t], graph)
    BY <2>2, <2>3, RootedApart
  <2> QED
    BY <2>1, <2>4 DEF RootedInv, EndsIn
<1>2. /\ TypeInv /\ Registry(graph) /\ EdgeInv /\ TidyInv /\ RootedInv /\ [Next]_vars
      => RootedInv'
  <2> SUFFICES ASSUME TypeInv, Registry(graph), EdgeInv, TidyInv, RootedInv, [Next]_vars
               PROVE  RootedInv'
    OBVIOUS
  <2>1. CASE Next
    BY <2>1, RootedStep DEF EdgeInv
  <2>2. CASE UNCHANGED vars
    BY <2>2 DEF vars, RootedInv
  <2> QED
    BY <2>1, <2>2
<1> QED
  BY <1>1, <1>2, TidyInvariance, PTL DEF Spec

\* TGPanel and InputParser: with a single source every edge ends at nodes of the
\* graph, although the parser looks the ends up, creates missing ones and adds
\* the edge in separate steps, and updatePartitions collects the nodes it ties
\* together outside the monitor.
THEOREM ViewerEnds ==
    ASSUME \E s : Sources = {s}
    PROVE  Spec => []EndsInGraph
<1>1. RootedInv => EndsInGraph
  BY DEF RootedInv, EndsIn, EndsInGraph, Ends, Edges, Nodes
<1> QED
  BY <1>1, RootedInvariance, PTL

-----------------------------------------------------------------------------
(* One source: the invisible edges between two elements *)

TiesOf(g) == ToSet(g.complete.edges) \cap g.hidden

Distinct(T) == \A e, f \in T : e # f => e.to # f.to /\ e.from # f.from

\* The invisible edges are a chain: no two from or to one node, and one node, the
\* first of the chain, that none of them leads to.
Chained(g) ==
    LET N == ToSet(g.complete.nodes)
    IN  /\ Distinct(TiesOf(g))
        /\ N = {} \/ \E r \in N : \A e \in TiesOf(g) : e.to \in N \ {r}

\* What updatePartitions has achieved so far: the backward loop has left no
\* invisible edge behind it, the forward loops start without any, and the last
\* one has tied the nodes it passed.
Tied(x, g) ==
    LET E == g.complete.edges
        p == x.partitions
    IN  /\ x.pc = "del" => \A k \in 1..Len(E) : k > x.i => E[k] \notin g.hidden
        /\ x.pc = "delHidden" =>
              /\ x.i + 1 \in 1..Len(E) /\ E[x.i + 1] = x.edge
              /\ \A k \in 1..Len(E) : k > x.i + 1 => E[k] \notin g.hidden
        /\ x.pc \in {"count", "scan"} => TiesOf(g) = {}
        /\ x.pc = "tie" =>
              /\ Distinct(TiesOf(g))
              /\ \A e \in TiesOf(g) : \E j \in 2..Len(p) :
                    j < x.i /\ e.from = p[j - 1] /\ e.to = p[j]
        /\ x.pc \in {"idle", "findTo", "done"} => Chained(g)

Ruled == {"del", "delHidden", "count", "scan", "tie", "idle", "findTo", "done"}

\* The steps outside updatePartitions.
LEMMA TiedElement ==
    ASSUME TypeInv, Registry(graph), NEW t \in Sources, Tied(th[t], graph),
           \/ Connect(t) \/ startDocument(t) \/ refused(t) \/ endDocument(t) \/ Element(t)
           \/ findTo(t) \/ addFrom(t) \/ addTo(t) \/ connect(t) \/ addEdgeStep(t)
           \/ delNode(t) \/ delEdge(t)
    PROVE  Tied(th'[t], graph')
<1> DEFINE y == th[t]
           z == th'[t]
<1>1. th \in [Sources -> Threads] /\ y \in Threads /\ Fit(y) /\ graph \in Graph
  BY DEF TypeInv
<1>2. \A w, k : Thread(w, k).pc = w
  BY DEF Thread
<1>3. Again(y.try_cnt + 1).pc \in {"dial", "ended"} /\ Dropped(t).pc \in {"dial", "ended"}
  BY <1>2 DEF Again, Dropped
<1>4. ASSUME z.pc \notin Ruled PROVE Tied(z, graph')
  BY <1>4 DEF Ruled, Tied
<1>5. ASSUME y.pc \in {"idle", "findTo"}, UNCHANGED graph, z.pc \in {"idle", "findTo", "done"}
      PROVE  Tied(z, graph')
  BY <1>5 DEF Tied
<1>6. CASE Connect(t) \/ startDocument(t) \/ refused(t) \/ endDocument(t)
  <2> DEFINE b == [y EXCEPT !.pc = "begin"]
  <2>1. \/ z = y /\ y.pc = "off"
        \/ z = Thread("dial", 0) \/ z = Again(y.try_cnt + 1) \/ z = Dropped(t)
        \/ z = b
    BY <1>1, <1>6 DEF Connect, startDocument, refused, endDocument
  <2>2. b.pc = "begin"
    BY <1>1 DEF Threads
  <2> HIDE DEF b
  <2>3. z.pc \in {"off", "dial", "ended", "begin"}
    BY <1>2, <1>3, <2>1, <2>2
  <2> QED
    BY <1>4, <2>3 DEF Ruled
<1>7. CASE topology(t)
  <2>1. graph' = Swept(clearAll(graph), th')
    BY <1>7 DEF topology
  <2>2. CASE clearAllThrows(graph)
    <3>1. z = Dropped(t)
      BY <1>1, <1>7, <2>2 DEF topology
    <3> QED
      BY <1>3, <1>4, <3>1 DEF Ruled
  <2>3. CASE ~clearAllThrows(graph)
    <3>1. z = Thread("idle", y.try_cnt)
      BY <1>1, <1>7, <2>3 DEF topology
    <3>2. z.pc = "idle"
      BY <1>2, <3>1
    <3>3. clearAll(graph) \in Graph /\ clearAll(graph).complete = EmptySet
      BY <1>1, <2>3, ClearAllShape
    <3>4. graph'.complete = EmptySet
      BY <2>1, <3>3, SweptShape
    <3>5. TiesOf(graph') = {} /\ ToSet(graph'.complete.nodes) = {}
      BY <3>4 DEF TiesOf, EmptySet, ToSet
    <3>6. Chained(graph')
      BY <3>5 DEF Chained, Distinct
    <3> QED
      BY <3>2, <3>6 DEF Tied
  <2> QED
    BY <2>2, <2>3
<1>8. CASE \E id \in Ids : node(t, id)
  <2>1. PICK id \in Ids : node(t, id)
    BY <1>8
  <2>2. PICK n \in FreeNodes(id) :
           /\ th' = IF addNodeThrows(WithNewNode(graph, n), n) THEN th
                    ELSE [th EXCEPT ![t] = ToUpdate(t, "node")]
           /\ graph' = Swept(addNode(WithNewNode(graph, n), n), th')
    BY <2>1 DEF node
  <2> DEFINE g == WithNewNode(graph, n)
  <2>3. n \in NodeObjs
    BY FreeNodesShape
  <2>4. g \in Graph /\ SameSets(graph, g)
    BY <1>1, <2>3, WithNewNodeShape
  <2>5. CASE addNodeThrows(g, n)
    <3>1. z = y /\ y.pc = "idle"
      BY <2>1, <2>2, <2>5 DEF node
    <3>2. Registered(g.visible, n)
      BY <2>4, <2>5 DEF addNodeThrows, SameSets, Registry, Registered
    <3>3. addNode(g, n) = g
      BY <3>2 DEF addNode
    <3>4. graph' = Swept(g, th')
      BY <2>2, <3>3
    <3> HIDE DEF g
    <3>5. graph'.complete = g.complete /\ graph'.hidden \subseteq g.hidden
      BY <2>4, <3>4, SweptShape
    <3>6. graph'.complete = graph.complete /\ TiesOf(graph') \subseteq TiesOf(graph)
      BY <2>4, <3>5 DEF SameSets, TiesOf
    <3>7. Chained(graph)
      BY <3>1 DEF Tied
    <3>8. Chained(graph')
      BY <3>6, <3>7 DEF Chained, Distinct
    <3> QED
      BY <3>1, <3>8 DEF Tied
  <2>6. CASE ~addNodeThrows(g, n)
    <3>1. z = ToUpdate(t, "node")
      BY <1>1, <2>2, <2>6
    <3>2. z.pc = "upd"
      BY <1>1, <3>1 DEF ToUpdate, Threads
    <3> QED
      BY <1>4, <3>2 DEF Ruled
  <2> QED
    BY <2>5, <2>6
<1>9. CASE \E id \in Ids : modify_node(t, id)
  <2>1. (z = y \/ z = Dropped(t)) /\ y.pc = "idle" /\ UNCHANGED graph
    BY <1>1, <1>9 DEF modify_node
  <2> QED
    BY <1>3, <1>4, <1>5, <2>1 DEF Ruled
<1>10. CASE \E id \in Ids : remove_node(t, id)
  <2>1. PICK id \in Ids : remove_node(t, id)
    BY <1>10
  <2> DEFINE n == findNode(graph, id)
             pc == IF n = NoNode THEN "done" ELSE "delNode"
  <2>2. /\ z = [y EXCEPT !.from = n, !.op = "remove_node", !.pc = pc]
        /\ y.pc = "idle" /\ UNCHANGED graph
    BY <1>1, <2>1 DEF remove_node
  <2>3. pc \in {"done", "delNode"}
    OBVIOUS
  <2> HIDE DEF n, pc
  <2>4. z.pc = pc
    BY <1>1, <2>2 DEF Threads
  <2> QED
    BY <1>4, <1>5, <2>2, <2>3, <2>4 DEF Ruled
<1>11. CASE \E tag \in {"edge", "modify_edge", "remove_edge"}, link \in Links :
                edgeElement(t, tag, link)
  <2>1. PICK tag \in {"edge", "modify_edge", "remove_edge"}, link \in Links :
             edgeElement(t, tag, link)
    BY <1>11
  <2>2. /\ z = [y EXCEPT !.pc = "findTo", !.tag = tag, !.link = link, !.from = findNode(graph, link[1])]
        /\ y.pc = "idle" /\ UNCHANGED graph
    BY <1>1, <2>1 DEF edgeElement
  <2>3. z.pc = "findTo"
    BY <1>1, <2>2 DEF Threads
  <2> QED
    BY <1>5, <2>2, <2>3
<1>12. CASE findTo(t)
  <2> DEFINE to == findNode(graph, y.link[2])
             x(pc) == [y EXCEPT !.to = to, !.pc = pc]
  <2>1. /\ \/ z = x("addFrom") \/ z = x("delEdge") \/ z = Thread("idle", y.try_cnt)
        /\ y.pc = "findTo" /\ UNCHANGED graph
    BY <1>1, <1>12 DEF findTo
  <2> HIDE DEF to
  <2>2. \A pc : x(pc).pc = pc
    BY <1>1 DEF Threads
  <2> HIDE DEF x
  <2>3. z.pc \in {"addFrom", "delEdge", "idle"}
    BY <1>2, <2>1, <2>2
  <2> QED
    BY <1>4, <1>5, <2>1, <2>3 DEF Ruled
<1>13. CASE addFrom(t) \/ addTo(t)
  <2>1. y.pc \in {"addFrom", "addTo"}
    BY <1>13 DEF addFrom, addTo, addEnd
  <2>2. MoveOn(y, z) \/ MoveNew(y, z)
    BY <1>13, EndMoves
  <2>3. z.pc \in {"addTo", "connect", "upd"}
    BY <2>1, <2>2 DEF MoveOn, MoveNew, MoveCreates, Updating
  <2> QED
    BY <1>4, <2>3 DEF Ruled
<1>14. CASE connect(t)
  <2>1. \E e : z = [y EXCEPT !.pc = "addEdge", !.edge = e]
    BY <1>1, <1>14 DEF connect
  <2>2. z.pc = "addEdge"
    BY <1>1, <2>1 DEF Threads
  <2> QED
    BY <1>4, <2>2 DEF Ruled
<1>15. CASE addEdgeStep(t) \/ delEdge(t) \/ delNode(t)
  <2>1. \/ z = Dropped(t)
        \/ \E op : \/ z = [ToUpdate(t, op) EXCEPT !.from = NoNode, !.to = NoNode]
                   \/ z = [ToUpdate(t, op) EXCEPT !.from = NoNode]
    BY <1>1, <1>15 DEF addEdgeStep, delEdge, delNode
  <2>2. z = Dropped(t) \/ z.pc = "upd"
    BY <1>1, <2>1 DEF ToUpdate, Threads
  <2> QED
    BY <1>3, <1>4, <2>2 DEF Ruled
<1> QED
  BY <1>6, <1>7, <1>8, <1>9, <1>10, <1>11, <1>12, <1>13, <1>14, <1>15 DEF Element

\* The steps of updatePartitions.
LEMMA TiedUpdate ==
    ASSUME TypeInv, Lists(graph), NEW t \in Sources, Straight(th[t]), Rooted(th[t], graph),
           Tied(th[t], graph),
           \/ upd(t) \/ del(t) \/ delHidden(t) \/ count(t) \/ scan(t) \/ tie(t) \/ done(t)
    PROVE  Tied(th'[t], graph')
<1> DEFINE y == th[t]
           z == th'[t]
           E == graph.complete.edges
           H == graph.hidden
<1>1. th \in [Sources -> Threads] /\ y \in Threads /\ Fit(y) /\ graph \in Graph
  BY DEF TypeInv
<1>2. \A w, k : Thread(w, k).pc = w
  BY DEF Thread
<1>3. Dropped(t).pc \in {"dial", "ended"}
  BY <1>2 DEF Again, Dropped
<1>4. ASSUME z.pc \notin Ruled PROVE Tied(z, graph')
  BY <1>4 DEF Ruled, Tied
<1>5. E \in Seq(EdgeObjs) /\ Len(E) \in Nat /\ Once(E) /\ y.i \in Nat
  BY <1>1, GraphFields, ThreadFields DEF Lists
<1>6. y.partitions \in Seq(NodeOrNull) /\ Len(y.partitions) \in Nat
  BY <1>1, ThreadFields
<1>7. CASE upd(t)
  <2>1. z = [y EXCEPT !.pc = "del", !.i = Len(E)] /\ UNCHANGED graph
    BY <1>1, <1>7 DEF upd
  <2>2. z.pc = "del" /\ z.i = Len(E)
    BY <1>1, <2>1 DEF Threads
  <2>3. \A k \in 1..Len(E) : ~(k > z.i)
    BY <1>5, <2>2
  <2> QED
    BY <2>1, <2>2, <2>3 DEF Tied
<1>8. CASE del(t)
  <2> DEFINE i == y.i
             e == E[i]
             a == [y EXCEPT !.pc = "count", !.i = 1]
             b == [y EXCEPT !.pc = "delHidden", !.edge = e, !.i = i - 1]
             c == [y EXCEPT !.i = i - 1]
  <2>1. /\ z = (IF i = 0 THEN a ELSE IF i > Len(E) THEN Dropped(t) ELSE IF e \in H THEN b ELSE c)
        /\ y.pc = "del" /\ UNCHANGED graph
    BY <1>1, <1>8 DEF del
  <2>2. \A k \in 1..Len(E) : k > i => E[k] \notin H
    BY <2>1 DEF Tied
  <2> HIDE DEF e
  <2>3. /\ a.pc = "count" /\ b.pc = "delHidden" /\ b.edge = e /\ b.i = i - 1
        /\ c.pc = y.pc /\ c.i = i - 1
    BY <1>1 DEF Threads
  <2> HIDE DEF a, b, c
  <2>4. CASE i = 0
    <3>1. z.pc = "count"
      BY <2>1, <2>3, <2>4
    <3>2. \A k \in 1..Len(E) : E[k] \notin H
      BY <1>5, <2>2, <2>4
    <3>3. TiesOf(graph) = {}
      BY <1>5, <3>2 DEF TiesOf, ToSet
    <3> QED
      BY <2>1, <3>1, <3>3 DEF Tied
  <2>5. CASE i # 0 /\ i > Len(E)
    BY <1>3, <1>4, <2>1, <2>5 DEF Ruled
  <2>6. CASE i # 0 /\ ~(i > Len(E)) /\ e \in H
    <3>1. z.pc = "delHidden" /\ z.edge = e /\ z.i = i - 1
      BY <2>1, <2>3, <2>6
    <3>2. z.i + 1 = i /\ i \in 1..Len(E)
      BY <1>5, <2>6, <3>1
    <3> QED
      BY <2>1, <2>2, <3>1, <3>2 DEF Tied, e
  <2>7. CASE i # 0 /\ ~(i > Len(E)) /\ e \notin H
    <3>1. z.pc = "del" /\ z.i = i - 1
      BY <2>1, <2>3, <2>7
    <3>2. ASSUME NEW k \in 1..Len(E), k > z.i PROVE E[k] \notin H
      <4>1. k = i \/ k > i
        BY <1>5, <3>1, <3>2
      <4> QED
        BY <2>2, <2>7, <4>1 DEF e
    <3> QED
      BY <2>1, <3>1, <3>2 DEF Tied
  <2> QED
    BY <2>4, <2>5, <2>6, <2>7
<1>9. CASE delHidden(t)
  <2> DEFINE e == y.edge
             h == deleteEdge(graph, e)
             p == y.i + 1
             F == RemoveFirst(E, e)
  <2>1. /\ z = [y EXCEPT !.pc = "del", !.edge = NullEdge] /\ y.pc = "delHidden"
        /\ graph' = Swept(h, th')
    BY <1>1, <1>9 DEF delHidden
  <2>2. z.pc = "del" /\ z.i = y.i
    BY <1>1, <2>1 DEF Threads
  <2>3. p \in 1..Len(E) /\ E[p] = e /\ \A k \in 1..Len(E) : k > p => E[k] \notin H
    BY <2>1 DEF Tied
  <2>4. e \in EdgeObjs
    BY <1>1, <2>1 DEF Fit
  <2> HIDE DEF e
  <2>5. h = deleteEdge(graph, e)
    OBVIOUS
  <2> HIDE DEF h
  <2>6. h \in Graph /\ h.complete.edges = F /\ h.hidden \subseteq H \cup {e}
    BY <1>1, <2>4, <2>5, DeleteEdgeShape
  <2>7. graph'.complete.edges = F /\ graph'.hidden \subseteq H \cup {e}
    BY <2>1, <2>6, SweptShape
  <2>8. FirstAt(E, e, p)
    BY <1>5, <2>3 DEF FirstAt, Once
  <2>9. Len(F) = Len(E) - 1 /\ \A k \in 1..Len(E) - 1 : F[k] = IF k < p THEN E[k] ELSE E[k + 1]
    BY <1>5, <2>8, RemoveFirstAt
  <2> HIDE DEF F
  <2>10. ASSUME NEW k \in 1..Len(F), k > z.i PROVE F[k] \notin graph'.hidden
    <3>1. /\ k \in 1..Len(E) - 1 /\ ~(k < p) /\ k + 1 \in 1..Len(E) /\ k + 1 > p /\ k + 1 # p
      BY <1>5, <2>2, <2>9, <2>10
    <3>2. F[k] = E[k + 1] /\ E[k + 1] \notin H
      BY <2>3, <2>9, <3>1
    <3>3. E[k + 1] # e
      BY <1>5, <2>3, <3>1 DEF Once
    <3> QED
      BY <2>7, <3>2, <3>3
  <2> QED
    BY <2>2, <2>7, <2>10 DEF Tied
<1>10. CASE count(t)
  <2> DEFINE a == [y EXCEPT !.pc = "tie", !.i = 2]
             b == [y EXCEPT !.pc = "scan"]
  <2>1. (z = a \/ z = b) /\ y.pc = "count" /\ UNCHANGED graph
    BY <1>1, <1>10 DEF count
  <2>2. a.pc = "tie" /\ b.pc = "scan"
    BY <1>1 DEF Threads
  <2>3. TiesOf(graph) = {}
    BY <2>1 DEF Tied
  <2> HIDE DEF a, b
  <2>4. z.pc \in {"tie", "scan"} /\ TiesOf(graph') = {}
    BY <2>1, <2>2, <2>3
  <2> QED
    BY <2>4 DEF Tied, Distinct
<1>11. CASE scan(t)
  <2>1. \/ z = Dropped(t)
        \/ \E j, p : z = [y EXCEPT !.pc = "count", !.i = j, !.partitions = p]
    BY <1>1, <1>11 DEF scan
  <2>2. y.pc = "scan" /\ UNCHANGED graph
    BY <1>11 DEF scan
  <2>3. z = Dropped(t) \/ z.pc = "count"
    BY <1>1, <2>1 DEF Threads
  <2>4. TiesOf(graph') = {}
    BY <2>2 DEF Tied
  <2>5. CASE z = Dropped(t)
    BY <1>3, <1>4, <2>5 DEF Ruled
  <2>6. CASE z.pc = "count"
    BY <2>4, <2>6 DEF Tied
  <2> QED
    BY <2>3, <2>5, <2>6
<1>12. CASE tie(t)
  <2> DEFINE p == y.partitions
             i == y.i
  <2>1. y.pc = "tie" /\ i >= 2
    BY <1>1, <1>12 DEF tie, Fit
  <2>2. /\ Distinct(TiesOf(graph))
        /\ \A e \in TiesOf(graph) : \E j \in 2..Len(p) : j < i /\ e.from = p[j - 1] /\ e.to = p[j]
    BY <2>1 DEF Tied
  <2>3. CASE i > Len(p)
    <3>1. z = [y EXCEPT !.pc = "done", !.partitions = <<>>, !.i = 0] /\ UNCHANGED graph
      BY <1>1, <1>12, <2>3 DEF tie
    <3>2. z.pc = "done"
      BY <1>1, <3>1 DEF Threads
    <3> DEFINE N == ToSet(graph.complete.nodes)
    <3>3. N = {} \/ \E r \in N : \A e \in TiesOf(graph) : e.to \in N \ {r}
      <4>1. CASE Len(p) < 2
        <5>1. \A j \in 2..Len(p) : FALSE
          BY <1>6, <4>1
        <5> QED
          BY <2>2, <5>1
      <4>2. CASE Len(p) >= 2
        <5>1. NoNode \notin ToSet(p)
          <6>1. NoNode \in ToSet(p) => Len(p) = 1
            BY <1>1 DEF Fit
          <6> DEFINE L == Len(p)
          <6>2. L \in Nat /\ L >= 2
            BY <1>6, <4>2
          <6>3. L # 1
            <7> HIDE DEF L
            <7> QED
              BY <6>2
          <6> QED
            BY <6>1, <6>3
        <5>2. \A k \in 1..Len(p) : p[k] \in N
          <6>1. \A k \in 1..Len(p) : p[k] \in ToSet(p)
            BY <1>6 DEF ToSet
          <6> QED
            BY <5>1, <6>1 DEF Rooted
        <5>3. 1 \in 1..Len(p) /\ \A j \in 2..Len(p) : j \in 1..Len(p) /\ j # 1
          BY <1>6, <4>2
        <5>4. \A j \in 2..Len(p) : p[j] # p[1]
          BY <5>3 DEF Straight, Once
        <5>5. \A e \in TiesOf(graph) : e.to \in N \ {p[1]}
          BY <2>2, <5>2, <5>3, <5>4
        <5> QED
          BY <5>2, <5>3, <5>5
      <4> QED
        BY <1>6, <4>1, <4>2
    <3>4. Chained(graph)
      BY <2>2, <3>3 DEF Chained
    <3> QED
      BY <3>1, <3>2, <3>4 DEF Tied
  <2>4. CASE ~(i > Len(p))
    <3> DEFINE n == p[i - 1]
               m == p[i]
               e == NewEdge(n, m)
               g == [graph EXCEPT !.hidden = @ \cup {e}]
               h == addEdge(g, e)
    <3>1. z = [y EXCEPT !.i = i + 1] /\ graph' = Swept(h, th')
      BY <1>1, <1>12, <2>4 DEF tie
    <3>2. i <= Len(p) /\ i - 1 \in 1..Len(p) /\ i \in 2..Len(p) /\ i \in 1..Len(p)
      BY <1>5, <1>6, <2>1, <2>4
    <3>3. n \in NodeObjs /\ m \in NodeObjs
      BY <1>1, <2>1, <3>2, TieNodes
    <3>4. z.pc = "tie" /\ z.i = i + 1 /\ z.partitions = p
      BY <1>1, <2>1, <3>1 DEF Threads
    <3> HIDE DEF n, m
    <3>5. e \in EdgeObjs /\ e.from = n /\ e.to = m
      BY <3>3, NewEdgeShape
    <3> HIDE DEF e
    <3>6. g \in Graph /\ g.complete = graph.complete /\ g.hidden = H \cup {e}
      BY <1>1, <3>5, HideNewShape
    <3> HIDE DEF g
    <3>7. h = addEdge(g, e) /\ e \in EdgeObjs \cup {NullEdge}
      BY <3>5
    <3> HIDE DEF h
    <3>8. h \in Graph /\ h.hidden = g.hidden /\ h.complete.edges \in {g.complete.edges, Append(g.complete.edges, e)}
      BY <3>6, <3>7, AddEdgeShape
    <3>9. graph'.complete = h.complete /\ graph'.hidden \subseteq h.hidden
      BY <3>1, <3>8, SweptShape
    <3>10. ToSet(Append(E, e)) = ToSet(E) \cup {e}
      BY <1>5, AppendRange
    <3>11. TiesOf(graph') \subseteq TiesOf(graph) \cup {e}
      BY <3>6, <3>8, <3>9, <3>10 DEF TiesOf
    <3>12. ASSUME NEW f \in TiesOf(graph) PROVE f.to # e.to /\ f.from # e.from
      <4>1. PICK j \in 2..Len(p) : j < i /\ f.from = p[j - 1] /\ f.to = p[j]
        BY <2>2
      <4>2. j \in 1..Len(p) /\ j - 1 \in 1..Len(p) /\ j # i /\ j - 1 # i - 1
        BY <1>5, <1>6, <4>1
      <4>3. p[j] # p[i] /\ p[j - 1] # p[i - 1]
        BY <3>2, <4>2 DEF Straight, Once
      <4> QED
        BY <3>5, <4>1, <4>3 DEF n, m
    <3>13. Distinct(TiesOf(graph'))
      BY <2>2, <3>11, <3>12 DEF Distinct
    <3>14. ASSUME NEW f \in TiesOf(graph')
           PROVE  \E j \in 2..Len(p) : j < i + 1 /\ f.from = p[j - 1] /\ f.to = p[j]
      <4>1. CASE f \in TiesOf(graph)
        <5>1. PICK j \in 2..Len(p) : j < i /\ f.from = p[j - 1] /\ f.to = p[j]
          BY <2>2, <4>1
        <5>2. j < i + 1
          BY <1>5, <1>6, <5>1
        <5> QED
          BY <5>1, <5>2
      <4>2. CASE f = e
        <5>1. i < i + 1
          BY <1>5
        <5> QED
          BY <3>2, <3>5, <4>2, <5>1 DEF n, m
      <4> QED
        BY <3>11, <4>1, <4>2
    <3> QED
      BY <3>4, <3>13, <3>14 DEF Tied
  <2> QED
    BY <2>3, <2>4
<1>13. CASE done(t)
  <2>1. y.pc = "done" /\ UNCHANGED graph
    BY <1>13 DEF done
  <2>2. Chained(graph')
    BY <2>1 DEF Tied
  <2>3. z.pc \in {"addTo", "connect", "idle"}
    <3> DEFINE a == [y EXCEPT !.pc = "addTo", !.op = ""]
               b == [y EXCEPT !.pc = "connect", !.op = ""]
               x == CASE y.op = "addFrom" -> a [] y.op = "addTo" -> b
                      [] OTHER -> Thread("idle", y.try_cnt)
    <3>1. th' = [th EXCEPT ![t] = x]
      BY <1>1, <1>13 DEF done
    <3>2. a.pc = "addTo" /\ b.pc = "connect" /\ Thread("idle", y.try_cnt).pc = "idle"
      BY <1>1, <1>2 DEF Threads
    <3>3. x.pc \in {"addTo", "connect", "idle"}
      <4> HIDE DEF a, b, y
      <4> QED
        BY <3>2
    <3> HIDE DEF x
    <3> QED
      BY <1>1, <3>1, <3>3
  <2> QED
    BY <1>4, <2>2, <2>3 DEF Ruled, Tied
<1> QED
  BY <1>7, <1>8, <1>9, <1>10, <1>11, <1>12, <1>13

\* The chain of invisible edges, and how far updatePartitions has got with it, in
\* every state the viewer reaches with a single source.
LEMMA TiedInvariance ==
    ASSUME \E s : Sources = {s}
    PROVE  Spec => [](TypeInv /\ \A t \in Sources : Tied(th[t], graph))
<1> DEFINE TieInv == \A t \in Sources : Tied(th[t], graph)
<1>1. Init => TieInv
  <2> SUFFICES ASSUME Init, NEW t \in Sources PROVE Tied(th[t], graph)
    OBVIOUS
  <2>1. th[t].pc = "off"
    BY DEF Init, Thread
  <2> QED
    BY <2>1 DEF Tied
<1>2. /\ TypeInv /\ Registry(graph) /\ EdgeInv /\ TidyInv /\ RootedInv /\ TieInv /\ [Next]_vars
      => TieInv'
  <2> SUFFICES ASSUME TypeInv, Registry(graph), TidyInv, RootedInv, TieInv, [Next]_vars
               PROVE  TieInv'
    OBVIOUS
  <2>1. CASE Next
    <3>1. PICK t \in Sources :
             \/ Connect(t) \/ startDocument(t) \/ refused(t) \/ endDocument(t)
             \/ Element(t) \/ Step(t)
      BY <2>1 DEF Next
    <3>2. Sources = {t}
      OBVIOUS
    <3>3. /\ Lists(graph) /\ Straight(th[t]) /\ Rooted(th[t], graph) /\ Tied(th[t], graph)
      BY DEF TidyInv, RootedInv
    <3>4. Tied(th'[t], graph')
      BY <3>1, <3>3, TiedElement, TiedUpdate DEF Step
    <3> QED
      BY <3>2, <3>4
  <2>2. CASE UNCHANGED vars
    BY <2>2 DEF vars
  <2> QED
    BY <2>1, <2>2
<1> HIDE DEF TieInv
<1>3. Spec => [](TypeInv /\ TieInv)
  BY <1>1, <1>2, RootedInvariance, PTL DEF Spec
<1> QED
  BY <1>3 DEF TieInv

\* TGPanel.updatePartitions: between two elements of a single source the invisible
\* edges are fewer than the nodes, and no two of them lead to or from the same
\* node, however often edges and nodes came and went before.
THEOREM ViewerTies ==
    ASSUME \E s : Sources = {s}
    PROVE  Spec => []TiesAreAPath
<1>1. TypeInv /\ (\A t \in Sources : Tied(th[t], graph)) => TiesAreAPath
  <2> SUFFICES ASSUME TypeInv, \A t \in Sources : Tied(th[t], graph), Resting
               PROVE  /\ Nodes # {} => Cardinality(Ties) < Cardinality(Nodes)
                      /\ \A e, f \in Ties : e # f => e.to # f.to /\ e.from # f.from
    BY DEF TiesAreAPath
  <2>1. PICK s \in Sources : TRUE
    OBVIOUS
  <2>2. th[s].pc = "idle" /\ Tied(th[s], graph)
    BY DEF Resting
  <2>3. /\ Distinct(Ties)
        /\ Nodes = {} \/ \E r \in Nodes : \A e \in Ties : e.to \in Nodes \ {r}
    BY <2>2 DEF Tied, Chained, TiesOf, Ties, Edges, Nodes
  <2>4. ASSUME Nodes # {} PROVE Cardinality(Ties) < Cardinality(Nodes)
    <3>1. PICK r \in Nodes : \A e \in Ties : e.to \in Nodes \ {r}
      BY <2>3, <2>4
    <3> DEFINE f == [e \in Ties |-> e.to]
    <3>2. f \in Injection(Ties, Nodes \ {r})
      BY <2>3, <3>1 DEF Injection, IsInjective, Distinct
    <3>3. IsFiniteSet(Nodes)
      <4>1. graph.complete.nodes \in Seq(NodeObjs)
        BY GraphFields DEF TypeInv
      <4> QED
        BY <4>1, ListFinite DEF Nodes
    <3>4. /\ IsFiniteSet(Nodes \ {r}) /\ Cardinality(Nodes \ {r}) = Cardinality(Nodes) - 1
          /\ Cardinality(Nodes) \in Nat
      BY <3>3, FS_RemoveElement, FS_CardinalityType
    <3> HIDE DEF f
    <3>5. IsFiniteSet(Ties) /\ Cardinality(Ties) <= Cardinality(Nodes \ {r})
      BY <3>2, <3>4, FS_Injection
    <3>6. Cardinality(Ties) \in Nat
      BY <3>5, FS_CardinalityType
    <3> QED
      BY <3>4, <3>5, <3>6
  <2> QED
    BY <2>3, <2>4 DEF Distinct
<1> QED
  BY <1>1, TiedInvariance, PTL

-----------------------------------------------------------------------------
(* One careful source: the counters of the status bar *)

Shown(g) == ToSet(g.complete.edges) \ g.hidden

\* In the list of every node the invisible edges come last, so findEdge, which
\* stops at the first edge that fits, prefers one that is on screen.
TiesLast(g) ==
    \A n \in ToSet(g.complete.nodes) : \A j, k \in 1..Len(g.adj[n]) :
       j < k /\ g.adj[n][j] \in g.hidden => g.adj[n][k] \in g.hidden

\* The nodes the status bar has not been told of yet.
NodesDue(x) ==
    IF x.pc \notin Updating THEN 0
    ELSE IF x.op \in {"node", "addFrom", "addTo"} THEN 1
    ELSE IF x.op = "remove_node" THEN -1 ELSE 0

\* An edge that is counted and not in the graph: not yet, or no longer.
EdgesDue(x, g) ==
    IF \/ x.pc \in Updating /\ x.op = "remove_edge"
       \/ x.pc = "addEdge" /\ x.edge \notin ToSet(g.visible.edges) \cup {NullEdge}
    THEN 1 ELSE 0

\* The books of a thread that has opened its document: nc and ec are the counters.
Booked(x, g, nc, ec) ==
    /\ nc + NodesDue(x) = Len(g.complete.nodes)
    /\ ec >= Cardinality(Shown(g)) + EdgesDue(x, g)

Unopened == {"off", "dial", "begin", "ended"}
Orderly == {"count", "scan", "tie", "done", "idle", "findTo", "delEdge"}

\* The counters, and what a careful source relies on when it removes something.
Ledger(x, g, nc, ec) ==
    /\ x.pc \in Orderly => TiesLast(g)
    /\ x.pc = "begin" => nc = 0 /\ ec = 0
    /\ x.pc \notin Unopened => Booked(x, g, nc, ec)
    /\ x.pc = "findTo" /\ x.tag = "remove_edge" =>
          \E e \in Shown(g) : e.from[1] = x.link[1] /\ e.to[1] = x.link[2]
    /\ x.pc = "delEdge" => \E e \in Shown(g) : e.from = x.from /\ e.to = x.to
    /\ x.pc = "delNode" => x.from \in ToSet(g.complete.nodes)

\* Forgetting objects changes nothing that the books are about.
LEMMA SweptShown ==
    ASSUME NEW h \in Graph, NEW ths, NEW g, g = Swept(h, ths)
    PROVE  /\ g.complete = h.complete /\ Shown(g) = Shown(h)
           /\ Lists(h) /\ TiesLast(h) => TiesLast(g)
<1>1. /\ g \in Graph /\ g.complete = h.complete
      /\ g.hidden = h.hidden \cap Held(ths, h).edges
  BY SweptShape
<1>2. ToSet(h.complete.edges) \ {NullEdge} \subseteq Held(ths, h).edges
  BY HeldEdges
<1>3. NullEdge \notin ToSet(h.complete.edges)
  <2>1. h.complete.edges \in Seq(EdgeObjs)
    BY GraphFields
  <2> QED
    BY <2>1, GraphAssumption DEF ToSet
<1>4. \A e \in ToSet(h.complete.edges) : e \in g.hidden <=> e \in h.hidden
  BY <1>1, <1>2, <1>3
<1>5. Shown(g) = Shown(h)
  BY <1>1, <1>4 DEF Shown
<1>6. ASSUME Lists(h), TiesLast(h) PROVE TiesLast(g)
  <2> SUFFICES ASSUME NEW n \in ToSet(h.complete.nodes),
                      NEW j \in 1..Len(g.adj[n]), NEW k \in 1..Len(g.adj[n]),
                      j < k, g.adj[n][j] \in g.hidden
               PROVE  g.adj[n][k] \in g.hidden
    BY <1>1 DEF TiesLast
  <2>1. n \in NodeObjs /\ Contains(h.complete.nodes, n)
    BY GraphFields DEF ToSet, Contains
  <2>2. g.adj = [m \in NodeObjs |-> IF Contains(h.complete.nodes, m) THEN h.adj[m]
                                    ELSE Kept(h.adj[m], EdgesOf(h))]
    BY DEF Swept, Graph
  <2>3. g.adj[n] = h.adj[n] /\ h.adj[n] \in Seq(EdgeObjs)
    BY <2>1, <2>2, GraphFields
  <2>4. h.adj[n][k] \in h.hidden
    BY <1>1, <1>6, <2>3 DEF TiesLast
  <2>5. h.adj[n][k] \in ToSet(h.adj[n])
    BY <2>3 DEF ToSet
  <2>6. h.adj[n][k] \in ToSet(h.complete.edges)
    BY <1>6, <2>5 DEF Lists
  <2> QED
    BY <1>4, <2>3, <2>4, <2>6
<1> QED
  BY <1>1, <1>5, <1>6

\* There are finitely many edges on screen, and not more if none is added.
LEMMA ShownCount ==
    ASSUME NEW g \in Graph
    PROVE  /\ IsFiniteSet(Shown(g)) /\ Cardinality(Shown(g)) \in Nat
           /\ \A T \in SUBSET Shown(g) :
                 Cardinality(T) \in Nat /\ Cardinality(T) <= Cardinality(Shown(g))
<1>1. IsFiniteSet(ToSet(g.complete.edges))
  BY GraphFields, ListFinite
<1>2. IsFiniteSet(Shown(g))
  BY <1>1, FS_Subset DEF Shown
<1>3. ASSUME NEW T \in SUBSET Shown(g)
      PROVE  Cardinality(T) \in Nat /\ Cardinality(T) <= Cardinality(Shown(g))
  BY <1>2, FS_Subset, FS_CardinalityType
<1> QED
  BY <1>2, <1>3, FS_CardinalityType

\* If the books balance and a step shows no further edge, they still balance.
LEMMA BooksBalance ==
    ASSUME NEW g \in Graph, NEW h, NEW d \in Int, NEW ec \in Int,
           ec >= Cardinality(Shown(g)) + d,
           Shown(h) \subseteq Shown(g)
    PROVE  ec >= Cardinality(Shown(h)) + d
<1>1. /\ Cardinality(Shown(g)) \in Nat /\ Cardinality(Shown(h)) \in Nat
      /\ Cardinality(Shown(h)) <= Cardinality(Shown(g))
  BY ShownCount
<1> QED
  BY <1>1

\* findEdge, when an edge on screen leads from n to m: it returns such an edge and
\* not a tie between the two nodes.
LEMMA FindsShown ==
    ASSUME NEW g \in Graph, Lists(g), InStep(g), TiesLast(g),
           NEW n \in ToSet(g.complete.nodes), NEW m \in NodeObjs,
           NEW e \in Shown(g), e.from = n, e.to = m
    PROVE  findEdge(g, n, m) \in EdgeObjs /\ findEdge(g, n, m) \in Shown(g)
<1> DEFINE s == g.adj[n]
           I == {i \in 1..Len(s) : s[i].to = m}
           d == SelectInSeq(s, LAMBDA x : x.to = m)
<1>1. n \in NodeObjs /\ g.complete.edges \in Seq(EdgeObjs)
  BY GraphFields DEF ToSet
<1>2. s \in Seq(EdgeObjs) /\ g.visible.edges \in Seq(EdgeObjs \cup {NullEdge})
  BY <1>1, GraphFields
<1>3. e \in ToSet(s) /\ ToSet(s) \subseteq ToSet(g.complete.edges)
  BY DEF Lists, Shown
<1>4. PICK k \in 1..Len(s) : s[k] = e
  BY <1>2, <1>3 DEF ToSet
<1>5. \A i, j \in 1..Len(s) : i < j /\ s[i] \in g.hidden => s[j] \in g.hidden
  BY DEF TiesLast
<1>6. findEdge(g, n, m) = IF d # 0 /\ Contains(g.visible.edges, s[d]) THEN s[d] ELSE NullEdge
  BY DEF findEdge
<1> HIDE DEF s
<1>7. k \in I
  BY <1>4
<1>8. d = Min(I) /\ I \in SUBSET Nat
  BY <1>7 DEF SelectInSeq
<1> HIDE DEF d
<1>9. d \in I /\ d <= k
  <2> HIDE DEF I
  <2> QED
    BY <1>7, <1>8, MinIn
<1>10. d \in 1..Len(s) /\ d # 0 /\ s[d] \in EdgeObjs
  BY <1>2, <1>9
<1>11. s[d] \in ToSet(g.complete.edges)
  <2>1. s[d] \in ToSet(s)
    BY <1>2, <1>10 DEF ToSet
  <2> QED
    BY <1>3, <2>1
<1>12. s[d] \notin g.hidden
  <2>1. e \notin g.hidden
    BY DEF Shown
  <2>2. d = k \/ d < k
    BY <1>9, <1>10
  <2> QED
    BY <1>4, <1>5, <1>10, <2>1, <2>2
<1>13. s[d] \in ToSet(g.visible.edges)
  BY <1>2, <1>11, RemoveFirstRange DEF InStep
<1>14. Contains(g.visible.edges, s[d])
  BY <1>2, <1>13, AppendRange
<1> QED
  BY <1>6, <1>10, <1>11, <1>12, <1>14 DEF Shown

\* A step that makes a node for an ID: the graph has it afterwards unless it had
\* one of that ID, and the edges stay as they are.
LEMMA BooksNewNode ==
    ASSUME TypeInv, Registry(graph), Lists(graph), InStep(graph),
           NEW id \in Ids, NEW n \in FreeNodes(id),
           graph' = Swept(addNode(WithNewNode(graph, n), n), th')
    PROVE  /\ Shown(graph') = Shown(graph)
           /\ addNodeThrows(WithNewNode(graph, n), n) <=> graph.complete.reg[id] # NoNode
           /\ IF addNodeThrows(WithNewNode(graph, n), n)
              THEN /\ graph'.complete.nodes = graph.complete.nodes
                   /\ TiesLast(graph) => TiesLast(graph')
              ELSE Len(graph'.complete.nodes) = Len(graph.complete.nodes) + 1
<1> DEFINE g == WithNewNode(graph, n)
           h == addNode(g, n)
<1>1. n \in NodeObjs /\ n[1] = id /\ graph \in Graph /\ n \notin ToSet(graph.complete.nodes)
  BY FreeNodesShape, FreeNodesNew DEF TypeInv
<1>2. g \in Graph /\ SameSets(graph, g)
  BY <1>1, WithNewNodeShape
<1>3. g.visible.nodes = g.complete.nodes /\ g.visible.reg = g.complete.reg
  BY <1>2 DEF SameSets, Registry
<1>4. h \in Graph /\ Lists(h)
  BY NewNodeLists
<1>5. graph' = Swept(h, th')
  OBVIOUS
<1>6. h.hidden = g.hidden /\ h.complete.edges = g.complete.edges
  <2>1. h = addNode(g, n) /\ g \in Graph /\ n \in NodeObjs
    BY <1>1, <1>2
  <2> HIDE DEF h, g
  <2> QED
    BY <1>3, <2>1, AddNodeShape
<1>7. Shown(graph') = Shown(graph)
  <2>1. Shown(graph') = Shown(h)
    BY <1>4, <1>5, SweptShown
  <2> QED
    BY <1>2, <1>6, <2>1 DEF Shown, SameSets
<1>8. CASE graph.complete.reg[id] # NoNode
  <2>1. Registered(g.visible, n) /\ ~Contains(g.visible.nodes, n)
    <3>1. g.visible.nodes = graph.complete.nodes /\ g.visible.reg = graph.complete.reg
      BY <1>2, <1>3 DEF SameSets
    <3> QED
      BY <1>1, <1>8, <3>1 DEF Registered, Contains, ToSet
  <2>2. addNodeThrows(g, n) /\ h = g
    BY <2>1 DEF addNodeThrows, addNode
  <2>3. graph'.complete = g.complete
    BY <1>4, <1>5, <2>2, SweptShown
  <2>4. ASSUME TiesLast(graph) PROVE TiesLast(graph')
    <3>1. \A m \in ToSet(graph.complete.nodes) : g.adj[m] = graph.adj[m]
      <4> DEFINE g1 == NewPart(graph, n)
      <4>1. g1 \in Graph /\ g1.adj = graph.adj
        BY <1>1, NewPartShape
      <4>2. g = [g1 EXCEPT !.adj[n] = <<>>]
        BY DEF WithNewNode
      <4> HIDE DEF g1
      <4>3. g.adj = [graph.adj EXCEPT ![n] = <<>>]
        BY <4>1, <4>2 DEF Graph
      <4>4. graph.adj \in [NodeObjs -> Seq(EdgeObjs)] /\ graph.complete.nodes \in Seq(NodeObjs)
        BY <1>1, GraphFields
      <4>5. \A m \in ToSet(graph.complete.nodes) : m \in NodeObjs /\ m # n
        BY <1>1, <4>4 DEF ToSet
      <4> QED
        BY <4>3, <4>4, <4>5
    <3>2. TiesLast(g)
      <4>1. g.complete = graph.complete /\ g.hidden = graph.hidden
        BY <1>2 DEF SameSets
      <4> HIDE DEF g
      <4> QED
        BY <2>4, <3>1, <4>1 DEF TiesLast
    <3> QED
      BY <1>4, <1>5, <2>2, <3>2, SweptShown
  <2> QED
    BY <1>2, <1>7, <1>8, <2>2, <2>3, <2>4 DEF SameSets
<1>9. CASE graph.complete.reg[id] = NoNode
  <2>1. ~addNodeThrows(g, n) /\ graph'.complete.nodes = Append(graph.complete.nodes, n)
    BY <1>9, AddedFresh
  <2>2. graph.complete.nodes \in Seq(NodeObjs)
    BY <1>1, GraphFields
  <2>3. Len(graph'.complete.nodes) = Len(graph.complete.nodes) + 1
    BY <2>1, <2>2
  <2> QED
    BY <1>7, <1>9, <2>1, <2>3
<1> QED
  BY <1>8, <1>9

\* The steps of the connection, and the first element of a document.
LEMMA LedgerOpen ==
    ASSUME TypeInv, NEW t \in Sources, Ledger(th[t], graph, nodeCnt, edgeCnt),
           \/ Connect(t) \/ startDocument(t) \/ refused(t) \/ endDocument(t) \/ topology(t)
    PROVE  Ledger(th'[t], graph', nodeCnt', edgeCnt')
<1> DEFINE y == th[t]
           z == th'[t]
<1>1. th \in [Sources -> Threads] /\ y \in Threads /\ graph \in Graph
  BY DEF TypeInv
<1>2. \A w, k : Thread(w, k).pc = w
  BY DEF Thread
<1>3. Again(y.try_cnt + 1).pc \in {"dial", "ended"} /\ Dropped(t).pc \in {"dial", "ended"}
  BY <1>2 DEF Again, Dropped
<1>4. ASSUME z.pc \in {"off", "dial", "ended"} PROVE Ledger(z, graph', nodeCnt', edgeCnt')
  BY <1>4 DEF Ledger, Orderly, Unopened
<1>5. CASE Connect(t) \/ refused(t) \/ endDocument(t)
  <2>1. \/ z = y /\ y.pc = "off"
        \/ z = Thread("dial", 0) \/ z = Again(y.try_cnt + 1) \/ z = Dropped(t)
    BY <1>1, <1>5 DEF Connect, refused, endDocument
  <2>2. z.pc \in {"off", "dial", "ended"}
    BY <1>2, <1>3, <2>1
  <2> QED
    BY <1>4, <2>2
<1>6. CASE startDocument(t)
  <2>1. z = [y EXCEPT !.pc = "begin"] /\ nodeCnt' = 0 /\ edgeCnt' = 0
    BY <1>1, <1>6 DEF startDocument, resetCounter
  <2>2. z.pc = "begin"
    BY <1>1, <2>1 DEF Threads
  <2> QED
    BY <2>1, <2>2 DEF Ledger, Orderly, Unopened
<1>7. CASE topology(t)
  <2>1. graph' = Swept(clearAll(graph), th') /\ y.pc = "begin" /\ UNCHANGED <<nodeCnt, edgeCnt>>
    BY <1>7 DEF topology
  <2>2. CASE clearAllThrows(graph)
    <3>1. z = Dropped(t)
      BY <1>1, <1>7, <2>2 DEF topology
    <3> QED
      BY <1>3, <1>4, <3>1
  <2>3. CASE ~clearAllThrows(graph)
    <3>1. z = Thread("idle", y.try_cnt)
      BY <1>1, <1>7, <2>3 DEF topology
    <3>2. z.pc = "idle"
      BY <1>2, <3>1
    <3>3. clearAll(graph) \in Graph /\ clearAll(graph).complete = EmptySet
      BY <1>1, <2>3, ClearAllShape
    <3>4. graph'.complete = EmptySet
      BY <2>1, <3>3, SweptShape
    <3>5. /\ Shown(graph') = {} /\ graph'.complete.nodes = <<>>
          /\ ToSet(graph'.complete.nodes) = {}
      BY <3>4 DEF Shown, EmptySet, ToSet
    <3>6. Cardinality(Shown(graph')) = 0 /\ Len(graph'.complete.nodes) = 0
      BY <3>5, FS_EmptySet
    <3>7. nodeCnt' = 0 /\ edgeCnt' = 0
      BY <2>1 DEF Ledger
    <3>8. NodesDue(z) = 0 /\ EdgesDue(z, graph') = 0
      BY <3>2 DEF NodesDue, EdgesDue, Updating
    <3>9. Booked(z, graph', nodeCnt', edgeCnt')
      BY <3>6, <3>7, <3>8 DEF Booked
    <3>10. TiesLast(graph')
      BY <3>5 DEF TiesLast
    <3> QED
      BY <3>2, <3>9, <3>10 DEF Ledger
  <2> QED
    BY <2>2, <2>3
<1> QED
  BY <1>5, <1>6, <1>7

\* Node elements.
LEMMA LedgerNode ==
    ASSUME TypeInv, Registry(graph), OwnEdges(graph), Lists(graph), InStep(graph), Careful,
           NEW t \in Sources, Ledger(th[t], graph, nodeCnt, edgeCnt),
           \/ \E id \in Ids : node(t, id) \/ modify_node(t, id) \/ remove_node(t, id)
           \/ delNode(t)
    PROVE  Ledger(th'[t], graph', nodeCnt', edgeCnt')
<1> DEFINE y == th[t]
           z == th'[t]
<1>1. /\ th \in [Sources -> Threads] /\ y \in Threads /\ graph \in Graph /\ Fit(y)
      /\ nodeCnt \in Int /\ edgeCnt \in Int
  BY DEF TypeInv
<1>2. Dropped(t).pc \in {"dial", "ended"}
  BY DEF Again, Dropped, Thread
<1>3. Len(graph.complete.nodes) \in Nat /\ Cardinality(Shown(graph)) \in Nat
  BY <1>1, GraphFields, ShownCount
<1>4. ASSUME y.pc \in {"idle", "delNode"}
      PROVE  /\ nodeCnt = Len(graph.complete.nodes) /\ edgeCnt >= Cardinality(Shown(graph))
             /\ y.pc = "idle" => TiesLast(graph)
  <2>1. NodesDue(y) = 0 /\ EdgesDue(y, graph) = 0
    BY <1>4 DEF NodesDue, EdgesDue, Updating
  <2>2. Booked(y, graph, nodeCnt, edgeCnt) /\ (y.pc = "idle" => TiesLast(graph))
    BY <1>4 DEF Ledger, Unopened, Orderly
  <2> QED
    BY <1>1, <1>3, <2>1, <2>2 DEF Booked
<1>5. CASE \E id \in Ids : node(t, id)
  <2>1. PICK id \in Ids : node(t, id)
    BY <1>5
  <2>2. PICK n \in FreeNodes(id) :
           /\ th' = IF addNodeThrows(WithNewNode(graph, n), n) THEN th
                    ELSE [th EXCEPT ![t] = ToUpdate(t, "node")]
           /\ graph' = Swept(addNode(WithNewNode(graph, n), n), th')
    BY <2>1 DEF node
  <2>3. y.pc = "idle" /\ UNCHANGED <<nodeCnt, edgeCnt>>
    BY <2>1 DEF node
  <2> DEFINE throws == addNodeThrows(WithNewNode(graph, n), n)
  <2>4. /\ Shown(graph') = Shown(graph)
        /\ IF throws THEN graph'.complete.nodes = graph.complete.nodes /\ TiesLast(graph')
           ELSE Len(graph'.complete.nodes) = Len(graph.complete.nodes) + 1
    BY <1>4, <2>2, <2>3, BooksNewNode
  <2>5. CASE throws
    <3>1. z = y /\ y.pc = "idle"
      BY <2>2, <2>3, <2>5
    <3>2. NodesDue(z) = 0 /\ EdgesDue(z, graph') = 0
      BY <3>1 DEF NodesDue, EdgesDue, Updating
    <3>3. Booked(z, graph', nodeCnt', edgeCnt')
      BY <1>1, <1>3, <1>4, <2>3, <2>4, <2>5, <3>2 DEF Booked
    <3> QED
      BY <2>4, <2>5, <3>1, <3>3 DEF Ledger
  <2>6. CASE ~throws
    <3>1. z = ToUpdate(t, "node")
      BY <1>1, <2>2, <2>6
    <3>2. z.pc = "upd" /\ z.op = "node"
      BY <1>1, <3>1 DEF ToUpdate, Threads
    <3>3. NodesDue(z) = 1 /\ EdgesDue(z, graph') = 0
      BY <3>2 DEF NodesDue, EdgesDue, Updating
    <3>4. Booked(z, graph', nodeCnt', edgeCnt')
      BY <1>1, <1>3, <1>4, <2>3, <2>4, <2>6, <3>3 DEF Booked
    <3> QED
      BY <3>2, <3>4 DEF Ledger, Orderly
  <2> QED
    BY <2>5, <2>6
<1>6. CASE \E id \in Ids : modify_node(t, id)
  <2>1. (z = y \/ z = Dropped(t)) /\ UNCHANGED <<graph, nodeCnt, edgeCnt>>
    BY <1>1, <1>6 DEF modify_node
  <2>2. CASE z = y
    BY <2>1, <2>2
  <2>3. CASE z = Dropped(t)
    BY <1>2, <2>3 DEF Ledger, Orderly, Unopened
  <2> QED
    BY <2>1, <2>2, <2>3
<1>7. CASE \E id \in Ids : remove_node(t, id)
  <2>1. PICK id \in Ids : remove_node(t, id)
    BY <1>7
  <2> DEFINE n == findNode(graph, id)
  <2>2. /\ n # NoNode /\ z = [y EXCEPT !.from = n, !.op = "remove_node", !.pc = "delNode"]
        /\ y.pc = "idle" /\ UNCHANGED <<graph, nodeCnt, edgeCnt>>
    BY <1>1, <2>1 DEF remove_node
  <2>3. n \in ToSet(graph.complete.nodes)
    BY <2>2, FindNodeId
  <2> HIDE DEF n
  <2>4. z.pc = "delNode" /\ z.from = n
    BY <1>1, <2>2 DEF Threads
  <2>5. NodesDue(z) = 0 /\ EdgesDue(z, graph') = 0
    BY <2>4 DEF NodesDue, EdgesDue, Updating
  <2>6. Booked(z, graph', nodeCnt', edgeCnt')
    BY <1>1, <1>3, <1>4, <2>2, <2>5 DEF Booked
  <2> QED
    BY <2>2, <2>3, <2>4, <2>6 DEF Ledger, Orderly
<1>8. CASE delNode(t)
  <2> DEFINE n == y.from
             h == deleteNode(graph, n)
             N == graph.complete.nodes
  <2>1. /\ n \in NodeObjs /\ graph' = Swept(h, th') /\ UNCHANGED <<nodeCnt, edgeCnt>>
        /\ z = [ToUpdate(t, "remove_node") EXCEPT !.from = NoNode] /\ y.pc = "delNode"
    BY <1>1, <1>8 DEF delNode, Fit
  <2>2. z.pc = "upd" /\ z.op = "remove_node"
    BY <1>1, <2>1 DEF ToUpdate, Threads
  <2>3. N \in Seq(NodeObjs) /\ n \in ToSet(N)
    BY <1>1, <2>1, GraphFields DEF Ledger
  <2>4. Contains(N, n)
    BY <2>3, AppendRange
  <2> HIDE DEF n
  <2>5. h = deleteNode(graph, n)
    OBVIOUS
  <2> HIDE DEF h
  <2>6. /\ h \in Graph /\ ToSet(h.complete.edges) \subseteq ToSet(graph.complete.edges)
        /\ graph.hidden \subseteq h.hidden /\ h.complete.nodes = RemoveFirst(N, n)
    BY <1>1, <2>1, <2>4, <2>5, DeleteNodeShape
  <2>7. Shown(graph') \subseteq Shown(graph) /\ graph'.complete.nodes = RemoveFirst(N, n)
    <3>1. Shown(graph') = Shown(h) /\ graph'.complete = h.complete
      BY <2>1, <2>6, SweptShown
    <3> QED
      BY <2>6, <3>1 DEF Shown
  <2>8. Len(graph'.complete.nodes) = Len(N) - 1
    <3>1. \E p : FirstAt(N, n, p)
      BY <2>3, <2>4, HasFirst
    <3> QED
      BY <2>3, <2>7, <3>1, RemoveFirstAt
  <2>9. NodesDue(z) = -1 /\ EdgesDue(z, graph') = 0
    BY <2>2 DEF NodesDue, EdgesDue, Updating
  <2>10. edgeCnt >= Cardinality(Shown(graph'))
    <3>1. Cardinality(Shown(graph')) \in Nat /\ Cardinality(Shown(graph')) <= Cardinality(Shown(graph))
      BY <1>1, <2>7, ShownCount
    <3> QED
      BY <1>1, <1>3, <1>4, <2>1, <3>1
  <2>11. Cardinality(Shown(graph')) \in Nat
    BY <1>1, <2>7, ShownCount
  <2>12. Booked(z, graph', nodeCnt', edgeCnt')
    BY <1>1, <1>3, <1>4, <2>1, <2>8, <2>9, <2>10, <2>11 DEF Booked
  <2> QED
    BY <2>2, <2>12 DEF Ledger, Orderly
<1> QED
  BY <1>5, <1>6, <1>7, <1>8

\* Looking up the ends of a link.
LEMMA LedgerFind ==
    ASSUME TypeInv, Registry(graph), InStep(graph), EndsIn(graph), Careful,
           NEW t \in Sources, Straight(th[t]), Rooted(th[t], graph),
           Ledger(th[t], graph, nodeCnt, edgeCnt),
           \/ \E tag \in {"edge", "modify_edge", "remove_edge"}, link \in Links :
                 edgeElement(t, tag, link)
           \/ findTo(t)
    PROVE  Ledger(th'[t], graph', nodeCnt', edgeCnt')
<1> DEFINE y == th[t]
           z == th'[t]
<1>1. /\ th \in [Sources -> Threads] /\ y \in Threads /\ graph \in Graph /\ Fit(y)
      /\ nodeCnt \in Int /\ edgeCnt \in Int
  BY DEF TypeInv
<1>2. y.pc \in {"idle", "findTo"} /\ UNCHANGED <<graph, nodeCnt, edgeCnt>>
  BY DEF edgeElement, findTo
<1>3. TiesLast(graph) /\ Booked(y, graph, nodeCnt, edgeCnt)
  BY <1>2 DEF Ledger, Orderly, Unopened
<1>4. ASSUME z.pc \in {"idle", "findTo", "addFrom", "delEdge"}
      PROVE  Booked(z, graph', nodeCnt', edgeCnt')
  <2>1. NodesDue(y) = 0 /\ EdgesDue(y, graph) = 0 /\ NodesDue(z) = 0 /\ EdgesDue(z, graph') = 0
    BY <1>2, <1>4 DEF NodesDue, EdgesDue, Updating
  <2> QED
    BY <1>2, <1>3, <2>1 DEF Booked
<1>5. CASE \E tag \in {"edge", "modify_edge", "remove_edge"}, link \in Links :
                edgeElement(t, tag, link)
  <2>1. PICK tag \in {"edge", "modify_edge", "remove_edge"}, link \in Links :
             edgeElement(t, tag, link)
    BY <1>5
  <2>2. z = [y EXCEPT !.pc = "findTo", !.tag = tag, !.link = link, !.from = findNode(graph, link[1])]
    BY <1>1, <2>1 DEF edgeElement
  <2>3. z.pc = "findTo" /\ z.tag = tag /\ z.link = link
    BY <1>1, <2>2 DEF Threads
  <2>4. ASSUME tag = "remove_edge"
        PROVE  \E e \in Shown(graph) : e.from[1] = link[1] /\ e.to[1] = link[2]
    <3>1. PICK e \in EdgesOf(graph) \ graph.hidden : <<e.from[1], e.to[1]>> = link
      BY <2>1, <2>4 DEF edgeElement
    <3>2. e \in ToSet(graph.complete.edges)
      <4>1. graph.visible.edges \in Seq(EdgeObjs \cup {NullEdge})
        BY <1>1, GraphFields
      <4>2. ToSet(graph.visible.edges) \ {NullEdge} \subseteq ToSet(graph.complete.edges)
        BY <4>1, RemoveFirstRange DEF InStep
      <4> QED
        BY <4>2 DEF EdgesOf
    <3>3. link[1] = e.from[1] /\ link[2] = e.to[1]
      BY <3>1
    <3> QED
      BY <3>2, <3>3 DEF Shown
  <2> QED
    BY <1>2, <1>3, <1>4, <2>3, <2>4 DEF Ledger
<1>6. CASE findTo(t)
  <2> DEFINE to == findNode(graph, y.link[2])
             x(pc) == [y EXCEPT !.to = to, !.pc = pc]
  <2>1. /\ y.pc = "findTo"
        /\ \/ y.tag # "remove_edge" /\ z = x("addFrom")
           \/ z = Thread("idle", y.try_cnt)
           \/ y.tag = "remove_edge" /\ y.from # NoNode /\ to # NoNode /\ z = x("delEdge")
    BY <1>1, <1>6 DEF findTo
  <2>2. y.link \in Links
    BY <1>1, <2>1 DEF Fit
  <2>3. y.link[1] \in Ids /\ y.link[2] \in Ids
    BY <2>2, ViewerAssumption
  <2>4. to # NoNode => to[1] = y.link[2] /\ to \in ToSet(graph.complete.nodes)
    BY <2>3, FindNodeId
  <2> HIDE DEF to
  <2>5. \A pc : x(pc).pc = pc /\ x(pc).to = to /\ x(pc).from = y.from
    BY <1>1 DEF Threads
  <2> HIDE DEF x
  <2>6. CASE z.pc \in {"addFrom", "idle"}
    BY <1>2, <1>3, <1>4, <2>6 DEF Ledger
  <2>7. CASE y.tag = "remove_edge" /\ y.from # NoNode /\ to # NoNode /\ z = x("delEdge")
    <3>1. z.pc = "delEdge" /\ z.from = y.from /\ z.to = to
      BY <2>5, <2>7
    <3>2. PICK e \in Shown(graph) : e.from[1] = y.link[1] /\ e.to[1] = y.link[2]
      BY <2>1, <2>7 DEF Ledger
    <3>3. e.from \in ToSet(graph.complete.nodes) /\ e.to \in ToSet(graph.complete.nodes)
      BY DEF Shown, EndsIn
    <3>4. y.from \in ToSet(graph.complete.nodes) /\ y.from[1] = y.link[1]
      BY <2>1, <2>7 DEF Rooted, Straight
    <3>5. \A n, m \in ToSet(graph.complete.nodes) : n[1] = m[1] => n = m
      <4>1. \A n \in ToSet(graph.complete.nodes) : graph.complete.reg[n[1]] = n
        <5>1. graph.complete.nodes \in Seq(NodeObjs)
          BY <1>1, GraphFields
        <5> QED
          BY <5>1 DEF Registry, ToSet
      <4> QED
        BY <4>1
    <3>6. e.from = z.from /\ e.to = z.to
      BY <2>4, <2>7, <3>1, <3>2, <3>3, <3>4, <3>5
    <3> QED
      BY <1>2, <1>3, <1>4, <3>1, <3>6 DEF Ledger
  <2>8. Thread("idle", y.try_cnt).pc = "idle"
    BY DEF Thread
  <2> QED
    BY <2>1, <2>5, <2>6, <2>7, <2>8
<1> QED
  BY <1>5, <1>6

\* Making the ends of a link, and the new edge or the one to modify.
LEMMA LedgerConnect ==
    ASSUME TypeInv, Registry(graph), Lists(graph), InStep(graph), Counting,
           NEW t \in Sources, Rooted(th[t], graph),
           Ledger(th[t], graph, nodeCnt, edgeCnt),
           addFrom(t) \/ addTo(t) \/ connect(t)
    PROVE  Ledger(th'[t], graph', nodeCnt', edgeCnt')
<1> DEFINE y == th[t]
           z == th'[t]
<1>1. /\ th \in [Sources -> Threads] /\ y \in Threads /\ graph \in Graph /\ Fit(y)
      /\ nodeCnt \in Int /\ edgeCnt \in Int
  BY DEF TypeInv
<1>2. y.pc \in {"addFrom", "addTo", "connect"}
  BY DEF addFrom, addTo, addEnd, connect
<1>3. Len(graph.complete.nodes) \in Nat /\ Cardinality(Shown(graph)) \in Nat
  BY <1>1, GraphFields, ShownCount
<1>4. nodeCnt = Len(graph.complete.nodes) /\ edgeCnt >= Cardinality(Shown(graph))
  <2>1. NodesDue(y) = 0 /\ EdgesDue(y, graph) = 0
    BY <1>2 DEF NodesDue, EdgesDue, Updating
  <2>2. Booked(y, graph, nodeCnt, edgeCnt)
    BY <1>2 DEF Ledger, Unopened
  <2> QED
    BY <1>1, <1>3, <2>1, <2>2 DEF Booked
<1>5. CASE addFrom(t) \/ addTo(t)
  <2>1. UNCHANGED <<nodeCnt, edgeCnt>>
    BY <1>5 DEF addFrom, addTo, addEnd
  <2>2. y.pc \in {"addFrom", "addTo"}
    BY <1>5 DEF addFrom, addTo, addEnd
  <2>3. CASE MoveOn(y, z) /\ UNCHANGED graph
    <3>1. z.pc \in {"addTo", "connect"}
      BY <2>2, <2>3 DEF MoveOn, Updating
    <3>2. NodesDue(z) = 0 /\ EdgesDue(z, graph') = 0
      BY <3>1 DEF NodesDue, EdgesDue, Updating
    <3>3. Booked(z, graph', nodeCnt', edgeCnt')
      BY <1>1, <1>3, <1>4, <2>1, <2>3, <3>2 DEF Booked
    <3> QED
      BY <3>1, <3>3 DEF Ledger, Orderly
  <2>4. CASE MoveNew(y, z)
    <3>1. PICK end, n, next :
             /\ MoveCreates(y, z, end, n, next) /\ end \in {"from", "to"}
             /\ end = "from" => y.pc = "addFrom"
             /\ end = "to" => y.pc = "addTo"
      BY <2>4 DEF MoveNew
    <3> DEFINE id == y.link[IF end = "from" THEN 1 ELSE 2]
    <3>2. y.link \in Links
      BY <1>1, <2>2 DEF Fit
    <3>3. id \in Ids
      BY <3>2, ViewerAssumption
    <3>4. /\ y[end] = NoNode /\ n \in FreeNodes(id)
          /\ graph' = Swept(addNode(WithNewNode(graph, n), n), th')
          /\ ~addNodeThrows(WithNewNode(graph, n), n) => z.pc = "upd" /\ z.op = y.pc
      BY <3>1 DEF MoveCreates
    <3>5. graph.complete.reg[id] = NoNode
      <4>1. Linked(y)
        BY <2>2 DEF Linked
      <4>2. CASE end = "from"
        BY <3>4, <4>1, <4>2 DEF Rooted
      <4>3. CASE end = "to"
        BY <3>4, <4>1, <4>3 DEF Rooted
      <4> QED
        BY <3>1, <4>2, <4>3
    <3> HIDE DEF id
    <3>6. /\ Shown(graph') = Shown(graph) /\ ~addNodeThrows(WithNewNode(graph, n), n)
          /\ Len(graph'.complete.nodes) = Len(graph.complete.nodes) + 1
      BY <3>3, <3>4, <3>5, BooksNewNode
    <3>7. z.pc = "upd" /\ z.op \in {"addFrom", "addTo"}
      BY <2>2, <3>4, <3>6
    <3>8. NodesDue(z) = 1 /\ EdgesDue(z, graph') = 0
      BY <3>7 DEF NodesDue, EdgesDue, Updating
    <3>9. Booked(z, graph', nodeCnt', edgeCnt')
      BY <1>1, <1>3, <1>4, <2>1, <3>6, <3>8 DEF Booked
    <3> QED
      BY <3>7, <3>9 DEF Ledger, Orderly
  <2> QED
    BY <1>5, <2>3, <2>4, EndMoves
<1>6. CASE connect(t)
  <2> DEFINE f == findEdge(graph, y.from, y.to)
             modify == y.tag = "modify_edge"
             e == IF modify THEN f ELSE NewEdge(y.from, y.to)
  <2>1. /\ z = [y EXCEPT !.pc = "addEdge", !.edge = e] /\ UNCHANGED <<graph, nodeCnt>>
        /\ edgeCnt' = IF modify THEN edgeCnt ELSE edgeCnt + 1
    BY <1>1, <1>6 DEF connect, Count
  <2>2. f \in ToSet(graph.visible.edges) \cup {NullEdge}
    <3> DEFINE i == SelectInSeq(graph.adj[y.from], LAMBDA x : x.to = y.to)
               c == graph.adj[y.from][i]
    <3>1. f = IF i # 0 /\ Contains(graph.visible.edges, c) THEN c ELSE NullEdge
      BY DEF findEdge
    <3>2. Contains(graph.visible.edges, c) => c \in ToSet(graph.visible.edges)
      BY <1>1, GraphFields, AppendRange
    <3> HIDE DEF c, i
    <3> QED
      BY <3>1, <3>2
  <2>3. modify => e \in ToSet(graph.visible.edges) \cup {NullEdge}
    BY <2>2
  <2> HIDE DEF e, f, modify
  <2>4. z.pc = "addEdge" /\ z.edge = e
    BY <1>1, <2>1 DEF Threads
  <2>5. NodesDue(z) = 0 /\ EdgesDue(z, graph') \in {0, 1} /\ (modify => EdgesDue(z, graph') = 0)
    BY <2>1, <2>3, <2>4 DEF NodesDue, EdgesDue, Updating
  <2>6. Booked(z, graph', nodeCnt', edgeCnt')
    <3>1. edgeCnt' >= Cardinality(Shown(graph)) + EdgesDue(z, graph')
      BY <1>1, <1>3, <1>4, <2>1, <2>5
    <3> QED
      BY <1>1, <1>3, <1>4, <2>1, <2>5, <3>1 DEF Booked
  <2> QED
    BY <2>4, <2>6 DEF Ledger, Orderly
<1> QED
  BY <1>5, <1>6

\* Adding the edge, and removing one.
LEMMA LedgerEdge ==
    ASSUME TypeInv, Lists(graph), InStep(graph),
           NEW t \in Sources, Straight(th[t]), Rooted(th[t], graph),
           Ledger(th[t], graph, nodeCnt, edgeCnt),
           addEdgeStep(t) \/ delEdge(t)
    PROVE  Ledger(th'[t], graph', nodeCnt', edgeCnt')
<1> DEFINE y == th[t]
           z == th'[t]
           C == Cardinality(Shown(graph))
<1>1. /\ th \in [Sources -> Threads] /\ y \in Threads /\ graph \in Graph /\ Fit(y)
      /\ nodeCnt \in Int /\ edgeCnt \in Int
  BY DEF TypeInv
<1>2. y.pc \in {"addEdge", "delEdge"} /\ UNCHANGED <<nodeCnt, edgeCnt>>
  BY DEF addEdgeStep, delEdge
<1>3. Len(graph.complete.nodes) \in Nat /\ IsFiniteSet(Shown(graph)) /\ C \in Nat
  BY <1>1, GraphFields, ShownCount
<1>4. nodeCnt = Len(graph.complete.nodes) /\ edgeCnt >= C + EdgesDue(y, graph)
  <2>1. NodesDue(y) = 0
    BY <1>2 DEF NodesDue, Updating
  <2>2. Booked(y, graph, nodeCnt, edgeCnt)
    BY <1>2 DEF Ledger, Unopened
  <2> QED
    BY <1>1, <1>3, <2>1, <2>2 DEF Booked
<1>5. CASE addEdgeStep(t)
  <2> DEFINE e == y.edge
             h == addEdge(graph, e)
  <2>1. y.pc = "addEdge" /\ graph' = Swept(h, th') /\ e \in EdgeObjs \cup {NullEdge}
    BY <1>1, <1>5, ThreadFields DEF addEdgeStep
  <2>2. CASE addEdgeThrows(graph, e)
    <3>1. z = Dropped(t)
      BY <1>1, <1>5, <2>2 DEF addEdgeStep
    <3>2. Dropped(t).pc \in {"dial", "ended"}
      BY DEF Dropped, Again, Thread
    <3>3. z.pc \in {"dial", "ended"}
      BY <3>1, <3>2
    <3> QED
      BY <3>3 DEF Ledger, Orderly, Unopened
  <2>3. CASE ~addEdgeThrows(graph, e)
    <3>1. z = [ToUpdate(t, "edge") EXCEPT !.from = NoNode, !.to = NoNode]
      BY <1>1, <1>5, <2>3 DEF addEdgeStep
    <3>2. z.pc = "upd" /\ z.op = "edge"
      BY <1>1, <3>1 DEF ToUpdate, Threads
    <3>3. NodesDue(z) = 0 /\ EdgesDue(z, graph') = 0
      BY <3>2 DEF NodesDue, EdgesDue, Updating
    <3>4. graph.visible.edges \in Seq(EdgeObjs \cup {NullEdge})
      BY <1>1, GraphFields
    <3>5. Contains(graph.visible.edges, e) <=> e \in ToSet(graph.visible.edges)
      BY <3>4, AppendRange
    <3>6. e # NullEdge \/ e \in ToSet(graph.visible.edges)
      BY <2>3, <3>5 DEF addEdgeThrows
    <3>7. EdgesDue(y, graph) = IF e \in ToSet(graph.visible.edges) THEN 0 ELSE 1
      BY <2>1, <3>6 DEF EdgesDue, Updating
    <3>8. e \in ToSet(graph.visible.edges) => h = graph
      BY <3>5 DEF addEdge
    <3> HIDE DEF e
    <3>9. h = addEdge(graph, e)
      OBVIOUS
    <3> HIDE DEF h
    <3>10. /\ h \in Graph /\ h.complete.nodes = graph.complete.nodes /\ h.hidden = graph.hidden
           /\ h.complete.edges \in {graph.complete.edges, Append(graph.complete.edges, e)}
      BY <1>1, <2>1, <3>9, AddEdgeShape DEF SameNodes
    <3>11. graph'.complete.nodes = graph.complete.nodes /\ Shown(graph') = Shown(h)
      BY <2>1, <3>10, SweptShown
    <3>12. Cardinality(Shown(h)) \in Nat /\ Cardinality(Shown(h)) <= C + EdgesDue(y, graph)
      <4>1. CASE e \in ToSet(graph.visible.edges)
        BY <1>3, <3>7, <3>8, <4>1
      <4>2. CASE e \notin ToSet(graph.visible.edges)
        <5>1. graph.complete.edges \in Seq(EdgeObjs)
          BY <1>1, GraphFields
        <5>2. ToSet(Append(graph.complete.edges, e)) = ToSet(graph.complete.edges) \cup {e}
          BY <5>1, AppendRange
        <5>3. Shown(h) \subseteq Shown(graph) \cup {e}
          BY <3>10, <5>2 DEF Shown
        <5>4. /\ IsFiniteSet(Shown(graph) \cup {e})
              /\ Cardinality(Shown(graph) \cup {e}) \in {C, C + 1}
          BY <1>3, FS_AddElement
        <5>5. /\ Cardinality(Shown(h)) \in Nat
              /\ Cardinality(Shown(h)) <= Cardinality(Shown(graph) \cup {e})
          BY <5>3, <5>4, FS_Subset, FS_CardinalityType
        <5> QED
          BY <1>3, <3>7, <4>2, <5>4, <5>5
      <4> QED
        BY <4>1, <4>2
    <3>13. EdgesDue(y, graph) \in Int
      BY <3>7
    <3>14. edgeCnt >= Cardinality(Shown(h))
      BY <1>1, <1>3, <1>4, <3>12, <3>13
    <3>15. Booked(z, graph', nodeCnt', edgeCnt')
      BY <1>1, <1>2, <1>3, <1>4, <3>3, <3>11, <3>12, <3>14 DEF Booked
    <3> QED
      BY <3>2, <3>15 DEF Ledger, Orderly
  <2> QED
    BY <2>2, <2>3
<1>6. CASE delEdge(t)
  <2> DEFINE e == findEdge(graph, y.from, y.to)
             h == deleteEdge(graph, e)
  <2>1. /\ y.pc = "delEdge" /\ y.from \in NodeObjs /\ y.to \in NodeObjs /\ graph' = Swept(h, th')
        /\ z = [ToUpdate(t, "remove_edge") EXCEPT !.from = NoNode, !.to = NoNode]
    BY <1>1, <1>6 DEF delEdge, Fit
  <2>2. z.pc = "upd" /\ z.op = "remove_edge"
    BY <1>1, <2>1 DEF ToUpdate, Threads
  <2>3. y.from \in ToSet(graph.complete.nodes)
    BY <2>1, GraphAssumption DEF Rooted, Linked
  <2>4. TiesLast(graph) /\ \E f \in Shown(graph) : f.from = y.from /\ f.to = y.to
    BY <2>1 DEF Ledger, Orderly
  <2>5. e \in EdgeObjs /\ e \in Shown(graph)
    BY <1>1, <2>1, <2>3, <2>4, FindsShown
  <2> HIDE DEF e
  <2>6. h = deleteEdge(graph, e)
    OBVIOUS
  <2> HIDE DEF h
  <2>7. /\ h \in Graph /\ h.complete.nodes = graph.complete.nodes
        /\ h.complete.edges = RemoveFirst(graph.complete.edges, e)
        /\ graph.hidden \subseteq h.hidden
    BY <1>1, <2>5, <2>6, DeleteEdgeShape DEF SameNodes
  <2>8. graph'.complete.nodes = graph.complete.nodes /\ Shown(graph') = Shown(h)
    BY <2>1, <2>7, SweptShown
  <2>9. Shown(h) \subseteq Shown(graph) \ {e}
    <3>1. ToSet(h.complete.edges) = ToSet(graph.complete.edges) \ {e}
      BY <1>1, <2>5, <2>7, GraphFields, OnceLists DEF Lists
    <3> QED
      BY <2>7, <3>1 DEF Shown
  <2>10. IsFiniteSet(Shown(graph) \ {e}) /\ Cardinality(Shown(graph) \ {e}) = C - 1
    BY <1>3, <2>5, FS_RemoveElement
  <2>11. Cardinality(Shown(h)) \in Nat /\ Cardinality(Shown(h)) <= C - 1
    BY <2>9, <2>10, FS_Subset, FS_CardinalityType
  <2>12. NodesDue(z) = 0 /\ EdgesDue(z, graph') = 1 /\ EdgesDue(y, graph) = 0
    BY <2>1, <2>2 DEF NodesDue, EdgesDue, Updating
  <2>13. edgeCnt >= Cardinality(Shown(h)) + 1
    BY <1>1, <1>3, <1>4, <2>11, <2>12
  <2>14. Booked(z, graph', nodeCnt', edgeCnt')
    BY <1>1, <1>2, <1>3, <1>4, <2>8, <2>11, <2>12, <2>13 DEF Booked
  <2> QED
    BY <2>2, <2>14 DEF Ledger, Orderly
<1> QED
  BY <1>5, <1>6

\* A list with an element at its end.
LEMMA AppendAt ==
    ASSUME NEW S, NEW s \in Seq(S), NEW e \in S
    PROVE  /\ Len(Append(s, e)) = Len(s) + 1 /\ Append(s, e)[Len(s) + 1] = e
           /\ \A i \in 1..Len(s) : Append(s, e)[i] = s[i]
OBVIOUS

\* Adding a tie leaves the ties last in every list and nothing else on screen.
LEMMA TieShown ==
    ASSUME NEW g \in Graph, Lists(g), InStep(g), TiesLast(g), NEW e \in EdgeObjs,
           e.from # e.to, e \notin ToSet(g.complete.edges),
           NEW f \in Graph, f.complete = g.complete, f.visible = g.visible, f.adj = g.adj,
           f.hidden = g.hidden \cup {e}, NEW h, h = addEdge(f, e)
    PROVE  /\ h \in Graph /\ h.complete.nodes = g.complete.nodes
           /\ Shown(h) \subseteq Shown(g) /\ Lists(h) /\ TiesLast(h)
<1>1. /\ f \in Graph /\ f.complete = g.complete /\ f.visible = g.visible /\ f.adj = g.adj
      /\ f.hidden = g.hidden \cup {e}
  OBVIOUS
<1>2. /\ h \in Graph /\ h.complete.nodes = g.complete.nodes /\ h.hidden = g.hidden \cup {e}
      /\ h.complete.edges \in {g.complete.edges, Append(g.complete.edges, e)}
  <2>1. /\ h \in Graph /\ SameNodes(f, h) /\ h.hidden = f.hidden
        /\ h.complete.edges \in {f.complete.edges, Append(f.complete.edges, e)}
    <3>1. f \in Graph /\ e \in EdgeObjs \cup {NullEdge} /\ h = addEdge(f, e)
      BY <1>1
    <3> QED
      BY <3>1, AddEdgeShape
  <2> QED
    BY <1>1, <2>1 DEF SameNodes
<1>3. Shown(h) \subseteq Shown(g)
  <2>1. g.complete.edges \in Seq(EdgeObjs)
    BY GraphFields
  <2>2. ToSet(Append(g.complete.edges, e)) = ToSet(g.complete.edges) \cup {e}
    BY <2>1, AppendRange
  <2> QED
    BY <1>2, <2>2 DEF Shown
<1>4. Lists(f) /\ InStep(f)
  BY <1>1, ListsSame
<1>5. Lists(h)
  BY <1>1, <1>4, AddEdgeLists
<1>6. \A n \in NodeObjs : h.adj[n] \in {g.adj[n], Append(g.adj[n], e)}
  <2>1. CASE Contains(f.visible.edges, e)
    <3>1. h = f
      BY <2>1 DEF addEdge
    <3> QED
      BY <1>1, <3>1
  <2>2. CASE ~Contains(f.visible.edges, e)
    <3> DEFINE f1 == [f EXCEPT !.visible = SetAddEdge(@, e)]
    <3>1. h = CompleteAddEdge(f1, e)
      BY <2>2 DEF addEdge
    <3>2. SetAddEdge(f.visible, e) \in EltSets(EdgeObjs \cup {NullEdge})
      <4>1. Append(f.visible.edges, e) \in Seq(EdgeObjs \cup {NullEdge})
        BY <1>1, GraphFields
      <4> QED
        BY <1>1, <4>1, GraphFields DEF SetAddEdge, EltSets
    <3>3. f1 \in Graph /\ f1.complete = f.complete /\ f1.adj = f.adj
      BY <1>1, <3>2 DEF Graph
    <3> HIDE DEF f1
    <3>4. ~Contains(f1.complete.edges, e)
      <4>1. f1.complete.edges \in Seq(EdgeObjs) /\ e \notin ToSet(f1.complete.edges)
        BY <1>1, <3>3, GraphFields
      <4> QED
        BY <4>1, AppendRange
    <3>5. \A n \in NodeObjs : h.adj[n] = IF n \in {e.from, e.to} THEN Append(f1.adj[n], e)
                                         ELSE f1.adj[n]
      BY <3>1, <3>3, <3>4, CompleteAddEdgeLists
    <3> QED
      BY <1>1, <3>3, <3>5, ZenonT(30)
  <2> QED
    BY <2>1, <2>2
<1>7. TiesLast(h)
  <2> SUFFICES ASSUME NEW n \in ToSet(g.complete.nodes),
                      NEW j \in 1..Len(h.adj[n]), NEW k \in 1..Len(h.adj[n]),
                      j < k, h.adj[n][j] \in h.hidden
               PROVE  h.adj[n][k] \in h.hidden
    BY <1>2 DEF TiesLast
  <2> DEFINE s == g.adj[n]
             r == h.adj[n]
  <2>1. n \in NodeObjs
    BY GraphFields DEF ToSet
  <2>2. s \in Seq(EdgeObjs) /\ Len(s) \in Nat
    BY <2>1, GraphFields
  <2>3. ToSet(s) \subseteq ToSet(g.complete.edges)
    BY DEF Lists
  <2>4. \A i, l \in 1..Len(s) : i < l /\ s[i] \in g.hidden => s[l] \in g.hidden
    BY DEF TiesLast
  <2>5. r = s \/ r = Append(s, e)
    BY <1>6, <2>1
  <2>6. j \in 1..Len(r) /\ k \in 1..Len(r) /\ j < k /\ r[j] \in h.hidden
    OBVIOUS
  <2> HIDE DEF s, r
  <2>7. /\ Len(Append(s, e)) = Len(s) + 1 /\ Append(s, e)[Len(s) + 1] = e
        /\ \A i \in 1..Len(s) : Append(s, e)[i] = s[i]
    BY <2>2, AppendAt
  <2>8. \A i \in 1..Len(s) : s[i] # e
    <3>1. \A i \in 1..Len(s) : s[i] \in ToSet(s)
      BY <2>2 DEF ToSet
    <3> QED
      BY <2>3, <3>1
  <2>9. Len(r) \in {Len(s), Len(s) + 1} /\ \A i \in 1..Len(s) : r[i] = s[i]
    BY <2>5, <2>7
  <2>10. CASE k \in 1..Len(s)
    <3>1. j \in 1..Len(s)
      BY <2>2, <2>6, <2>9, <2>10
    <3> QED
      BY <1>2, <2>4, <2>6, <2>8, <2>9, <2>10, <3>1 DEF r
  <2>11. CASE k \notin 1..Len(s)
    <3>1. k = Len(s) + 1 /\ Len(r) # Len(s)
      BY <2>2, <2>6, <2>9, <2>11
    <3>2. r[k] = e
      BY <2>5, <2>7, <3>1
    <3> QED
      BY <1>2, <3>2 DEF r
  <2> QED
    BY <2>10, <2>11
<1> QED
  BY <1>2, <1>3, <1>5, <1>7

\* The steps of updatePartitions.
LEMMA LedgerUpdate ==
    ASSUME TypeInv, Lists(graph), InStep(graph), EdgeInv, Counting,
           NEW t \in Sources, Straight(th[t]), Tied(th'[t], graph'), Lists(graph'),
           graph' \in Graph, Ledger(th[t], graph, nodeCnt, edgeCnt),
           \/ upd(t) \/ del(t) \/ delHidden(t) \/ count(t) \/ scan(t) \/ tie(t) \/ done(t)
    PROVE  Ledger(th'[t], graph', nodeCnt', edgeCnt')
<1> DEFINE y == th[t]
           z == th'[t]
           C == Cardinality(Shown(graph))
           N == Len(graph.complete.nodes)
<1>1. /\ th \in [Sources -> Threads] /\ y \in Threads /\ graph \in Graph /\ Fit(y)
      /\ nodeCnt \in Int /\ edgeCnt \in Int
  BY DEF TypeInv
<1>2. y.pc \in Updating /\ y.pc \notin Unopened
  BY DEF upd, del, delHidden, count, scan, tie, done, Updating, Unopened
<1>3. N \in Nat /\ C \in Nat
  BY <1>1, GraphFields, ShownCount
<1>4. nodeCnt + NodesDue(y) = N /\ edgeCnt >= C + EdgesDue(y, graph)
  BY <1>2 DEF Ledger, Booked
<1>5. Dropped(t).pc \in {"dial", "ended"} /\ \A k : Thread("idle", k).pc = "idle"
  BY DEF Dropped, Again, Thread
<1>6. NodesDue(y) \in Int /\ EdgesDue(y, graph) \in {0, 1}
  BY DEF NodesDue, EdgesDue
<1>7. ASSUME z.pc \in Updating, z.op = y.op, UNCHANGED <<nodeCnt, edgeCnt>>,
             graph'.complete.nodes = graph.complete.nodes, Shown(graph') \subseteq Shown(graph),
             z.pc \in {"tie", "done"} => TiesLast(graph')
      PROVE  Ledger(z, graph', nodeCnt', edgeCnt')
  <2>1. NodesDue(z) = NodesDue(y) /\ EdgesDue(z, graph') = EdgesDue(y, graph)
    BY <1>2, <1>7 DEF NodesDue, EdgesDue, Updating
  <2>2. edgeCnt >= Cardinality(Shown(graph')) + EdgesDue(y, graph)
    BY <1>1, <1>4, <1>6, <1>7, BooksBalance
  <2>3. Booked(z, graph', nodeCnt', edgeCnt')
    BY <1>4, <1>7, <2>1, <2>2 DEF Booked
  <2>4. ASSUME z.pc \in {"count", "scan"} PROVE TiesLast(graph')
    <3>1. TiesOf(graph') = {}
      BY <2>4 DEF Tied
    <3>2. ASSUME NEW n \in ToSet(graph'.complete.nodes), NEW j \in 1..Len(graph'.adj[n])
          PROVE  graph'.adj[n][j] \notin graph'.hidden
      <4>1. n \in NodeObjs
        BY GraphFields DEF ToSet
      <4>2. graph'.adj[n] \in Seq(EdgeObjs)
        BY <4>1, GraphFields
      <4>3. graph'.adj[n][j] \in ToSet(graph'.adj[n])
        BY <4>2 DEF ToSet
      <4>4. graph'.adj[n][j] \in ToSet(graph'.complete.edges)
        BY <4>3 DEF Lists
      <4> QED
        BY <3>1, <4>4 DEF TiesOf
    <3> QED
      BY <3>2 DEF TiesLast
  <2>5. z.pc \notin {"idle", "findTo", "delEdge", "delNode", "begin"}
    BY <1>7 DEF Updating
  <2> QED
    BY <1>7, <2>3, <2>4, <2>5 DEF Ledger, Orderly
<1>8. ASSUME z = Dropped(t) PROVE Ledger(z, graph', nodeCnt', edgeCnt')
  BY <1>5, <1>8 DEF Ledger, Orderly, Unopened
<1>9. CASE upd(t) \/ del(t) \/ scan(t)
  <2>1. UNCHANGED <<graph, nodeCnt, edgeCnt>>
    BY <1>9 DEF upd, del, scan
  <2>2. z = Dropped(t) \/ (z.pc \in {"del", "count", "delHidden"} /\ z.op = y.op)
    <3>1. CASE upd(t)
      <4> DEFINE L == Len(graph.complete.edges)
      <4>1. z = [y EXCEPT !.pc = "del", !.i = L]
        BY <1>1, <3>1 DEF upd
      <4> HIDE DEF L
      <4> QED
        BY <1>1, <4>1 DEF Threads
    <3>2. CASE del(t)
      <4> DEFINE i == y.i - 1
                 e == graph.complete.edges[y.i]
                 a == [y EXCEPT !.pc = "count", !.i = 1]
                 b == [y EXCEPT !.pc = "delHidden", !.edge = e, !.i = i]
                 c == [y EXCEPT !.i = i]
      <4>1. y.pc = "del" /\ (z = a \/ z = Dropped(t) \/ z = b \/ z = c)
        BY <1>1, <3>2 DEF del
      <4> HIDE DEF i, e
      <4>2. /\ a.pc = "count" /\ a.op = y.op /\ b.pc = "delHidden" /\ b.op = y.op
            /\ c.pc = y.pc /\ c.op = y.op
        BY <1>1 DEF Threads
      <4> HIDE DEF a, b, c
      <4> QED
        BY <4>1, <4>2
    <3>3. CASE scan(t)
      <4>1. \/ z = Dropped(t)
            \/ \E j, p : z = [y EXCEPT !.pc = "count", !.i = j, !.partitions = p]
        BY <1>1, <3>3 DEF scan
      <4> QED
        BY <1>1, <4>1 DEF Threads
    <3> QED
      BY <1>9, <3>1, <3>2, <3>3
  <2> QED
    BY <1>7, <1>8, <2>1, <2>2 DEF Updating
<1>10. CASE count(t)
  <2> DEFINE a == [y EXCEPT !.pc = "tie", !.i = 2]
             b == [y EXCEPT !.pc = "scan"]
  <2>1. (z = a \/ z = b) /\ y.pc = "count" /\ UNCHANGED <<graph, nodeCnt, edgeCnt>>
    BY <1>1, <1>10 DEF count
  <2>2. a.pc = "tie" /\ a.op = y.op /\ b.pc = "scan" /\ b.op = y.op
    BY <1>1 DEF Threads
  <2> HIDE DEF a, b
  <2>3. TiesLast(graph)
    BY <2>1 DEF Ledger, Orderly
  <2> QED
    BY <1>7, <2>1, <2>2, <2>3 DEF Updating
<1>11. CASE delHidden(t)
  <2> DEFINE e == y.edge
             h == deleteEdge(graph, e)
  <2>1. /\ z = [y EXCEPT !.pc = "del", !.edge = NullEdge] /\ y.pc = "delHidden"
        /\ graph' = Swept(h, th') /\ UNCHANGED <<nodeCnt, edgeCnt>>
    BY <1>1, <1>11 DEF delHidden
  <2>2. z.pc = "del" /\ z.op = y.op
    BY <1>1, <2>1 DEF Threads
  <2>3. e \in EdgeObjs
    BY <1>1, <2>1 DEF Fit
  <2> HIDE DEF e
  <2>4. h = deleteEdge(graph, e)
    OBVIOUS
  <2> HIDE DEF h
  <2>5. /\ h \in Graph /\ h.complete.nodes = graph.complete.nodes
        /\ h.complete.edges = RemoveFirst(graph.complete.edges, e)
        /\ graph.hidden \subseteq h.hidden
    BY <1>1, <2>3, <2>4, DeleteEdgeShape DEF SameNodes
  <2>6. ToSet(h.complete.edges) \subseteq ToSet(graph.complete.edges)
    BY <1>1, <2>5, GraphFields, RemoveFirstRange
  <2>7. graph'.complete.nodes = graph.complete.nodes /\ Shown(graph') \subseteq Shown(graph)
    <3>1. graph'.complete = h.complete /\ Shown(graph') = Shown(h)
      BY <2>1, <2>5, SweptShown
    <3> QED
      BY <2>5, <2>6, <3>1 DEF Shown
  <2> QED
    BY <1>7, <2>1, <2>2, <2>7 DEF Updating
<1>12. CASE tie(t)
  <2> DEFINE p == y.partitions
             i == y.i
  <2>1. y.pc = "tie" /\ i >= 2 /\ UNCHANGED <<nodeCnt, edgeCnt>>
    BY <1>1, <1>12 DEF tie, Fit
  <2>2. TiesLast(graph)
    BY <2>1 DEF Ledger, Orderly
  <2>3. CASE i > Len(p)
    <3>1. z = [y EXCEPT !.pc = "done", !.partitions = <<>>, !.i = 0] /\ UNCHANGED graph
      BY <1>1, <1>12, <2>3 DEF tie
    <3>2. z.pc = "done" /\ z.op = y.op
      BY <1>1, <3>1 DEF Threads
    <3> QED
      BY <1>7, <2>1, <2>2, <3>1, <3>2 DEF Updating
  <2>4. CASE ~(i > Len(p))
    <3> DEFINE n == p[i - 1]
               m == p[i]
               e == NewEdge(n, m)
               g == [graph EXCEPT !.hidden = @ \cup {e}]
               h == addEdge(g, e)
    <3>1. z = [y EXCEPT !.i = i + 1] /\ graph' = Swept(h, th')
      BY <1>1, <1>12, <2>4 DEF tie
    <3>2. i \in Nat /\ Len(p) \in Nat
      BY <1>1, ThreadFields
    <3>3. i <= Len(p) /\ i - 1 \in 1..Len(p) /\ i \in 1..Len(p) /\ i - 1 # i
      BY <2>1, <2>4, <3>2
    <3>4. n \in NodeObjs /\ m \in NodeObjs
      BY <1>1, <2>1, <3>3, TieNodes
    <3>5. n # m
      BY <3>3 DEF Straight, Once
    <3>6. z.pc = "tie" /\ z.op = y.op
      BY <1>1, <2>1, <3>1 DEF Threads
    <3> HIDE DEF n, m
    <3>7. e \in EdgeObjs /\ e.from = n /\ e.to = m /\ e \notin Held(th, graph).edges
      BY <3>4, NewEdgeShape
    <3>8. e \notin ToSet(graph.complete.edges)
      BY <3>7, HeldEdges, GraphAssumption
    <3> HIDE DEF e
    <3>9. e.from # e.to
      BY <3>5, <3>7
    <3>10. /\ g \in Graph /\ g.complete = graph.complete /\ g.visible = graph.visible
           /\ g.adj = graph.adj /\ g.hidden = graph.hidden \cup {e} /\ h = addEdge(g, e)
      BY <1>1, <3>7, HideNewShape
    <3> HIDE DEF g, h
    <3>11. /\ h \in Graph /\ h.complete.nodes = graph.complete.nodes
           /\ Shown(h) \subseteq Shown(graph) /\ Lists(h) /\ TiesLast(h)
      BY <1>1, <2>2, <3>7, <3>8, <3>9, <3>10, TieShown
    <3>12. graph'.complete = h.complete /\ Shown(graph') = Shown(h) /\ TiesLast(graph')
      BY <3>1, <3>11, SweptShown
    <3> QED
      BY <1>7, <2>1, <3>6, <3>11, <3>12 DEF Updating
  <2> QED
    BY <2>3, <2>4
<1>13. CASE done(t)
  <2> DEFINE op == y.op
             a == [y EXCEPT !.pc = "addTo", !.op = ""]
             b == [y EXCEPT !.pc = "connect", !.op = ""]
             x == CASE op = "addFrom" -> a [] op = "addTo" -> b
                    [] OTHER -> Thread("idle", y.try_cnt)
  <2>1. /\ th' = [th EXCEPT ![t] = x] /\ UNCHANGED graph /\ y.pc = "done"
        /\ nodeCnt' = CASE op \in {"node", "addFrom", "addTo"} -> nodeCnt + 1
                        [] op = "remove_node" -> nodeCnt + -1
                        [] OTHER -> nodeCnt
        /\ edgeCnt' = IF op = "remove_edge" THEN edgeCnt + -1 ELSE edgeCnt
    BY <1>1, <1>13 DEF done, Count
  <2>2. z.pc \in {"addTo", "connect", "idle"}
    <3>1. a.pc = "addTo" /\ b.pc = "connect" /\ Thread("idle", y.try_cnt).pc = "idle"
      BY <1>1, <1>5 DEF Threads
    <3>2. x.pc \in {"addTo", "connect", "idle"}
      <4> HIDE DEF a, b, y, op
      <4> QED
        BY <3>1
    <3>3. z = x
      BY <1>1, <2>1
    <3> HIDE DEF x
    <3> QED
      BY <3>2, <3>3
  <2> HIDE DEF x
  <2>3. TiesLast(graph)
    BY <2>1 DEF Ledger, Orderly
  <2>4. NodesDue(z) = 0 /\ EdgesDue(z, graph') = 0
    BY <2>2 DEF NodesDue, EdgesDue, Updating
  <2>5. /\ NodesDue(y) = IF op \in {"node", "addFrom", "addTo"} THEN 1
                         ELSE IF op = "remove_node" THEN -1 ELSE 0
        /\ EdgesDue(y, graph) = IF op = "remove_edge" THEN 1 ELSE 0
    BY <2>1 DEF NodesDue, EdgesDue, Updating
  <2> HIDE DEF op
  <2>6. nodeCnt' = nodeCnt + NodesDue(y)
    BY <1>1, <2>1, <2>5
  <2>7. edgeCnt' >= C
    BY <1>1, <1>3, <1>4, <2>1, <2>5
  <2>8. nodeCnt' = N /\ edgeCnt' \in Int
    BY <1>1, <1>4, <2>1, <2>6
  <2>9. Booked(z, graph', nodeCnt', edgeCnt')
    BY <1>3, <2>1, <2>4, <2>7, <2>8 DEF Booked
  <2> QED
    BY <2>1, <2>2, <2>3, <2>9 DEF Ledger, Orderly
<1> QED
  BY <1>9, <1>10, <1>11, <1>12, <1>13

\* The books of a single careful source balance in every state the viewer reaches.
LEMMA LedgerInvariance ==
    ASSUME \E s : Sources = {s}, Careful, Counting
    PROVE  Spec => []\A t \in Sources : Ledger(th[t], graph, nodeCnt, edgeCnt)
<1> DEFINE Books == \A t \in Sources : Ledger(th[t], graph, nodeCnt, edgeCnt)
           TieInv == \A t \in Sources : Tied(th[t], graph)
           Base == TypeInv /\ Registry(graph) /\ EdgeInv /\ TidyInv /\ RootedInv
<1>1. Init => Books
  <2> SUFFICES ASSUME Init, NEW t \in Sources PROVE Ledger(th[t], graph, nodeCnt, edgeCnt)
    OBVIOUS
  <2>1. th[t].pc = "off"
    BY DEF Init, Thread
  <2> QED
    BY <2>1 DEF Ledger, Orderly, Unopened
<1>2. Base /\ TypeInv' /\ TidyInv' /\ TieInv' /\ Books /\ [Next]_vars => Books'
  <2> SUFFICES ASSUME Base, TypeInv', TidyInv', TieInv', Books, [Next]_vars PROVE Books'
    OBVIOUS
  <2>1. CASE Next
    <3>1. PICK t \in Sources :
             \/ Connect(t) \/ startDocument(t) \/ refused(t) \/ endDocument(t)
             \/ Element(t) \/ Step(t)
      BY <2>1 DEF Next
    <3>2. Sources = {t}
      OBVIOUS
    <3>3. /\ TypeInv /\ Registry(graph) /\ EdgeInv /\ OwnEdges(graph)
          /\ Lists(graph) /\ InStep(graph) /\ EndsIn(graph)
          /\ Straight(th[t]) /\ Rooted(th[t], graph)
          /\ Ledger(th[t], graph, nodeCnt, edgeCnt)
      BY DEF TidyInv, RootedInv, EdgeInv
    <3>4. graph' \in Graph /\ Lists(graph') /\ Tied(th'[t], graph')
      BY DEF TypeInv, TidyInv
    <3>5. CASE Connect(t) \/ startDocument(t) \/ refused(t) \/ endDocument(t) \/ topology(t)
      BY <3>2, <3>3, <3>5, LedgerOpen
    <3>6. CASE \/ \E id \in Ids : node(t, id) \/ modify_node(t, id) \/ remove_node(t, id)
               \/ delNode(t)
      BY <3>2, <3>3, <3>6, LedgerNode
    <3>7. CASE \/ \E tag \in {"edge", "modify_edge", "remove_edge"}, link \in Links :
                     edgeElement(t, tag, link)
               \/ findTo(t)
      BY <3>2, <3>3, <3>7, LedgerFind
    <3>8. CASE addFrom(t) \/ addTo(t) \/ connect(t)
      BY <3>2, <3>3, <3>8, LedgerConnect
    <3>9. CASE addEdgeStep(t) \/ delEdge(t)
      BY <3>2, <3>3, <3>9, LedgerEdge
    <3>10. CASE upd(t) \/ del(t) \/ delHidden(t) \/ count(t) \/ scan(t) \/ tie(t) \/ done(t)
      BY <3>2, <3>3, <3>4, <3>10, LedgerUpdate
    <3> QED
      BY <3>1, <3>5, <3>6, <3>7, <3>8, <3>9, <3>10 DEF Element, Step
  <2>2. CASE UNCHANGED vars
    BY <2>2 DEF vars
  <2> QED
    BY <2>1, <2>2
<1>3. Spec => []Base
  BY RootedInvariance
<1>4. Spec => []TieInv
  <2>1. Spec => [](TypeInv /\ TieInv)
    BY TiedInvariance
  <2> HIDE DEF TieInv
  <2> QED
    BY <2>1, PTL
<1> HIDE DEF Books, TieInv
<1>5. Spec => []Books
  BY <1>1, <1>2, <1>3, <1>4, PTL DEF Spec
<1> QED
  BY <1>5 DEF Books

\* JTopoStatusBar: a single source that modifies and removes only what is there is
\* shown the right number of nodes between two elements, and never too few edges,
\* although every element is counted long after, or before, the graph has changed.
THEOREM ViewerCounters ==
    ASSUME \E s : Sources = {s}, Careful
    PROVE  Spec => []CountersAgree
<1> DEFINE Books == \A t \in Sources : Ledger(th[t], graph, nodeCnt, edgeCnt)
<1>1. CASE Counting
  <2>1. TypeInv /\ Books => CountersAgree
    <3> SUFFICES ASSUME TypeInv, Books, NEW t \in Sources, th[t].pc = "idle"
                 PROVE  /\ nodeCnt = Len(graph.complete.nodes)
                        /\ edgeCnt >= Cardinality(Edges \ graph.hidden)
      BY DEF CountersAgree
    <3>1. Booked(th[t], graph, nodeCnt, edgeCnt)
      BY DEF Ledger, Unopened
    <3>2. NodesDue(th[t]) = 0 /\ EdgesDue(th[t], graph) = 0
      BY DEF NodesDue, EdgesDue, Updating
    <3>3. Cardinality(Shown(graph)) \in Nat /\ nodeCnt \in Int /\ Shown(graph) = Edges \ graph.hidden
      BY ShownCount DEF TypeInv, Shown, Edges
    <3> QED
      BY <3>1, <3>2, <3>3 DEF Booked
  <2>2. Spec => []Books
    BY <1>1, LedgerInvariance
  <2> HIDE DEF Books
  <2> QED
    BY <2>1, <2>2, Invariance, PTL
<1>2. CASE ~Counting
  <2>1. CountersAgree
    BY <1>2 DEF CountersAgree
  <2> QED
    BY <2>1, PTL
<1> QED
  BY <1>1, <1>2

-----------------------------------------------------------------------------
(* Clearing the graph *)

\* findEdge finds an edge whenever the graph has one, on screen or not.
LEMMA FindsEdge ==
    ASSUME NEW g \in Graph, Lists(g), InStep(g),
           NEW n \in ToSet(g.complete.nodes), NEW m \in NodeObjs,
           NEW e \in ToSet(g.complete.edges), e.from = n, e.to = m
    PROVE  findEdge(g, n, m) \in EdgeObjs
<1> DEFINE s == g.adj[n]
           I == {i \in 1..Len(s) : s[i].to = m}
           d == SelectInSeq(s, LAMBDA x : x.to = m)
<1>1. n \in NodeObjs /\ g.complete.edges \in Seq(EdgeObjs)
  BY GraphFields DEF ToSet
<1>2. s \in Seq(EdgeObjs) /\ g.visible.edges \in Seq(EdgeObjs \cup {NullEdge})
  BY <1>1, GraphFields
<1>3. e \in ToSet(s) /\ ToSet(s) \subseteq ToSet(g.complete.edges)
  BY DEF Lists
<1>4. PICK k \in 1..Len(s) : s[k] = e
  BY <1>2, <1>3 DEF ToSet
<1>5. findEdge(g, n, m) = IF d # 0 /\ Contains(g.visible.edges, s[d]) THEN s[d] ELSE NullEdge
  BY DEF findEdge
<1> HIDE DEF s
<1>6. k \in I
  BY <1>4
<1>7. d = Min(I) /\ I \in SUBSET Nat
  BY <1>6 DEF SelectInSeq
<1> HIDE DEF d
<1>8. d \in I
  <2> HIDE DEF I
  <2> QED
    BY <1>6, <1>7, MinIn
<1>9. d \in 1..Len(s) /\ d # 0 /\ s[d] \in EdgeObjs
  BY <1>2, <1>8
<1>10. s[d] \in ToSet(g.complete.edges)
  <2>1. s[d] \in ToSet(s)
    BY <1>2, <1>9 DEF ToSet
  <2> QED
    BY <1>3, <2>1
<1>11. s[d] \in ToSet(g.visible.edges)
  BY <1>2, <1>10, RemoveFirstRange DEF InStep
<1>12. Contains(g.visible.edges, s[d])
  BY <1>2, <1>11, AppendRange
<1> QED
  BY <1>5, <1>9, <1>12

Found == {"addFrom", "addTo", "connect"}

\* What a modify_edge of a careful source is about: an edge of the graph, first by
\* the IDs of its ends, then by the ends, so that none of them is created.
Meant(x, g) ==
    x.tag = "modify_edge" =>
       /\ x.pc = "findTo" =>
             \E e \in ToSet(g.complete.edges) : e.from[1] = x.link[1] /\ e.to[1] = x.link[2]
       /\ x.pc \in Found => \E e \in ToSet(g.complete.edges) : e.from = x.from /\ e.to = x.to
       /\ x.pc \in Updating => x.op \notin {"addFrom", "addTo"}

\* No null edge on screen, and none on its way there.
NoNullEdge(x, g) ==
    /\ NullEdge \notin ToSet(g.visible.edges)
    /\ x.pc = "addEdge" => x.edge # NullEdge

\* The element names an edge of the graph, and with one source the graph stays
\* as it is until the edge has been looked up.
LEMMA MeantStep ==
    ASSUME TypeInv, Registry(graph), TidyInv, RootedInv, Careful,
           NEW t \in Sources, Meant(th[t], graph), NoNullEdge(th[t], graph),
           \/ Connect(t) \/ startDocument(t) \/ refused(t) \/ endDocument(t)
           \/ Element(t) \/ Step(t)
    PROVE  Meant(th'[t], graph')
<1> DEFINE y == th[t]
           z == th'[t]
           E == ToSet(graph.complete.edges)
           N == ToSet(graph.complete.nodes)
<1>1. /\ th \in [Sources -> Threads] /\ y \in Threads /\ graph \in Graph /\ Fit(y)
      /\ InStep(graph) /\ EndsIn(graph) /\ Straight(y) /\ Rooted(y, graph)
  BY DEF TypeInv, TidyInv, RootedInv
<1>2. \A e \in E : e.from \in NodeObjs /\ e.to \in NodeObjs /\ e.from \in N /\ e.to \in N
  <2>1. graph.complete.edges \in Seq(EdgeObjs)
    BY <1>1, GraphFields
  <2>2. \A e \in E : e \in EdgeObjs
    BY <2>1 DEF ToSet
  <2> QED
    BY <1>1, <2>2 DEF EndsIn, EdgeObjs
<1>3. \A n \in N : n # NoNode /\ graph.complete.reg[n[1]] = n
  <2>1. graph.complete.nodes \in Seq(NodeObjs)
    BY <1>1, GraphFields
  <2> QED
    BY <2>1, GraphAssumption DEF Registry, ToSet
<1>4. CASE \E tag \in {"edge", "modify_edge", "remove_edge"}, link \in Links :
                edgeElement(t, tag, link)
  <2>1. PICK tag \in {"edge", "modify_edge", "remove_edge"}, link \in Links :
             edgeElement(t, tag, link)
    BY <1>4
  <2>2. /\ z = [y EXCEPT !.pc = "findTo", !.tag = tag, !.link = link, !.from = findNode(graph, link[1])]
        /\ UNCHANGED graph
    BY <1>1, <2>1 DEF edgeElement
  <2>3. z.pc = "findTo" /\ z.tag = tag /\ z.link = link
    BY <1>1, <2>2 DEF Threads
  <2>4. ASSUME tag = "modify_edge"
        PROVE  \E e \in E : e.from[1] = link[1] /\ e.to[1] = link[2]
    <3>1. PICK e \in EdgesOf(graph) \ graph.hidden : <<e.from[1], e.to[1]>> = link
      BY <2>1, <2>4 DEF edgeElement
    <3>2. e \in E
      <4>1. graph.visible.edges \in Seq(EdgeObjs \cup {NullEdge})
        BY <1>1, GraphFields
      <4>2. ToSet(graph.visible.edges) \ {NullEdge} \subseteq E
        BY <1>1, <4>1, RemoveFirstRange DEF InStep
      <4> QED
        BY <4>2 DEF EdgesOf
    <3>3. link[1] = e.from[1] /\ link[2] = e.to[1]
      BY <3>1
    <3> QED
      BY <3>2, <3>3
  <2>5. z.pc \notin Found /\ z.pc \notin Updating
    BY <2>3 DEF Found, Updating
  <2> QED
    BY <2>2, <2>3, <2>4, <2>5 DEF Meant
<1>5. CASE ~\E tag \in {"edge", "modify_edge", "remove_edge"}, link \in Links :
                 edgeElement(t, tag, link)
  <2> SUFFICES ASSUME z.tag = "modify_edge" PROVE Meant(z, graph')
    BY DEF Meant
  <2>1. CameFrom(t)
    BY StepCameFrom
  <2>2. y.tag = "modify_edge" /\ z.pc # "findTo"
    BY <1>5, <2>1 DEF CameFrom
  <2>3. y.pc \in Found => y.from # NoNode /\ y.to # NoNode
    BY <1>2, <1>3, <2>2 DEF Meant
  <2>4. y.pc \in Found \cup {"findTo"} => UNCHANGED graph
    <3>1. CASE UNCHANGED graph
      BY <3>1
    <3>2. CASE addFrom(t) \/ addTo(t)
      BY <2>3, <3>2 DEF addFrom, addTo, addEnd, Found
    <3>3. CASE \/ Connect(t) \/ topology(t) \/ delNode(t) \/ addEdgeStep(t) \/ delEdge(t)
               \/ delHidden(t) \/ tie(t) \/ \E id \in Ids : node(t, id)
      BY <3>3 DEF Connect, topology, delNode, addEdgeStep, delEdge, delHidden, tie, node, Found
    <3> QED
      BY <3>1, <3>2, <3>3, GraphRead DEF Element, Step
  <2>5. z = y \/ Moves(y, z)
    BY StepMoves
  <2>6. CASE z = y
    <3>1. y.pc \in Found => UNCHANGED graph
      BY <2>4
    <3> QED
      BY <2>2, <2>6, <3>1 DEF Meant
  <2>7. CASE MoveApart(y, z)
    BY <2>7 DEF MoveApart, Apart, Linked, Meant, Found
  <2>8. CASE MoveNamed(y, z)
    BY <2>2, <2>8 DEF MoveNamed
  <2>9. CASE MoveFound(y, z)
    <3>1. /\ y.pc = "findTo" /\ z.link = y.link /\ z.from = y.from
          /\ z.to = graph.complete.reg[y.link[2]] /\ z.pc \notin Updating
      BY <2>9 DEF MoveFound, findNode, Updating
    <3>2. PICK e \in E : e.from[1] = y.link[1] /\ e.to[1] = y.link[2]
      BY <2>2, <3>1 DEF Meant
    <3>3. e.from \in N /\ e.to \in N
      BY <1>2
    <3>4. graph.complete.reg[y.link[1]] = e.from /\ graph.complete.reg[y.link[2]] = e.to
      BY <1>3, <3>2, <3>3
    <3>5. y.from \in N /\ y.from[1] = y.link[1]
      BY <1>1, <1>3, <3>1, <3>3, <3>4 DEF Rooted, Straight
    <3>6. y.from = e.from
      BY <1>3, <3>4, <3>5
    <3>7. UNCHANGED graph
      BY <2>4, <3>1
    <3> QED
      BY <2>2, <3>1, <3>4, <3>6, <3>7 DEF Meant
  <2>10. CASE MoveOn(y, z)
    <3>1. CASE y.pc \in Found /\ z.pc \in Found
      <4>1. z.pc \notin Updating /\ z.from = y.from /\ z.to = y.to
        BY <2>10, <3>1 DEF MoveOn, SameEnds, Found, Updating
      <4> QED
        BY <2>2, <2>4, <3>1, <4>1 DEF Meant
    <3>2. CASE y.pc \in Updating /\ z.pc \in Updating /\ z.op = y.op
      BY <2>2, <3>2 DEF Meant, Updating, Found
    <3>3. CASE y.pc = "done" /\ y.op \in {"addFrom", "addTo"}
      BY <2>2, <3>3 DEF Meant, Updating
    <3> QED
      BY <2>10, <3>1, <3>2, <3>3 DEF MoveOn, Found
  <2>11. CASE MoveNew(y, z)
    BY <2>3, <2>11 DEF MoveNew, MoveCreates, Found
  <2>12. CASE MoveConnect(y, z)
    BY <2>12 DEF MoveConnect, Meant, Found, Updating
  <2>13. CASE MoveScan(y, z)
    BY <2>2, <2>13 DEF MoveScan, Meant, Found, Updating
  <2> QED
    BY <2>5, <2>6, <2>7, <2>8, <2>9, <2>10, <2>11, <2>12, <2>13 DEF Moves
<1> QED
  BY <1>4, <1>5

\* So the edge to add is one: a new one, or the one the element is about.
LEMMA NoNullEdgeStep ==
    ASSUME TypeInv, Registry(graph), EdgeInv, TidyInv, RootedInv,
           NEW t \in Sources, Meant(th[t], graph), NoNullEdge(th[t], graph),
           \/ Connect(t) \/ startDocument(t) \/ refused(t) \/ endDocument(t)
           \/ Element(t) \/ Step(t)
    PROVE  NoNullEdge(th'[t], graph')
<1> DEFINE y == th[t]
           z == th'[t]
<1>1. /\ th \in [Sources -> Threads] /\ y \in Threads /\ graph \in Graph /\ Fit(y)
      /\ Lists(graph) /\ InStep(graph) /\ EndsIn(graph)
  BY DEF TypeInv, TidyInv, RootedInv
<1>2. NullEdge \notin ToSet(graph'.visible.edges)
  <2>1. CASE UNCHANGED graph
    BY <2>1 DEF NoNullEdge
  <2>2. CASE ~UNCHANGED graph
    <3>1. PICK h \in Graph : graph' = Swept(h, th') /\ NullShown(t, h)
      BY <2>2, EdgesStep
    <3>2. graph'.visible = h.visible
      BY <3>1, SweptShape
    <3> QED
      BY <3>1, <3>2 DEF NoNullEdge, NullShown
  <2> QED
    BY <2>1, <2>2
<1>3. ASSUME z.pc = "addEdge" PROVE z.edge # NullEdge
  <2>1. CameFrom(t)
    BY StepCameFrom
  <2>2. connect(t)
    BY <1>3, <2>1 DEF CameFrom
  <2> DEFINE e == IF y.tag = "modify_edge" THEN findEdge(graph, y.from, y.to)
                  ELSE NewEdge(y.from, y.to)
  <2>3. y.pc = "connect" /\ y.from \in NodeObjs /\ y.to \in NodeObjs
    BY <1>1, <2>2 DEF connect, Fit
  <2>4. z = [y EXCEPT !.pc = "addEdge", !.edge = e]
    BY <1>1, <2>2 DEF connect
  <2>5. e \in EdgeObjs
    <3>1. CASE y.tag = "modify_edge"
      <4>1. PICK f \in ToSet(graph.complete.edges) : f.from = y.from /\ f.to = y.to
        BY <2>3, <3>1 DEF Meant, Found
      <4>2. y.from \in ToSet(graph.complete.nodes)
        BY <1>1, <4>1 DEF EndsIn
      <4> QED
        BY <1>1, <2>3, <3>1, <4>1, <4>2, FindsEdge
    <3>2. CASE y.tag # "modify_edge"
      BY <2>3, <3>2, NewEdgeShape
    <3> QED
      BY <3>1, <3>2
  <2> HIDE DEF e
  <2>6. z.edge = e
    BY <1>1, <2>4 DEF Threads
  <2> QED
    BY <2>5, <2>6, Parts
<1> QED
  BY <1>2, <1>3 DEF NoNullEdge

\* A single careful source never puts a null edge on screen.
LEMMA MeantInvariance ==
    ASSUME \E s : Sources = {s}, Careful
    PROVE  Spec => []\A t \in Sources : Meant(th[t], graph) /\ NoNullEdge(th[t], graph)
<1> DEFINE Sound == \A t \in Sources : Meant(th[t], graph) /\ NoNullEdge(th[t], graph)
           Base == TypeInv /\ Registry(graph) /\ EdgeInv /\ TidyInv /\ RootedInv
<1>1. Init => Sound
  <2> SUFFICES ASSUME Init, NEW t \in Sources
               PROVE  Meant(th[t], graph) /\ NoNullEdge(th[t], graph)
    OBVIOUS
  <2>1. th[t].pc = "off" /\ th[t].tag = ""
    BY DEF Init, Thread
  <2>2. ToSet(graph.visible.edges) = {}
    BY DEF Init, EmptyGraph, EmptySet, ToSet
  <2> QED
    BY <2>1, <2>2 DEF Meant, NoNullEdge
<1>2. Base /\ Sound /\ [Next]_vars => Sound'
  <2> SUFFICES ASSUME Base, Sound, [Next]_vars PROVE Sound'
    OBVIOUS
  <2>1. CASE Next
    <3>1. PICK t \in Sources :
             \/ Connect(t) \/ startDocument(t) \/ refused(t) \/ endDocument(t)
             \/ Element(t) \/ Step(t)
      BY <2>1 DEF Next
    <3>2. Sources = {t}
      OBVIOUS
    <3>3. Meant(th'[t], graph') /\ NoNullEdge(th'[t], graph')
      BY <3>1, MeantStep, NoNullEdgeStep
    <3> QED
      BY <3>2, <3>3
  <2>2. CASE UNCHANGED vars
    BY <2>2 DEF vars
  <2> QED
    BY <2>1, <2>2
<1>3. Spec => []Base
  BY RootedInvariance
<1> HIDE DEF Sound
<1>4. Spec => []Sound
  BY <1>1, <1>2, <1>3, PTL DEF Spec
<1> QED
  BY <1>4 DEF Sound

\* With no null edge on screen clearAll does not throw, and what it leaves is empty.
LEMMA ClearsIfNoNull ==
    ASSUME TypeInv, NullEdge \notin ToSet(graph.visible.edges),
           NEW t \in Sources, Connect(t) \/ topology(t)
    PROVE  graph'.complete.nodes = <<>>
<1>1. graph \in Graph /\ ~clearAllThrows(graph)
  <2>1. graph.visible.edges \in Seq(EdgeObjs \cup {NullEdge})
    BY GraphFields DEF TypeInv
  <2> QED
    BY <2>1, AppendRange DEF clearAllThrows, TypeInv
<1> DEFINE h == clearAll(graph)
<1>2. graph' = Swept(h, th')
  BY DEF Connect, topology
<1>3. h \in Graph /\ h.complete = EmptySet
  BY <1>1, ClearAllShape
<1> HIDE DEF h
<1>4. graph'.complete = EmptySet
  BY <1>2, <1>3, SweptShape
<1> QED
  BY <1>4 DEF EmptySet

\* GraphEltSet.clearAll, on <topology> and on "Connect to host": the graph is empty
\* afterwards, whatever the threads were doing, if no source sends modify_edge, or
\* if there is one source and it modifies only edges that are there.  The null edge
\* of a modify_edge for an unknown edge is the one way for it to fail.
THEOREM ViewerClears ==
    ASSUME "modify_edge" \notin Tags \/ (Careful /\ \E s : Sources = {s})
    PROVE  Spec => ClearAllClears
<1> DEFINE NoNull == NullEdge \notin ToSet(graph.visible.edges)
           Emptied(t) == Connect(t) \/ topology(t) => graph'.complete.nodes = <<>>
<1>1. TypeInv /\ NoNull /\ [Next]_vars => [\A t \in Sources : Emptied(t)]_vars
  BY ClearsIfNoNull
<1>2. CASE "modify_edge" \notin Tags
  <2>1. Calm => NoNull
    BY <1>2 DEF Calm, NullInv
  <2> HIDE DEF NoNull
  <2> QED
    BY <1>1, <2>1, EdgeInvariance, PTL DEF Spec, ClearAllClears
<1>3. CASE Careful /\ \E s : Sources = {s}
  <2> DEFINE Sound == \A t \in Sources : Meant(th[t], graph) /\ NoNullEdge(th[t], graph)
  <2>1. Sound => NoNull
    BY <1>3 DEF NoNullEdge
  <2>2. Spec => []Sound
    BY <1>3, MeantInvariance
  <2> HIDE DEF NoNull, Sound
  <2> QED
    BY <1>1, <2>1, <2>2, Invariance, PTL DEF Spec, ClearAllClears
<1> QED
  BY <1>2, <1>3
=============================================================================
