--------------------------- MODULE TopologyViewer ---------------------------
(****************************************************************************)
(* The topology viewer's writers of the graph: InputParser threads, one for *)
(* every "Connect to host", each reading a stream of XML elements; the      *)
(* event thread, which clears the graph when a connection is opened; and    *)
(* TGPanel, whose operations they call.  TGPanel takes the monitor of       *)
(* localityUtils around each change of the graph, but findNode, findEdge    *)
(* and the loops of updatePartitions read the graph without it.  A step is  *)
(* one change under the monitor or one read outside it.                     *)
(*                                                                          *)
(* The viewer never shifts the locality (its scroll bar is not on screen    *)
(* and the menu entries of GLEditUI are commented out), so expandNode,      *)
(* hideNode, collapseNode and setLocale are no actions here.                *)
(****************************************************************************)
EXTENDS GraphElements

CONSTANTS Sources,     \* the InputParser threads that may be started
          Links,       \* the pairs <<from, to>> that edge elements name
          Tags,        \* the elements the sources send
          Careful,     \* do sources modify and remove only what is there?
          Reconnect,   \* the reconnect option
          Counting,    \* is the status bar part of the instance?
          MaxEdges,    \* bound: no edge element beyond this many edges
          MaxCount,    \* bound: no edge element beyond this edgeCnt
          NoThread

AllTags == {"node", "remove_node", "modify_node", "edge", "modify_edge", "remove_edge"}

ASSUME ViewerAssumption ==
    /\ Links \subseteq {l \in Ids \X Ids : l[1] # l[2]}
    /\ Tags \subseteq AllTags
    /\ Careful \in BOOLEAN /\ Reconnect \in BOOLEAN /\ Counting \in BOOLEAN
    /\ MaxEdges \in Nat /\ MaxCount \in Nat
    /\ IsFiniteSet(Sources) /\ NoThread \notin Sources

VARIABLES graph,    \* see GraphElements
          owner,    \* the thread in localityUtils' monitor between two steps
          th,       \* the parser threads
          nodeCnt,  \* JTopoStatusBar
          edgeCnt

vars == <<graph, owner, th, nodeCnt, edgeCnt>>

\* A thread between two elements.  pc and op: where it is, and which operation
\* of TGPanel it executes; link, from, to, edge, i, partitions: the variables of
\* startElement and updatePartitions; try_cnt: of run().
Thread(where, tries) ==
    [pc |-> where, op |-> "", tag |-> "", link |-> <<>>, from |-> NoNode,
     to |-> NoNode, edge |-> NullEdge, i |-> 0, partitions |-> <<>>, try_cnt |-> tries]

Init == /\ graph = EmptyGraph
        /\ owner = NoThread
        /\ th = [t \in Sources |-> Thread("off", 0)]
        /\ nodeCnt = 0
        /\ edgeCnt = 0
-----------------------------------------------------------------------------
(* Objects that nothing refers to any more are forgotten, and so are the     *)
(* deleted edges that a Node object outside the graph still lists.  The code *)
(* keeps those: findEdge may stop at one, and removeEdge counts them before  *)
(* it renews part_id (GraphEltSet.java:262, Node.java:418).  Both take a     *)
(* Node object that has left the graph while a second source holds it.       *)

Held(ths, g) ==
    LET edges == EdgesOf(g) \cup ({ths[t].edge : t \in Sources} \ {NullEdge})
        nodes == UNION {{ths[t].from, ths[t].to} \cup ToSet(ths[t].partitions) : t \in Sources}
    IN  [edges |-> edges,
         nodes |-> (nodes \cup Ends(edges) \cup ToSet(g.complete.nodes)
                          \cup ToSet(g.visible.nodes)) \ {NoNode}]

Keep(list, e, edges) == IF e \in edges THEN Append(list, e) ELSE list
Kept(list, edges) == FoldLeft(LAMBDA l, e : Keep(l, e, edges), <<>>, list)

Swept(g, ths) ==
    LET held == Held(ths, g)
    IN  [g EXCEPT !.hidden = @ \cap held.edges,
                  !.part = [n \in NodeObjs |-> IF n \in held.nodes THEN @[n] \cap held.nodes ELSE {}],
                  !.adj = [n \in NodeObjs |->
                             IF Contains(g.complete.nodes, n) THEN @[n]
                             ELSE Kept(@[n], EdgesOf(g))]]

\* new Node(id, id), with a partition of its own; the objects are told apart by
\* the lowest number that is free.
FreeNodes(id) ==
    LET free == {k \in 1..Copies : <<id, k>> \notin Held(th, graph).nodes}
    IN  {<<id, k>> : k \in {k \in free : k = Min(free)}}
WithNewNode(g, n) == [NewPart(g, n) EXCEPT !.adj[n] = <<>>]

\* new Edge(from, to).
NewEdge(from, to) ==
    LET held == Held(th, graph).edges
    IN  [from |-> from, to |-> to,
         k |-> Min({k \in 0..Cardinality(held) : [from |-> from, to |-> to, k |-> k] \notin held})]

Count(c, d) == IF Counting THEN c + d ELSE c

\* A slip: no monitor.
CanEnter_Always(t) == TRUE

CanEnter(t) == owner \in {NoThread, t}

\* The loop condition of run(), after so many failed connections.
Again(tries) == IF Reconnect /\ tries < 3 THEN Thread("dial", tries) ELSE Thread("ended", 0)

\* The thread state after a Throwable in parser.parse: run() closes the socket.
Dropped(t) == Again(th[t].try_cnt)
-----------------------------------------------------------------------------
(* The connection: TopologyViewer's menu entry and InputParser.run *)

resetCounter == nodeCnt' = 0 /\ edgeCnt' = 0

\* "Connect to host": clearAll on the event thread, then a new parser thread.
Connect(t) ==
    /\ th[t].pc = "off"
    /\ owner = NoThread
    /\ th' = IF clearAllThrows(graph) THEN th ELSE [th EXCEPT ![t] = Thread("dial", 0)]
    /\ graph' = Swept(clearAll(graph), th')
    /\ IF clearAllThrows(graph) THEN UNCHANGED <<nodeCnt, edgeCnt>> ELSE resetCounter
    /\ UNCHANGED owner

\* The connection is made; startDocument.
startDocument(t) ==
    /\ th[t].pc = "dial"
    /\ th' = [th EXCEPT ![t].pc = "begin"]
    /\ resetCounter
    /\ UNCHANGED <<graph, owner>>

\* The connection is refused.
refused(t) ==
    /\ th[t].pc = "dial"
    /\ th' = [th EXCEPT ![t] = Again(th[t].try_cnt + 1)]
    /\ UNCHANGED <<graph, owner, nodeCnt, edgeCnt>>

\* The end of the document, by endDocument or because it breaks off, perhaps
\* before its first element; the connection is closed.
endDocument(t) ==
    /\ th[t].pc \in {"begin", "idle"}
    /\ th' = [th EXCEPT ![t] = Dropped(t)]
    /\ UNCHANGED <<graph, owner, nodeCnt, edgeCnt>>

\* <topology>, the first element of a document.
topology(t) ==
    /\ th[t].pc = "begin"
    /\ CanEnter(t)
    /\ th' = [th EXCEPT ![t] = IF clearAllThrows(graph) THEN Dropped(t)
                               ELSE Thread("idle", @.try_cnt)]
    /\ graph' = Swept(clearAll(graph), th')
    /\ UNCHANGED <<owner, nodeCnt, edgeCnt>>
-----------------------------------------------------------------------------
(* startElement: node elements *)

\* The end of an operation: into updatePartitions.
ToUpdate(t, op) == [th[t] EXCEPT !.pc = "upd", !.op = op, !.edge = NullEdge]

\* A slip: a node that exists already is counted again.
node_CountsTwice(t, id) ==
    /\ "node" \in Tags /\ th[t].pc = "idle"
    /\ CanEnter(t)
    /\ \E n \in FreeNodes(id) :
         /\ th' = [th EXCEPT ![t] = ToUpdate(t, "node")]
         /\ graph' = Swept(addNode(WithNewNode(graph, n), n), th')
    /\ UNCHANGED <<owner, nodeCnt, edgeCnt>>

\* <node>, <add_node>: tg_panel.addNode(new Node(id, id)).
node(t, id) ==
    /\ "node" \in Tags /\ th[t].pc = "idle"
    /\ CanEnter(t)
    /\ \E n \in FreeNodes(id) :
         LET g == WithNewNode(graph, n)
         IN  /\ th' = IF addNodeThrows(g, n) THEN th
                      ELSE [th EXCEPT ![t] = ToUpdate(t, "node")]
             /\ graph' = Swept(addNode(g, n), th')
    /\ UNCHANGED <<owner, nodeCnt, edgeCnt>>

\* <modify_node> changes the label, position or fixed flag of the node, which the
\* model leaves out; the first of them is a NullPointerException for an unknown
\* node.
modify_node(t, id) ==
    /\ "modify_node" \in Tags /\ th[t].pc = "idle"
    /\ Careful => findNode(graph, id) # NoNode
    /\ \/ UNCHANGED th
       \/ findNode(graph, id) = NoNode /\ th' = [th EXCEPT ![t] = Dropped(t)]
    /\ UNCHANGED <<graph, owner, nodeCnt, edgeCnt>>

\* <remove_node>: deleteNodeById looks the node up outside the monitor.
remove_node(t, id) ==
    /\ "remove_node" \in Tags /\ th[t].pc = "idle"
    /\ Careful => findNode(graph, id) # NoNode
    /\ th' = [th EXCEPT ![t].from = findNode(graph, id), ![t].op = "remove_node",
                        ![t].pc = IF findNode(graph, id) = NoNode THEN "done" ELSE "delNode"]
    /\ UNCHANGED <<graph, owner, nodeCnt, edgeCnt>>

\* TGPanel.deleteNode: updatePartitions runs inside the monitor here.
delNode(t) ==
    /\ th[t].pc = "delNode"
    /\ CanEnter(t)
    /\ th' = [th EXCEPT ![t] = [ToUpdate(t, "remove_node") EXCEPT !.from = NoNode]]
    /\ graph' = Swept(deleteNode(graph, th[t].from), th')
    /\ owner' = t
    /\ UNCHANGED <<nodeCnt, edgeCnt>>
-----------------------------------------------------------------------------
(* startElement: edge elements *)

\* The first findNode of <edge>, <add_edge>, <modify_edge>, <remove_edge>.
edgeElement(t, tag, link) ==
    /\ tag \in Tags /\ th[t].pc = "idle"
    /\ tag = "edge" => Len(graph.complete.edges) < MaxEdges /\ edgeCnt < MaxCount
    /\ Careful /\ tag # "edge" =>
         \E e \in EdgesOf(graph) \ graph.hidden : <<e.from[1], e.to[1]>> = link
    /\ th' = [th EXCEPT ![t].pc = "findTo", ![t].tag = tag, ![t].link = link,
                        ![t].from = findNode(graph, link[1])]
    /\ UNCHANGED <<graph, owner, nodeCnt, edgeCnt>>

\* The second findNode.
findTo(t) ==
    /\ th[t].pc = "findTo"
    /\ LET to == findNode(graph, th[t].link[2])
       IN  th' = [th EXCEPT ![t] =
                    IF @.tag # "remove_edge" THEN [@ EXCEPT !.to = to, !.pc = "addFrom"]
                    ELSE IF @.from = NoNode \/ to = NoNode THEN Thread("idle", @.try_cnt)
                    ELSE [@ EXCEPT !.to = to, !.pc = "delEdge"]]
    /\ UNCHANGED <<graph, owner, nodeCnt, edgeCnt>>

\* A slip: the created node is not kept in the variable.
addEnd_Forgets(t, pc, end, next) ==
    /\ th[t].pc = pc
    /\ IF th[t][end] # NoNode
       THEN th' = [th EXCEPT ![t].pc = next] /\ UNCHANGED graph
       ELSE /\ CanEnter(t)
            /\ \E n \in FreeNodes(th[t].link[IF end = "from" THEN 1 ELSE 2]) :
                 /\ th' = [th EXCEPT ![t] = ToUpdate(t, pc)]
                 /\ graph' = Swept(addNode(WithNewNode(graph, n), n), th')
    /\ UNCHANGED <<owner, nodeCnt, edgeCnt>>

\* An end that was not found is created; NODE_EXISTS is caught, and the new
\* object stays the end of the edge.
addEnd(t, pc, end, next) ==
    /\ th[t].pc = pc
    /\ IF th[t][end] # NoNode
       THEN th' = [th EXCEPT ![t].pc = next] /\ UNCHANGED graph
       ELSE /\ CanEnter(t)
            /\ \E n \in FreeNodes(th[t].link[IF end = "from" THEN 1 ELSE 2]) :
                 LET g == WithNewNode(graph, n)
                 IN  /\ th' = [th EXCEPT ![t] =
                                 IF addNodeThrows(g, n) THEN [@ EXCEPT ![end] = n, !.pc = next]
                                 ELSE [ToUpdate(t, pc) EXCEPT ![end] = n]]
                     /\ graph' = Swept(addNode(g, n), th')
    /\ UNCHANGED <<owner, nodeCnt, edgeCnt>>

addFrom(t) == addEnd(t, "addFrom", "from", "addTo")
addTo(t)   == addEnd(t, "addTo", "to", "connect")

\* connect = findEdge(from, to), outside the monitor, or a new Edge.
connect(t) ==
    /\ th[t].pc = "connect"
    /\ LET modify == th[t].tag = "modify_edge"
       IN  /\ th' = [th EXCEPT ![t].pc = "addEdge",
                               ![t].edge = IF modify THEN findEdge(graph, th[t].from, th[t].to)
                                           ELSE NewEdge(th[t].from, th[t].to)]
           /\ edgeCnt' = IF modify THEN edgeCnt ELSE Count(edgeCnt, 1)
    /\ UNCHANGED <<graph, owner, nodeCnt>>

\* TGPanel.addEdge(connect).
addEdgeStep(t) ==
    /\ th[t].pc = "addEdge"
    /\ CanEnter(t)
    /\ th' = [th EXCEPT ![t] =
                IF addEdgeThrows(graph, @.edge) THEN Dropped(t)
                ELSE [ToUpdate(t, "edge") EXCEPT !.from = NoNode, !.to = NoNode]]
    /\ graph' = Swept(addEdge(graph, th[t].edge), th')
    /\ UNCHANGED <<owner, nodeCnt, edgeCnt>>

\* TGPanel.deleteEdge(from, to).
delEdge(t) ==
    /\ th[t].pc = "delEdge"
    /\ CanEnter(t)
    /\ th' = [th EXCEPT ![t] = [ToUpdate(t, "remove_edge") EXCEPT !.from = NoNode, !.to = NoNode]]
    /\ graph' = Swept(deleteEdge(graph, findEdge(graph, th[t].from, th[t].to)), th')
    /\ UNCHANGED <<owner, nodeCnt, edgeCnt>>
-----------------------------------------------------------------------------
(* TGPanel.updatePartitions *)

\* A slip: the loop starts one beyond the end.
upd_OffByOne(t) ==
    /\ th[t].pc = "upd"
    /\ th' = [th EXCEPT ![t].pc = "del", ![t].i = Len(graph.complete.edges) + 1]
    /\ UNCHANGED <<graph, owner, nodeCnt, edgeCnt>>

\* int i = completeEltSet.edgeCount() - 1
upd(t) ==
    /\ th[t].pc = "upd"
    /\ th' = [th EXCEPT ![t].pc = "del", ![t].i = Len(graph.complete.edges)]
    /\ UNCHANGED <<graph, owner, nodeCnt, edgeCnt>>

\* A slip: invisible edges are left in the graph.
del_Skips(t) ==
    /\ th[t].pc = "del"
    /\ th' = [th EXCEPT ![t].pc = "count", ![t].i = 1]
    /\ UNCHANGED <<graph, owner, nodeCnt, edgeCnt>>

\* A slip: the visible edges are the ones to delete.
del_Inverted(t) ==
    /\ th[t].pc = "del"
    /\ LET edges == graph.complete.edges
           i == th[t].i
       IN  th' = [th EXCEPT ![t] =
                    IF i = 0 THEN [@ EXCEPT !.pc = "count", !.i = 1]
                    ELSE IF i > Len(edges) THEN Dropped(t)
                    ELSE IF edges[i] \notin graph.hidden
                         THEN [@ EXCEPT !.pc = "delHidden", !.edge = edges[i], !.i = i - 1]
                    ELSE [@ EXCEPT !.i = i - 1]]
    /\ UNCHANGED <<graph, owner, nodeCnt, edgeCnt>>

\* One edgeAt(i) outside the monitor; beyond the end it throws, or returns the
\* null that isVisible() is called on.
del(t) ==
    /\ th[t].pc = "del"
    /\ LET edges == graph.complete.edges
           i == th[t].i
       IN  /\ th' = [th EXCEPT ![t] =
                       IF i = 0 THEN [@ EXCEPT !.pc = "count", !.i = 1]
                       ELSE IF i > Len(edges) THEN Dropped(t)
                       ELSE IF edges[i] \in graph.hidden
                            THEN [@ EXCEPT !.pc = "delHidden", !.edge = edges[i], !.i = i - 1]
                       ELSE [@ EXCEPT !.i = i - 1]]
           /\ owner' = IF i > Len(edges) /\ owner = t THEN NoThread ELSE owner
    /\ UNCHANGED <<graph, nodeCnt, edgeCnt>>

\* visibleLocality.deleteEdge(edge) inside the monitor.
delHidden(t) ==
    /\ th[t].pc = "delHidden"
    /\ CanEnter(t)
    /\ th' = [th EXCEPT ![t].pc = "del", ![t].edge = NullEdge]
    /\ graph' = Swept(deleteEdge(graph, th[t].edge), th')
    /\ UNCHANGED <<owner, nodeCnt, edgeCnt>>

\* The test i < nodeCount() of the loop that collects a node of every partition.
count(t) ==
    /\ th[t].pc = "count"
    /\ th' = [th EXCEPT ![t] = IF @.i > Len(graph.complete.nodes)
                               THEN [@ EXCEPT !.pc = "tie", !.i = 2]
                               ELSE [@ EXCEPT !.pc = "scan"]]
    /\ UNCHANGED <<graph, owner, nodeCnt, edgeCnt>>

\* nodeAt(i), also outside the monitor: null if the graph was emptied meanwhile,
\* an exception if it only became smaller; null is first used when it is compared.
scan(t) ==
    /\ th[t].pc = "scan"
    /\ LET nodes == graph.complete.nodes
           i     == th[t].i
           found == th[t].partitions
           known == ToSet(found)
           fails == IF nodes = <<>> THEN known # {} ELSE i > Len(nodes) \/ NoNode \in known
           n     == IF nodes = <<>> THEN NoNode ELSE nodes[i]
           new   == \A m \in known : graph.part[m] # graph.part[n]
       IN  /\ th' = [th EXCEPT ![t] =
                       IF fails THEN Dropped(t)
                       ELSE [@ EXCEPT !.pc = "count", !.i = i + 1,
                                      !.partitions = IF new THEN Append(found, n) ELSE found]]
           /\ owner' = IF fails /\ owner = t THEN NoThread ELSE owner
    /\ UNCHANGED <<graph, nodeCnt, edgeCnt>>

\* One invisible edge between the nodes of two partitions.
tie(t) ==
    /\ th[t].pc = "tie"
    /\ LET i == th[t].i
           nodes == th[t].partitions
       IN  IF i > Len(nodes)
           THEN /\ th' = [th EXCEPT ![t].pc = "done", ![t].partitions = <<>>, ![t].i = 0]
                /\ UNCHANGED graph
           ELSE LET e == NewEdge(nodes[i - 1], nodes[i])
                IN  /\ CanEnter(t)
                    /\ th' = [th EXCEPT ![t].i = i + 1]
                    /\ graph' = Swept(addEdge([graph EXCEPT !.hidden = @ \cup {e}], e), th')
    /\ UNCHANGED <<owner, nodeCnt, edgeCnt>>

\* Back in startElement: the counters, and on with the element.
done(t) ==
    /\ th[t].pc = "done"
    /\ LET op == th[t].op
       IN  /\ th' = [th EXCEPT ![t] = CASE op = "addFrom" -> [@ EXCEPT !.pc = "addTo", !.op = ""]
                                        [] op = "addTo" -> [@ EXCEPT !.pc = "connect", !.op = ""]
                                        [] OTHER -> Thread("idle", @.try_cnt)]
           /\ nodeCnt' = CASE op \in {"node", "addFrom", "addTo"} -> Count(nodeCnt, 1)
                           [] op = "remove_node" -> Count(nodeCnt, -1)
                           [] OTHER -> nodeCnt
           /\ edgeCnt' = IF op = "remove_edge" THEN Count(edgeCnt, -1) ELSE edgeCnt
    /\ owner' = IF owner = t THEN NoThread ELSE owner
    /\ UNCHANGED graph
-----------------------------------------------------------------------------
Element(t) ==
    \/ \E id \in Ids : node(t, id) \/ modify_node(t, id) \/ remove_node(t, id)
    \/ \E tag \in {"edge", "modify_edge", "remove_edge"}, link \in Links : edgeElement(t, tag, link)
    \/ topology(t)

Step(t) ==
    \/ findTo(t) \/ addFrom(t) \/ addTo(t) \/ connect(t) \/ addEdgeStep(t)
    \/ delNode(t) \/ delEdge(t)
    \/ upd(t) \/ del(t) \/ delHidden(t) \/ count(t) \/ scan(t) \/ tie(t) \/ done(t)

Next == \E t \in Sources :
            \/ Connect(t) \/ startDocument(t) \/ refused(t) \/ endDocument(t)
            \/ Element(t) \/ Step(t)

Spec == Init /\ [][Next]_vars
-----------------------------------------------------------------------------
Nodes == ToSet(graph.complete.nodes)
Edges == ToSet(graph.complete.edges)

TypeOK ==
    /\ \A s \in {"complete", "visible"} :
         /\ graph[s].nodes \in Seq(NodeObjs)
         /\ graph[s].reg \in [Ids -> NodeObjs \cup {NoNode}]
    /\ graph.part \in [NodeObjs -> SUBSET NodeObjs]
    /\ owner \in Sources \cup {NoThread}
    /\ \A t \in Sources :
         /\ th[t].try_cnt \in 0..2
         /\ th[t].pc \in {"connect", "addEdge", "delEdge"} => {th[t].from, th[t].to} \subseteq NodeObjs
    /\ nodeCnt \in Int /\ edgeCnt \in Int

\* The id registry and the node list of both sets name the same objects, one
\* object for each ID.
RegistryAgrees ==
    \A s \in {"complete", "visible"} :
       /\ Cardinality(ToSet(graph[s].nodes)) = Len(graph[s].nodes)
       /\ \A id \in Ids : graph[s].reg[id] =
            LET ns == {n \in ToSet(graph[s].nodes) : n[1] = id}
            IN  IF ns = {} THEN NoNode ELSE CHOOSE n \in ns : ns = {n}

\* Every node lists exactly the edges of the graph that end at it, once each.
ListsAgree ==
    /\ Cardinality(Edges) = Len(graph.complete.edges)
    /\ \A n \in Nodes :
         /\ ToSet(graph.adj[n]) = {e \in Edges : n \in {e.from, e.to}}
         /\ Len(graph.adj[n]) = Cardinality(ToSet(graph.adj[n]))

\* What is on screen is what there is, in the same order, and at most one null
\* edge among it (addEdge puts no second one there).
VisibleIsComplete ==
    /\ graph.visible.nodes = graph.complete.nodes
    /\ RemoveFirst(graph.visible.edges, NullEdge) = graph.complete.edges
    /\ graph.visible.reg = graph.complete.reg

\* With one source no thread keeps a node while another deletes it, so every
\* edge ends at nodes of the graph.
EndsInGraph == Ends(Edges) \subseteq Nodes

\* updatePartitions: the index of the backward loop stays inside the edge list
\* when nobody else writes: with one source, or inside TGPanel.deleteNode, which
\* keeps the monitor.
ScanInRange ==
    \A t \in Sources : th[t].pc = "del" /\ (owner = t \/ Sources = {t})
                         => th[t].i <= Len(graph.complete.edges)

Resting == \A t \in Sources : th[t].pc = "idle"

Ties == Edges \cap graph.hidden

\* updatePartitions: between two elements the invisible edges are the chain the
\* last call laid: fewer than there are nodes, at most one to and one from a node.
TiesAreAPath ==
    Resting => /\ Nodes # {} => Cardinality(Ties) < Cardinality(Nodes)
               /\ \A e, f \in Ties : e # f => e.to # f.to /\ e.from # f.from

\* "identification partition in graph" (Node.part_id): updatePartitions ties the
\* parts of the graph together, so that between two elements every two nodes
\* are connected, by edges on screen or by invisible ones.
PartitionsTied ==
    LET Reach(N) == N \cup {n \in Nodes : \E e \in Edges : n \in {e.from, e.to} /\ {e.from, e.to} \cap N # {}}
        Closure[k \in 0..Cardinality(Nodes), n \in Nodes] ==
            IF k = 0 THEN {n} ELSE Reach(Closure[k - 1, n])
    IN  Resting => \A n \in Nodes : Closure[Cardinality(Nodes), n] = Nodes

\* JTopoStatusBar: a source that only removes what is there is shown the right
\* number of nodes between two elements, and never too few edges.
CountersAgree ==
    Counting => \A t \in Sources : th[t].pc = "idle" =>
       /\ nodeCnt = Len(graph.complete.nodes)
       /\ edgeCnt >= Cardinality(Edges \ graph.hidden)

\* An edge on screen leaves the graph or becomes invisible only in the steps that
\* delete it or one of its ends or clear the graph; updatePartitions, which
\* deletes edges it found invisible a while ago, never takes one.
ShownEdgesStay ==
    [][\A e \in Edges \ graph.hidden :
          \/ e \in Edges' \ graph.hidden'
          \/ \E t \in Sources :
                \/ th[t].pc = "delNode" /\ th[t].from \in {e.from, e.to}
                \/ th[t].pc = "delEdge" /\ th[t].from = e.from /\ th[t].to = e.to
                \/ th[t].pc \in {"begin", "off"} /\ th'[t] # th[t]]_vars

\* "Clear all nodes and edges" (GraphEltSet.clearAll): the <topology> element and
\* "Connect to host" leave an empty graph behind.
ClearAllClears ==
    [][\A t \in Sources : Connect(t) \/ topology(t) => graph'.complete.nodes = <<>>]_vars
=============================================================================
