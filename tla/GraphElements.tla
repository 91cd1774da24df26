--------------------------- MODULE GraphElements ---------------------------
(****************************************************************************)
(* The graph of the topology viewer (topoviewer/src/graphlayout): Node and  *)
(* its edge list, GraphEltSet, Locality and VisibleLocality.  A graph is a  *)
(* record; an operation of the Java classes is an operator from a graph to  *)
(* the graph it leaves behind.                                              *)
(*                                                                          *)
(*   complete, visible   completeEltSet and visibleLocality: the Vectors    *)
(*                       nodes and edges and the nodeIDRegistry of each     *)
(*   adj                 Node.edges, the edge list of every Node object     *)
(*   part                for a Node, the Nodes with its part_id: the ids     *)
(*                       are only compared for equality                     *)
(*   hidden              the Edge objects with visible = false              *)
(*                                                                          *)
(* Node objects are pairs of an ID and a number, for there may be several   *)
(* objects of one ID; an Edge object has a number for the same reason.      *)
(* Positions, colours, labels and visibleEdgeCnt are left out.              *)
(****************************************************************************)
EXTENDS Integers, FiniteSets, SequencesExt

CONSTANTS Ids,      \* the ID strings of nodes
          Copies,   \* bound: Node objects of one ID alive at a time
          NoNode,   \* Java's null for a Node
          NullEdge  \* Java's null for an Edge

NodeObjs == Ids \X (1..Copies)
EdgeObjs == [from : NodeObjs, to : NodeObjs, k : Nat]

ASSUME GraphAssumption == /\ IsFiniteSet(Ids)
                          /\ Copies \in Nat \ {0}
                          /\ NoNode \notin NodeObjs
                          /\ NullEdge \notin EdgeObjs

\* What new GraphEltSet() holds.
EmptySet == [nodes |-> <<>>, edges |-> <<>>, reg |-> [i \in Ids |-> NoNode]]

EmptyGraph == [complete |-> EmptySet, visible |-> EmptySet,
               adj |-> [n \in NodeObjs |-> <<>>], part |-> [n \in NodeObjs |-> {}],
               hidden |-> {}]

\* Real edges a graph holds; NullEdge may sit in the visible set (addEdge).
EdgesOf(g) == (ToSet(g.complete.edges) \cup ToSet(g.visible.edges)) \ {NullEdge}
Ends(edges) == {e.from : e \in edges} \cup {e.to : e \in edges}

\* part_id = glob_part_cnt++: an id no other node has.  (The counter is static
\* and incremented without a lock; two threads that lose an increment would
\* share an id, which is left out.)
NewPart(g, n) ==
    [g EXCEPT !.part = [m \in NodeObjs |-> IF m = n THEN {n} ELSE @[m] \ {n}]]
-----------------------------------------------------------------------------
(* Node *)

\* addEdge: append, then give the ends of all visible edges of the node the
\* partition of the first visible edge's "from" node.
NodeAddEdge(g, n, e) ==
    LET list  == Append(g.adj[n], e)
        first == SelectInSeq(list, LAMBDA x : x \notin g.hidden)
        near  == Ends(ToSet(list) \ g.hidden)
        class == IF first = 0 THEN {} ELSE near \cup g.part[list[first].from]
    IN  [g EXCEPT !.adj[n] = list,
                  !.part = [m \in NodeObjs |-> IF m \in class THEN class ELSE @[m] \ near]]

\* removeEdge: a node that loses its only edge becomes a partition of its own.
NodeRemoveEdge(g, n, e) ==
    LET h == IF Len(g.adj[n]) = 1 THEN NewPart(g, n) ELSE g
    IN  [h EXCEPT !.adj[n] = RemoveFirst(@, e)]
-----------------------------------------------------------------------------
(* GraphEltSet: operations on an element set, and those of the complete one  *)
(* on the graph                                                              *)

findNode(g, id) == g.complete.reg[id]

Registered(set, n) == set.reg[n[1]] # NoNode

SetAddNode(set, n) == [set EXCEPT !.nodes = Append(@, n), !.reg[n[1]] = n]

\* A slip: the registry keeps a removed node.
SetRemoveNode_KeepsId(set, n) == [set EXCEPT !.nodes = RemoveFirst(@, n)]

SetRemoveNode(set, n) == [set EXCEPT !.nodes = RemoveFirst(@, n), !.reg[n[1]] = NoNode]

SetAddEdge(set, e) == [set EXCEPT !.edges = Append(@, e)]
SetRemoveEdge(set, e) == [set EXCEPT !.edges = RemoveFirst(@, e)]

\* addEdge of the complete set.
CompleteAddEdge(g, e) ==
    IF e = NullEdge \/ Contains(g.complete.edges, e) THEN g
    ELSE LET h == [g EXCEPT !.complete = SetAddEdge(@, e)]
         IN  NodeAddEdge(NodeAddEdge(h, e.from, e), e.to, e)

\* A slip: only the "from" node forgets the edge.
CompleteDeleteEdge_OneEnd(g, e) ==
    IF ~Contains(g.complete.edges, e) THEN g
    ELSE NodeRemoveEdge([g EXCEPT !.complete = SetRemoveEdge(@, e)], e.from, e)

\* deleteEdge of the complete set.
CompleteDeleteEdge(g, e) ==
    IF ~Contains(g.complete.edges, e) THEN g
    ELSE LET h == [g EXCEPT !.complete = SetRemoveEdge(@, e)]
         IN  NodeRemoveEdge(NodeRemoveEdge(h, e.from, e), e.to, e)

\* A slip: the edges of a deleted node stay.
CompleteDeleteNode_KeepsEdges(g, n) ==
    IF ~Contains(g.complete.nodes, n) THEN g
    ELSE [g EXCEPT !.complete = SetRemoveNode(@, n)]

\* A slip: the neighbours keep the edges of a deleted node.
CompleteDeleteNode_OneEnd(g, n) ==
    IF ~Contains(g.complete.nodes, n) THEN g
    ELSE [g EXCEPT !.complete = [SetRemoveNode(@, n) EXCEPT !.edges =
             SelectSeq(@, LAMBDA e : ~Contains(g.adj[n], e))]]

\* deleteNode of the complete set: the edges leave the set and the list of the
\* other end; the node's own list stays as it is.
DropEdge(g, n, e) ==
    NodeRemoveEdge([g EXCEPT !.complete = SetRemoveEdge(@, e)],
                   IF e.from = n THEN e.to ELSE e.from, e)

DropEdges(g, n, list) == FoldLeft(LAMBDA h, e : DropEdge(h, n, e), g, list)

CompleteDeleteNode(g, n) ==
    IF ~Contains(g.complete.nodes, n) THEN g
    ELSE DropEdges([g EXCEPT !.complete = SetRemoveNode(@, n)], n, g.adj[n])
-----------------------------------------------------------------------------
(* Locality and VisibleLocality *)

\* addNode: the exception NODE_EXISTS of either set, and else both additions.
addNodeThrows(g, n) ==
    /\ ~Contains(g.visible.nodes, n)
    /\ \/ Registered(g.visible, n)
       \/ ~Contains(g.complete.nodes, n) /\ Registered(g.complete, n)

addNode(g, n) ==
    IF Contains(g.visible.nodes, n) \/ Registered(g.visible, n) THEN g
    ELSE [g EXCEPT !.visible = SetAddNode(@, n),
                   !.complete = IF Contains(@.nodes, n) \/ Registered(@, n) THEN @
                                ELSE SetAddNode(@, n)]

\* addEdge throws a NullPointerException for the first null edge, after it has
\* been put into the visible set.
addEdgeThrows(g, e) == e = NullEdge /\ ~Contains(g.visible.edges, e)

addEdge(g, e) ==
    IF Contains(g.visible.edges, e) THEN g
    ELSE CompleteAddEdge([g EXCEPT !.visible = SetAddEdge(@, e)], e)

removeEdge(g, e) ==
    IF ~Contains(g.visible.edges, e) THEN g
    ELSE [g EXCEPT !.visible = SetRemoveEdge(@, e), !.hidden = @ \cup {e}]

deleteEdge(g, e) == IF e = NullEdge THEN g ELSE CompleteDeleteEdge(removeEdge(g, e), e)

removeEdges(g, list) == FoldLeft(removeEdge, g, list)

removeNode(g, n) ==
    IF ~Contains(g.visible.nodes, n) THEN g
    ELSE removeEdges([g EXCEPT !.visible = SetRemoveNode(@, n)], g.adj[n])

\* A slip: the node is not removed from what is visible.
deleteNode_KeepsVisible(g, n) == CompleteDeleteNode(g, n)

deleteNode(g, n) == CompleteDeleteNode(removeNode(g, n), n)

\* A slip: only the first edge of the list is looked at.
findEdge_FirstOnly(g, from, to) ==
    IF g.adj[from] # <<>> /\ g.adj[from][1].to = to /\ Contains(g.visible.edges, g.adj[from][1])
    THEN g.adj[from][1] ELSE NullEdge

\* findEdge: the first edge of from's list that leads to "to", if it is visible.
findEdge(g, from, to) ==
    LET i == SelectInSeq(g.adj[from], LAMBDA x : x.to = to)
    IN  IF i # 0 /\ Contains(g.visible.edges, g.adj[from][i])
        THEN g.adj[from][i] ELSE NullEdge

\* clearAll: VisibleLocality.removeAll marks every element invisible first, and
\* a null edge stops it there with a NullPointerException.
clearAllThrows(g) == Contains(g.visible.edges, NullEdge)

clearAll(g) ==
    IF clearAllThrows(g)
    THEN [g EXCEPT !.hidden = @ \cup ToSet(SubSeq(g.visible.edges, 1,
                        SelectInSeq(g.visible.edges, LAMBDA x : x = NullEdge) - 1))]
    ELSE [g EXCEPT !.visible = EmptySet, !.complete = EmptySet,
                   !.hidden = @ \cup ToSet(g.visible.edges)]
=============================================================================
