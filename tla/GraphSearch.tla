---------------------------- MODULE GraphSearch -----------------------------
(***************************************************************************)
(* The loops of sssp_bfs in src/graph.c: nodes wait in todo_list, each is  *)
(* taken from its head, its edges are examined in the order of the names   *)
(* of the nodes they lead to, and a node for which a better way is found   *)
(* goes (again) to the tail.  MeshNode states the result without the       *)
(* loops; here the two are compared, from every graph over SearchLinks.    *)
(***************************************************************************)
EXTENDS MeshNode

CONSTANTS
    Self,          \* mesh->self
    SearchLinks,   \* the pairs <<a, b>> that may have edges
    MaxWeight      \* bound: weights are 1 .. MaxWeight

VARIABLES
    g,          \* the view of self that is searched: its edges and started
    todo,       \* todo_list
    last,       \* the node the edge examined last leads to, 0 before the first
    visited,    \* n->status.visited
    distance,   \* n->distance, None standing for -1
    nexthop,    \* n->nexthop
    prevedge    \* n->prevedge

vars == <<g, todo, last, visited, distance, nexthop, prevedge>>

\* A link may be known in either direction, in both or in none.
Directions == {d \in EdgeIds : d \in SearchLinks \/ Reverse2(d) \in SearchLinks}

\* An edge without a reverse is skipped whatever its weight.
Weights(D, w) ==
    /\ w \in [D -> 1 .. MaxWeight]
    /\ \A e \in D : Reverse2(e) \notin D => w[e] = 1

Init ==
    /\ \E D \in SUBSET Directions, run \in BOOLEAN :
          \E w \in [D -> 1 .. MaxWeight] :
             /\ Weights(D, w)
             /\ g = [NewView(Self, 1) EXCEPT
                        !.started = run,
                        !.edges = [e \in D |-> [weight |-> w[e], sid |-> 1]]]
    /\ visited = {n \in {Self} : g.started}
    /\ distance = [n \in Nodes |-> IF n = Self THEN 0 ELSE None]
    /\ nexthop = g.nexthop
    /\ prevedge = g.prevedge
    /\ todo = <<Self>>
    /\ last = 0

\* The edges of the node at the head of the list, after the last one examined.
Left == {e \in DOMAIN g.edges : e[1] = Head(todo) /\ e[2] > last}

\* Edge e does not provide for better reachability of the node it leads to.
NoBetter(n, e) ==
    /\ e[2] \in visited
    /\ \/ distance[e[2]] # distance[n] + 1
       \/ g.edges[e].weight >= g.edges[prevedge[e[2]]].weight

\* Mutant of Skipped: the test of e->reverse is missing.
Skipped_OneWay(n, e) == NoBetter(n, e)

Skipped(n, e) == ~HasReverse(g, e) \/ NoBetter(n, e)

FirstHop(n, to) == IF nexthop[n] = Self THEN to ELSE nexthop[n]

\* A better way to the node to leads over n.
Update(n, to) ==
    /\ visited' = visited \cup {to}
    /\ nexthop' = [nexthop EXCEPT ![to] = FirstHop(n, to)]
    /\ prevedge' = [prevedge EXCEPT ![to] = <<n, to>>]
    /\ distance' = [distance EXCEPT ![to] = distance[n] + 1]
    /\ todo' = Append(todo, to)

\* One turn of the loop over the edges of a node.
ExamineEdge ==
    /\ todo # <<>> /\ Left # {}
    /\ LET n == Head(todo)
           to == Min({e[2] : e \in Left})
       IN  /\ last' = to
           /\ IF Skipped(n, <<n, to>>)
              THEN UNCHANGED <<todo, visited, distance, nexthop, prevedge>>
              ELSE Update(n, to)
    /\ UNCHANGED g

\* Mutant of NextNode: list_delete_node is missing.
NextNode_NotDeleted ==
    /\ todo # <<>> /\ Left = {}
    /\ last' = 0
    /\ UNCHANGED <<g, todo, visited, distance, nexthop, prevedge>>

\* All edges of the node are examined: it leaves the list.
NextNode ==
    /\ todo # <<>> /\ Left = {}
    /\ todo' = Tail(todo)
    /\ last' = 0
    /\ UNCHANGED <<g, visited, distance, nexthop, prevedge>>

Next == ExamineEdge \/ NextNode

Spec == Init /\ [][Next]_vars

-----------------------------------------------------------------------------
\* The type invariant.  A node on the list has a distance: the abort() at the
\* head of the outer loop is never reached.
TypeOK ==
    /\ todo \in Seq(Nodes) /\ last \in 0 .. N
    /\ visited \subseteq Nodes
    /\ \A i \in DOMAIN todo : distance[todo[i]] \in 0 .. N
    /\ nexthop \in [Nodes -> Nodes \cup {None}]
    /\ prevedge \in [Nodes -> DOMAIN g.edges \cup {None}]

\* sssp_bfs finds what MeshNode says it finds: when the list is empty, the
\* nodes marked visited are those that a chain of edges known in both
\* directions leads to, and distance is the number of hops.
FindsAll ==
    todo = <<>> =>
        /\ visited = sssp_bfs(g).visited
        /\ \A n \in visited \ {Self} : distance[n] = Distance(g)[n]

\* The choice of n->prevedge: when the list is empty, the last edge on the way
\* to a node comes from a node one hop closer, and no such edge is lighter,
\* although edges are examined in the order of names, not of weights.
LightestLastHop ==
    todo = <<>> => \A n \in visited \ {Self} :
        LET dist == Distance(g) IN
        /\ prevedge[n] \in TwoWay(g) /\ prevedge[n][2] = n
        /\ dist[prevedge[n][1]] + 1 = dist[n]
        /\ g.edges[prevedge[n]].weight =
              g.edges[LastHop(g, dist, n)].weight

\* The first hop recorded for a node (n->nexthop) is at every moment the one
\* recorded for the node before it on its way: when a node that was already
\* found is given a better last hop, no node behind it keeps the old way.
NexthopFollowsPrevedge ==
    \A n \in visited \ {Self} :
        nexthop[n] = IF prevedge[n][1] = Self THEN n
                     ELSE nexthop[prevedge[n][1]]

\* What the rest of the program relies on: the right nodes are found, at the
\* right distance, over the lightest last hop, and the next hops agree.
SearchRight == FindsAll /\ LightestLastHop /\ NexthopFollowsPrevedge

\* The weight of the last hop to n; more than any while there is none.
Rank(n) ==
    CASE n \notin visited -> MaxWeight + 1
      [] n \in visited /\ prevedge[n] = None -> 0
      [] OTHER -> g.edges[prevedge[n]].weight

Variant == (N + 1) * (2 * MapThenSumSet(Rank, Nodes) + Len(todo)) - last

\* The outer loop of sssp_bfs, which appends to the list it walks, comes to an
\* end: a node goes back on the list only with a lighter last hop, so that every
\* turn makes a natural number smaller.
Shrinks == Variant' < Variant /\ Variant' >= 0
SearchEnds == [][Shrinks]_vars
=============================================================================
