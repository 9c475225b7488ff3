------------------------------ MODULE MeshNode ------------------------------
(***************************************************************************)
(* What one node knows of the mesh, and what the handlers of meta messages *)
(* do to it: src/graph.c, src/edge.c, src/protocol_edge.c, the part of     *)
(* ack_h (src/protocol_auth.c) that activates a connection and             *)
(* terminate_connection (src/net.c).                                       *)
(*                                                                         *)
(* A node's knowledge is a record v, its view.  A handler is an operator   *)
(* that returns [v |-> the new view, out |-> the requests it sends], out   *)
(* being the sequence of requests in the order they are queued, each with  *)
(* the set of peers it goes to.  Nodes are numbers, in the order strcmp    *)
(* puts their names; an edge is the pair <<from, to>>.  Addresses,         *)
(* submeshes, device classes and the counters of contradictions carried by *)
(* the requests are left out.                                              *)
(***************************************************************************)
EXTENDS Naturals, Sequences, SequencesExt, FiniteSetsExt

CONSTANTS
    N,        \* number of nodes
    None      \* the NULL pointer

ASSUME NAssumption == N \in Nat \ {0}

Nodes == 1 .. N

EdgeIds == {e \in Nodes \X Nodes : e[1] # e[2]}

Reverse2(e) == <<e[2], e[1]>>

Fresh == 0    \* the nonce of a request that send_request creates

\* A view: started is mesh->threadstarted, active the nodes with an active
\* connection, edges the edge trees, the others are fields of node_t.
NewView(n, sid) ==
    [self      |-> n,
     started   |-> TRUE,
     active    |-> {},
     edges     |-> <<>>,
     session   |-> [m \in Nodes |-> IF m = n THEN sid ELSE 0],
     nexthop   |-> [m \in Nodes |-> IF m = n THEN n ELSE None],
     prevedge  |-> [m \in Nodes |-> None],
     reachable |-> {n}]

-----------------------------------------------------------------------------
\* edge.c.  e->reverse is set exactly while both directions are in the trees.
lookup_edge(v, e) == e \in DOMAIN v.edges

HasReverse(v, e) == Reverse2(e) \in DOMAIN v.edges

edge_add(v, e, weight, sid) ==
    [v EXCEPT !.edges = [x \in DOMAIN v.edges \cup {e} |->
        IF x = e THEN [weight |-> weight, sid |-> sid] ELSE v.edges[x]]]

edge_del(v, e) ==
    [v EXCEPT !.edges = [x \in DOMAIN v.edges \ {e} |-> v.edges[x]]]

-----------------------------------------------------------------------------
(***************************************************************************)
(* graph.c.  What the breadth-first search of sssp_bfs finds; module       *)
(* GraphSearch has its loops.  Only edges known in both directions count.  *)
(***************************************************************************)
TwoWay(v) == {e \in DOMAIN v.edges : HasReverse(v, e)}

\* Hops from self to each node; N where there is no way.
Distance(v) ==
    LET edges == TwoWay(v)
        upTo[k \in 0 .. N - 1] ==
            IF k = 0 THEN [n \in Nodes |-> IF n = v.self THEN 0 ELSE N]
            ELSE LET dist == upTo[k - 1]
                     next == {e[2] : e \in {d \in edges : dist[d[1]] = k - 1}}
                 IN  [n \in Nodes |-> IF dist[n] = N /\ n \in next THEN k ELSE dist[n]]
    IN  upTo[N - 1]

\* The last hop to n: among the edges from nodes one hop closer, a lightest.
LastHop(v, dist, n) ==
    LET hops == {e \in TwoWay(v) : e[2] = n /\ dist[n] = dist[e[1]] + 1}
    IN  CHOOSE e \in hops :
            \A d \in hops : v.edges[e].weight <= v.edges[d].weight

\* Self is marked visited from the start, except while it is stopping: it is
\* then reached back over an edge from one of its neighbours.
BackHop(v) ==
    LET hops == {e \in TwoWay(v) : e[2] = v.self}
    IN  IF v.started \/ hops = {} THEN None
        ELSE CHOOSE e \in hops :
                 \A d \in hops : v.edges[e].weight <= v.edges[d].weight

sssp_bfs(v) ==
    LET dist == Distance(v)
        found == {n \in Nodes \ {v.self} : dist[n] < N}
        prevedge == [n \in Nodes |->
            IF n = v.self THEN BackHop(v)
            ELSE IF n \in found THEN LastHop(v, dist, n) ELSE v.prevedge[n]]
        first[n \in found] ==
            IF dist[n] = 1 THEN n ELSE first[prevedge[n][1]]
        nexthop == [n \in Nodes |->
            IF n \in found THEN first[n]
            ELSE IF n # v.self THEN v.nexthop[n]
            ELSE IF prevedge[n] = None THEN n ELSE prevedge[n][1]]
    IN  [v |-> [v EXCEPT !.prevedge = prevedge, !.nexthop = nexthop],
         visited |-> IF v.started \/ prevedge[v.self] # None
                     THEN found \cup {v.self} ELSE found]

\* The session that the neighbour's end of the last hop announces.
AnnouncedSession(v, n) == v.edges[Reverse2(v.prevedge[n])].sid

\* Mutant of check_reachability: the announced session is not taken over.
check_reachability_KeepsSession(v, visited) == [v EXCEPT !.reachable = visited]

check_reachability(v, visited) ==
    [v EXCEPT
        !.session = [n \in Nodes |->
            IF n \in visited /\ v.prevedge[n] # None
            THEN AnnouncedSession(v, n) ELSE v.session[n]],
        !.reachable = visited]

graph(v) ==
    LET search == sssp_bfs(v)
    IN  check_reachability(search.v, search.visited)

-----------------------------------------------------------------------------
\* Requests.  A new request has a nonce that prng draws for it (Fresh here),
\* one for all the peers in dest; a forwarded one keeps its nonce.
send_add_edge(v, dest, e) ==
    [dest |-> dest, kind |-> "add", edge |-> e, weight |-> v.edges[e].weight,
     sid |-> v.session[e[1]], nonce |-> Fresh]

send_del_edge(dest, e) ==
    [dest |-> dest, kind |-> "del", edge |-> e, weight |-> 0, sid |-> 0,
     nonce |-> Fresh]

forward_request(v, c, m) ==
    [dest |-> v.active \ {c}, kind |-> m.kind, edge |-> m.edge,
     weight |-> m.weight, sid |-> m.sid, nonce |-> m.nonce]

Done(v) == [v |-> v, out |-> <<>>]

\* An unreachable node that we remember to have an edge to us.
StaleEdgeToUs(v, n) == n \notin v.reachable /\ lookup_edge(v, <<n, v.self>>)

CleanUp(v, n) ==
    IF StaleEdgeToUs(v, n)
    THEN [v |-> edge_del(v, <<n, v.self>>),
          out |-> <<send_del_edge(v.active, <<n, v.self>>)>>]
    ELSE Done(v)

-----------------------------------------------------------------------------
\* protocol_edge.c, after seen_request has found the request to be new; c is
\* the neighbour it came from.
Matches(v, m) ==
    v.edges[m.edge] = [weight |-> m.weight, sid |-> m.sid]

LearnSession(v, m) ==
    IF v.session[m.edge[1]] = 0
    THEN [v EXCEPT !.session[m.edge[1]] = m.sid] ELSE v

AddAndForward(v, c, m) ==
    LET w == graph(edge_add(v, m.edge, m.weight, m.sid))
    IN  [v |-> w, out |-> <<forward_request(w, c, m)>>]

\* Mutant of add_edge_h: our own edges are treated like any other.
add_edge_h_TakesOwn(v0, c, m) ==
    LET v == LearnSession(v0, m)
    IN  IF lookup_edge(v, m.edge) /\ Matches(v, m) THEN Done(v)
        ELSE AddAndForward(v, c, m)

\* Mutant of add_edge_h: an edge that is as announced is answered too.
add_edge_h_AlwaysReplies(v0, c, m) ==
    LET v == LearnSession(v0, m)
    IN  IF lookup_edge(v, m.edge)
        THEN [v |-> v, out |-> <<send_add_edge(v, {c}, m.edge)>>]
        ELSE AddAndForward(v, c, m)

\* Mutant of add_edge_h: an edge from us that we do not have is not denied.
add_edge_h_NoDenial(v0, c, m) ==
    LET v == LearnSession(v0, m)
        from == m.edge[1]
        to == m.edge[2]
    IN  IF lookup_edge(v, m.edge) /\ Matches(v, m) THEN Done(v)
        ELSE IF from = v.self
        THEN [v |-> v,
              out |-> IF lookup_edge(v, m.edge)
                      THEN <<send_add_edge(v, {c}, m.edge)>> ELSE <<>>]
        ELSE IF /\ lookup_edge(v, m.edge)
                /\ to = v.self /\ from # c /\ from \in v.reachable
        THEN Done(v)
        ELSE AddAndForward(v, c, m)

add_edge_h(v0, c, m) ==
    LET v == LearnSession(v0, m)
        from == m.edge[1]
        to == m.edge[2]
    IN  IF lookup_edge(v, m.edge) /\ Matches(v, m) THEN Done(v)
        ELSE IF from = v.self
        THEN [v |-> v,
              out |-> <<IF lookup_edge(v, m.edge)
                        THEN send_add_edge(v, {c}, m.edge)
                        ELSE send_del_edge({c}, m.edge)>>]
        ELSE IF /\ lookup_edge(v, m.edge)
                /\ to = v.self /\ from # c /\ from \in v.reachable
        THEN Done(v)
        ELSE AddAndForward(v, c, m)

del_edge_h(v, c, m) ==
    IF ~lookup_edge(v, m.edge) THEN Done(v)
    ELSE IF m.edge[1] = v.self
    THEN [v |-> v, out |-> <<send_add_edge(v, {c}, m.edge)>>]
    ELSE LET cleaned == CleanUp(graph(edge_del(v, m.edge)), m.edge[2])
         IN  [cleaned EXCEPT !.out = <<forward_request(v, c, m)>> \o @]

-----------------------------------------------------------------------------
\* protocol_auth.c and net.c.
KnownEdges(v) ==
    LET before(d, e) == d[1] < e[1] \/ (d[1] = e[1] /\ d[2] < e[2])
    IN  SetToSortSeq(DOMAIN v.edges, before)

send_everything(v, c) ==
    LET es == KnownEdges(v)
    IN  [i \in 1 .. Len(es) |-> send_add_edge(v, {c}, es[i])]

\* The connection c becomes active.  An older connection with the same node
\* is closed first, its edge removed without telling anyone.
ack_h(v0, c, weight) ==
    LET own == <<v0.self, c>>
        v == [edge_del(v0, own) EXCEPT !.active = @ \cup {c}, !.nexthop[c] = c]
        w == edge_add(v, own, weight, 0)
    IN  [v |-> graph(w),
         out |-> Append(send_everything(v, c), send_add_edge(w, w.active, own))]

\* Mutant of terminate_connection: the call of graph() is missing.
terminate_connection_NoGraph(v0, c, report) ==
    LET own == <<v0.self, c>>
        v == [v0 EXCEPT !.active = @ \ {c}]
    IN  [v |-> edge_del(v, own),
         out |-> IF report THEN <<send_del_edge(v.active, own)>> ELSE <<>>]

\* The active connection with c is closed.
terminate_connection(v0, c, report) ==
    LET own == <<v0.self, c>>
        v == [v0 EXCEPT !.active = @ \ {c}]
        w == graph(edge_del(v, own))
        cleaned == IF report THEN CleanUp(w, c) ELSE Done(w)
    IN  [cleaned EXCEPT !.out =
            (IF report THEN <<send_del_edge(v.active, own)>> ELSE <<>>) \o @]
=============================================================================
