-------------------------------- MODULE Mesh --------------------------------
(***************************************************************************)
(* A mesh of nodes that tell each other, over meta connections that come   *)
(* and go, which connections exist.  Each node runs the handlers of        *)
(* MeshNode; requests travel in order over a connection and are lost with  *)
(* it.  The two ends of a connection notice separately that it is up (the  *)
(* peer's ACK arrives) and that it is gone.  A node may be stopped and     *)
(* started again (meshlink_stop, meshlink_start), or end and come back as  *)
(* a new process with a new session id.                                    *)
(***************************************************************************)
EXTENDS MeshNode

CONSTANTS
    Links,         \* the pairs <<a, b>>, a < b, that may be connected
    Up,            \* the links that are up, and known to all, at the start
    Weight,        \* Weight[e]: the weight of edge e
    MaxConnects,   \* bound: connections made
    MaxFaults      \* bound: broken connections, stopped and ended nodes

ASSUME BoundsAssumption ==
    /\ MaxConnects \in Nat /\ MaxFaults \in Nat
    /\ Up \subseteq Links /\ Links \subseteq {e \in EdgeIds : e[1] < e[2]}
    /\ Weight \in [EdgeIds -> Nat \ {0}]

VARIABLES
    view,    \* view[n]: what n knows
    conn,    \* conn[n][m]: n's end of the connection with m
    stale,   \* stale[n]: the peers whose connection broke, unnoticed by n
    wire,    \* wire[n][m]: requests from n that m has not received
    seen,    \* seen[n]: nonces of the requests in flight that n has handled
    sid,     \* sid[n]: the session id of n's process
    counts,  \* what has happened of what is bounded
    stopped  \* history: the nodes whose process has called meshlink_stop

vars == <<view, conn, stale, wire, seen, sid, counts, stopped>>

ConnStates == {"none", "pending", "active"}

Ack == [kind |-> "ack", edge |-> <<0, 0>>, weight |-> 0, sid |-> 0, nonce |-> 0,
        gen |-> 0]

\* The links of Up in both directions.
UpEdges == Up \cup {Reverse2(e) : e \in Up}

SettledView(n) ==
    graph([NewView(n, 1) EXCEPT
               !.active = {m \in Nodes : <<n, m>> \in UpEdges},
               !.edges = [e \in UpEdges |->
                   [weight |-> Weight[e], sid |-> IF e[1] = n THEN 0 ELSE 1]]])

Init ==
    /\ sid = [n \in Nodes |-> 1]
    /\ view = [n \in Nodes |-> SettledView(n)]
    /\ conn = [n \in Nodes |-> [m \in Nodes |->
                  IF <<n, m>> \in UpEdges THEN "active" ELSE "none"]]
    /\ stale = [n \in Nodes |-> {}]
    /\ wire = [n \in Nodes |-> [m \in Nodes |-> <<>>]]
    /\ seen = [n \in Nodes |-> {}]
    /\ counts = [connects |-> 0, faults |-> 0]
    /\ stopped = {}

-----------------------------------------------------------------------------
(***************************************************************************)
(* Sending.  prng draws a nonce no request in flight has: the least such   *)
(* number here.  Nonces of requests no longer in flight are forgotten.     *)
(* The field gen is history: 0 for a request that tells of a connection    *)
(* made or lost, one more than its cause for one sent in reaction to       *)
(* another request.                                                        *)
(***************************************************************************)
InFlight(w) ==
    UNION {{w[a][b][i].nonce : i \in DOMAIN w[a][b]} : a, b \in Nodes}

Message(o, nonce) ==
    [kind |-> o.kind, edge |-> o.edge, weight |-> o.weight, sid |-> o.sid,
     nonce |-> nonce, gen |-> o.gen]

\* New requests of generation k, among forwarded ones of the generation before.
Caused(out, k) ==
    [i \in DOMAIN out |->
        out[i] @@ [gen |-> IF out[i].nonce = Fresh THEN k ELSE k - 1]]

Send(acc, n, cs, o) ==
    LET nonce == IF o.nonce = Fresh
                 THEN Min((1 .. Cardinality(acc.used) + 1) \ acc.used)
                 ELSE o.nonce
    IN  [used |-> acc.used \cup {nonce},
         wire |-> [acc.wire EXCEPT ![n] = [m \in Nodes |->
             IF m \in o.dest /\ cs[m] = "active"
             THEN Append(@[m], Message(o, nonce)) ELSE @[m]]]]

\* The requests out of n on the wires w, cs being the state of n's ends.
\* Messages queued on a connection that is broken are lost.
Post(w, n, cs, out) ==
    LET One(acc, o) == Send(acc, n, cs, o)
    IN  FoldLeft(One, [used |-> InFlight(wire), wire |-> w], out).wire

Forget(s, w) == [n \in Nodes |-> s[n] \cap InFlight(w)]

\* The handler of node n returned res; w are the wires without what it read.
Handled(n, res, w, cs, heard) ==
    \E posted \in {Post(w, n, cs, res.out)} :
        /\ view' = [view EXCEPT ![n] = res.v]
        /\ wire' = posted
        /\ seen' = Forget([seen EXCEPT ![n] = @ \cup heard], posted)

Count(what) == counts' = [counts EXCEPT ![what] = @ + 1]

-----------------------------------------------------------------------------
Linked(a, b) == conn[a][b] # "none"

\* A connection between a and b, made by an end that has none, is
\* authenticated: both ends send an ACK.  Two connections that cross are left to
\* module Outgoing, and nobody is blacklisted.
Connect(a, b) ==
    /\ counts.connects < MaxConnects
    /\ <<a, b>> \in Links
    /\ view[a].started /\ view[b].started
    /\ ~Linked(a, b) /\ ~Linked(b, a)
    /\ b \notin view[a].active \/ a \notin view[b].active
    /\ conn' = [conn EXCEPT ![a][b] = "pending", ![b][a] = "pending"]
    /\ wire' = [wire EXCEPT ![a][b] = <<Ack>>, ![b][a] = <<Ack>>]
    /\ Count("connects")
    /\ UNCHANGED <<view, stale, seen, sid, stopped>>

\* n reads what m has sent, and handles it request by request.
Handle(h, n, m, r) ==
    LET res == IF r.kind = "ack" THEN ack_h(h.v, m, Weight[<<n, m>>])
               ELSE IF r.nonce \in h.seen THEN Done(h.v)
               ELSE IF r.kind = "add" THEN add_edge_h(h.v, m, r)
               ELSE del_edge_h(h.v, m, r)
        k == IF r.kind = "ack" THEN 0 ELSE r.gen + 1
    IN  [v |-> res.v, out |-> h.out \o Caused(res.out, k),
         seen |-> (h.seen \cup {r.nonce}) \ {Fresh}]

Receive(n, m) ==
    /\ wire[m][n] # <<>>
    /\ LET One(h, r) == Handle(h, n, m, r)
           start == [v |-> view[n], out |-> <<>>, seen |-> seen[n]]
       IN  \E res \in {FoldLeft(One, start, wire[m][n])} :
              Handled(n, res, [wire EXCEPT ![m][n] = <<>>],
                      [conn[n] EXCEPT ![m] = "active"], res.seen)
    /\ conn' = [conn EXCEPT ![n][m] = "active"]
    /\ stale' = IF Head(wire[m][n]) = Ack
                THEN [stale EXCEPT ![n] = @ \ {m}] ELSE stale
    /\ UNCHANGED <<sid, counts, stopped>>

\* The connections of the pairs in gone break: what is in flight is lost, an
\* end that was not yet active goes away, an active one goes stale, except
\* at the nodes in off, which have closed theirs.
Drop(gone, off) ==
    /\ conn' = [n \in Nodes |-> [m \in Nodes |->
                   IF <<n, m>> \in gone THEN "none" ELSE conn[n][m]]]
    /\ stale' = [n \in Nodes |-> IF n \in off THEN {} ELSE
                   stale[n] \cup {m \in Nodes : /\ <<n, m>> \in gone
                                                /\ conn[n][m] = "active"}]

Cut(gone) == [n \in Nodes |-> [m \in Nodes |->
                 IF <<n, m>> \in gone THEN <<>> ELSE wire[n][m]]]

Break(a, b) ==
    /\ counts.faults < MaxFaults
    /\ a < b /\ Linked(a, b)
    /\ Drop({<<a, b>>, <<b, a>>}, {})
    /\ wire' = Cut({<<a, b>>, <<b, a>>})
    /\ seen' = Forget(seen, wire')
    /\ Count("faults")
    /\ UNCHANGED <<view, sid, stopped>>

\* n notices that its connection with m is gone.
Notice(n, m) ==
    /\ m \in stale[n]
    /\ stale' = [stale EXCEPT ![n] = @ \ {m}]
    /\ LET res == terminate_connection(view[n], m, TRUE)
       IN  Handled(n, [res EXCEPT !.out = Caused(@, 0)], wire, conn[n], {})
    /\ UNCHANGED <<conn, sid, counts, stopped>>

AllOf(n) == {e \in EdgeIds : n \in {e[1], e[2]}}

StopView(v) ==
    LET Close(w, c) == terminate_connection(w, c, FALSE).v
    IN  graph(FoldLeft(Close, [v EXCEPT !.started = FALSE],
                       SetToSortSeq(v.active, <)))

Stop(n) ==
    /\ counts.faults < MaxFaults
    /\ view[n].started
    /\ view' = [view EXCEPT ![n] = StopView(@)]
    /\ Drop(AllOf(n), {n})
    /\ wire' = Cut(AllOf(n))
    /\ seen' = Forget(seen, wire')
    /\ Count("faults")
    /\ stopped' = stopped \cup {n}
    /\ UNCHANGED sid

Start(n) ==
    /\ ~view[n].started
    /\ view' = [view EXCEPT ![n] = graph([@ EXCEPT !.started = TRUE])]
    /\ UNCHANGED <<conn, stale, wire, seen, sid, counts, stopped>>

\* n's process ends and a new one opens the same configuration.
Restart(n) ==
    /\ counts.faults < MaxFaults
    /\ sid' = [sid EXCEPT ![n] = @ + 1]
    /\ view' = [view EXCEPT ![n] = NewView(n, sid'[n])]
    /\ Drop(AllOf(n), {n})
    /\ wire' = Cut(AllOf(n))
    /\ seen' = Forget([seen EXCEPT ![n] = {}], wire')
    /\ Count("faults")
    /\ stopped' = stopped \ {n}

Next ==
    \/ \E a, b \in Nodes : Connect(a, b) \/ Break(a, b)
    \/ \E n, m \in Nodes : Receive(n, m) \/ Notice(n, m)
    \/ \E n \in Nodes : Stop(n) \/ Start(n) \/ Restart(n)

Spec == Init /\ [][Next]_vars

-----------------------------------------------------------------------------
\* The type invariant; the connections a node has activated (c->status.active)
\* are the working ones and those it has not yet found to be broken.
TypeOK ==
    /\ conn \in [Nodes -> [Nodes -> ConnStates]]
    /\ stale \in [Nodes -> SUBSET Nodes]
    /\ \A n \in Nodes :
          /\ view[n].self = n
          /\ DOMAIN view[n].edges \subseteq EdgeIds
          /\ view[n].session \in [Nodes -> Nat]
          /\ view[n].active =
                stale[n] \cup {m \in Nodes : conn[n][m] = "active"}

OwnEdges(n) == {e \in DOMAIN view[n].edges : e[1] = n}

\* The edges a node has from itself are those of its active connections,
\* whatever add_edge_h and del_edge_h are told about them by other nodes.
OwnEdgesKept ==
    \A n \in Nodes : OwnEdges(n) = {<<n, m>> : m \in view[n].active}

\* After every handler the reachability a node reports is that of the edges it
\* has, although del_edge_h and terminate_connection delete one more edge after
\* they have called graph().  The next hop to a reachable node is a node with
\* which there is an active connection, and its prevedge is in the edge tree:
\* send_meta and the MTU probes follow these pointers without a check.
RoutesUsable ==
    \A n \in Nodes :
        /\ LET dist == Distance(view[n])
           IN  view[n].reachable \ {n} = {m \in Nodes \ {n} : dist[m] < N}
        /\ \A m \in view[n].reachable \ {n} :
              /\ view[n].nexthop[m] \in view[n].active
              /\ view[n].prevedge[m] \in TwoWay(view[n])

\* Nothing is left to be read or noticed, and every node is started.
Quiet ==
    /\ \A n, m \in Nodes : wire[n][m] = <<>>
    /\ \A n \in Nodes : stale[n] = {} /\ view[n].started

\* The nodes that connections lead to from n.
Connected(n) ==
    LET near[k \in 0 .. N] ==
            IF k = 0 THEN {n}
            ELSE LET S == near[k - 1]
                 IN  S \cup {m \in Nodes : \E o \in S : conn[o][m] = "active"}
    IN  near[N]

\* When the mesh has come to rest, no node believes a node reachable that no
\* chain of connections leads to: the DEL_EDGE requests and the clean-up of
\* edges to us outlive every stale ADD_EDGE, also the ones that a node that
\* comes (back) is told by a neighbour that is behind.
NoGhosts ==
    Quiet => \A n \in Nodes : view[n].reachable \subseteq Connected(n)

\* When the mesh has come to rest, every node knows the session of the
\* nodes it can reach: one that came back as a new process is never taken
\* for the old one (check_reachability then resets its keys and channels).
\* Nodes that were stopped are left out, see SessionKept.
SessionKnown ==
    Quiet => \A n \in Nodes : \A o \in view[n].reachable \ stopped :
        view[n].session[o] = sid[o]

\* The corrections that add_edge_h and del_edge_h send back, for requests that
\* contradict what a node knows of itself, do not go back and forth: a request
\* is corrected, and the correction at most once more.
CorrectionsEnd ==
    \A n, m \in Nodes : \A i \in DOMAIN wire[n][m] : wire[n][m][i].gen <= 2

\* When the mesh has come to rest, every node can reach every node that a
\* chain of connections leads to (meshlink_get_node_reachability).
ReachableRight ==
    Quiet => \A n \in Nodes : view[n].reachable = Connected(n)

\* While its process runs, a node keeps its session id, node_t.session_id of
\* mesh->self, through meshlink_stop and meshlink_start.
SessionKept == \A n \in Nodes : view[n].session[n] = sid[n]
=============================================================================
