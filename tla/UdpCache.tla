------------------------------ MODULE UdpCache ------------------------------
(***************************************************************************)
(* Whom a UDP packet is from: the hash table of src/hash.c that            *)
(* src/node.c keeps from addresses to nodes, and everything that changes   *)
(* it: the graph, packets from unknown addresses, the addresses that come  *)
(* with ANS_KEY, and forgetting a node.  A slot holds one address only,    *)
(* and several addresses share a slot; an entry is not looked at again     *)
(* when its node is freed.                                                 *)
(***************************************************************************)
EXTENDS Integers, Sequences, SequencesExt

CONSTANTS
    Peers,          \* the other nodes
    Addrs,          \* addresses, with their ports
    Slot,           \* the slot of each of them: hash_function and modulo
    MaxRecent,      \* MAX_RECENT
    Followed,       \* the nodes whose recent addresses are followed: those of
                    \* one node have no effect on anything else
    Null,           \* NULL
    Freed           \* memory that was a node once

VARIABLES
    node,           \* what is kept of each node
    cache           \* mesh->node_udp_cache; "late" says of an entry that its
                    \* node was unreachable when it was made

cachevars == <<node, cache>>

new_node == [exists |-> FALSE, reachable |-> FALSE, ecdsa |-> FALSE, validkey |-> FALSE,
             address |-> Null, recent |-> <<>>]

hash_alloc == [s \in {Slot[a] : a \in Addrs} |-> [key |-> Null, value |-> Null, late |-> FALSE]]

Init == node = [n \in Peers |-> new_node] /\ cache = hash_alloc

-----------------------------------------------------------------------------
\* An address that was never set is all zeroes and hashes to some slot, whose
\* entry is lost as well.
hash_insert(c, key, value, late) ==
    [s \in DOMAIN c |->
        IF s = (IF key = Null THEN 1 ELSE Slot[key]) THEN [key |-> key, value |-> value, late |-> late] ELSE c[s]]

hash_search(c, key) == IF c[Slot[key]].key = key THEN c[Slot[key]].value ELSE Null

lookup_node_udp(from) == hash_search(cache, from)

\* The most recent addresses first: one that is known moves to the front, else
\* the oldest makes room.
node_add_recent_address(recent, sa) ==
    LET known == {i \in 1 .. Len(recent) : recent[i] = sa}
        i == IF known # {} THEN CHOOSE k \in known : TRUE
             ELSE IF Len(recent) = MaxRecent THEN MaxRecent ELSE Len(recent) + 1
    IN <<sa>> \o SubSeq(recent, 1, i - 1) \o SubSeq(recent, i + 1, Len(recent))

Recent(n, recent, sa) == IF n \in Followed THEN node_add_recent_address(recent, sa) ELSE recent

\* Nodes and cache together, since the graph updates several nodes at once.
State(ns, c) == [node |-> ns, cache |-> c]

\* Mutant of update_node_udp: the entry of the old address stays.
update_node_udp_OldStays(st, n, sa, late) ==
    IF sa = Null THEN [st EXCEPT !.cache = hash_insert(@, st.node[n].address, Null, FALSE)]
    ELSE State([st.node EXCEPT ![n].address = sa, ![n].recent = Recent(n, @, sa)],
               hash_insert(st.cache, sa, n, late))

update_node_udp(st, n, sa, late) ==
    LET cleared == hash_insert(st.cache, st.node[n].address, Null, FALSE) IN
    IF sa = Null THEN State(st.node, cleared)
    ELSE State([st.node EXCEPT ![n].address = sa, ![n].recent = Recent(n, @, sa)],
               hash_insert(cleared, sa, n, late))

Becomes(st) == node' = st.node /\ cache' = st.cache

-----------------------------------------------------------------------------
\* sssp_bfs: a node that is newly found gets the address of the edge it was
\* found by.  Every reachable node has an address, so the other condition for
\* an update never holds.
sssp_bfs(st, found, edge) ==
    LET After[i \in 0 .. Len(found)] ==
            IF i = 0 THEN st ELSE update_node_udp(After[i - 1], found[i], edge[found[i]], FALSE)
    IN After[Len(found)]

\* check_reachability, after the search; with a new session ID the keys are
\* dropped.  Nodes that are lost keep their address and their key.
check_reachability(st, found, lost, renewed) ==
    LET order == SetToSeq(lost)
        After[i \in 0 .. Len(order)] ==
            IF i = 0 THEN st ELSE update_node_udp(After[i - 1], order[i], Null, FALSE)
        s == After[Len(order)]
    IN State([n \in Peers |->
                 [s.node[n] EXCEPT !.reachable = (@ \/ n \in Range(found)) /\ n \notin lost,
                                   !.validkey = @ /\ n \notin renewed]], s.cache)

\* graph(): some nodes are found, in some order, and others are lost.
graph ==
    \E up \in SUBSET {n \in Peers : node[n].exists /\ ~node[n].reachable},
       lost \in SUBSET {n \in Peers : node[n].reachable} :
        /\ up # {} \/ lost # {}
        /\ \E found \in SetToSeqs(up), edge \in [up -> Addrs], renewed \in SUBSET {n \in up : node[n].validkey} :
              Becomes(check_reachability(sssp_bfs(State(node, cache), found, edge), found, lost, renewed))

\* node_add, when an edge or a connection mentions a node for the first time.
node_add(n) ==
    /\ ~node[n].exists
    /\ node' = [node EXCEPT ![n] = [new_node EXCEPT !.exists = TRUE]]
    /\ UNCHANGED cache

\* node_add_recent_address without a change of the UDP address: the address of a
\* connection (ack_h), one the local network announced (discovery.c), a hint of
\* the application (meshlink_hint_address).
Learn(n, sa) ==
    /\ node[n].exists /\ n \in Followed
    /\ node' = [node EXCEPT ![n].recent = node_add_recent_address(@, sa)]
    /\ UNCHANGED cache

\* node_read_public_key, once for a node: the addresses in its host file are put
\* after the known ones, as far as there is room, also those known already.  A
\* node that has no file gets its key from ANS_PUBKEY (an empty list here).
node_read_public_key(n, saved) ==
    /\ node[n].exists /\ ~node[n].ecdsa /\ (n \in Followed \/ saved = <<>>)
    /\ node' = [node EXCEPT ![n].ecdsa = TRUE,
                            ![n].recent = SubSeq(@ \o saved, 1, Min({MaxRecent, Len(@) + Len(saved)}))]
    /\ UNCHANGED cache

\* A key exchange is done, or begins again.
Key(n) ==
    /\ node[n].reachable /\ node[n].ecdsa
    /\ node' = [node EXCEPT ![n].validkey = ~@]
    /\ UNCHANGED cache

\* try_harder finds the node whose key fits: it tries reachable nodes with an
\* edge to that address, and others once a second.
try_harder(n) == node[n].reachable /\ node[n].validkey

\* handle_incoming_vpn_data, for a packet of n from an address.
handle_incoming_vpn_data(n, from) ==
    /\ lookup_node_udp(from) = Null /\ try_harder(n)
    /\ Becomes(update_node_udp(State(node, cache), n, from, FALSE))

\* ans_key_h: with a key, the address that came with the answer is used, also
\* if the node has become unreachable in the meantime.
ans_key_h(n, sa) ==
    /\ node[n].exists /\ node[n].validkey
    /\ Becomes(update_node_udp(State(node, cache), n, sa, ~node[n].reachable))

\* node_del, in meshlink_forget_node: the entries of the node now point to
\* freed memory.
node_del(n) ==
    /\ node[n].exists /\ ~node[n].reachable
    /\ node' = [node EXCEPT ![n] = new_node]
    /\ cache' = [s \in DOMAIN cache |->
                    IF cache[s].value = n THEN [cache[s] EXCEPT !.value = Freed] ELSE cache[s]]

Next ==
    \/ graph
    \/ \E n \in Peers : node_add(n) \/ Key(n) \/ node_del(n)
    \/ \E n \in Peers, a \in Addrs : handle_incoming_vpn_data(n, a) \/ ans_key_h(n, a) \/ Learn(n, a)
    \/ \E n \in Peers, saved \in BoundedSeq(Addrs, MaxRecent) : node_read_public_key(n, saved)

Spec == Init /\ [][Next]_cachevars

-----------------------------------------------------------------------------
\* The table never says that a packet is from a node which has another address
\* now, is unreachable or was freed, although entries are not looked for when a
\* node is freed: whatever moves or loses a node clears the slot of its address.
\* The exception are the entries that ans_key_h makes for a node that is
\* unreachable already: they are right until meshlink_forget_node frees the node.
\* The address a node was last found at over UDP is among the ones that are
\* tried again, unless MaxRecent others have taken all the places.
CacheCurrent ==
    /\ \A s \in DOMAIN cache :
          LET e == cache[s] IN
          e.value # Null /\ ~(e.late /\ e.value = Freed) =>
              /\ e.value \in Peers /\ node[e.value].exists /\ node[e.value].address = e.key
              /\ node[e.value].reachable \/ e.late
    /\ \A n \in Followed :
          node[n].address # Null => node[n].address \in Range(node[n].recent) \/ Len(node[n].recent) = MaxRecent
=============================================================================
