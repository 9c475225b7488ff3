------------------------------ MODULE Outgoing ------------------------------
(***************************************************************************)
(* The meta-connections of one node: the list of outgoing_t records that   *)
(* keep a connection to a peer alive (net_socket.c), the connection_t      *)
(* records they hand around (connection.c, protocol_auth.c), the timers    *)
(* and the ADNS answers that move them, autoconnect, which makes and       *)
(* breaks connections (net.c), and the calls of the application that reach *)
(* into them: blacklist, whitelist, forget, address hints (meshlink.c).    *)
(*                                                                         *)
(* Times are abstracted to what can happen next: a timer that is set may   *)
(* fire, a connection may fail or time out at any point, a DNS answer may  *)
(* come late.  An address list is the number of its addresses; connect()   *)
(* fails at once for some of them and goes on for others.                  *)
(***************************************************************************)
EXTENDS Integers, FiniteSets

CONSTANTS
    Peers,          \* the other nodes, as 1..n in the order of their names
    Class,          \* Peers -> the dev_class_t of each one
    MyClass,        \* the dev_class_t of this node
    MinConnects,    \* dev_class_traits[MyClass].min_connects
    MaxConnects,    \* dev_class_traits[MyClass].max_connects
    RetryRounds,    \* runs of the periodic timer within retry_timeout
    Canonical,      \* the peers with a canonical address
    Connected,      \* the peers this node is connected to at the start, 1..k
    MaxConns,       \* bound: connection_t records at a time
    MaxAddresses,   \* bound: addresses in a list
    MaxChanges      \* bound: calls to blacklist or forget a peer

ASSUME PeersAssumption ==
    /\ Peers \subseteq Nat \ {0}
    /\ Class \in [Peers -> Nat]
    /\ Canonical \subseteq Peers
    /\ Connected \subseteq Peers /\ Connected \subseteq 1 .. MaxConns
    /\ MaxConns \in Nat /\ MaxAddresses \in Nat /\ RetryRounds \in Nat

VARIABLES
    conn,       \* Ids -> connection_t, or NoConn where there is none
    link,       \* Peers -> n->connection, 0 where it is NULL
    list,       \* Peers -> outgoing_t on mesh->outgoings, or NoOutgoing
    asked,      \* Peers -> ADNS requests whose answer has not been handled
    node,       \* Peers -> the fields of node_t used here
    broken,     \* a freed outgoing_t has been used: anything may happen
    changes     \* calls to blacklist or forget a peer so far

vars == <<conn, link, list, asked, node, broken, changes>>

Ids == 1 .. MaxConns

NoConn     == [phase |-> "none"]
NoOutgoing == [state |-> "none"]

\* c->outgoing: 0 for NULL, a peer for its record on the list, Freed for a
\* record that has been deleted while the connection still pointed at it.
Freed   == -1
Unknown == 0

\* The part of the state that connection handling changes.
State == [conn |-> conn, link |-> link, list |-> list, asked |-> asked,
          broken |-> broken]

Becomes(s) ==
    /\ conn' = s.conn
    /\ link' = s.link
    /\ list' = s.list
    /\ asked' = s.asked
    /\ broken' = s.broken

Open(s)      == {c \in Ids : s.conn[c].phase # "none"}
Holders(s, n) == {c \in Open(s) : s.conn[c].out = n}

\* The slot of a new connection_t; there may be none left (MaxConns).
Free(s) == Ids \ Open(s)
Slot(s) == CHOOSE c \in Free(s) : TRUE

-----------------------------------------------------------------------------
(* Outgoing connections (net_socket.c).                                     *)

\* list_delete(mesh->outgoings, ...): the record is freed, its timer with it.
Deleted(s, n) ==
    [s EXCEPT !.list[n] = NoOutgoing,
              !.conn = [c \in Ids |-> IF c \in Holders(s, n)
                                      THEN [s.conn[c] EXCEPT !.out = Freed]
                                      ELSE s.conn[c]]]

\* A connection_t for the address that was reached, registered as connecting.
Attempt(n) == [phase |-> "connecting", name |-> n, out |-> n]

retry_outgoing == [state |-> "END", left |-> 0, ev |-> TRUE]

\* The addresses this node has seen the peer at, and those on the edges of the
\* peer, of which there may be any number.
get_recent_addresses(n) == node[n].recent
get_known_addresses == 0 .. MaxAddresses

\* The number of recent addresses after one has been seen, which may be one of them.
node_add_recent_address(recent) == {r \in {recent, recent + 1} : 0 < r /\ r <= MaxAddresses}

\* get_next_outgoing_address: what is left of the address lists of the record o,
\* and whether this call starts with them.  known is the number of addresses
\* found on the edges of the peer when the search gets there.
Remaining(o, n, known) ==
    CASE o.state = "START"     -> [CANONICAL |-> 0, RECENT |-> get_recent_addresses(n), KNOWN |-> known]
      [] o.state = "CANONICAL" -> [CANONICAL |-> o.left, RECENT |-> 0, KNOWN |-> 0]
      [] o.state = "RECENT"    -> [CANONICAL |-> 0, RECENT |-> o.left, KNOWN |-> known]
      [] o.state = "KNOWN"     -> [CANONICAL |-> 0, RECENT |-> 0, KNOWN |-> o.left]
      [] OTHER                 -> [CANONICAL |-> 0, RECENT |-> 0, KNOWN |-> 0]

\* What do_outgoing_connection may come to with the record o of n, and the record
\* then.  It walks through the addresses until connect() is under way for one.
Tries(o, n) ==
    IF o.state \in {"START", "RESOLVE"} /\ n \in Canonical
    THEN {[does |-> "ask", o |-> [o EXCEPT !.state = "RESOLVE"]]}
    ELSE UNION {
        LET rest == Remaining(o, n, known)
            none == \A l \in DOMAIN rest : rest[l] = 0
        IN  {IF o.state = "START" /\ none THEN [does |-> "delete", o |-> NoOutgoing]
                                          ELSE [does |-> "retry", o |-> retry_outgoing]}
            \cup UNION {{[does |-> "connect", o |-> [state |-> l, left |-> left, ev |-> FALSE]] :
                             left \in 0 .. rest[l] - 1} : l \in DOMAIN rest}
        : known \in get_known_addresses}

\* The state after that, with c for a new connection_t.
Tried(s, n, t, c) ==
    CASE t.does = "ask"     -> [s EXCEPT !.list[n] = t.o, !.asked[n] = @ + 1]
      [] t.does = "delete"  -> Deleted(s, n)
      [] t.does = "retry"   -> [s EXCEPT !.list[n] = t.o]
      [] t.does = "connect" -> [s EXCEPT !.list[n] = t.o, !.conn[c] = Attempt(n)]

\* The outcomes of do_outgoing_connection.
do_outgoing_connection(s, n) ==
    {Tried(s, n, t, Slot(s)) : t \in {u \in Tries(s.list[n], n) : u.does = "connect" => Free(s) # {}}}

reset_outgoing(o) == [o EXCEPT !.state = "START", !.left = 0]

\* The outcomes of setup_outgoing_connection; retry_outgoing_handler.
setup_outgoing_connection(s, n) ==
    LET stopped == [s EXCEPT !.list[n].ev = FALSE]
        reset   == [stopped EXCEPT !.list[n] = reset_outgoing(@)]
    IN  IF s.link[n] # 0
        THEN {[stopped EXCEPT !.conn[s.link[n]].out = n]}
        ELSE IF node[n].black = "yes"
        THEN {reset}
        ELSE do_outgoing_connection(reset, n)

\* The outcomes of terminate_connection.  The edge of the connection and the
\* graph are the business of module MeshNode.
terminate_connection(s, c) ==
    LET was  == s.conn[c]
        gone == [s EXCEPT !.conn[c] = NoConn,
                          !.link = [n \in Peers |-> IF s.link[n] = c THEN 0 ELSE s.link[n]]]
    IN  CASE was.out = Freed   -> {[gone EXCEPT !.broken = TRUE]}
          [] was.out = Unknown -> {gone}
          [] OTHER             -> do_outgoing_connection(gone, was.out)

-----------------------------------------------------------------------------
(* Autoconnect (net.c).                                                     *)

Active(s)      == {c \in Open(s) : s.conn[c].phase = "active"}
ActiveIn(s, k) == {c \in Active(s) : Class[s.conn[c].name] = k}
UpTo(s, k)     == UNION {ActiveIn(s, j) : j \in 0 .. k}

\* Among peers of one class the time of the last connection decides.  It is not
\* modelled: any of them may come first.  (Between a peer that was never
\* connected and one that was, the comparison says "before" whichever way round
\* it is asked, so the order of insertion decides.)
AscBefore(m, n) == Class[m] <= Class[n]
LscBefore(m, n) == TRUE

\* What may be at the head of a tree of these peers, 0 if it is empty.
Heads(set, Before(_, _)) ==
    IF set = {} THEN {0} ELSE {n \in set : \A m \in set \ {n} : Before(n, m)}

\* Whether there is a node_t for n.
Known(n) == node[n].known # "forgotten"

Eligible(n) == Known(n) /\ node[n].black # "yes" /\ node[n].tried = 0

\* The peers to choose from for connecting, 0 for none; far are the peers that are reachable
\* through others.
connect_to(s, far) ==
    LET cur    == Cardinality(Active(s))
        near   == {n \in Peers : s.link[n] # 0} \cup far
        free   == {n \in Peers : Eligible(n) /\ s.link[n] = 0}
        spare  == MinConnects <= cur /\ cur < MaxConnects
        \* The loop over the classes ends at the first with enough connections.
        scarce == {k \in 0 .. MyClass :
                     /\ \A j \in 0 .. k : Cardinality(UpTo(s, j)) < MinConnects
                     /\ \E n \in free : Class[n] = k}
        class  == CHOOSE k \in scarce : \A j \in scarce : k <= j
        away   == {n \in Peers \ near : Eligible(n) /\ Class[n] <= MyClass}
    IN  IF cur < MinConnects
        THEN Heads({n \in free : Class[n] <= MyClass}, AscBefore)
        ELSE IF spare /\ scarce # {}
        THEN Heads({n \in free : Class[n] = class}, LscBefore)
        ELSE IF spare THEN Heads(away, AscBefore) ELSE {0}

\* node_compare_devclass_desc
DescBefore(m, n) == Class[m] < Class[n] \/ (Class[m] = Class[n] /\ m < n)

\* The same for disconnecting.
disconnect_from(s) ==
    LET cur    == Cardinality(Active(s))
        excess == {k \in 0 .. MyClass : MinConnects < Cardinality(UpTo(s, k))}
        class  == CHOOSE k \in excess : \A j \in excess : k <= j
        ours   == {s.conn[c].name : c \in {d \in Active(s) : s.conn[d].out # 0}}
        poor   == {n \in ours : Class[n] >= class}
    IN  \* cur_connects was counted before a connection attempt, which adds none
        IF MinConnects < cur /\ excess # {} /\ poor # {}
        THEN Heads(poor, DescBefore)
        ELSE IF MaxConnects < cur
        THEN Heads({s.conn[c].name : c \in Active(s)}, DescBefore)
        ELSE {0}

\* node_t has the time of the last try; here it is counted in runs of the
\* periodic timer, of which retry_timeout holds one for each node of the mesh.
\* perform connect: a new outgoing_t unless there is one or the peer's public
\* key is not known.
PerformConnect(s, n, far) ==
    IF n = 0 \/ s.link[n] # 0 THEN {s}
    ELSE IF s.list[n].state # "none" \/ (n \notin far /\ ~node[n].pubkey) THEN {s}
    ELSE setup_outgoing_connection(
             [s EXCEPT !.list[n] = [state |-> "START", left |-> 0, ev |-> FALSE]], n)

\* Mutant of PerformDisconnect: the connection keeps its pointer.
PerformDisconnect_PointerKept(s, n) ==
    IF n = 0 \/ s.link[n] = 0 THEN {s}
    ELSE LET held == s.conn[s.link[n]].out
         IN  terminate_connection(IF held \in Peers THEN Deleted(s, held) ELSE s, s.link[n])

\* perform disconnect: the outgoing_t is deleted first, so that the connection
\* is not made again.
PerformDisconnect(s, n) ==
    IF n = 0 \/ s.link[n] = 0 THEN {s}
    ELSE LET c    == s.link[n]
             held == s.conn[c].out
             cut  == [s EXCEPT !.conn[c].out = Unknown]
         IN  terminate_connection(IF held \in Peers THEN Deleted(cut, held) ELSE cut, c)

periodic_handler ==
    \E far \in SUBSET {n \in Peers : Known(n)} :
    \E n \in connect_to(State, far) :
       /\ \E s \in PerformConnect(State, n, far) :
          \E m \in disconnect_from(s) :
          \E t \in PerformDisconnect(s, m) : Becomes(t)
       /\ node' = [k \in Peers |->
                     [node[k] EXCEPT !.tried = IF k = n /\ link[n] = 0 THEN RetryRounds
                                               ELSE IF @ > 0 THEN @ - 1 ELSE 0]]
       /\ UNCHANGED changes

-----------------------------------------------------------------------------
(* Timers, answers and events of the connections.                           *)

retry_outgoing_handler(n) ==
    /\ list[n].state # "none" /\ list[n].ev
    /\ \E s \in setup_outgoing_connection(State, n) : Becomes(s)
    /\ UNCHANGED <<node, changes>>

\* The answer of the ADNS thread, with the number of addresses found.
canonical_resolve_cb(n, found) ==
    LET answered == [State EXCEPT !.asked[n] = @ - 1]
        resolved == [answered EXCEPT !.list[n] = [@ EXCEPT !.state = "CANONICAL", !.left = found]]
    IN  /\ asked[n] > 0
        /\ IF list[n].state = "RESOLVE"
           THEN \E s \in do_outgoing_connection(resolved, n) : Becomes(s)
           ELSE Becomes(answered)
        /\ UNCHANGED <<node, changes>>

\* handle_meta_io, connect() has succeeded: the connection sends its ID.
finish_connecting(c) ==
    /\ conn[c].phase = "connecting"
    /\ conn' = [conn EXCEPT ![c].phase = "id"]
    /\ UNCHANGED <<link, list, asked, node, broken, changes>>

\* Whatever ends a connection: connect() has failed, the peer has closed, a
\* request was refused (wrong or unknown name, no key, ERROR, TERMREQ), the
\* ping or the authentication timed out.
Ends(c) ==
    /\ conn[c].phase # "none"
    /\ \E s \in terminate_connection(State, c) : Becomes(s)
    /\ UNCHANGED <<node, changes>>

\* retry, when the network has changed: the active connections whose local
\* address is gone are closed, and each record they had is tried again; no two
\* have the same one (OneAttempt), so the order is of no importance.  A new
\* connection_t takes the place of the old one.  retry makes timers fire sooner,
\* which they may do here at any time.
retry ==
    /\ \E gone \in SUBSET Active(State) \ {{}} :
       LET again == {n \in Peers : \E c \in gone : conn[c].out = n} IN
       \E t \in {f \in [again -> UNION {Tries(list[n], n) : n \in again}] :
                    \A n \in again : f[n] \in Tries(list[n], n)} :
          /\ conn' = [c \in Ids |->
                         IF c \notin gone THEN conn[c]
                         ELSE IF conn[c].out \in again /\ t[conn[c].out].does = "connect"
                              THEN Attempt(conn[c].out) ELSE NoConn]
          /\ link' = [n \in Peers |-> IF link[n] \in gone THEN 0 ELSE link[n]]
          /\ list' = [n \in Peers |-> IF n \in again THEN t[n].o ELSE list[n]]
          /\ asked' = [n \in Peers |-> IF n \in again /\ t[n].does = "ask" THEN asked[n] + 1 ELSE asked[n]]
          /\ broken' = \E c \in gone : conn[c].out = Freed
    /\ UNCHANGED <<node, changes>>

\* timeout_handler looks at c->outgoing->timeout before a connection is active.
timeout_handler(c) ==
    /\ conn[c].phase \in {"connecting", "id", "auth"} /\ conn[c].out = Freed
    /\ broken' = TRUE
    /\ UNCHANGED <<conn, link, list, asked, node, changes>>

handle_new_meta_connection ==
    /\ Free(State) # {}
    /\ conn' = [conn EXCEPT ![Slot(State)] = [phase |-> "id", name |-> Unknown, out |-> 0]]
    /\ UNCHANGED <<link, list, asked, node, broken, changes>>

\* ID, accepted: the peer is the one this connection was made to, or any known
\* one with a key on a connection that came in.
id_h(c, n) ==
    /\ conn[c].phase = "id"
    /\ conn[c].out # 0 => conn[c].name = n
    /\ Known(n) /\ node[n].pubkey
    /\ conn' = [conn EXCEPT ![c].phase = "auth", ![c].name = n]
    /\ UNCHANGED <<link, list, asked, node, broken, changes>>

\* Mutant of Taken: the record is not handed over.
Taken_None(s, gone, c) == {s.conn[c].out}

\* The outgoing_t that c has when the connections gone have given theirs to it:
\* its own, or one of theirs.
Taken(s, gone, c) ==
    LET theirs == {s.conn[d].out : d \in gone} \ {0}
    IN  IF s.conn[c].out # 0 \/ theirs = {} THEN {s.conn[c].out} ELSE theirs

\* These connections give way to c: without an outgoing_t, terminate_connection
\* just closes them.
Replaced(s, gone, c) ==
    {[s EXCEPT !.conn = [d \in Ids |-> IF d \in gone THEN NoConn
                                       ELSE IF d = c THEN [s.conn[c] EXCEPT !.out = o]
                                       ELSE s.conn[d]]] : o \in Taken(s, gone, c)}

new_node == [known |-> "again", black |-> "never", recent |-> 0, tried |-> 0, pubkey |-> FALSE]

\* Mutant of Older: it stays open.
Older_Kept(s, n) == {}

\* The connection there was with n.
Older(s, n) == IF s.link[n] = 0 THEN {} ELSE {s.link[n]}

\* Those still being set up.
Pending(s, n) == {d \in Open(s) : s.conn[d].phase # "active" /\ s.conn[d].name = n}

\* ACK: the older connection and those still being set up give way.  A peer that
\* has been forgotten in the meantime is known again, without its key.
ack_h(c) ==
    LET n     == conn[c].name
        Up(s) == [s EXCEPT !.link[n] = c, !.conn[c].phase = "active"]
    IN  /\ conn[c].phase = "auth"
        /\ \E s \in Replaced(State, Older(State, n), c) :
           \E t \in Replaced(Up(s), Pending(Up(s), n), c) : Becomes(t)
        /\ LET m == IF Known(n) THEN node[n] ELSE new_node
           IN  \E r \in node_add_recent_address(m.recent) :
                  node' = [node EXCEPT ![n] = [m EXCEPT !.recent = r]]
        /\ UNCHANGED changes

\* PONG: the list of addresses starts anew when the connection ends.
pong_h(c) ==
    /\ conn[c].phase = "active" /\ conn[c].out # 0
    /\ IF conn[c].out = Freed
       THEN broken' = TRUE /\ UNCHANGED list
       ELSE list' = [list EXCEPT ![conn[c].out] = reset_outgoing(@)] /\ UNCHANGED broken
    /\ UNCHANGED <<conn, link, asked, node, changes>>

-----------------------------------------------------------------------------
(* Calls of the application, and what other parts learn about a peer.       *)

Called == changes < MaxChanges /\ changes' = changes + 1

\* The sockets of its connections are shut down, which ends them later.
blacklist(n) ==
    /\ Called
    /\ Known(n) /\ node[n].black # "yes"
    /\ node' = [node EXCEPT ![n].black = "yes"]
    /\ UNCHANGED <<conn, link, list, asked, broken>>

whitelist(n) ==
    /\ node[n].black = "yes"
    /\ node' = [node EXCEPT ![n].black = "was"]
    /\ UNCHANGED <<conn, link, list, asked, broken, changes>>

\* c->node is set when a connection becomes active, so attempts that are still
\* under way do not stand in the way.  The peer is not reachable through others.
\* Only an ACK makes it known again here.  (If its file cannot be deleted, the
\* record is gone and the node stays.)
meshlink_forget_node(n) ==
    /\ Called
    /\ Known(n) /\ link[n] = 0
    /\ ~\E c \in Active(State) : conn[c].name = n
    /\ Becomes(IF list[n].state = "none" THEN State ELSE Deleted(State, n))
    /\ node' = [node EXCEPT ![n].known = "forgotten"]

\* A new address is put first.
meshlink_hint_address(n) ==
    /\ Known(n) /\ node[n].recent < MaxAddresses
    /\ node' = [node EXCEPT ![n].recent = @ + 1]
    /\ UNCHANGED <<conn, link, list, asked, broken, changes>>

\* Discovery on the local network: the peer may be tried at once, its timer is
\* made to fire and its connection to be pinged.
mdns_io_handler(n) ==
    /\ Known(n)
    /\ \E r \in node_add_recent_address(node[n].recent) :
          node' = [node EXCEPT ![n].recent = r, ![n].tried = 0]
    /\ UNCHANGED <<conn, link, list, asked, broken, changes>>

\* ANS_PUBKEY
NewKey(n) ==
    /\ Known(n) /\ ~node[n].pubkey
    /\ node' = [node EXCEPT ![n].pubkey = TRUE]
    /\ UNCHANGED <<conn, link, list, asked, broken, changes>>

-----------------------------------------------------------------------------
Init ==
    /\ conn = [c \in Ids |-> IF c \in Connected
                             THEN [phase |-> "active", name |-> c, out |-> c] ELSE NoConn]
    /\ link = [n \in Peers |-> IF n \in Connected THEN n ELSE 0]
    /\ list = [n \in Peers |-> IF n \in Connected
                               THEN [state |-> "RECENT", left |-> 0, ev |-> FALSE]
                               ELSE NoOutgoing]
    /\ asked = [n \in Peers |-> 0]
    /\ node \in [Peers -> [known: {"yes"}, black: {"never"}, recent: {0, 1}, tried: {0},
                           pubkey: {FALSE, TRUE}]]
    /\ \A n \in Connected : node[n].recent = 1 /\ node[n].pubkey
    /\ broken = FALSE
    /\ changes = 0

Works == ~broken

Next ==
    \/ Works /\ periodic_handler
    \/ Works /\ handle_new_meta_connection
    \/ Works /\ retry
    \/ \E n \in Peers :
          \/ Works /\ retry_outgoing_handler(n)
          \/ \E found \in 0 .. MaxAddresses : Works /\ canonical_resolve_cb(n, found)
          \/ Works /\ blacklist(n)
          \/ Works /\ whitelist(n)
          \/ Works /\ meshlink_forget_node(n)
          \/ Works /\ meshlink_hint_address(n)
          \/ Works /\ mdns_io_handler(n)
          \/ Works /\ NewKey(n)
    \/ \E c \in Ids :
          \/ Works /\ finish_connecting(c)
          \/ Works /\ Ends(c)
          \/ Works /\ timeout_handler(c)
          \/ Works /\ ack_h(c)
          \/ Works /\ pong_h(c)
          \/ \E n \in Peers : Works /\ id_h(c, n)

Spec == Init /\ [][Next]_vars

-----------------------------------------------------------------------------
\* The attempts that keep a record on the list alive: its timer, the DNS answer
\* it waits for, the connections that will come back to it when they end.
Attempts(n) ==
    (IF list[n].ev THEN {<<"timer", 0>>} ELSE {})
    \cup (IF list[n].state = "RESOLVE" /\ asked[n] > 0 THEN {<<"dns", 0>>} ELSE {})
    \cup {<<"connection", c>> : c \in Holders(State, n)}

\* A record on mesh->outgoings is carried on by exactly one thing: a timer, a
\* DNS request or a connection.  With two, the same peer is tried twice and the
\* record may be freed under one of them; with none, it is never tried again.
\* The one exception is a peer that has been blacklisted: the record is left
\* on the list with nothing to carry it on.
OneAttempt ==
    \A n \in Peers : list[n].state # "none" =>
        \/ \E a \in Attempts(n) : Attempts(n) = {a}
        \/ Attempts(n) = {} /\ node[n].black # "never"

\* n->connection is the one active connection with n: there is never a second,
\* whichever of the two ends connected and in whatever order the ACKs came in.
OneActive ==
    \A n \in Peers :
        {c \in Active(State) : conn[c].name = n} = IF link[n] = 0 THEN {} ELSE {link[n]}

\* No connection points at an outgoing_t that has been freed, and none is used
\* after that (by the next timeout, or when the connection ends), unless its peer was forgotten
\* while the connection was being set up.
OutgoingLives ==
    /\ \A c \in Open(State) :
         conn[c].out = Freed => conn[c].name \in Peers /\ node[conn[c].name].known # "yes"
    /\ broken => \E n \in Peers : node[n].known # "yes"

\* "devclass desc": of several connections that autoconnect could break, it
\* breaks one with a peer of the highest device class, the least useful one.
DisconnectsWorst ==
    [][periodic_handler =>
         \A n \in Peers : (link[n] # 0 /\ link'[n] = 0) =>
         \A m \in Peers : (link[m] # 0 /\ conn[link[m]].out # 0) => Class[m] <= Class[n]]_vars

-----------------------------------------------------------------------------
(* The inductive invariant behind the three (module OutgoingProofs), of a    *)
(* state s as the functions above hand it on.                                *)

Connection == [phase : {"connecting", "id", "auth", "active"}, name : Peers \cup {Unknown},
               out : Peers \cup {0, Freed}]
Record     == [state : {"START", "RESOLVE", "CANONICAL", "RECENT", "KNOWN", "END"},
               left : Int, ev : BOOLEAN]

Typed(s) ==
    /\ s.conn \in [Ids -> Connection \cup {NoConn}]
    /\ s.link \in [Peers -> Ids \cup {0}]
    /\ s.list \in [Peers -> Record \cup {NoOutgoing}]
    /\ s.asked \in [Peers -> Nat]

NodesTyped == node \in [Peers -> [known : {"yes", "forgotten", "again"}, black : {"never", "yes", "was"},
                                  recent : Nat, tried : Nat, pubkey : BOOLEAN]]

\* n->connection and the active connections belong together.
Linked(s) ==
    /\ \A c \in Ids : s.conn[c].phase \in {"auth", "active"} => s.conn[c].name \in Peers
    /\ \A n \in Peers : s.link[n] # 0 => s.link[n] \in Active(s) /\ s.conn[s.link[n]].name = n
    /\ \A c \in Active(s) : s.link[s.conn[c].name] = c

\* A connection points at the record of its own peer, which no other does.  A
\* pointer to a freed record is one to a peer that was forgotten, which has no
\* record again until the connection is gone: it is unknown, or connected.
Pointers(s) ==
    \A c \in Open(s) :
       /\ s.conn[c].out \in Peers =>
            /\ s.conn[c].name = s.conn[c].out
            /\ s.list[s.conn[c].out].state # "none"
            /\ \A d \in Open(s) : s.conn[d].out = s.conn[c].out => d = c
       /\ s.conn[c].out = Freed =>
            /\ s.conn[c].name \in Peers
            /\ s.list[s.conn[c].name].state = "none"
            /\ node[s.conn[c].name].known # "yes"
            /\ s.conn[c].phase = "active" \/ ~Known(s.conn[c].name)

\* What carries on the record of n, if there is one.
Served(s, n) ==
    s.list[n].state # "none" =>
       /\ Known(n)
       /\ s.list[n].ev => s.list[n].state = "END" /\ Holders(s, n) = {}
       /\ s.list[n].state = "RESOLVE" => s.asked[n] > 0 /\ Holders(s, n) = {}
       /\ \/ s.list[n].ev
          \/ s.list[n].state = "RESOLVE"
          \/ Holders(s, n) # {}
          \/ node[n].black # "never"

Sound(s) == Typed(s) /\ Linked(s) /\ Pointers(s) /\ \A n \in Peers : Served(s, n)

Forgetful == \E n \in Peers : node[n].known # "yes"

OutgoingInv ==
    /\ NodesTyped
    /\ Sound(State)
    /\ broken \in BOOLEAN /\ (broken => Forgetful)
=============================================================================
