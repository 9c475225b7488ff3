----------------------------- MODULE NodeConfig -----------------------------
(***************************************************************************)
(* What a node remembers of a peer: the node_t in memory, the host         *)
(* configuration file that src/net_setup.c writes and reads, the status    *)
(* bit "dirty" by which a change waits for the next write, and everything  *)
(* that changes one of them, under the three storage policies, with writes *)
(* that fail and crashes.                                                  *)
(*                                                                         *)
(* A file is the sequence of the elements that packmsg.h encodes (see      *)
(* PackMsg), each with its type.  How a file is replaced is in ConfStore;  *)
(* here it is there or not.                                                *)
(***************************************************************************)
EXTENDS Integers, Sequences

CONSTANTS
    HostAddrs,      \* addresses of the peer
    MaxKnown,       \* MAX_RECENT
    DevClasses,     \* device classes; 0 is DEV_CLASS_UNKNOWN
    NoNode,         \* a pointer or a file that is not there
    MaxEvents,      \* bound: things that happen; also the clock
    MaxBadWrites    \* bound: writes that fail

VARIABLES
    policy,         \* mesh->storage_policy
    up,             \* is the handle open?
    peer,           \* the node_t, or NoNode
    file,           \* the host configuration file, or NoNode
    unsaved,        \* history: fields that were changed without marking the
                    \* node dirty or writing it
    skipped,        \* history: was the file not read when it should have been?
    events, bad     \* history: events and failed writes so far

confvars == <<policy, up, peer, file, unsaved, skipped, events, bad>>

Fields == {"submesh", "devclass", "blacklisted", "ecdsa", "canonical", "recent",
           "last_reachable", "last_unreachable"}

new_node == [submesh |-> "core", devclass |-> 0, blacklisted |-> FALSE, ecdsa |-> 0,
             canonical |-> 0, recent |-> <<>>, last_reachable |-> 0, last_unreachable |-> 0,
             dirty |-> FALSE, reachable |-> FALSE]

NodeInit ==
    /\ policy \in {"enabled", "keys_only", "disabled"}
    /\ up = TRUE /\ peer = NoNode /\ file = NoNode
    /\ unsaved = {} /\ skipped = FALSE /\ events = 0 /\ bad = 0

-----------------------------------------------------------------------------
\* Elements; an address is an extension of type 4 or 6, for its family.
Element(t, v) == [t |-> t, v |-> v]
packmsg_add_sockaddr(a) == Element("ext", [type |-> IF a = 1 THEN 4 ELSE 6, sa |-> a])
packmsg_get_sockaddr(e) == e.v.sa

\* The message that node_write_config makes.
Message(n) ==
    <<Element("uint32", 1), Element("str", "peer"), Element("str", n.submesh),
      Element("int32", n.devclass), Element("bool", n.blacklisted), Element("bin", n.ecdsa),
      Element("str", n.canonical), Element("array", Len(n.recent))>>
    \o [i \in 1 .. Len(n.recent) |-> packmsg_add_sockaddr(n.recent[i])]
    \o <<Element("int64", n.last_reachable), Element("int64", n.last_unreachable)>>

\* The types of the elements, in the order in which the readers expect them.
Layout(count) ==
    <<"uint32", "str", "str", "int32", "bool", "bin", "str", "array">>
    \o [i \in 1 .. count |-> "ext"] \o <<"int64", "int64">>

Parses(f) ==
    LET l == Layout(f[8].v) IN Len(f) = Len(l) /\ \A i \in 1 .. Len(l) : f[i].t = l[i]

\* node_get_config: there is a file, of this version and of this node.
node_get_config == file # NoNode /\ file[1].v = 1 /\ file[2].v = "peer"

Addresses(f, max) ==
    [i \in 1 .. (IF f[8].v < max THEN f[8].v ELSE max) |-> packmsg_get_sockaddr(f[8 + i])]

\* node_read_from_config, for a node that has no canonical address yet.
node_read_from_config(n, f) ==
    [n EXCEPT !.submesh = f[3].v, !.devclass = f[4].v, !.blacklisted = f[5].v,
              !.ecdsa = IF @ = 0 THEN f[6].v ELSE @, !.canonical = f[7].v,
              !.recent = Addresses(f, MaxKnown),
              !.last_reachable = f[9 + f[8].v].v, !.last_unreachable = f[10 + f[8].v].v]

\* load_node
load_node == IF node_get_config /\ Parses(file) THEN node_read_from_config(new_node, file) ELSE NoNode

\* node_read_public_key: the key, and what else is not known yet.  Submesh, class
\* and blacklisting are skipped.
HasKey(n) == n.ecdsa # 0 \/ (node_get_config /\ file[6].v # 0)

node_read_public_key(n) ==
    IF n.ecdsa # 0 \/ ~HasKey(n) THEN n
    ELSE [n EXCEPT !.ecdsa = file[6].v,
                   !.canonical = IF @ = 0 THEN file[7].v ELSE @,
                   !.recent = @ \o Addresses(file, MaxKnown - Len(@)),
                   !.last_reachable = IF @ = 0 THEN file[9 + file[8].v].v ELSE @,
                   !.last_unreachable = IF @ = 0 THEN file[10 + file[8].v].v ELSE @]

\* node_add_recent_address marks the node dirty if anything changes.
node_add_recent_address(n, sa) ==
    LET known == {i \in 1 .. Len(n.recent) : n.recent[i] = sa}
        i == IF known # {} THEN CHOOSE k \in known : TRUE
             ELSE IF Len(n.recent) = MaxKnown THEN MaxKnown ELSE Len(n.recent) + 1
    IN IF known # {} /\ i = 1 THEN n
       ELSE [n EXCEPT !.recent = <<sa>> \o SubSeq(@, 1, i - 1) \o SubSeq(@, i + 1, Len(@)), !.dirty = TRUE]

-----------------------------------------------------------------------------
\* Is the node written at all, under this policy?
Stored(new_key) ==
    CASE policy = "enabled" -> TRUE
      [] policy = "keys_only" -> new_key
      [] policy = "disabled" -> FALSE

\* Mutant of node_write_config: it takes the node for clean if the write fails.
node_write_config_CleanAnyway(n, new_key, changed) ==
    \/ /\ ~Stored(new_key)
       /\ peer' = n /\ unsaved' = unsaved \cup changed /\ UNCHANGED <<file, bad>>
    \/ /\ Stored(new_key)
       /\ peer' = [n EXCEPT !.dirty = FALSE] /\ file' = Message(n) /\ unsaved' = {} /\ UNCHANGED bad
    \/ /\ Stored(new_key) /\ bad < MaxBadWrites
       /\ bad' = bad + 1
       /\ peer' = [n EXCEPT !.dirty = FALSE] /\ unsaved' = unsaved \cup changed /\ UNCHANGED file

\* node_write_config, after a call that changed some fields without marking the
\* node dirty.  The write may fail.
node_write_config(n, new_key, changed) ==
    \/ /\ ~Stored(new_key)
       /\ peer' = n /\ unsaved' = unsaved \cup changed /\ UNCHANGED <<file, bad>>
    \/ /\ Stored(new_key)
       /\ peer' = [n EXCEPT !.dirty = FALSE] /\ file' = Message(n) /\ unsaved' = {} /\ UNCHANGED bad
    \/ /\ Stored(new_key) /\ bad < MaxBadWrites
       /\ bad' = bad + 1
       /\ peer' = n /\ unsaved' = unsaved \cup changed /\ UNCHANGED file

\* A call that changes the node and does not write it.
NotWritten(n, changed) ==
    peer' = n /\ unsaved' = unsaved \cup changed /\ UNCHANGED <<file, bad>>

Now == events + 1
Event == up /\ events < MaxEvents /\ events' = Now /\ UNCHANGED <<policy, up, skipped>>
Known == Event /\ peer # NoNode

-----------------------------------------------------------------------------
\* add_edge_h: a node that is new is dirty; the class of a known one is taken
\* over, which does not make it dirty.
add_edge_h(sub, devclass, default_blacklist) ==
    /\ Event
    /\ IF peer = NoNode
       THEN NotWritten([new_node EXCEPT !.submesh = sub, !.devclass = devclass,
                                        !.blacklisted = default_blacklist, !.dirty = TRUE], {})
       ELSE NotWritten([peer EXCEPT !.devclass = devclass],
                       IF devclass = peer.devclass THEN {} ELSE {"devclass"})

\* ack_h: a connection with a node whose key id_h has found.
ack_h(devclass, sa) ==
    /\ Known /\ HasKey(peer)
    /\ NotWritten(node_add_recent_address([node_read_public_key(peer) EXCEPT !.devclass = devclass, !.dirty = TRUE], sa), {})

\* commit_invitation: if the file cannot be written there is no node.
commit_invitation(sub, sa) ==
    LET n == node_add_recent_address([new_node EXCEPT !.submesh = sub, !.ecdsa = 1], sa) IN
    /\ Event /\ peer = NoNode /\ file = NoNode
    /\ \/ node_write_config(n, TRUE, {}) /\ bad' = bad
       \/ /\ Stored(TRUE) /\ bad < MaxBadWrites
          /\ bad' = bad + 1 /\ UNCHANGED <<peer, file, unsaved>>

\* REQ_PUBKEY and ANS_PUBKEY of req_key_ext_h: the key is taken if there is none
\* in memory or in the file.
learn_key ==
    /\ Known
    /\ IF HasKey(peer) THEN NotWritten(node_read_public_key(peer), {})
       ELSE node_write_config([peer EXCEPT !.ecdsa = 1, !.dirty = TRUE], TRUE, {})

\* REQ_CANONICAL of req_key_ext_h: the new address does not make the node dirty.
req_canonical(a) ==
    /\ Known
    /\ NotWritten([peer EXCEPT !.canonical = a], IF a = peer.canonical THEN {} ELSE {"canonical"})

\* Neither marks the node dirty: if the write fails the change is not made up for.
meshlink_set_canonical_address(a) ==
    Known /\ node_write_config([peer EXCEPT !.canonical = a], FALSE, IF a = peer.canonical THEN {} ELSE {"canonical"})

meshlink_clear_canonical_address ==
    Known /\ node_write_config([peer EXCEPT !.canonical = 0], FALSE,
                               IF peer.canonical = 0 THEN {} ELSE {"canonical"})

\* meshlink_hint_address: a new address is written, a known one may wait.
meshlink_hint_address(sa) ==
    LET n == node_add_recent_address(peer, sa) IN
    /\ Known
    /\ IF \E i \in 1 .. Len(peer.recent) : peer.recent[i] = sa THEN NotWritten(n, {})
       ELSE node_write_config(n, FALSE, {})

\* update_node_udp, mdns_io_handler: an address was seen.
address_seen(sa) == Known /\ NotWritten(node_add_recent_address(peer, sa), {})

\* check_reachability
check_reachability ==
    LET n == [peer EXCEPT !.reachable = ~@, !.dirty = TRUE] IN
    /\ Known
    /\ CASE peer.blacklisted -> NotWritten(n, {})
         [] ~peer.blacklisted /\ peer.reachable -> NotWritten([n EXCEPT !.last_unreachable = Now], {})
         [] OTHER -> IF peer.last_reachable = 0
                     THEN node_write_config([n EXCEPT !.last_reachable = Now], FALSE, {})
                     ELSE NotWritten([n EXCEPT !.last_reachable = Now], {})

\* blacklist: nothing is done, or written, for a node that is blacklisted already.
blacklist(n, changed) ==
    IF n.blacklisted THEN NotWritten(n, changed)
    ELSE node_write_config([n EXCEPT !.blacklisted = TRUE,
                                     !.last_unreachable = IF n.reachable THEN Now ELSE @],
                           TRUE, changed \cup {"blacklisted", "last_unreachable"})

meshlink_blacklist == Known /\ blacklist(peer, {})

\* An unknown node is made, and written or not with the change.
meshlink_blacklist_by_name == IF peer # NoNode THEN meshlink_blacklist ELSE Event /\ blacklist(new_node, Fields)

whitelist(n, changed) ==
    IF ~n.blacklisted THEN NotWritten(n, changed)
    ELSE node_write_config([n EXCEPT !.blacklisted = FALSE,
                                     !.last_reachable = IF n.reachable THEN Now ELSE @],
                           TRUE, changed \cup {"blacklisted", "last_reachable"})

meshlink_whitelist == Known /\ whitelist(peer, {})

meshlink_whitelist_by_name == IF peer # NoNode THEN meshlink_whitelist ELSE Event /\ whitelist(new_node, Fields)

\* meshlink_forget_node
meshlink_forget_node ==
    /\ Known /\ ~peer.reachable
    /\ peer' = NoNode /\ file' = NoNode /\ unsaved' = {} /\ UNCHANGED bad

\* The end of periodic_handler, and of meshlink_stop
write_dirty ==
    /\ up /\ peer # NoNode /\ peer.dirty
    /\ node_write_config(peer, FALSE, {})
    /\ UNCHANGED <<policy, up, skipped, events>>

\* The program ends, perhaps by a crash.
ProcessEnds ==
    /\ up
    /\ up' = FALSE /\ peer' = NoNode /\ unsaved' = {}
    /\ UNCHANGED <<policy, file, skipped, events, bad>>

\* setup_myself and config_scan_all: the host files are loaded, up to the first
\* one that cannot be.
config_scan_all ==
    /\ ~up
    /\ up' = TRUE /\ unsaved' = {}
    /\ \/ peer' = load_node /\ UNCHANGED skipped
       \/ peer' = NoNode /\ skipped' = (skipped \/ file # NoNode)
    /\ UNCHANGED <<policy, file, events, bad>>

NodeNext ==
    \/ \E sub \in {"core", "sub"}, devclass \in DevClasses, b \in BOOLEAN : add_edge_h(sub, devclass, b)
    \/ \E devclass \in DevClasses, sa \in HostAddrs : ack_h(devclass, sa)
    \/ \E sub \in {"core", "sub"}, sa \in HostAddrs : commit_invitation(sub, sa)
    \/ \E a \in {1, 2} : req_canonical(a) \/ meshlink_set_canonical_address(a)
    \/ meshlink_clear_canonical_address
    \/ \E sa \in HostAddrs : meshlink_hint_address(sa) \/ address_seen(sa)
    \/ learn_key \/ check_reachability \/ meshlink_blacklist_by_name \/ meshlink_whitelist_by_name
    \/ meshlink_forget_node \/ write_dirty \/ ProcessEnds \/ config_scan_all

NodeSpec == NodeInit /\ [][NodeNext]_confvars

-----------------------------------------------------------------------------
\* What is not marked dirty is on disk, and reads back: with storage enabled, a
\* crash loses of a clean node only what was changed without marking it (the
\* device class of an ADD_EDGE, the canonical address of a REQ_CANONICAL, the
\* change of a call whose own write failed).  Whatever the other changes are,
\* the key of a peer and its blacklisting are on disk under every policy that
\* stores keys, unless a write failed or the file of another node kept this
\* one's from being loaded: the node is then made anew, without its blacklisting,
\* and written over the file.
NodeRemembered ==
    up /\ peer # NoNode =>
        /\ policy = "enabled" /\ ~peer.dirty /\ unsaved # Fields =>
               /\ load_node # NoNode
               /\ \A f \in Fields \ unsaved : load_node[f] = peer[f]
        /\ policy # "disabled" /\ bad = 0 /\ ~skipped /\ peer.ecdsa # 0 =>
               /\ load_node # NoNode
               /\ load_node.ecdsa = peer.ecdsa /\ load_node.blacklisted = peer.blacklisted
-----------------------------------------------------------------------------
(* What makes NodeRemembered inductive (module StorageProofs).              *)

\* The values of a node_t, and the elements of the files made from them.
Nodes ==
    {n \in [submesh : {"core", "sub"}, devclass : DevClasses \cup {0}, blacklisted : BOOLEAN,
            ecdsa : {0, 1}, canonical : {0, 1, 2}, recent : Seq(HostAddrs),
            last_reachable : Nat, last_unreachable : Nat,
            dirty : BOOLEAN, reachable : BOOLEAN] : Len(n.recent) <= MaxKnown}

Elements ==
    [t : {"uint32", "str", "int32", "bool", "bin", "array", "ext", "int64"},
     v : Nat \cup DevClasses \cup BOOLEAN \cup {"peer", "core", "sub"}
         \cup [type : {4, 6}, sa : HostAddrs]]

\* There is room for an address, and a pointer that is not set is no node and no file.
ASSUME NodeAssumption ==
    MaxKnown \in Nat \ {0} /\ NoNode \notin Nodes /\ NoNode \notin Seq(Elements)

\* The contents of the variables: a file was made by node_write_config.
NodeTypes ==
    /\ policy \in {"enabled", "keys_only", "disabled"}
    /\ peer \in Nodes \cup {NoNode}
    /\ file = NoNode \/ \E m \in Nodes : file = Message(m)
    /\ unsaved \subseteq Fields
    /\ events \in Nat /\ bad \in Nat

\* A key is always written or marked, except with a node made by name.
KeyMarked == "ecdsa" \in unsaved => unsaved = Fields

\* A clean node is on disk, up to the changes that did not mark it.
CleanIsSaved ==
    up /\ peer # NoNode /\ policy = "enabled" /\ ~peer.dirty /\ unsaved # Fields =>
        file # NoNode /\ \A f \in Fields \ unsaved : load_node[f] = peer[f]

\* Memory and disk agree on the key and the blacklisting, and a node that was never
\* written has no key.
KeyIsSaved ==
    up /\ policy # "disabled" /\ bad = 0 /\ ~skipped =>
        /\ peer = NoNode => file = NoNode
        /\ peer # NoNode /\ file = NoNode => peer.ecdsa = 0
        /\ peer # NoNode /\ file # NoNode =>
               load_node.ecdsa = peer.ecdsa /\ load_node.blacklisted = peer.blacklisted

NodeInv == NodeTypes /\ KeyMarked /\ CleanIsSaved /\ KeyIsSaved
=============================================================================
