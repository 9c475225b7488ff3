---------------------------- MODULE MCAlgorithms ----------------------------
(***************************************************************************)
(* The algorithms and data structures, each on its own: the replay window  *)
(* of sptps.c, the search of graph.c, the encoding of packmsg.h, the ring  *)
(* buffer of utcp.c, the trees of splay_tree.c and the table of UDP        *)
(* addresses of node.c.  A behaviour exercises one of them, the others     *)
(* stay as they are.                                                       *)
(***************************************************************************)
EXTENDS SptpsReplay, Sequences

CONSTANTS
    N, None, Self,  \* the nodes of the graph, NULL and mesh->self,
    SearchLinks,    \* the links it may have
    MaxWeight,      \* and their weights
    Rooms,          \* sizes of the output buffer of PackMsg
    Byte,           \* the bytes of the ring buffer,
    MaxSizes,       \* its maximum sizes
    Unit,           \* and half of its first size
    Keys,           \* the data in the splay tree
    Peers, Addrs,   \* the nodes and addresses of the table,
    MaxRecent,      \* the addresses kept of a node,
    Followed,       \* the nodes of which they are followed,
    Null, Freed     \* NULL and memory that was freed

VARIABLES
    part,           \* the one that is exercised
    g, todo, last, visited, distance, nexthop, prevedge,
    sent, added, out, in, pos, read, phase, buf, answer, tree, found,
    node, cache

\* Two ways from 1 to 4, over 2 and over 3, and a link between 2 and 3.
Diamond == {<<1, 2>>, <<1, 3>>, <<2, 3>>, <<2, 4>>, <<3, 4>>}

\* The elements of messages: the values on both sides of every change of the
\* encoding.
Element(t, v) == [t |-> t, v |-> v]
Data(n) == [i \in 1 .. n |-> i % 256]

Widened(b, fill) == [i \in 1 .. 8 |-> IF i <= Len(b) THEN b[i] ELSE fill]

Integers_ ==
    {Element("int8", Widened(<<b>>, IF b >= 128 THEN 255 ELSE 0)) : b \in {0, 127, 128, 223, 224, 255}}
    \cup {Element("int16", Widened(b, 0)) : b \in {<<127, 0>>, <<128, 0>>, <<0, 1>>}}
    \cup {Element("int16", Widened(b, 255)) : b \in {<<127, 255>>, <<128, 255>>, <<0, 128>>}}
    \cup {Element("int32", Widened(b, 0)) : b \in {<<255, 127, 0, 0>>, <<0, 128, 0, 0>>, <<5, 0, 0, 0>>}}
    \cup {Element("int32", Widened(b, 255)) : b \in {<<255, 127, 255, 255>>, <<0, 0, 0, 128>>}}
    \cup {Element("int64", b) : b \in {<<255, 255, 255, 127, 0, 0, 0, 0>>, <<0, 0, 0, 128, 0, 0, 0, 0>>,
                                       <<0, 0, 0, 0, 0, 0, 0, 128>>}}
    \cup {Element("uint8", Widened(<<b>>, 0)) : b \in {127, 128, 255}}
    \cup {Element("uint16", Widened(b, 0)) : b \in {<<255, 0>>, <<0, 1>>}}
    \cup {Element("uint32", Widened(b, 0)) : b \in {<<255, 255>>, <<0, 0, 1>>}}
    \cup {Element("uint64", Widened(b, 0)) : b \in {<<255, 255, 255, 255>>, <<0, 0, 0, 0, 1>>}}

Catalog ==
    Integers_
    \cup {Element("nil", 192), Element("bool", TRUE), Element("bool", FALSE),
          Element("float", Data(4)), Element("double", Data(8))}
    \cup {Element("str", Data(n)) : n \in {0, 1, 31, 32, 255, 256}}
    \cup {Element("bin", Data(n)) : n \in {0, 1, 255, 256}}
    \cup {Element("ext", <<7, Data(n)>>) : n \in {0, 1, 2, 3, 4, 8, 16, 255, 256}}

Long == {Element("str", Data(65535)), Element("str", Data(65536)), Element("bin", Data(65536)),
         Element("ext", <<7, Data(65536)>>)}

Mark == Element("uint8", Widened(<<9>>, 0))

MCMessages ==
    {<<Mark, Mark, Mark, e>> : e \in Long} \cup {<<e, Mark>> : e \in Catalog}
    \cup {<<Element("array", 2), e, Mark, Element("nil", 192)>> : e \in Catalog}
    \cup {<<Element("map", 1), Mark, Element("array", 1), Element("array", 0), Mark>>,
          <<Element("array", 16)>> \o [i \in 1 .. 16 |-> Mark],
          <<Element("map", 16)>> \o [i \in 1 .. 32 |-> Mark]}

Chunks == {<<0>>, <<1>>, <<1, 0>>}

G == INSTANCE GraphSearch
P == INSTANCE PackMsg WITH Messages <- MCMessages, last <- read
B == INSTANCE UtcpBuffer
T == INSTANCE SplayTree

\* Two addresses share a slot.
U == INSTANCE UdpCache WITH Slot <- [a \in Addrs |-> IF a = 1 THEN 1 ELSE 2]

searchvars == <<g, todo, last, visited, distance, nexthop, prevedge>>
packvars == <<sent, added, out, in, pos, read, phase>>
bufvars == <<buf, answer>>
treevars == <<tree, found>>
tablevars == <<node, cache>>
mcvars == <<vars, part, searchvars, packvars, bufvars, treevars, tablevars>>

\* The search has ended in a graph without edges.
SearchDone ==
    /\ g = [G!NewView(Self, 1) EXCEPT !.started = TRUE]
    /\ todo = <<>> /\ last = 0 /\ visited = {Self}
    /\ distance = [n \in G!Nodes |-> IF n = Self THEN 0 ELSE None]
    /\ nexthop = g.nexthop /\ prevedge = g.prevedge

\* There is nothing to send.
NoMessage ==
    /\ sent = <<>> /\ added = 0 /\ out = [bytes |-> <<>>, len |-> 0]
    /\ in = [rest |-> <<>>, ok |-> FALSE] /\ pos = 0 /\ read = [t |-> "skipped", v |-> 0]
    /\ phase = "write"

NoBuffer ==
    /\ buf = [data |-> [i \in {} |-> 0], offset |-> 0, used |-> 0, size |-> 0,
              maxsize |-> 1, external |-> FALSE]
    /\ answer = <<>>

MCInit ==
    /\ Init /\ T!Init /\ U!Init
    /\ \/ part \in {"replay", "tree", "table"} /\ SearchDone /\ NoMessage /\ NoBuffer
       \/ part = "graph" /\ G!Init /\ NoMessage /\ NoBuffer
       \/ part = "packmsg" /\ SearchDone /\ P!Init /\ NoBuffer
       \/ part = "buffer" /\ SearchDone /\ NoMessage /\ B!Init

ReplayStep == part = "replay" /\ Next /\ UNCHANGED <<part, searchvars, packvars, bufvars, treevars, tablevars>>
GraphStep == part = "graph" /\ G!Next /\ UNCHANGED <<part, vars, packvars, bufvars, treevars, tablevars>>
PackStep == part = "packmsg" /\ P!Next /\ UNCHANGED <<part, vars, searchvars, bufvars, treevars, tablevars>>
BufferStep == part = "buffer" /\ B!Next /\ UNCHANGED <<part, vars, searchvars, packvars, treevars, tablevars>>
TreeStep == part = "tree" /\ T!Next /\ UNCHANGED <<part, vars, searchvars, packvars, bufvars, tablevars>>
TableStep == part = "table" /\ U!Next /\ UNCHANGED <<part, vars, searchvars, packvars, bufvars, treevars>>

MCNext == ReplayStep \/ GraphStep \/ PackStep \/ BufferStep \/ TreeStep \/ TableStep

MCSpec == MCInit /\ [][MCNext]_mcvars

-----------------------------------------------------------------------------
\* graph.c: sssp_bfs finds the nodes, the distances and the ways.
SearchRight == G!SearchRight

\* graph.c: sssp_bfs comes to an end.
SearchEnds == [][part = "graph" => G!Shrinks]_searchvars

\* packmsg.h: what was written reads back, and a torn message is noticed.
ReadsBack == P!ReadsBack

\* utcp.c: the ring buffer keeps the bytes it was given, in order.
ImplementsStore == B!ImplementsStore

\* splay_tree.c: operations do what they say.
OperationsRight == [][part = "tree" => T!OperationRight]_treevars

\* node.c: the table of UDP addresses has no stale entries.
CacheCurrent == U!CacheCurrent
=============================================================================
