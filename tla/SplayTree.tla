------------------------------ MODULE SplayTree ------------------------------
(***************************************************************************)
(* The splay trees of src/splay_tree.c, in which nodes, edges, timeouts    *)
(* and watched sockets are kept.  A tree is a heap of nodes with links to  *)
(* children, parent and neighbours in order; a node stands for its data.   *)
(* The code treats the two sides by mirrored branches: here the side is a  *)
(* parameter, "l" or "r".                                                  *)
(***************************************************************************)
EXTENDS Integers, FiniteSets

CONSTANT Keys       \* the data, ordered as numbers greater than zero

VARIABLES
    tree,           \* splay_tree_t and its nodes
    found           \* what the last search returned, 0 for NULL

vars == <<tree, found>>

Sides == {"l", "r"}
Other(side) == IF side = "l" THEN "r" ELSE "l"

\* The two nodes on the stack of splay_top_down: the left and the right tree.
LeftTree == -1
RightTree == -2
Nodes == Keys \cup {LeftTree, RightTree}
NullLinks == [n \in Nodes |-> 0]

Empty == [kid |-> [s \in Sides |-> NullLinks], parent |-> NullLinks,
          next |-> NullLinks, prev |-> NullLinks,
          root |-> 0, head |-> 0, tail |-> 0, count |-> 0]

\* compare(): on which side of a node does the data belong.
Side(data, n) == IF data < n THEN "l" ELSE "r"

\* Assign a child, and the child's parent if there is a child.
SetKid(t, n, side, c) ==
    [t EXCEPT !.kid[side][n] = c, !.parent = IF c = 0 THEN @ ELSE [@ EXCEPT ![c] = n]]

SetRoot(t, n) == [t EXCEPT !.root = n, !.parent = IF n = 0 THEN @ ELSE [@ EXCEPT ![n] = 0]]

-----------------------------------------------------------------------------
\* splay_top_down.  bottom[s] is where the next subtree that lies on side s of
\* the data is hung: on the inner side of the last one.
Hang(t, bottom, side, n) == SetKid(t, bottom[side], Other(side), n)

RECURSIVE Descend(_, _, _)
Descend(t, data, bottom) ==
    LET root == t.root
        side == Side(data, root)
        child == t.kid[side][root]
        inner == Side(data, child)
        grandchild == t.kid[inner][child]
        out == Other(side)
        \* the data is further out on the same side: rotate, hang the child
        zigzig == LET a == Hang(t, bottom, out, child)
                      b == SetKid(a, root, side, t.kid[out][child])
                      c == SetKid(b, child, out, root)
                  IN SetKid(c, child, side, 0)
        \* the data is between the child and the root: hang both
        zigzag == LET a == Hang(t, bottom, side, child)
                      b == SetKid(a, child, out, 0)
                      c == Hang(b, bottom, out, root)
                  IN SetKid(c, root, side, 0)
        \* the search ends at the child: hang the root
        zig == SetKid(Hang(t, bottom, out, root), root, side, 0)
    IN IF data = root \/ child = 0 THEN [t |-> t, bottom |-> bottom]
       ELSE IF data # child /\ inner = side /\ grandchild # 0
       THEN Descend(SetRoot(zigzig, grandchild), data, [bottom EXCEPT ![out] = child])
       ELSE IF data # child /\ inner # side /\ grandchild # 0
       THEN Descend(SetRoot(zigzag, grandchild), data, [bottom EXCEPT ![side] = child, ![out] = root])
       ELSE [t |-> SetRoot(zig, child), bottom |-> [bottom EXCEPT ![out] = root]]

\* The root takes what was hung on one side, its own subtree at the bottom of it.
Merge(t, bottom, side, stack) ==
    LET hung == t.kid[Other(side)][stack]
        own == t.kid[side][t.root]
        a == IF own # 0 THEN SetKid(t, bottom[side], Other(side), own) ELSE t
    IN IF hung = 0 THEN t ELSE SetKid(a, t.root, side, hung)

Unstacked(t) == [t EXCEPT !.kid = [s \in Sides |-> [@[s] EXCEPT ![LeftTree] = 0, ![RightTree] = 0]]]

\* The tree with the data, or a neighbour of it, at the root.
splay_top_down(t, data) ==
    IF t.root = 0 THEN t
    ELSE LET d == Descend(t, data, [l |-> LeftTree, r |-> RightTree])
         IN Unstacked(Merge(Merge(d.t, d.bottom, "l", LeftTree), d.bottom, "r", RightTree))

\* The rotations of splay_bottom_up: with the parent, and with the grandparent if
\* there is one, seen from which parent and node are on the same side (zig-zig) or
\* not (zig-zag).
SideOf(t, parent, n) == IF t.kid["l"][parent] = n THEN "l" ELSE "r"

Zig(t, n) ==
    LET parent == t.parent[n]
        at == SideOf(t, parent, n)
    IN SetKid(SetKid(t, parent, at, t.kid[Other(at)][n]), n, Other(at), parent)

ZigZig(t, n) ==
    LET parent == t.parent[n]
        grand == t.parent[parent]
        at == SideOf(t, grand, parent)
        a == SetKid(SetKid(t, grand, at, t.kid[Other(at)][parent]), parent, Other(at), grand)
    IN SetKid(SetKid(a, parent, at, a.kid[Other(at)][n]), n, Other(at), parent)

ZigZag(t, n) ==
    LET parent == t.parent[n]
        grand == t.parent[parent]
        at == SideOf(t, parent, n)
        a == SetKid(SetKid(t, parent, at, t.kid[Other(at)][n]), n, Other(at), parent)
    IN SetKid(SetKid(a, grand, Other(at), a.kid[at][n]), n, at, grand)

\* Mutant of Rotate: what was above the grandparent still points to it.
Rotate_GreatKept(t, n) ==
    LET parent == t.parent[n]
        grand == t.parent[parent]
    IN IF grand = 0 THEN [Zig(t, n) EXCEPT !.parent[n] = 0]
       ELSE LET up == IF SideOf(t, grand, parent) = SideOf(t, parent, n) THEN ZigZig(t, n) ELSE ZigZag(t, n)
            IN [up EXCEPT !.parent[n] = t.parent[grand]]

\* One turn of its loop.
Rotate(t, n) ==
    LET parent == t.parent[n]
        grand == t.parent[parent]
        great == t.parent[grand]
        up == IF SideOf(t, grand, parent) = SideOf(t, parent, n) THEN ZigZig(t, n) ELSE ZigZag(t, n)
    IN IF grand = 0 THEN [Zig(t, n) EXCEPT !.parent[n] = 0]
       ELSE IF great = 0 THEN [up EXCEPT !.parent[n] = 0]
       ELSE SetKid(up, great, SideOf(t, great, grand), n)

\* splay_bottom_up: a node is rotated up to the root.
RECURSIVE splay_bottom_up(_, _)
splay_bottom_up(t, n) ==
    IF t.parent[n] = 0 THEN [t EXCEPT !.root = n] ELSE splay_bottom_up(Rotate(t, n), n)

-----------------------------------------------------------------------------
splay_insert_top(t, n) ==
    [Empty EXCEPT !.root = n, !.head = n, !.tail = n, !.count = t.count + 1]

\* splay_insert_before ("l") and splay_insert_after ("r"), next to a node that
\* is there: into the list, then on top of the neighbour.
InsertNextTo(t, n, at, side) ==
    LET prev == IF side = "l" THEN t.prev[at] ELSE at
        next == IF side = "l" THEN at ELSE t.next[at]
        a == [t EXCEPT !.prev = [x \in Nodes |-> IF x = n THEN prev ELSE IF x = next THEN n ELSE @[x]],
                       !.next = [x \in Nodes |-> IF x = n THEN next ELSE IF x = prev THEN n ELSE @[x]],
                       !.head = IF prev = 0 THEN n ELSE @,
                       !.tail = IF next = 0 THEN n ELSE @]
        b == splay_bottom_up(a, at)
        c == SetKid(SetKid(b, n, Other(side), at), n, side, b.kid[side][at])
    IN [SetRoot(SetKid(c, at, side, 0), n) EXCEPT !.count = @ + 1]

\* splay_insert and splay_insert_node: nothing if the data is there.
splay_insert(t, n) ==
    IF t.root = 0 THEN splay_insert_top(t, n)
    ELSE LET s == splay_top_down(t, n) IN
         IF s.root = n THEN s ELSE InsertNextTo(s, n, s.root, Side(n, s.root))

splay_unlink_node(t, n) ==
    LET a == [t EXCEPT !.next = [x \in Nodes |-> IF x = t.prev[n] THEN t.next[n] ELSE @[x]],
                       !.prev = [x \in Nodes |-> IF x = t.next[n] THEN t.prev[n] ELSE @[x]],
                       !.head = IF t.prev[n] = 0 THEN t.next[n] ELSE @,
                       !.tail = IF t.next[n] = 0 THEN t.prev[n] ELSE @,
                       !.count = @ - 1]
        b == splay_bottom_up(a, n)
    IN IF b.prev[n] # 0
       THEN SetKid(SetRoot(b, b.kid["l"][n]), b.prev[n], "r", b.kid["r"][n])
       ELSE SetRoot(b, IF b.next[n] # 0 THEN b.kid["r"][n] ELSE 0)

\* splay_free_node: the node is gone.
splay_free_node(t, n) ==
    [t EXCEPT !.kid = [s \in Sides |-> [@[s] EXCEPT ![n] = 0]],
              !.parent[n] = 0, !.prev[n] = 0, !.next[n] = 0]

\* splay_delete, and splay_unlink followed by splay_free_node.
splay_delete(t, data) ==
    LET s == splay_top_down(t, data) IN
    IF s.root = data THEN splay_free_node(splay_unlink_node(s, data), data) ELSE s

\* splay_search_closest_smaller_node and splay_search_closest_greater_node, in a
\* tree that was splayed for the data.
ClosestSmaller(s, data) == IF s.root # 0 /\ data < s.root THEN s.prev[s.root] ELSE s.root
ClosestGreater(s, data) == IF s.root # 0 /\ data > s.root THEN s.next[s.root] ELSE s.root

-----------------------------------------------------------------------------
Nothing == [asked |-> 0, kind |-> "node", node |-> 0]

Init == tree = Empty /\ found = Nothing

Insert(k) == tree' = splay_insert(tree, k) /\ found' = Nothing

Delete(k) == tree' = splay_delete(tree, k) /\ found' = Nothing

\* splay_delete_node, and splay_unlink_node for a node that is kept by its owner
\* (event.c): the node is wherever the operations before have left it.
DeleteNode(k) ==
    /\ tree.root = k \/ tree.parent[k] # 0
    /\ tree' = splay_free_node(splay_unlink_node(tree, k), k) /\ found' = Nothing

Search(k, kind) ==
    LET s == splay_top_down(tree, k) IN
    /\ tree' = s
    /\ found' = [asked |-> k, kind |-> kind,
                 node |-> CASE kind = "node" -> IF s.root = k THEN k ELSE 0
                            [] kind = "smaller" -> ClosestSmaller(s, k)
                            [] kind = "greater" -> ClosestGreater(s, k)]

Next ==
    \E k \in Keys :
        \/ Insert(k) \/ Delete(k) \/ DeleteNode(k)
        \/ \E kind \in {"node", "smaller", "greater"} : Search(k, kind)

Spec == Init /\ [][Next]_vars

-----------------------------------------------------------------------------
\* The keys below a node.
RECURSIVE Below(_, _)
Below(t, n) == IF n = 0 THEN {} ELSE {n} \cup Below(t, t.kid["l"][n]) \cup Below(t, t.kid["r"][n])

Stored == Below(tree, tree.root)

\* Whatever was inserted, deleted and looked up in whatever order, the links tell
\* one story: the tree is ordered, parents and children agree, and the list
\* through the nodes has the same data in order, with the count, the head and
\* the tail to match.
TreeSound ==
    /\ \A n \in Stored, s \in Sides :
          LET c == tree.kid[s][n] IN
          /\ \A m \in Below(tree, c) : Side(m, n) = s /\ m # n
          /\ c # 0 => tree.parent[c] = n
    /\ tree.root # 0 => tree.parent[tree.root] = 0
    /\ tree.count = Cardinality(Stored)
    /\ \A n \in Stored :
          /\ tree.next[n] = IF \E m \in Stored : m > n
                            THEN CHOOSE m \in Stored : m > n /\ \A o \in Stored : o > n => o >= m ELSE 0
          /\ tree.prev[n] = IF \E m \in Stored : m < n
                            THEN CHOOSE m \in Stored : m < n /\ \A o \in Stored : o < n => o <= m ELSE 0
          /\ tree.head = n <=> tree.prev[n] = 0
          /\ tree.tail = n <=> tree.next[n] = 0
    /\ Stored = {} => tree.head = 0 /\ tree.tail = 0

\* An operation leaves a sound tree, it changes the stored data by what it says,
\* and a search finds the data that is there, or its closest neighbour.
OperationRight ==
    LET after == Below(tree', tree'.root) IN
    /\ TreeSound'
    /\ \/ \E k \in Keys : Insert(k) /\ after = Stored \cup {k}
       \/ \E k \in Keys : (Delete(k) \/ DeleteNode(k)) /\ after = Stored \ {k}
       \/ /\ after = Stored
          /\ LET k == found'.asked
                 n == found'.node
             IN CASE found'.kind = "node" -> n = IF k \in Stored THEN k ELSE 0
                  [] found'.kind = "smaller" ->
                        IF n = 0 THEN \A m \in Stored : m > k
                        ELSE n \in Stored /\ n <= k /\ \A m \in Stored : m <= k => m <= n
                  [] found'.kind = "greater" ->
                        IF n = 0 THEN \A m \in Stored : m < k
                        ELSE n \in Stored /\ n >= k /\ \A m \in Stored : m >= k => m >= n

OperationsRight == [][OperationRight]_vars
=============================================================================
