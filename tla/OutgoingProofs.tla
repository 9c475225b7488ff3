--------------------------- MODULE OutgoingProofs ---------------------------
(***************************************************************************)
(* What module Outgoing claims, for any number of peers, connections and   *)
(* addresses.  The functions of net_socket.c hand a state on to each       *)
(* other, so Sound is a predicate of such a state; do_outgoing_connection  *)
(* is called at the moment when nothing carries on its record (Idle).      *)
(***************************************************************************)
EXTENDS Outgoing, TLAPS

\* The provers get 30 seconds for a leaf, however busy the machine is.
USE SMTT(30), ZenonT(30)

-----------------------------------------------------------------------------
(* The operators of the model.                                              *)

\* The marks of c->outgoing are no peers.
LEMMA PeersArePositive ==
    /\ Peers \subseteq Int /\ 0 \notin Peers /\ Freed \notin Peers /\ Unknown \notin Peers
    /\ Ids \subseteq Int /\ 0 \notin Ids
  BY PeersAssumption DEF Ids, Freed, Unknown

\* A new connection_t is one that was not in use.
LEMMA SlotIsFree ==
    ASSUME NEW s, Free(s) # {}
    PROVE  Slot(s) \in Free(s)
  BY Zenon DEF Slot

\* do_outgoing_connection asks for the canonical address, gives the record up,
\* sets its timer or leaves it with the address it connects to.
LEMMA TriesCases ==
    ASSUME NodesTyped, NEW n \in Peers, NEW o \in Record, NEW t \in Tries(o, n)
    PROVE  \/ t.does = "ask" /\ t.o = [o EXCEPT !.state = "RESOLVE"]
           \/ t.does = "delete" /\ t.o = NoOutgoing
           \/ t.does = "retry" /\ t.o = retry_outgoing
           \/ /\ t.does = "connect"
              /\ t.o \in Record /\ ~t.o.ev
              /\ t.o.state \in {"CANONICAL", "RECENT", "KNOWN"}
<1>1. CASE o.state \in {"START", "RESOLVE"} /\ n \in Canonical
  BY <1>1 DEF Tries
<1>2. CASE ~(o.state \in {"START", "RESOLVE"} /\ n \in Canonical)
  <2>1. PICK known \in get_known_addresses :
          LET rest == Remaining(o, n, known)
              none == \A l \in DOMAIN rest : rest[l] = 0
          IN  t \in {IF o.state = "START" /\ none THEN [does |-> "delete", o |-> NoOutgoing]
                                          ELSE [does |-> "retry", o |-> retry_outgoing]}
                \cup UNION {{[does |-> "connect", o |-> [state |-> l, left |-> left, ev |-> FALSE]] :
                             left \in 0 .. rest[l] - 1} : l \in DOMAIN rest}
    BY <1>2, Zenon DEF Tries
  <2> DEFINE rest == Remaining(o, n, known)
  <2>2. DOMAIN rest = {"CANONICAL", "RECENT", "KNOWN"}
    BY Zenon DEF Remaining
  <2> HIDE DEF rest
  <2>3. CASE t.does = "delete" /\ t.o = NoOutgoing
    BY <2>3, Zenon
  <2>4. CASE t = [does |-> "retry", o |-> retry_outgoing]
    BY <2>4, Zenon
  <2>5. CASE \E l \in DOMAIN rest : \E left \in 0 .. rest[l] - 1 :
                t = [does |-> "connect", o |-> [state |-> l, left |-> left, ev |-> FALSE]]
    BY <2>2, <2>5 DEF Record
  <2>6. CASE t \in UNION {{[does |-> "connect", o |-> [state |-> l, left |-> left, ev |-> FALSE]] :
                             left \in 0 .. rest[l] - 1} : l \in DOMAIN rest}
    BY <2>5, <2>6, Zenon
  <2>7. \/ t = [does |-> "delete", o |-> NoOutgoing]
        \/ t = [does |-> "retry", o |-> retry_outgoing]
        \/ t \in UNION {{[does |-> "connect", o |-> [state |-> l, left |-> left, ev |-> FALSE]] :
                             left \in 0 .. rest[l] - 1} : l \in DOMAIN rest}
    BY <2>1, Zenon DEF rest
  <2> QED
    BY <2>3, <2>4, <2>6, <2>7
<1> QED
  BY <1>1, <1>2, Zenon

\* An outgoing_t whose address list is set, with its timer as it was.
LEMMA RecordFields ==
    ASSUME NEW r \in Record, NEW st, NEW l
    PROVE  [r EXCEPT !.state = st, !.left = l] = [state |-> st, left |-> l, ev |-> r.ev]
<1>1. [r EXCEPT !.state = st] = [state |-> st, left |-> r.left, ev |-> r.ev]
  BY DEF Record
<1>2. [[state |-> st, left |-> r.left, ev |-> r.ev] EXCEPT !.left = l] = [state |-> st, left |-> l, ev |-> r.ev]
  OBVIOUS
<1>3. [r EXCEPT !.state = st, !.left = l] = [[r EXCEPT !.state = st] EXCEPT !.left = l]
  BY Zenon
<1> QED
  BY <1>1, <1>2, <1>3, Zenon

\* A connection_t whose phase and name are set, with its pointer as it was.
LEMMA ConnectionFields ==
    ASSUME NEW b \in Connection, NEW ph, NEW nm
    PROVE  [b EXCEPT !.phase = ph, !.name = nm] = [phase |-> ph, name |-> nm, out |-> b.out]
<1>1. [b EXCEPT !.phase = ph] = [phase |-> ph, name |-> b.name, out |-> b.out]
  BY DEF Connection
<1>2. [[phase |-> ph, name |-> b.name, out |-> b.out] EXCEPT !.name = nm] = [phase |-> ph, name |-> nm, out |-> b.out]
  OBVIOUS
<1>3. [b EXCEPT !.phase = ph, !.name = nm] = [[b EXCEPT !.phase = ph] EXCEPT !.name = nm]
  BY Zenon
<1> QED
  BY <1>1, <1>2, <1>3, Zenon

-----------------------------------------------------------------------------
(* The functions of net_socket.c.                                           *)

\* A sound state but for the record of n, which nothing carries on.
Idle(s, n) ==
    /\ Typed(s) /\ Linked(s) /\ Pointers(s)
    /\ \A m \in Peers : m # n => Served(s, m)
    /\ s.list[n].state # "none" /\ ~s.list[n].ev /\ s.list[n].state # "RESOLVE"
    /\ Holders(s, n) = {}
    /\ Known(n)

\* s has the components of State and no others.
IsState(s) == DOMAIN s = {"conn", "link", "list", "asked", "broken"}

\* Whether a state is sound depends on its connections, links, records and requests.
LEMMA SoundComponents ==
    ASSUME NEW s, NEW u, Sound(s),
           u.conn = s.conn, u.link = s.link, u.list = s.list, u.asked = s.asked
    PROVE  Sound(u)
<1>1. Typed(u)
  BY Zenon DEF Sound, Typed
<1>2. Open(u) = Open(s) /\ Active(u) = Active(s) /\ \A m : Holders(u, m) = Holders(s, m)
  BY Zenon DEF Open, Active, Holders
<1>3. Linked(u)
  BY <1>2, Zenon DEF Sound, Linked
<1>4. Pointers(u)
  BY <1>2 DEF Sound, Pointers
<1>5. \A n \in Peers : Served(u, n)
  BY <1>2, Zenon DEF Sound, Served
<1> QED
  BY <1>1, <1>3, <1>4, <1>5, Zenon DEF Sound

\* free_connection leaves nothing in the slot.
LEMMA FreeSlot == NoConn.phase = "none"
  BY DEF NoConn

\* A connection in the list has the fields of a connection_t.
LEMMA OpenIsConnection ==
    ASSUME NEW s, Typed(s), NEW c \in Open(s)
    PROVE  c \in Ids /\ s.conn[c] \in Connection
<1>1. c \in Ids /\ s.conn[c].phase # "none"
  BY Zenon DEF Open
<1>2. s.conn[c] \in Connection \cup {NoConn}
  BY <1>1, Zenon DEF Typed
<1> QED
  BY <1>1, <1>2, FreeSlot, Zenon

\* Whether the links are right depends on the active connections and the names.
LEMMA LinkedActive ==
    ASSUME NEW s, NEW u, Linked(s), u.link = s.link, Active(u) = Active(s),
           \A d \in Active(s) : u.conn[d].name = s.conn[d].name,
           \A d \in Ids : u.conn[d].phase \in {"auth", "active"} => u.conn[d].name \in Peers
    PROVE  Linked(u)
<1>1. \A m \in Peers : u.link[m] # 0 => u.link[m] \in Active(u) /\ u.conn[u.link[m]].name = m
  <2> TAKE m \in Peers
  <2> HAVE u.link[m] # 0
  <2>1. u.link[m] = s.link[m] /\ s.link[m] \in Active(s) /\ s.conn[s.link[m]].name = m
    BY Zenon DEF Linked
  <2> QED
    BY <2>1, Zenon
<1>2. \A d \in Active(u) : u.link[u.conn[d].name] = d
  BY Zenon DEF Linked
<1> QED
  BY <1>1, <1>2, Zenon DEF Linked

\* It is so if they keep their phases and names.
LEMMA LinkedSame ==
    ASSUME NEW s, NEW u, Typed(s), Linked(s), u.link = s.link,
           \A d \in Ids : u.conn[d].phase = s.conn[d].phase /\ u.conn[d].name = s.conn[d].name
    PROVE  Linked(u)
<1>1. Active(u) = Active(s) /\ Active(s) \subseteq Ids
  BY Zenon DEF Active, Open
<1>2. \A d \in Ids : u.conn[d].phase \in {"auth", "active"} => u.conn[d].name \in Peers
  BY Zenon DEF Linked
<1> QED
  BY <1>1, <1>2, LinkedActive, Zenon

\* Whether the pointers are right depends on which peers have a record.
LEMMA PointersSame ==
    ASSUME NEW s, NEW u, Pointers(s), u.conn = s.conn,
           \A m \in Peers : u.list[m].state = "none" <=> s.list[m].state = "none"
    PROVE  Pointers(u)
<1>1. Open(u) = Open(s)
  BY Zenon DEF Open
<1> QED
  BY <1>1 DEF Pointers

\* A record that no connection points at is deleted, and no pointer to it is left.
LEMMA DeleteIdle ==
    ASSUME NEW s, NEW n \in Peers, Typed(s), Holders(s, n) = {}
    PROVE  Deleted(s, n) = [s EXCEPT !.list[n] = NoOutgoing, !.conn = s.conn]
<1>1. [c \in Ids |-> IF c \in Holders(s, n) THEN [s.conn[c] EXCEPT !.out = Freed] ELSE s.conn[c]]
        = s.conn
  BY Zenon DEF Typed
<1> QED
  BY <1>1, Zenon DEF Deleted

\* do_outgoing_connection finds something that carries on the record, or deletes it.
LEMMA DoOutgoing ==
    ASSUME NodesTyped, NEW s, NEW n \in Peers, Idle(s, n),
           IsState(s),
           NEW u \in do_outgoing_connection(s, n)
    PROVE  Sound(u) /\ IsState(u) /\ u.broken = s.broken
<1> USE PeersArePositive
<1>1. PICK t \in Tries(s.list[n], n) : u = Tried(s, n, t, Slot(s)) /\ (t.does = "connect" => Free(s) # {})
  BY Zenon DEF do_outgoing_connection
<1>2. s.list[n] \in Record
  BY DEF Idle, Typed, NoOutgoing
<1>3. \A c \in Ids : c \in Open(s) <=> s.conn[c].phase # "none"
  BY Zenon DEF Open
<1>4. CASE t.does = "ask" /\ t.o = [s.list[n] EXCEPT !.state = "RESOLVE"]
  <2> DEFINE o == [s.list[n] EXCEPT !.state = "RESOLVE"]
  <2>1. u = [s EXCEPT !.list[n] = o, !.asked[n] = @ + 1]
    BY <1>1, <1>4, Zenon DEF Tried
  <2>2. /\ u.conn = s.conn /\ u.link = s.link /\ u.broken = s.broken
        /\ u.list = [s.list EXCEPT ![n] = o]
        /\ u.asked = [s.asked EXCEPT ![n] = @ + 1]
    BY <2>1, Zenon DEF IsState
  <2>3. o \in Record /\ o.state = "RESOLVE" /\ ~o.ev
    BY <1>2, Zenon DEF Record, Idle
  <2> HIDE DEF o
  <2>4. Typed(u)
    BY <2>2, <2>3 DEF Typed, Idle
  <2>5. Linked(u) /\ Open(u) = Open(s) /\ \A m : Holders(u, m) = Holders(s, m)
    <3>1. Linked(u)
      BY <2>2, LinkedSame, Zenon DEF Idle
    <3>2. Open(u) = Open(s) /\ \A m : Holders(u, m) = Holders(s, m)
      BY <2>2, Zenon DEF Open, Holders
    <3> QED
      BY <3>1, <3>2, Zenon
  <2>6. Pointers(u)
    BY <2>2, <2>3, <2>5 DEF Idle, Pointers, Typed, Holders
  <2>7. \A m \in Peers : Served(u, m)
    BY <2>2, <2>3, <2>5 DEF Idle, Served, Typed
  <2>8. IsState(u)
    BY <2>1, Zenon DEF IsState
  <2> QED
    BY <2>2, <2>4, <2>5, <2>6, <2>7, <2>8, Zenon DEF Sound
<1>5. CASE t.does = "delete"
  <2>1. u = [s EXCEPT !.list[n] = NoOutgoing, !.conn = s.conn]
    BY <1>1, <1>5, DeleteIdle, Zenon DEF Tried, Idle
  <2>2. /\ u.conn = s.conn /\ u.link = s.link /\ u.broken = s.broken /\ u.asked = s.asked
        /\ u.list = [s.list EXCEPT ![n] = NoOutgoing]
    BY <2>1, Zenon DEF IsState
  <2>4. Typed(u)
    BY <2>2, Zenon DEF Typed, Idle
  <2>5. Linked(u) /\ Open(u) = Open(s) /\ \A m : Holders(u, m) = Holders(s, m)
    <3>1. Linked(u)
      BY <2>2, LinkedSame, Zenon DEF Idle
    <3>2. Open(u) = Open(s) /\ \A m : Holders(u, m) = Holders(s, m)
      BY <2>2, Zenon DEF Open, Holders
    <3> QED
      BY <3>1, <3>2, Zenon
  <2>6. Pointers(u)
    BY <2>2, <2>5 DEF Idle, Pointers, Typed, Holders, NoOutgoing
  <2>7. \A m \in Peers : Served(u, m)
    BY <2>2, <2>5 DEF Idle, Served, Typed, NoOutgoing
  <2>8. IsState(u)
    BY <2>1, Zenon DEF IsState
  <2> QED
    BY <2>2, <2>4, <2>5, <2>6, <2>7, <2>8, Zenon DEF Sound
<1>6. CASE t.does = "retry" /\ t.o = retry_outgoing
  <2>1. u = [s EXCEPT !.list[n] = retry_outgoing]
    BY <1>1, <1>6, Zenon DEF Tried
  <2>2. /\ u.conn = s.conn /\ u.link = s.link /\ u.broken = s.broken /\ u.asked = s.asked
        /\ u.list = [s.list EXCEPT ![n] = retry_outgoing]
    BY <2>1, Zenon DEF IsState
  <2>3. retry_outgoing \in Record /\ retry_outgoing.state = "END" /\ retry_outgoing.ev
    BY DEF Record, retry_outgoing
  <2>4. Typed(u)
    BY <2>2, <2>3 DEF Typed, Idle
  <2>5. Linked(u) /\ Open(u) = Open(s) /\ \A m : Holders(u, m) = Holders(s, m)
    <3>1. Linked(u)
      BY <2>2, LinkedSame, Zenon DEF Idle
    <3>2. Open(u) = Open(s) /\ \A m : Holders(u, m) = Holders(s, m)
      BY <2>2, Zenon DEF Open, Holders
    <3> QED
      BY <3>1, <3>2, Zenon
  <2>6. Pointers(u)
    BY <2>2, <2>3, <2>5 DEF Idle, Pointers, Typed, Holders
  <2>7. \A m \in Peers : Served(u, m)
    BY <2>2, <2>3, <2>5 DEF Idle, Served, Typed
  <2>8. IsState(u)
    BY <2>1, Zenon DEF IsState
  <2> QED
    BY <2>2, <2>4, <2>5, <2>6, <2>7, <2>8, Zenon DEF Sound
<1>7. CASE /\ t.does = "connect"
           /\ t.o \in Record /\ ~t.o.ev
           /\ t.o.state \in {"CANONICAL", "RECENT", "KNOWN"}
  <2> DEFINE c == Slot(s)
             o == t.o
             a == Attempt(n)
  <2>1. u = [s EXCEPT !.list[n] = o, !.conn[c] = a]
    BY <1>1, <1>7, Zenon DEF Tried
  <2>2. c \in Ids /\ s.conn[c].phase = "none"
    BY <1>1, <1>7, SlotIsFree, Zenon DEF Free, Open
  <2>3. /\ u.link = s.link /\ u.broken = s.broken /\ u.asked = s.asked
        /\ u.list = [s.list EXCEPT ![n] = o]
        /\ u.conn = [s.conn EXCEPT ![c] = a]
    BY <2>1, Zenon DEF IsState
  <2>4. o \in Record /\ ~o.ev /\ o.state # "none" /\ o.state # "RESOLVE"
    BY <1>7, Zenon
  <2>5. a \in Connection /\ a.phase = "connecting" /\ a.name = n /\ a.out = n
    BY Zenon DEF Attempt, Connection
  <2>12. IsState(u)
    BY <2>1, Zenon DEF IsState
  <2> HIDE DEF c, o, a
  <2>6. Typed(u)
    BY <2>2, <2>3, <2>4, <2>5 DEF Typed, Idle
  <2>7. \A d \in Ids : u.conn[d] = IF d = c THEN a ELSE s.conn[d]
    BY <2>2, <2>3, Zenon DEF Typed, Idle
  <2>8. Linked(u)
    <3>1. Linked(s)
      BY Zenon DEF Idle
    <3>2. Active(u) = Active(s) /\ \A d \in Active(s) : d \in Ids /\ d # c
      BY <2>2, <2>5, <2>7, Zenon DEF Active, Open
    <3>3. \A d \in Ids : u.conn[d].phase \in {"auth", "active"} => u.conn[d].name \in Peers
      BY <2>5, <2>7, <3>1, Zenon DEF Linked
    <3>4. \A d \in Active(s) : u.conn[d] = s.conn[d]
      BY <2>7, <3>2, Zenon
    <3> QED
      BY <2>3, <3>1, <3>2, <3>3, <3>4, LinkedActive, Zenon
  <2>9. /\ Open(u) = Open(s) \cup {c} /\ c \notin Open(s)
        /\ c \in Holders(u, n) /\ \A m : m # n => Holders(u, m) = Holders(s, m)
    BY <2>2, <2>5, <2>7, Zenon DEF Holders, Open
  <2>10. Pointers(u)
    BY <2>2, <2>3, <2>4, <2>5, <2>7, <2>9 DEF Idle, Pointers, Typed, Holders
  <2>11. \A m \in Peers : Served(u, m)
    <3>1. Served(u, n)
      BY <2>3, <2>4, <2>9, Zenon DEF Idle, Served, Typed
    <3>2. \A m \in Peers : m # n => u.list[m] = s.list[m] /\ Holders(u, m) = Holders(s, m)
      BY <2>3, <2>9, Zenon DEF Idle, Typed
    <3> QED
      BY <2>3, <3>1, <3>2, ZenonT(30) DEF Idle, Served
  <2> QED
    BY <2>3, <2>6, <2>8, <2>10, <2>11, <2>12, Zenon DEF Sound
<1> QED
  BY <1>1, <1>2, <1>4, <1>5, <1>6, <1>7, TriesCases, Zenon

\* setup_outgoing_connection leaves the record to the connection there is, to the
\* blacklist or to do_outgoing_connection.
LEMMA SetupOutgoing ==
    ASSUME NodesTyped, NEW s, NEW n \in Peers, IsState(s),
           Typed(s), Linked(s), Pointers(s),
           \A m \in Peers : m # n => Served(s, m),
           s.list[n].state \in {"START", "END"}, Holders(s, n) = {}, Known(n),
           NEW u \in setup_outgoing_connection(s, n)
    PROVE  Sound(u) /\ IsState(u) /\ u.broken = s.broken
<1> USE PeersArePositive
<1> DEFINE stopped == [s EXCEPT !.list[n].ev = FALSE]
           reset   == [stopped EXCEPT !.list[n] = reset_outgoing(@)]
           o == [s.list[n] EXCEPT !.ev = FALSE]
           p == reset_outgoing(o)
<1>1. s.list[n] \in Record
  BY DEF Typed, NoOutgoing
<1>2. /\ stopped.conn = s.conn /\ stopped.link = s.link /\ stopped.asked = s.asked
      /\ stopped.broken = s.broken /\ stopped.list = [s.list EXCEPT ![n] = o] /\ IsState(stopped)
  BY Zenon DEF IsState
<1>3. o \in Record /\ ~o.ev /\ o.state \in {"START", "END"}
  BY <1>1, Zenon DEF Record
<1>4. p \in Record /\ ~p.ev /\ p.state = "START"
  <2> HIDE DEF o
  <2>1. p = [state |-> "START", left |-> 0, ev |-> o.ev]
    BY <1>3, RecordFields, Zenon DEF reset_outgoing
  <2> HIDE DEF p
  <2> QED
    BY <1>3, <2>1 DEF Record
<1>5. /\ reset.conn = s.conn /\ reset.link = s.link /\ reset.asked = s.asked
      /\ reset.broken = s.broken /\ reset.list = [s.list EXCEPT ![n] = p] /\ IsState(reset)
  BY <1>2, Zenon DEF IsState, Typed
<1>6. CASE s.link[n] # 0
  <2> DEFINE c == s.link[n]
             a == [s.conn[c] EXCEPT !.out = n]
  <2>1. u = [stopped EXCEPT !.conn[c].out = n]
    BY <1>6, Zenon DEF setup_outgoing_connection
  <2> HIDE DEF stopped, reset, o, p
  <2>2. c \in Ids /\ s.conn[c] \in Connection /\ s.conn[c].phase = "active" /\ s.conn[c].name = n
    <3>1. c \in Active(s) /\ s.conn[c].name = n
      BY <1>6, Zenon DEF Linked
    <3> HIDE DEF c
    <3>2. c \in Ids /\ s.conn[c].phase = "active"
      BY <3>1, Zenon DEF Active, Open
    <3>3. s.conn[c] \in Connection \cup {NoConn}
      BY <3>2, Zenon DEF Typed
    <3>4. s.conn[c] # NoConn
      BY <3>2 DEF NoConn
    <3> QED
      BY <3>1, <3>2, <3>3, <3>4, Zenon
  <2>3. a \in Connection /\ a.phase = "active" /\ a.name = n /\ a.out = n
    BY <2>2, Zenon DEF Connection
  <2>4. /\ u.conn = [s.conn EXCEPT ![c] = a] /\ u.link = s.link /\ u.asked = s.asked
        /\ u.broken = s.broken /\ u.list = [s.list EXCEPT ![n] = o] /\ IsState(u)
    BY <1>2, <2>1, Zenon DEF IsState
  <2> HIDE DEF a, c
  <2>5. Typed(u)
    BY <1>3, <2>2, <2>3, <2>4 DEF Typed
  <2>6. \A d \in Ids : u.conn[d] = IF d = c THEN a ELSE s.conn[d]
    BY <2>2, <2>4, Zenon DEF Typed
  <2>7. Linked(u)
    <3>1. \A d \in Ids : u.conn[d].phase = s.conn[d].phase /\ u.conn[d].name = s.conn[d].name
      BY <2>2, <2>3, <2>6, Zenon
    <3> QED
      BY <2>4, <3>1, LinkedSame, Zenon
  <2>8. s.conn[c].out = 0
    BY <1>1, <2>2, Zenon DEF Pointers, Holders, Open, Connection, Record
  <2>9. Open(u) = Open(s) /\ \A m \in Peers : Holders(u, m) = IF m = n THEN {c} ELSE Holders(s, m)
    BY <2>2, <2>3, <2>6, <2>8, ZenonT(30) DEF Holders, Open
  <2>10. Pointers(u)
    BY <1>3, <2>2, <2>3, <2>4, <2>6, <2>9 DEF Pointers, Typed, Holders, Open
  <2>11. Served(u, n)
    BY <1>3, <2>4, <2>9, Zenon DEF Served, Typed
  <2>12. \A m \in Peers : m # n => u.list[m] = s.list[m] /\ Holders(u, m) = Holders(s, m)
    BY <2>4, <2>9, Zenon DEF Typed
  <2>13. \A m \in Peers : Served(u, m)
    BY <2>4, <2>11, <2>12, ZenonT(30) DEF Served
  <2> QED
    BY <2>4, <2>5, <2>7, <2>10, <2>13, Zenon DEF Sound
<1>7. CASE s.link[n] = 0
  <2> HIDE DEF stopped, o, p, reset
  <2>1. Open(reset) = Open(s) /\ \A m : Holders(reset, m) = Holders(s, m)
    BY <1>5, Zenon DEF Holders, Open
  <2>2. Typed(reset)
    BY <1>4, <1>5, Zenon DEF Typed
  <2>3. Linked(reset)
    BY <1>5, LinkedSame, Zenon
  <2>4. Pointers(reset)
    <3>1. \A k \in Peers : reset.list[k].state = "none" <=> s.list[k].state = "none"
      BY <1>4, <1>5 DEF Typed
    <3>2. ASSUME NEW c \in Open(s), s.conn[c].out \in Peers
          PROVE  /\ s.conn[c].name = s.conn[c].out /\ reset.list[s.conn[c].out].state # "none"
                 /\ \A d \in Open(s) : s.conn[d].out = s.conn[c].out => d = c
      BY <3>1, <3>2, Zenon DEF Pointers
    <3>3. ASSUME NEW c \in Open(s), s.conn[c].out = Freed
          PROVE  /\ s.conn[c].name \in Peers /\ reset.list[s.conn[c].name].state = "none"
                 /\ node[s.conn[c].name].known # "yes"
                 /\ s.conn[c].phase = "active" \/ ~Known(s.conn[c].name)
      BY <3>1, <3>3, Zenon DEF Pointers
    <3> QED
      BY <1>5, <2>1, <3>2, <3>3 DEF Pointers
  <2>5. \A m \in Peers : m # n => Served(reset, m)
    BY <1>5, <2>1 DEF Served, Typed
  <2>6. Idle(reset, n)
    BY <1>4, <1>5, <2>1, <2>2, <2>3, <2>4, <2>5, Zenon DEF Idle, Typed
  <2>7. CASE node[n].black = "yes"
    <3>1. u = reset
      BY <1>7, <2>7, Zenon DEF setup_outgoing_connection, reset, stopped
    <3>2. Served(reset, n)
      BY <1>4, <1>5, <2>6, <2>7, Zenon DEF Served, Idle
    <3> QED
      BY <1>5, <2>2, <2>3, <2>4, <2>5, <3>1, <3>2, Zenon DEF Sound
  <2>8. CASE node[n].black # "yes"
    <3>1. u \in do_outgoing_connection(reset, n)
      BY <1>7, <2>8, Zenon DEF setup_outgoing_connection, reset, stopped
    <3> QED
      BY <1>5, <2>6, <3>1, DoOutgoing, Zenon
  <2> QED
    BY <2>7, <2>8, Zenon
<1> QED
  BY <1>6, <1>7, Zenon

\* terminate_connection leaves the record of the connection to
\* do_outgoing_connection, at a time when nothing else carries it on.
LEMMA TerminateConnection ==
    ASSUME NodesTyped, NEW s, IsState(s), Sound(s), s.broken \in BOOLEAN, NEW c \in Open(s),
           NEW u \in terminate_connection(s, c)
    PROVE  Sound(u) /\ IsState(u) /\ u.broken \in BOOLEAN /\ (u.broken => s.broken \/ Forgetful)
<1> USE PeersArePositive
<1> DEFINE was  == s.conn[c]
           gone == [s EXCEPT !.conn[c] = NoConn,
                             !.link = [n \in Peers |-> IF s.link[n] = c THEN 0 ELSE s.link[n]]]
<1>1. /\ gone.conn = [s.conn EXCEPT ![c] = NoConn] /\ gone.asked = s.asked /\ gone.list = s.list
      /\ gone.link = [n \in Peers |-> IF s.link[n] = c THEN 0 ELSE s.link[n]]
      /\ gone.broken = s.broken /\ IsState(gone)
  BY Zenon DEF IsState
<1>2. /\ \/ was.out = Freed /\ u = [gone EXCEPT !.broken = TRUE]
         \/ was.out = 0 /\ u = gone
         \/ was.out # 0 /\ was.out # Freed /\ u \in do_outgoing_connection(gone, was.out)
  BY Zenon DEF terminate_connection, Unknown, Freed
<1> HIDE DEF gone
<1>3. c \in Ids /\ was \in Connection
  BY OpenIsConnection, Zenon DEF Sound
<1>4. \A d \in Ids : gone.conn[d] = IF d = c THEN NoConn ELSE s.conn[d]
  BY <1>1, <1>3, Zenon DEF Sound, Typed
<1>5. Open(gone) = Open(s) \ {c} /\ \A m : Holders(gone, m) = Holders(s, m) \ {c}
  <2>1. Open(gone) = Open(s) \ {c}
    BY <1>4, FreeSlot, Zenon DEF Open
  <2> QED
    BY <1>4, <2>1, Zenon DEF Open, Holders
<1>6. Typed(gone)
  <2>1. gone.conn \in [Ids -> Connection \cup {NoConn}]
    BY <1>1, <1>3, Zenon DEF Sound, Typed
  <2>2. gone.link \in [Peers -> Ids \cup {0}]
    BY <1>1, Zenon DEF Sound, Typed
  <2> QED
    BY <1>1, <2>1, <2>2, Zenon DEF Sound, Typed
<1>7. Linked(gone)
  <2>1. Linked(s)
    BY <1>1, Zenon DEF Sound
  <2> QED
    <3>1. Active(gone) = Active(s) \ {c}
      BY <1>4, FreeSlot, Zenon DEF Active, Open
    <3>2. \A k \in Peers : gone.link[k] = IF s.link[k] = c THEN 0 ELSE s.link[k]
      BY <1>1, Zenon
    <3>3. \A d \in Ids : gone.conn[d].phase \in {"auth", "active"} => gone.conn[d].name \in Peers
      BY <1>4, <2>1 DEF Linked, NoConn
    <3>4. \A d \in Active(gone) : d \in Ids /\ d # c /\ gone.conn[d] = s.conn[d] /\ s.conn[d].name \in Peers
      BY <1>4, <2>1, <3>1 DEF Linked, Active, Open
    <3>5. ASSUME NEW k \in Peers, gone.link[k] # 0
          PROVE  gone.link[k] \in Active(gone) /\ gone.conn[gone.link[k]].name = k
      <4>1. gone.link[k] = s.link[k] /\ s.link[k] # c /\ s.link[k] # 0
        BY <3>2, <3>5, Zenon
      <4>2. s.link[k] \in Active(s) /\ s.conn[s.link[k]].name = k
        BY <2>1, <4>1, Zenon DEF Linked
      <4>3. s.link[k] \in Active(gone)
        BY <3>1, <4>1, <4>2, Zenon
      <4> QED
        BY <3>4, <4>1, <4>2, <4>3, Zenon
    <3>6. ASSUME NEW d \in Active(gone) PROVE gone.link[gone.conn[d].name] = d
      <4>1. s.link[s.conn[d].name] = d
        BY <2>1, <3>1, Zenon DEF Linked
      <4> QED
        BY <3>2, <3>4, <4>1, Zenon
    <3> QED
      BY <3>3, <3>5, <3>6, Zenon DEF Linked
<1>8. Pointers(gone)
  BY <1>1, <1>4, <1>5 DEF Sound, Pointers
<1>9. \A m \in Peers : m # was.out => Holders(gone, m) = Holders(s, m)
  BY <1>5, Zenon DEF Holders
<1>10. \A m \in Peers : m # was.out => Served(gone, m)
  BY <1>1, <1>9, ZenonT(30) DEF Sound, Served
<1>11. CASE was.out = Freed
  <2>1. Sound(gone)
    BY <1>6, <1>7, <1>8, <1>10, <1>11, Zenon DEF Sound
  <2>2. Forgetful
    BY <1>11, Zenon DEF Sound, Pointers, Forgetful
  <2>3. /\ u.conn = gone.conn /\ u.link = gone.link /\ u.list = gone.list /\ u.asked = gone.asked
        /\ u.broken = TRUE /\ IsState(u)
    BY <1>1, <1>2, <1>11 DEF IsState, Freed
  <2>4. Sound(u)
    BY <2>1, <2>3, SoundComponents, Zenon
  <2> QED
    BY <2>2, <2>3, <2>4, Zenon
<1>12. CASE was.out = 0
  BY <1>1, <1>2, <1>6, <1>7, <1>8, <1>10, <1>12 DEF Sound, Freed
<1>13. CASE was.out # Freed /\ was.out # 0
  <2> DEFINE n == was.out
  <2>1. n \in Peers
    BY <1>3, <1>13, Zenon DEF Connection
  <2>2. c \in Holders(s, n) /\ Holders(gone, n) = {}
    BY <1>5, <2>1 DEF Holders, Sound, Pointers
  <2>3. Idle(gone, n)
    <3>1. s.list[n].state # "none"
      BY <2>1, <2>2, Zenon DEF Sound, Pointers, Holders
    <3>2. Known(n) /\ ~s.list[n].ev /\ s.list[n].state # "RESOLVE"
      BY <2>1, <2>2, <3>1, Zenon DEF Sound, Served
    <3> QED
      BY <1>1, <1>6, <1>7, <1>8, <1>10, <2>2, <3>1, <3>2, Zenon DEF Idle
  <2>4. u \in do_outgoing_connection(gone, n)
    BY <1>2, <1>13, Zenon
  <2> HIDE DEF n
  <2> QED
    BY <1>1, <2>1, <2>3, <2>4, DoOutgoing, Zenon
<1> QED
  BY <1>11, <1>12, <1>13, Zenon

-----------------------------------------------------------------------------
(* Autoconnect.                                                             *)

\* It chooses a peer that it knows for connecting.
LEMMA ConnectToKnown ==
    ASSUME NEW s, NEW far, NEW n \in connect_to(s, far)
    PROVE  n = 0 \/ (n \in Peers /\ Known(n))
<1>1. \A S : \A m \in Heads(S, AscBefore) : m = 0 \/ m \in S
  BY Zenon DEF Heads
<1>2. \A S : \A m \in Heads(S, LscBefore) : m = 0 \/ m \in S
  BY Zenon DEF Heads
<1>3. \E S : n = 0 \/ (n \in S /\ \A m \in S : m \in Peers /\ Eligible(m))
  BY <1>1, <1>2, Zenon DEF connect_to
<1> QED
  BY <1>3, Zenon DEF Eligible

\* It chooses a peer for disconnecting.
LEMMA DisconnectFromPeer ==
    ASSUME NEW s, Linked(s), NEW n \in disconnect_from(s)
    PROVE  n = 0 \/ n \in Peers
<1>1. \A S : \A m \in Heads(S, DescBefore) : m = 0 \/ m \in S
  BY Zenon DEF Heads
<1>2. \A c \in Active(s) : s.conn[c].name \in Peers
  BY Zenon DEF Linked, Active, Open
<1> QED
  BY <1>1, <1>2 DEF disconnect_from

\* A new record is one for a peer with no connection that points at an old one.
LEMMA PerformConnectSound ==
    ASSUME NodesTyped, NEW s, IsState(s), Sound(s), NEW far, NEW n, n = 0 \/ (n \in Peers /\ Known(n)),
           NEW u \in PerformConnect(s, n, far)
    PROVE  Sound(u) /\ IsState(u) /\ u.broken = s.broken
<1> USE PeersArePositive
<1> DEFINE o == [state |-> "START", left |-> 0, ev |-> FALSE]
           new == [s EXCEPT !.list[n] = o]
<1>1. u = s \/ (n # 0 /\ s.link[n] = 0 /\ s.list[n].state = "none" /\ u \in setup_outgoing_connection(new, n))
  BY Zenon DEF PerformConnect
<1>2. CASE u = s
  BY <1>2, Zenon
<1>3. CASE n # 0 /\ s.link[n] = 0 /\ s.list[n].state = "none" /\ u \in setup_outgoing_connection(new, n)
  <2>1. n \in Peers /\ Known(n)
    BY <1>3, Zenon
  <2>2. /\ new.conn = s.conn /\ new.link = s.link /\ new.asked = s.asked /\ new.broken = s.broken
        /\ new.list = [s.list EXCEPT ![n] = o] /\ IsState(new)
    BY Zenon DEF IsState
  <2>3. o \in Record /\ o.state = "START"
    BY DEF Record
  <2> HIDE DEF new, o
  <2>4. Open(new) = Open(s) /\ Active(new) = Active(s) /\ \A m : Holders(new, m) = Holders(s, m)
    BY <2>2, Zenon DEF Open, Active, Holders
  <2>5. Typed(new)
    BY <2>2, <2>3, Zenon DEF Sound, Typed
  <2>6. Linked(new)
    BY <2>2, <2>4, Zenon DEF Sound, Linked
  <2>7. Holders(s, n) = {}
    BY <1>3, <2>1, Zenon DEF Sound, Pointers, Holders
  <2>8. \A c \in Open(s) : s.conn[c].out = Freed => s.conn[c].name # n
    BY <1>3, <2>1 DEF Sound, Pointers, Linked, Active, Open
  <2>9. Pointers(new)
    BY <2>1, <2>2, <2>4, <2>7, <2>8 DEF Sound, Pointers, Typed, Holders
  <2>10. \A m \in Peers : m # n => Served(new, m)
    BY <2>2, <2>4 DEF Sound, Served, Typed
  <2>11. new.list[n].state = "START"
    BY <2>1, <2>2, <2>3, Zenon DEF Sound, Typed
  <2> QED
    BY <1>3, <2>1, <2>2, <2>4, <2>5, <2>6, <2>7, <2>9, <2>10, <2>11, SetupOutgoing
<1> QED
  BY <1>1, <1>2, <1>3, Zenon

\* The record is deleted after the connection has let go of it.
LEMMA PerformDisconnectSound ==
    ASSUME NodesTyped, NEW s, IsState(s), Sound(s), s.broken \in BOOLEAN, NEW n \in Peers \cup {0},
           NEW u \in PerformDisconnect(s, n)
    PROVE  Sound(u) /\ IsState(u) /\ u.broken \in BOOLEAN /\ (u.broken => s.broken \/ Forgetful)
<1> USE PeersArePositive
<1> DEFINE c    == s.link[n]
           held == s.conn[c].out
           cut  == [s EXCEPT !.conn[c].out = Unknown]
           del  == Deleted(cut, held)
           a    == [s.conn[c] EXCEPT !.out = Unknown]
<1>1. CASE n = 0 \/ c = 0
  BY <1>1, Zenon DEF PerformDisconnect
<1>2. CASE n # 0 /\ c # 0
  <2>1. n \in Peers /\ c \in Active(s) /\ s.conn[c].name = n
    BY <1>2, Zenon DEF Sound, Linked
  <2>2. u \in terminate_connection(IF held \in Peers THEN del ELSE cut, c)
    BY <1>2, Zenon DEF PerformDisconnect
  <2>3. cut.conn = [s.conn EXCEPT ![c] = a] /\ cut.link = s.link /\ cut.asked = s.asked
        /\ cut.broken = s.broken /\ cut.list = s.list /\ IsState(cut)
    BY Zenon DEF IsState
  <2> HIDE DEF c
  <2>4. c \in Ids /\ s.conn[c].phase = "active" /\ s.conn[c] \in Connection
    BY <2>1 DEF Active, Open, Sound, Typed, NoConn
  <2>5. a \in Connection /\ a.phase = "active" /\ a.name = n /\ a.out = 0
    BY <2>1, <2>4, Zenon DEF Connection, Unknown
  <2> HIDE DEF cut, a, held
  <2>6. \A d \in Ids : cut.conn[d] = IF d = c THEN a ELSE s.conn[d]
    BY <2>3, <2>4, Zenon DEF Sound, Typed
  <2>7. Typed(cut)
    BY <2>3, <2>4, <2>5 DEF Sound, Typed
  <2>8. \A d \in Ids : cut.conn[d].phase = s.conn[d].phase /\ cut.conn[d].name = s.conn[d].name
    BY <2>1, <2>4, <2>5, <2>6, Zenon
  <2>9. Open(cut) = Open(s) /\ Active(cut) = Active(s) /\ Open(s) \subseteq Ids
    BY <2>8, Zenon DEF Open, Active
  <2>10. Linked(cut)
    BY <2>3, <2>8, LinkedSame, Zenon DEF Sound
  <2>11. c \in Open(s)
    BY <2>4, Zenon DEF Open
  <2>12. \A d \in Open(s) : d # c => cut.conn[d] = s.conn[d]
    BY <2>6, <2>9, Zenon
  <2>13. cut.conn[c] = a
    BY <2>4, <2>6, Zenon
  <2>14. Pointers(cut)
    <3> SUFFICES ASSUME NEW d \in Open(s)
                 PROVE  /\ cut.conn[d].out \in Peers =>
                             /\ cut.conn[d].name = cut.conn[d].out
                             /\ s.list[cut.conn[d].out].state # "none"
                             /\ \A e \in Open(s) : cut.conn[e].out = cut.conn[d].out => e = d
                        /\ cut.conn[d].out = Freed =>
                             /\ cut.conn[d].name \in Peers
                             /\ s.list[cut.conn[d].name].state = "none"
                             /\ node[cut.conn[d].name].known # "yes"
                             /\ cut.conn[d].phase = "active" \/ ~Known(cut.conn[d].name)
      BY <2>3, <2>9, Zenon DEF Pointers
    <3>1. CASE d = c
      BY <2>5, <2>13, <3>1 DEF Freed
    <3>2. CASE d # c
      BY <2>5, <2>12, <2>13, <3>2, Zenon DEF Sound, Pointers
    <3> QED
      BY <3>1, <3>2, Zenon
  <2>15. \A m \in Peers : m # held => Holders(cut, m) = Holders(s, m)
    BY <2>5, <2>9, <2>11, <2>12, <2>13, Zenon DEF Holders, held
  <2>16. \A m \in Peers : m # held => Served(cut, m)
    BY <2>3, <2>15, Zenon DEF Sound, Served
  <2>17. CASE held \notin Peers
    <3>1. Sound(cut)
      BY <2>7, <2>10, <2>14, <2>16, <2>17, Zenon DEF Sound
    <3> QED
      BY <2>2, <2>3, <2>9, <2>11, <2>17, <3>1, TerminateConnection, Zenon
  <2>18. CASE held \in Peers
    <3>1. Holders(cut, held) = {}
      BY <2>5, <2>9, <2>11, <2>12, <2>13, <2>18, Zenon DEF Holders, held, Sound, Pointers
    <3>2. del = [cut EXCEPT !.list[held] = NoOutgoing, !.conn = cut.conn]
      BY <2>7, <2>18, <3>1, DeleteIdle, Zenon
    <3>3. del.conn = cut.conn /\ del.link = cut.link /\ del.asked = cut.asked
          /\ del.broken = cut.broken /\ del.list = [cut.list EXCEPT ![held] = NoOutgoing] /\ IsState(del)
      BY <2>3, <3>2, Zenon DEF IsState
    <3> HIDE DEF del
    <3>4. Open(del) = Open(cut) /\ Active(del) = Active(cut) /\ \A m : Holders(del, m) = Holders(cut, m)
      BY <3>3, Zenon DEF Open, Active, Holders
    <3>5. Typed(del)
      BY <2>7, <3>3, Zenon DEF Typed
    <3>6. Linked(del)
      BY <2>10, <3>3, <3>4, Zenon DEF Linked
    <3>7. Pointers(del)
      BY <2>7, <2>14, <2>18, <3>1, <3>3, <3>4 DEF Pointers, Holders, Typed, NoOutgoing
    <3>8. Served(del, held)
      BY <2>7, <2>18, <3>3 DEF Served, Typed, NoOutgoing
    <3>9. \A m \in Peers : Served(del, m)
      BY <2>7, <2>16, <3>3, <3>4, <3>8 DEF Served, Typed
    <3>10. Sound(del)
      BY <3>5, <3>6, <3>7, <3>9, Zenon DEF Sound
    <3> QED
      BY <2>2, <2>3, <2>9, <2>11, <2>18, <3>3, <3>4, <3>10, TerminateConnection, Zenon
  <2> QED
    BY <2>17, <2>18, Zenon
<1> QED
  BY <1>1, <1>2, Zenon

-----------------------------------------------------------------------------
(* The steps.                                                               *)

\* State has the five fields the functions of net_socket.c work on.
LEMMA StateIsState == IsState(State)
  BY Zenon DEF State, IsState

\* A step that ends in the sound state t keeps the invariant if it makes no peer
\* unforgotten, changes nothing for a peer that has a record, and lets a peer be
\* known again only when its connections are active.
LEMMA Landed ==
    ASSUME NEW t, Sound(t), Becomes(t), t.broken \in BOOLEAN, t.broken => Forgetful, NodesTyped',
           \A k \in Peers : node[k].known # "yes" => node'[k].known # "yes",
           \A k \in Peers : t.list[k].state # "none" =>
              /\ node'[k].known = node[k].known
              /\ node[k].black # "never" => node'[k].black # "never",
           \A k \in Peers : \/ Known(k) \/ node'[k].known = "forgotten"
                            \/ \A c \in Open(t) : t.conn[c].name = k => t.conn[c].phase = "active"
    PROVE  OutgoingInv'
<1>1. /\ (State.conn)' = t.conn /\ (State.link)' = t.link /\ (State.list)' = t.list
      /\ (State.asked)' = t.asked /\ broken' = t.broken
  BY Zenon DEF State, Becomes
<1>2. /\ Open(State)' = Open(t) /\ Active(State)' = Active(t)
      /\ \A m : Holders(State, m)' = Holders(t, m)
  BY <1>1, Zenon DEF Open, Active, Holders
<1>3. Typed(State)'
  BY <1>1, Zenon DEF Sound, Typed
<1>4. Linked(State)'
  BY <1>1, <1>2 DEF Sound, Linked
<1>5. Pointers(State)'
  <2>1. Pointers(t)
    BY Zenon DEF Sound
  <2>2. \A c \in Open(t) : t.conn[c].out \in Peers =>
           /\ t.conn[c].name = t.conn[c].out
           /\ t.list[t.conn[c].out].state # "none"
           /\ \A d \in Open(t) : t.conn[d].out = t.conn[c].out => d = c
    BY <2>1, Zenon DEF Pointers
  <2>3. ASSUME NEW c \in Open(t), t.conn[c].out = Freed
        PROVE  /\ t.conn[c].name \in Peers
               /\ t.list[t.conn[c].name].state = "none"
               /\ node'[t.conn[c].name].known # "yes"
               /\ t.conn[c].phase = "active" \/ node'[t.conn[c].name].known = "forgotten"
    <3>1. /\ t.conn[c].name \in Peers
          /\ t.list[t.conn[c].name].state = "none"
          /\ node[t.conn[c].name].known # "yes"
          /\ t.conn[c].phase = "active" \/ ~Known(t.conn[c].name)
      BY <2>1, <2>3, Zenon DEF Pointers
    <3> QED
      BY <3>1, Zenon
  <2> QED
    BY <1>1, <1>2, <2>2, <2>3 DEF Pointers, Known
<1>6. ASSUME NEW n \in Peers PROVE Served(State, n)'
  BY <1>1, <1>2, Zenon DEF Sound, Served, Known
<1>7. broken' => Forgetful'
  BY <1>1, Zenon DEF Forgetful
<1> QED
  BY <1>1, <1>3, <1>4, <1>5, <1>6, <1>7, Zenon DEF OutgoingInv, Sound

\* The same when the nodes are not changed.
LEMMA LandedSame ==
    ASSUME NEW t, Sound(t), Becomes(t), t.broken \in BOOLEAN, t.broken => Forgetful, NodesTyped, node' = node
    PROVE  OutgoingInv'
<1>1. NodesTyped'
  BY Zenon DEF NodesTyped
<1>2. \A k \in Peers : node[k].known # "yes" => node'[k].known # "yes"
  BY Zenon
<1>3. \A k \in Peers : t.list[k].state # "none" =>
              /\ node'[k].known = node[k].known
              /\ node[k].black # "never" => node'[k].black # "never"
  BY Zenon
<1>4. \A k \in Peers : \/ Known(k) \/ node'[k].known = "forgotten"
                       \/ \A c \in Open(t) : t.conn[c].name = k => t.conn[c].phase = "active"
  BY Zenon DEF Known
<1> QED
  BY <1>1, <1>2, <1>3, <1>4, Landed, Zenon

\* periodic_handler
LEMMA PeriodicHandler ==
    ASSUME OutgoingInv, periodic_handler, ~broken
    PROVE  OutgoingInv'
<1>1. PICK far \in SUBSET {n \in Peers : Known(n)} :
        \E n \in connect_to(State, far) :
           /\ \E s \in PerformConnect(State, n, far) :
              \E m \in disconnect_from(s) :
              \E t \in PerformDisconnect(s, m) : Becomes(t)
           /\ node' = [k \in Peers |->
                     [node[k] EXCEPT !.tried = IF k = n /\ link[n] = 0 THEN RetryRounds
                                               ELSE IF @ > 0 THEN @ - 1 ELSE 0]]
  BY Zenon DEF periodic_handler
<1>2. PICK n \in connect_to(State, far) :
           /\ \E s \in PerformConnect(State, n, far) :
              \E m \in disconnect_from(s) :
              \E t \in PerformDisconnect(s, m) : Becomes(t)
           /\ node' = [k \in Peers |->
                     [node[k] EXCEPT !.tried = IF k = n /\ link[n] = 0 THEN RetryRounds
                                               ELSE IF @ > 0 THEN @ - 1 ELSE 0]]
  BY <1>1, Zenon
<1>3. PICK s \in PerformConnect(State, n, far) :
              \E m \in disconnect_from(s) : \E t \in PerformDisconnect(s, m) : Becomes(t)
  BY <1>2, Zenon
<1>4. PICK m \in disconnect_from(s) : \E t \in PerformDisconnect(s, m) : Becomes(t)
  BY <1>3, Zenon
<1>5. PICK t \in PerformDisconnect(s, m) : Becomes(t)
  BY <1>4, Zenon
<1>6. State.broken = broken
  BY Zenon DEF State
<1>7. NodesTyped /\ Sound(State) /\ broken \in BOOLEAN
  BY Zenon DEF OutgoingInv
<1>8. Sound(s) /\ IsState(s) /\ s.broken = broken
  BY <1>6, <1>7, ConnectToKnown, PerformConnectSound, StateIsState, Zenon
<1>9. m \in Peers \cup {0}
  BY <1>8, DisconnectFromPeer, Zenon DEF Sound
<1>10. Sound(t) /\ t.broken \in BOOLEAN /\ (t.broken => Forgetful)
  BY <1>7, <1>8, <1>9, PerformDisconnectSound, Zenon
<1>11. NodesTyped'
  <2> DEFINE left(k) == IF k = n /\ link[n] = 0 THEN RetryRounds
                        ELSE IF node[k].tried > 0 THEN node[k].tried - 1 ELSE 0
  <2>1. node' = [k \in Peers |-> [node[k] EXCEPT !.tried = left(k)]]
    BY <1>2, Zenon
  <2>2. \A k \in Peers : left(k) \in Nat
    BY <1>7, PeersAssumption DEF NodesTyped
  <2> HIDE DEF left
  <2> QED
    BY <1>7, <2>1, <2>2, Zenon DEF NodesTyped
<1>12. \A k \in Peers : node'[k].known = node[k].known /\ node'[k].black = node[k].black
  BY <1>2, <1>7, Zenon DEF NodesTyped
<1> QED
  BY <1>5, <1>10, <1>11, <1>12, Landed, Zenon DEF Known

\* retry_outgoing_handler
LEMMA RetryOutgoingHandler ==
    ASSUME OutgoingInv, ~broken, NEW n \in Peers, retry_outgoing_handler(n)
    PROVE  OutgoingInv'
<1>1. PICK u \in setup_outgoing_connection(State, n) : Becomes(u)
  BY Zenon DEF retry_outgoing_handler
<1>2. NodesTyped /\ Sound(State) /\ IsState(State) /\ State.broken = broken /\ broken \in BOOLEAN
  BY StateIsState, Zenon DEF OutgoingInv, State
<1>3. State.list[n].state # "none" /\ State.list[n].ev
  BY Zenon DEF retry_outgoing_handler, State
<1>4. State.list[n].state = "END" /\ Holders(State, n) = {} /\ Known(n)
  BY <1>2, <1>3, Zenon DEF Sound, Served
<1>5. Sound(u) /\ u.broken = broken
  BY <1>1, <1>2, <1>4, SetupOutgoing, Zenon DEF Sound
<1> QED
  BY <1>1, <1>2, <1>5, LandedSame, Zenon DEF retry_outgoing_handler

\* canonical_resolve_cb
LEMMA CanonicalResolve ==
    ASSUME OutgoingInv, ~broken, NEW n \in Peers, NEW found \in 0 .. MaxAddresses,
           canonical_resolve_cb(n, found)
    PROVE  OutgoingInv'
<1> USE PeersArePositive
<1> DEFINE s == State
           answered == [s EXCEPT !.asked[n] = @ - 1]
           resolved == [answered EXCEPT !.list[n] = [@ EXCEPT !.state = "CANONICAL", !.left = found]]
           o == [s.list[n] EXCEPT !.state = "CANONICAL", !.left = found]
<1>1. /\ NodesTyped /\ Sound(s) /\ IsState(s) /\ s.broken = broken /\ broken \in BOOLEAN
      /\ s.asked = asked /\ s.list = list
  BY StateIsState, Zenon DEF OutgoingInv, State
<1>2. asked[n] > 0 /\ node' = node
  BY Zenon DEF canonical_resolve_cb
<1>3. \/ list[n].state = "RESOLVE" /\ \E u \in do_outgoing_connection(resolved, n) : Becomes(u)
      \/ list[n].state # "RESOLVE" /\ Becomes(answered)
  BY Zenon DEF canonical_resolve_cb
<1> HIDE DEF s
<1>4. /\ answered.conn = s.conn /\ answered.link = s.link /\ answered.list = s.list
      /\ answered.broken = s.broken /\ answered.asked = [s.asked EXCEPT ![n] = @ - 1]
      /\ IsState(answered)
  BY <1>1, Zenon DEF IsState
<1> HIDE DEF answered
<1>5. /\ Open(answered) = Open(s) /\ Active(answered) = Active(s)
      /\ \A m : Holders(answered, m) = Holders(s, m)
  BY <1>4, Zenon DEF Open, Active, Holders
<1>6. Typed(answered)
  BY <1>1, <1>2, <1>4 DEF Sound, Typed
<1>7. Linked(answered)
  BY <1>1, <1>4, <1>5, Zenon DEF Sound, Linked
<1>8. Pointers(answered)
  BY <1>1, <1>4, <1>5, ZenonT(30) DEF Sound, Pointers
<1>9. \A m \in Peers : m # n => Served(answered, m)
  BY <1>1, <1>4, <1>5, Zenon DEF Sound, Typed, Served
<1>10. CASE list[n].state = "RESOLVE"
  <2>1. PICK u \in do_outgoing_connection(resolved, n) : Becomes(u)
    BY <1>3, <1>10, Zenon
  <2>2. s.list[n] \in Record /\ ~s.list[n].ev /\ Holders(s, n) = {} /\ Known(n)
    BY <1>1, <1>10 DEF Sound, Served, Typed, NoOutgoing
  <2>3. o = [state |-> "CANONICAL", left |-> found, ev |-> s.list[n].ev]
    BY <2>2, RecordFields, Zenon
  <2>4. /\ resolved.conn = s.conn /\ resolved.link = s.link /\ resolved.list = [s.list EXCEPT ![n] = o]
        /\ resolved.broken = s.broken /\ resolved.asked = answered.asked /\ IsState(resolved)
    BY <1>4, Zenon DEF IsState
  <2> HIDE DEF o, resolved
  <2>5. o \in Record /\ o.state = "CANONICAL" /\ ~o.ev
    BY <2>2, <2>3, PeersAssumption DEF Record
  <2>6. /\ Open(resolved) = Open(s) /\ Active(resolved) = Active(s)
        /\ \A m : Holders(resolved, m) = Holders(s, m)
    BY <2>4, Zenon DEF Open, Active, Holders
  <2>7. Typed(resolved)
    BY <1>1, <1>6, <2>4, <2>5 DEF Sound, Typed
  <2>8. Linked(resolved)
    BY <1>1, <2>4, <2>6, Zenon DEF Sound, Linked
  <2>9. \A m \in Peers : m # n => resolved.list[m] = s.list[m]
    BY <1>1, <2>4, Zenon DEF Sound, Typed
  <2>10. resolved.list[n] = o
    BY <1>1, <2>4, Zenon DEF Sound, Typed
  <2>11. Pointers(resolved)
    <3>1. \A m \in Peers : resolved.list[m].state = "none" <=> s.list[m].state = "none"
      BY <1>1, <1>10, <2>5, <2>9, <2>10, Zenon
    <3> QED
      BY <1>1, <2>4, <3>1, PointersSame, Zenon DEF Sound
  <2>12. \A m \in Peers : m # n => Served(resolved, m)
    BY <1>4, <1>5, <1>9, <2>4, <2>6, <2>9 DEF Served
  <2>13. Idle(resolved, n)
    BY <2>2, <2>5, <2>6, <2>7, <2>8, <2>10, <2>11, <2>12, Zenon DEF Idle
  <2>14. Sound(u) /\ u.broken = broken
    BY <1>1, <2>1, <2>4, <2>13, DoOutgoing
  <2> QED
    BY <1>1, <1>2, <2>1, <2>14, LandedSame, Zenon
<1>11. CASE list[n].state # "RESOLVE"
  <2>1. Served(answered, n)
    BY <1>1, <1>4, <1>5, <1>11, Zenon DEF Sound, Served
  <2>2. Sound(answered)
    BY <1>6, <1>7, <1>8, <1>9, <2>1, Zenon DEF Sound
  <2> QED
    BY <1>1, <1>2, <1>3, <1>4, <1>11, <2>2, LandedSame, Zenon
<1> QED
  BY <1>10, <1>11, Zenon

\* Ends
LEMMA EndsStep ==
    ASSUME OutgoingInv, ~broken, NEW c \in Ids, Ends(c)
    PROVE  OutgoingInv'
<1>1. PICK u \in terminate_connection(State, c) : Becomes(u)
  BY Zenon DEF Ends
<1>2. NodesTyped /\ Sound(State) /\ IsState(State) /\ State.broken = broken /\ broken \in BOOLEAN
  BY StateIsState, Zenon DEF OutgoingInv, State
<1>3. c \in Open(State) /\ node' = node
  BY Zenon DEF Ends, State, Open
<1>4. Sound(u) /\ u.broken \in BOOLEAN /\ (u.broken => Forgetful)
  BY <1>1, <1>2, <1>3, TerminateConnection, Zenon
<1> QED
  BY <1>1, <1>2, <1>3, <1>4, LandedSame, Zenon

\* A connection that is not active comes up, gets its peer's name or goes on.
LEMMA NewConnection ==
    ASSUME OutgoingInv, ~broken, node' = node, NEW c \in Ids, NEW a \in Connection,
           Becomes([State EXCEPT !.conn[c] = a]),
           a.phase # "active", conn[c].phase # "active", a.phase = "auth" => a.name \in Peers,
           \/ conn[c].phase = "none" /\ a.out = 0
           \/ conn[c].phase # "none" /\ a.out = conn[c].out /\ (a.out # 0 => a.name = conn[c].name)
    PROVE  OutgoingInv'
<1> USE PeersArePositive
<1> DEFINE s == State
           u == [s EXCEPT !.conn[c] = a]
<1>1. /\ NodesTyped /\ Sound(s) /\ IsState(s) /\ s.broken = broken /\ broken \in BOOLEAN /\ s.conn = conn
  BY StateIsState, Zenon DEF OutgoingInv, State
<1>2. Becomes(u)
  BY Zenon
<1> HIDE DEF s
<1>3. /\ u.conn = [s.conn EXCEPT ![c] = a] /\ u.link = s.link /\ u.list = s.list
      /\ u.broken = s.broken /\ u.asked = s.asked
  BY <1>1, Zenon DEF IsState
<1> HIDE DEF u
<1>4. \A d \in Ids : d # c => u.conn[d] = s.conn[d]
  BY <1>1, <1>3, Zenon DEF Sound, Typed
<1>5. u.conn[c] = a /\ a.phase # "none"
  BY <1>1, <1>3, Zenon DEF Sound, Typed, Connection
<1>6. Typed(u)
  BY <1>1, <1>3, Zenon DEF Sound, Typed
<1>7. Active(u) = Active(s) /\ c \notin Active(s) /\ Active(s) \subseteq Ids
  BY <1>1, <1>4, <1>5, Zenon DEF Active, Open
<1>8. Linked(u)
  <2>1. \A m \in Peers : u.link[m] # 0 => u.link[m] \in Active(u) /\ u.conn[u.link[m]].name = m
    <3> TAKE m \in Peers
    <3> HAVE u.link[m] # 0
    <3>1. Linked(s) /\ u.link[m] = s.link[m]
      BY <1>1, <1>3, Zenon DEF Sound
    <3>2. s.link[m] \in Active(s) /\ s.conn[s.link[m]].name = m
      BY <3>1, Zenon DEF Linked
    <3> QED
      BY <1>4, <1>7, <3>1, <3>2, Zenon
  <2>2. \A d \in Active(u) : u.link[u.conn[d].name] = d
    BY <1>1, <1>3, <1>4, <1>7 DEF Sound, Linked
  <2>3. \A d \in Ids : u.conn[d].phase \in {"auth", "active"} => u.conn[d].name \in Peers
    BY <1>1, <1>4, <1>5, Zenon DEF Sound, Linked
  <2> QED
    BY <2>1, <2>2, <2>3, Zenon DEF Linked
<1>9. Open(u) = Open(s) \cup {c} /\ Open(s) \subseteq Ids
  BY <1>4, <1>5, Zenon DEF Open
<1>10. c \in Open(s) <=> conn[c].phase # "none"
  BY <1>1, Zenon DEF Open
<1>11. \A m \in Peers : Holders(u, m) = Holders(s, m)
  BY <1>1, <1>4, <1>5, <1>9, <1>10 DEF Holders
<1>12. Pointers(u)
  <2>1. CASE conn[c].phase = "none" /\ a.out = 0
    <3>1. c \notin Open(s) /\ \A d \in Open(s) : u.conn[d] = s.conn[d]
      BY <1>4, <1>9, <1>10, <2>1, Zenon
    <3>2. \A d \in Open(u) : u.conn[d].out # 0 => d \in Open(s)
      BY <1>5, <1>9, <2>1, Zenon
    <3>3. \A d \in Open(u) : u.conn[d].out \in Peers \cup {Freed} => u.conn[d].out # 0
      BY DEF Freed
    <3> QED
      BY <1>1, <1>3, <1>9, <3>1, <3>2, <3>3 DEF Sound, Pointers
  <2>2. CASE conn[c].phase # "none" /\ a.out = conn[c].out /\ (a.out # 0 => a.name = conn[c].name)
    <3>1. Open(u) = Open(s) /\ c \in Open(s)
      BY <1>9, <1>10, <2>2, Zenon
    <3>2. \A d \in Open(s) : u.conn[d].out = s.conn[d].out
      BY <1>1, <1>4, <1>5, <1>9, <2>2, Zenon
    <3>3. \A d \in Open(s) : u.conn[d].out # 0 => u.conn[d].name = s.conn[d].name
      BY <1>1, <1>4, <1>5, <1>9, <2>2, Zenon
    <3>4. \A d \in Open(s) : s.conn[d].phase = "active" => u.conn[d].phase = "active"
      BY <1>1, <1>4, <1>9, Zenon
    <3> QED
      BY <1>1, <1>3, <3>1, <3>2, <3>3, <3>4 DEF Sound, Pointers, Freed
  <2> QED
    BY <2>1, <2>2, Zenon
<1>13. \A m \in Peers : Served(u, m)
  BY <1>1, <1>3, <1>11 DEF Sound, Served
<1>14. Sound(u)
  BY <1>6, <1>8, <1>12, <1>13, Zenon DEF Sound
<1> QED
  BY <1>1, <1>2, <1>3, <1>14, LandedSame, Zenon

\* handle_new_meta_connection
LEMMA HandleNewMetaConnection ==
    ASSUME OutgoingInv, ~broken, handle_new_meta_connection
    PROVE  OutgoingInv'
<1> DEFINE c == Slot(State)
           a == [phase |-> "id", name |-> Unknown, out |-> 0]
<1>1. c \in Ids /\ conn[c].phase = "none"
  BY SlotIsFree, Zenon DEF handle_new_meta_connection, Free, Open, State
<1>2. a \in Connection /\ a.phase = "id" /\ a.out = 0
  BY Zenon DEF Connection
<1>3. node' = node /\ Becomes([State EXCEPT !.conn[c] = a])
  BY Zenon DEF handle_new_meta_connection, Becomes, State
<1> HIDE DEF c, a
<1> QED
  BY <1>1, <1>2, <1>3, NewConnection, Zenon

\* A connection there is has the fields of a connection_t.
LEMMA OpenConnection ==
    ASSUME OutgoingInv, NEW c \in Ids, conn[c].phase # "none"
    PROVE  conn[c] \in Connection
  BY DEF OutgoingInv, Sound, Typed, State, NoConn

\* finish_connecting
LEMMA FinishConnecting ==
    ASSUME OutgoingInv, ~broken, NEW c \in Ids, finish_connecting(c)
    PROVE  OutgoingInv'
<1> DEFINE a == [conn[c] EXCEPT !.phase = "id"]
<1>1. conn[c] \in Connection /\ conn[c].phase = "connecting"
  BY OpenConnection, Zenon DEF finish_connecting
<1>2. node' = node /\ Becomes([State EXCEPT !.conn[c] = a])
  BY Zenon DEF finish_connecting, Becomes, State
<1>3. a \in Connection /\ a.phase = "id" /\ a.out = conn[c].out /\ a.name = conn[c].name
  BY <1>1, Zenon DEF Connection
<1> HIDE DEF a
<1> QED
  BY <1>1, <1>2, <1>3, NewConnection, Zenon

\* id_h: on a connection that this node has made the name is the expected one.
LEMMA IdHandler ==
    ASSUME OutgoingInv, ~broken, NEW c \in Ids, NEW n \in Peers, id_h(c, n)
    PROVE  OutgoingInv'
<1> DEFINE a == [conn[c] EXCEPT !.phase = "auth", !.name = n]
<1>1. conn[c] \in Connection /\ conn[c].phase = "id" /\ (conn[c].out # 0 => conn[c].name = n)
  BY OpenConnection, Zenon DEF id_h
<1>2. node' = node /\ conn' = [conn EXCEPT ![c] = a] /\ UNCHANGED <<link, list, asked, broken>>
  BY Zenon DEF id_h
<1>3. a = [phase |-> "auth", name |-> n, out |-> conn[c].out]
  BY <1>1, ConnectionFields, Zenon
<1> HIDE DEF a
<1>4. a \in Connection /\ a.phase = "auth" /\ a.out = conn[c].out /\ a.name = n
  BY <1>1, <1>3, Zenon DEF Connection
<1>5. Becomes([State EXCEPT !.conn[c] = a])
  BY <1>2, Zenon DEF Becomes, State
<1> QED
  BY <1>1, <1>2, <1>4, <1>5, NewConnection, Zenon

\* timeout_handler reads a freed record only if a peer was forgotten.
LEMMA TimeoutHandler ==
    ASSUME OutgoingInv, NEW c \in Ids, timeout_handler(c)
    PROVE  OutgoingInv'
<1> DEFINE u == [State EXCEPT !.broken = TRUE]
<1>1. NodesTyped /\ Sound(State) /\ IsState(State)
  BY StateIsState, Zenon DEF OutgoingInv
<1>2. /\ u.conn = State.conn /\ u.link = State.link /\ u.list = State.list /\ u.asked = State.asked
      /\ u.broken = TRUE
  BY <1>1, Zenon DEF IsState
<1>3. node' = node /\ Becomes(u)
  BY <1>2, Zenon DEF timeout_handler, Becomes, State
<1>4. c \in Open(State) /\ State.conn[c].out = Freed
  BY Zenon DEF timeout_handler, Open, State
<1>5. Forgetful
  BY <1>1, <1>4, Zenon DEF Sound, Pointers, Forgetful
<1>6. Sound(u)
  BY <1>1, <1>2, SoundComponents, Zenon
<1> HIDE DEF u
<1> QED
  BY <1>1, <1>2, <1>3, <1>5, <1>6, LandedSame, Zenon

\* pong_h starts the addresses anew of the record that the connection holds.
LEMMA PongHandler ==
    ASSUME OutgoingInv, ~broken, NEW c \in Ids, pong_h(c)
    PROVE  OutgoingInv'
<1> USE PeersArePositive
<1> DEFINE s == State
           n == conn[c].out
<1>1. /\ NodesTyped /\ Sound(s) /\ IsState(s) /\ s.conn = conn /\ s.list = list /\ s.link = link
      /\ s.asked = asked /\ s.broken = broken /\ broken \in BOOLEAN
  BY StateIsState, Zenon DEF OutgoingInv, State
<1>2. c \in Open(s) /\ n # 0 /\ node' = node /\ UNCHANGED <<conn, link, asked>>
  BY <1>1, Zenon DEF pong_h, Open
<1>3. conn[c] \in Connection
  BY OpenConnection, Zenon DEF pong_h
<1>4. CASE n = Freed
  <2> DEFINE u == [s EXCEPT !.broken = TRUE]
  <2>1. u.conn = s.conn /\ u.link = s.link /\ u.list = s.list /\ u.asked = s.asked /\ u.broken = TRUE
    BY <1>1, Zenon DEF IsState
  <2>2. broken' = TRUE /\ list' = list
    BY <1>4, Zenon DEF pong_h
  <2>3. Forgetful
    BY <1>1, <1>2, <1>4, Zenon DEF Sound, Pointers, Forgetful
  <2> HIDE DEF u, s
  <2>4. Becomes(u)
    BY <1>1, <1>2, <2>1, <2>2, Zenon DEF Becomes
  <2>5. Sound(u)
    BY <1>1, <2>1, SoundComponents, Zenon
  <2> QED
    BY <1>1, <1>2, <2>1, <2>3, <2>4, <2>5, LandedSame, Zenon
<1>5. CASE n # Freed
  <2> DEFINE o == reset_outgoing(s.list[n])
             u == [s EXCEPT !.list[n] = o]
  <2>1. n \in Peers
    BY <1>2, <1>3, <1>5, Zenon DEF Connection
  <2>2. u.conn = s.conn /\ u.link = s.link /\ u.list = [s.list EXCEPT ![n] = o]
        /\ u.asked = s.asked /\ u.broken = s.broken
    BY <1>1, Zenon DEF IsState
  <2>3. broken' = broken /\ list' = [list EXCEPT ![n] = reset_outgoing(@)]
    BY <1>5, Zenon DEF pong_h
  <2>4. Becomes(u)
    BY <1>1, <1>2, <2>2, <2>3, Zenon DEF Becomes
  <2> HIDE DEF s, n, u
  <2>5. c \in Holders(s, n) /\ s.list[n].state # "none"
    BY <1>1, <1>2, <2>1, Zenon DEF Sound, Pointers, Holders, n
  <2>6. s.list[n] \in Record /\ ~s.list[n].ev
    <3>1. s.list[n] \in Record
      BY <1>1, <2>1, <2>5 DEF Sound, Typed, NoOutgoing
    <3>2. Served(s, n)
      BY <1>1, <2>1, Zenon DEF Sound
    <3> QED
      BY <2>5, <3>1, <3>2, Zenon DEF Served
  <2>7. o \in Record /\ o.state = "START" /\ ~o.ev
    <3>1. o = [state |-> "START", left |-> 0, ev |-> s.list[n].ev]
      BY <2>6, RecordFields, Zenon DEF reset_outgoing
    <3> HIDE DEF o
    <3> QED
      BY <2>6, <3>1 DEF Record
  <2> HIDE DEF o
  <2>8. Typed(u)
    BY <1>1, <2>2, <2>7, Zenon DEF Sound, Typed
  <2>9. Open(u) = Open(s) /\ Active(u) = Active(s) /\ \A m : Holders(u, m) = Holders(s, m)
    BY <2>2, Zenon DEF Open, Active, Holders
  <2>10. Linked(u)
    BY <1>1, <2>2, <2>9, Zenon DEF Sound, Linked
  <2>11. u.list[n] = o /\ \A m \in Peers : m # n => u.list[m] = s.list[m]
    BY <1>1, <2>1, <2>2, Zenon DEF Sound, Typed
  <2>12. \A m \in Peers : u.list[m].state = "none" <=> s.list[m].state = "none"
    BY <2>5, <2>7, <2>11, Zenon
  <2>13. Pointers(u)
    BY <1>1, <2>2, <2>12, PointersSame, Zenon DEF Sound
  <2>14. Served(u, n)
    BY <1>1, <2>1, <2>5, <2>7, <2>9, <2>11, Zenon DEF Sound, Served
  <2>15. \A m \in Peers : Served(u, m)
    BY <1>1, <2>2, <2>9, <2>11, <2>14, ZenonT(30) DEF Sound, Served
  <2>16. Sound(u)
    BY <2>8, <2>10, <2>13, <2>15, Zenon DEF Sound
  <2> QED
    BY <1>1, <1>2, <2>2, <2>4, <2>16, LandedSame, Zenon
<1> QED
  BY <1>4, <1>5, Zenon

\* A call changes the node_t of one peer, and does not make it known or forgotten.
LEMMA NodeChanges ==
    ASSUME OutgoingInv, ~broken, NEW n \in Peers, NEW m,
           m \in [known : {"yes", "forgotten", "again"}, black : {"never", "yes", "was"},
                  recent : Nat, tried : Nat, pubkey : BOOLEAN],
           m.known = node[n].known, node[n].black # "never" => m.black # "never",
           node' = [node EXCEPT ![n] = m], UNCHANGED <<conn, link, list, asked, broken>>
    PROVE  OutgoingInv'
<1>1. NodesTyped /\ Sound(State) /\ State.broken = broken /\ broken \in BOOLEAN
  BY Zenon DEF OutgoingInv, State
<1>2. Becomes(State)
  BY Zenon DEF Becomes, State
<1>3. NodesTyped'
  BY <1>1, Zenon DEF NodesTyped
<1>4. \A k \in Peers : node'[k] = IF k = n THEN m ELSE node[k]
  BY <1>1, Zenon DEF NodesTyped
<1>5. \A k \in Peers : node'[k].known = node[k].known /\ (node[k].black # "never" => node'[k].black # "never")
  BY <1>4, Zenon
<1> QED
  BY <1>1, <1>2, <1>3, <1>5, Landed, Zenon DEF Known

\* blacklist, whitelist, meshlink_hint_address, mdns_io_handler, ANS_PUBKEY
LEMMA NodeCalls ==
    ASSUME OutgoingInv, ~broken, NEW n \in Peers,
           \/ blacklist(n) \/ whitelist(n) \/ meshlink_hint_address(n)
           \/ mdns_io_handler(n) \/ NewKey(n)
    PROVE  OutgoingInv'
<1> DEFINE N == [known : {"yes", "forgotten", "again"}, black : {"never", "yes", "was"},
                 recent : Nat, tried : Nat, pubkey : BOOLEAN]
<1>1. node[n] \in N
  BY Zenon DEF OutgoingInv, NodesTyped
<1>2. UNCHANGED <<conn, link, list, asked, broken>>
  BY Zenon DEF blacklist, whitelist, meshlink_hint_address, mdns_io_handler, NewKey
<1>3. CASE blacklist(n)
  <2> DEFINE m == [node[n] EXCEPT !.black = "yes"]
  <2>1. m \in N /\ m.known = node[n].known /\ m.black = "yes"
    BY <1>1, Zenon
  <2>2. node' = [node EXCEPT ![n] = m]
    BY <1>3, Zenon DEF blacklist
  <2> HIDE DEF m
  <2> QED
    BY <1>2, <2>1, <2>2, NodeChanges, Zenon
<1>4. CASE whitelist(n)
  <2> DEFINE m == [node[n] EXCEPT !.black = "was"]
  <2>1. m \in N /\ m.known = node[n].known /\ m.black = "was"
    BY <1>1, Zenon
  <2>2. node' = [node EXCEPT ![n] = m]
    BY <1>4, Zenon DEF whitelist
  <2> HIDE DEF m
  <2> QED
    BY <1>2, <2>1, <2>2, NodeChanges, Zenon
<1>5. CASE meshlink_hint_address(n)
  <2> DEFINE m == [node[n] EXCEPT !.recent = @ + 1]
  <2>1. m \in N /\ m.known = node[n].known /\ m.black = node[n].black
    BY <1>1
  <2>2. node' = [node EXCEPT ![n] = m]
    BY <1>5, Zenon DEF meshlink_hint_address
  <2> HIDE DEF m
  <2> QED
    BY <1>2, <2>1, <2>2, NodeChanges, Zenon
<1>6. CASE mdns_io_handler(n)
  <2>1. PICK r \in node_add_recent_address(node[n].recent) :
          node' = [node EXCEPT ![n].recent = r, ![n].tried = 0]
    BY <1>6, Zenon DEF mdns_io_handler
  <2>2. r \in Nat
    BY <1>1 DEF node_add_recent_address
  <2> DEFINE m == [node[n] EXCEPT !.recent = r, !.tried = 0]
  <2>3. m \in N /\ m.known = node[n].known /\ m.black = node[n].black
    BY <1>1, <2>2, Zenon
  <2>4. node' = [node EXCEPT ![n] = m]
    BY <2>1, Zenon DEF OutgoingInv, NodesTyped
  <2> HIDE DEF m
  <2> QED
    BY <1>2, <2>3, <2>4, NodeChanges, Zenon
<1>7. CASE NewKey(n)
  <2> DEFINE m == [node[n] EXCEPT !.pubkey = TRUE]
  <2>1. m \in N /\ m.known = node[n].known /\ m.black = node[n].black
    BY <1>1, Zenon
  <2>2. node' = [node EXCEPT ![n] = m]
    BY <1>7, Zenon DEF NewKey
  <2> HIDE DEF m
  <2> QED
    BY <1>2, <2>1, <2>2, NodeChanges, Zenon
<1> QED
  BY <1>3, <1>4, <1>5, <1>6, <1>7, Zenon

\* meshlink_forget_node: a connection that is being set up keeps a pointer to
\* the record that is freed.
LEMMA ForgetNode ==
    ASSUME OutgoingInv, ~broken, NEW n \in Peers, meshlink_forget_node(n)
    PROVE  OutgoingInv'
<1> USE PeersArePositive
<1> DEFINE s == State
           m == [node[n] EXCEPT !.known = "forgotten"]
           C == [c \in Ids |-> IF c \in Holders(s, n) THEN [s.conn[c] EXCEPT !.out = Freed] ELSE s.conn[c]]
<1>1. /\ NodesTyped /\ Sound(s) /\ IsState(s) /\ s.conn = conn /\ s.list = list /\ s.link = link
      /\ s.asked = asked /\ s.broken = broken /\ broken \in BOOLEAN
  BY StateIsState, Zenon DEF OutgoingInv, State
<1>2. Known(n) /\ s.link[n] = 0 /\ node' = [node EXCEPT ![n] = m] /\ ~\E c \in Active(s) : s.conn[c].name = n
  BY <1>1, Zenon DEF meshlink_forget_node
<1>3. Becomes(IF s.list[n].state = "none" THEN s ELSE Deleted(s, n))
  BY <1>1, Zenon DEF meshlink_forget_node
<1> HIDE DEF s
<1>4. /\ Deleted(s, n).conn = C /\ Deleted(s, n).link = s.link /\ Deleted(s, n).asked = s.asked
      /\ Deleted(s, n).broken = s.broken /\ Deleted(s, n).list = [s.list EXCEPT ![n] = NoOutgoing]
  BY <1>1, Zenon DEF Deleted, IsState
<1>5. s.list[n].state = "none" => Holders(s, n) = {} /\ C = s.conn
  <2> SUFFICES ASSUME s.list[n].state = "none" PROVE Holders(s, n) = {} /\ C = s.conn
    BY Zenon
  <2>1. Holders(s, n) = {}
    BY <1>1, Zenon DEF Sound, Pointers, Holders
  <2> QED
    BY <1>1, <2>1, Zenon DEF Sound, Typed
<1>6. /\ conn' = C /\ link' = s.link /\ asked' = s.asked /\ broken' = s.broken
      /\ s.list[n].state # "none" => list' = [s.list EXCEPT ![n] = NoOutgoing]
      /\ s.list[n].state = "none" => list' = s.list
  BY <1>3, <1>4, <1>5, Zenon DEF Becomes
<1>7. list' \in [Peers -> Record \cup {NoOutgoing}] /\ list'[n].state = "none"
      /\ \A k \in Peers : k # n => list'[k] = s.list[k]
  BY <1>1, <1>6 DEF Sound, Typed, NoOutgoing
<1>8. \A c \in Holders(s, n) : [s.conn[c] EXCEPT !.out = Freed] = [phase |-> s.conn[c].phase, name |-> n, out |-> Freed]
                               /\ s.conn[c].phase # "none" /\ s.conn[c].phase # "active" /\ s.conn[c] \in Connection
                               /\ s.conn[c].name = n
  <2> TAKE c \in Holders(s, n)
  <2>1. c \in Open(s) /\ s.conn[c].out = n /\ s.conn[c].phase # "none" /\ c \in Ids
    BY Zenon DEF Holders, Open
  <2>2. s.conn[c] \in Connection
    <3>1. s.conn[c] \in Connection \cup {NoConn}
      BY <1>1, <2>1, Zenon DEF Sound, Typed
    <3>2. s.conn[c] # NoConn
      BY <2>1 DEF NoConn
    <3> QED
      BY <3>1, <3>2, Zenon
  <2>3. s.conn[c].name = n
    BY <1>1, <2>1, Zenon DEF Sound, Pointers
  <2>4. s.conn[c].phase # "active"
    BY <1>2, <2>1, <2>3, Zenon DEF Active
  <2>5. [s.conn[c] EXCEPT !.out = Freed] = [phase |-> s.conn[c].phase, name |-> s.conn[c].name, out |-> Freed]
    BY <2>2 DEF Connection
  <2> QED
    BY <2>1, <2>2, <2>3, <2>4, <2>5, Zenon
<1>10. Holders(s, n) \subseteq Open(s) /\ Open(s) \subseteq Ids
  BY Zenon DEF Holders, Open
<1>9. /\ \A c \in Holders(s, n) : conn'[c] = [phase |-> s.conn[c].phase, name |-> n, out |-> Freed]
      /\ \A c \in Ids : c \notin Holders(s, n) => conn'[c] = s.conn[c]
  BY <1>6, <1>8, <1>10, Zenon
<1> HIDE DEF C, m
<1>20. \A c \in Holders(s, n) : /\ conn'[c].phase = s.conn[c].phase /\ conn'[c].name = n
                                /\ conn'[c].out = Freed
  <2> TAKE c \in Holders(s, n)
  <2>1. conn'[c] = [phase |-> s.conn[c].phase, name |-> n, out |-> Freed]
    BY <1>9, Zenon
  <2> QED
    BY <2>1
<1>11. /\ (State.conn)' = conn' /\ (State.link)' = link' /\ (State.list)' = list'
       /\ (State.asked)' = asked'
  BY Zenon DEF State
<1>12. \A c \in Ids : conn'[c].phase = s.conn[c].phase
  BY <1>9, <1>20, Zenon
<1>13. \A c \in Open(s) : conn'[c].name = s.conn[c].name
  BY <1>8, <1>9, <1>10, <1>20, Zenon
<1>14. Open(State)' = Open(s) /\ Active(State)' = Active(s)
  BY <1>11, <1>12, Zenon DEF Open, Active
<1>15. Typed(State)'
  <2>1. \A c \in Ids : conn'[c] \in Connection \cup {NoConn}
    <3>1. \A c \in Holders(s, n) : conn'[c] \in Connection
      <4> TAKE c \in Holders(s, n)
      <4>1. s.conn[c].phase \in {"connecting", "id", "auth", "active"}
        BY <1>8, Zenon DEF Connection
      <4>2. conn'[c] = [phase |-> s.conn[c].phase, name |-> n, out |-> Freed]
        BY <1>9, Zenon
      <4> QED
        BY <4>1, <4>2 DEF Connection
    <3>2. \A c \in Ids : s.conn[c] \in Connection \cup {NoConn}
      BY <1>1, Zenon DEF Sound, Typed
    <3> QED
      BY <1>9, <3>1, <3>2, Zenon
  <2>2. conn' = [c \in Ids |-> conn'[c]]
    BY <1>6, Zenon DEF C
  <2>3. conn' \in [Ids -> Connection \cup {NoConn}]
    BY <2>1, <2>2, Zenon
  <2> QED
    BY <1>1, <1>6, <1>7, <1>11, <2>3, Zenon DEF Sound, Typed
<1>16. Linked(State)'
  <2>1. \A c \in Ids : s.conn[c].phase # "none" => c \in Open(s)
    BY Zenon DEF Open
  <2>2. \A c \in Ids : conn'[c].phase \in {"auth", "active"} => conn'[c].name \in Peers
    BY <1>1, <1>12, <1>13, <2>1, Zenon DEF Sound, Linked
  <2>3. Active(s) \subseteq Open(s)
    BY Zenon DEF Active
  <2>4. \A k \in Peers : link'[k] # 0 => link'[k] \in Active(s) /\ conn'[link'[k]].name = k
    <3> TAKE k \in Peers
    <3> HAVE link'[k] # 0
    <3>1. Linked(s) /\ link'[k] = s.link[k]
      BY <1>1, <1>6, Zenon DEF Sound
    <3>2. s.link[k] \in Active(s) /\ s.conn[s.link[k]].name = k
      BY <3>1, Zenon DEF Linked
    <3> QED
      BY <1>13, <2>3, <3>1, <3>2, Zenon
  <2>5. \A c \in Active(s) : link'[conn'[c].name] = c
    BY <1>1, <1>6, <1>13, <2>3, Zenon DEF Sound, Linked
  <2> QED
    BY <1>11, <1>14, <2>2, <2>4, <2>5, Zenon DEF Linked
<1>17. NodesTyped' /\ node'[n].known = "forgotten" /\ \A k \in Peers : k # n => node'[k] = node[k]
  BY <1>1, <1>2 DEF NodesTyped, m
<1>18. Pointers(State)'
  <2> SUFFICES ASSUME NEW c \in Open(s)
               PROVE  /\ conn'[c].out \in Peers =>
                           /\ conn'[c].name = conn'[c].out
                           /\ list'[conn'[c].out].state # "none"
                           /\ \A d \in Open(s) : conn'[d].out = conn'[c].out => d = c
                      /\ conn'[c].out = Freed =>
                           /\ conn'[c].name \in Peers
                           /\ list'[conn'[c].name].state = "none"
                           /\ node'[conn'[c].name].known # "yes"
                           /\ conn'[c].phase = "active" \/ node'[conn'[c].name].known = "forgotten"
    BY <1>11, <1>14, Zenon DEF Pointers, Known
  <2>1. CASE c \in Holders(s, n)
    <3>1. conn'[c].name = n /\ conn'[c].out = Freed
      BY <1>20, <2>1, Zenon
    <3> QED
      BY <1>7, <1>17, <3>1, Zenon
  <2>2. CASE c \notin Holders(s, n)
    <3>1. conn'[c] = s.conn[c] /\ s.conn[c].out # n
      BY <1>9, <1>10, <2>2, Zenon DEF Holders
    <3>2. \A d \in Open(s) : conn'[d].out \in Peers => conn'[d].out = s.conn[d].out
      BY <1>9, <1>10, <1>20, Zenon
    <3>3. CASE s.conn[c].out \in Peers
      <4>1. /\ s.conn[c].name = s.conn[c].out /\ s.list[s.conn[c].out].state # "none"
            /\ \A d \in Open(s) : s.conn[d].out = s.conn[c].out => d = c
        BY <1>1, <3>3, Zenon DEF Sound, Pointers
      <4>2. conn'[c].out \in Peers /\ conn'[c].out # n /\ conn'[c].out # Freed
        BY <3>1, <3>3, Zenon
      <4>3. \A d \in Open(s) : conn'[d].out = conn'[c].out => d = c
        BY <3>1, <3>2, <4>1, <4>2, Zenon
      <4> QED
        BY <1>7, <3>1, <4>1, <4>2, <4>3, Zenon
    <3>4. CASE s.conn[c].out = Freed
      <4>1. /\ s.conn[c].name \in Peers /\ s.list[s.conn[c].name].state = "none"
            /\ node[s.conn[c].name].known # "yes"
            /\ s.conn[c].phase = "active" \/ ~Known(s.conn[c].name)
        BY <1>1, <3>4, Zenon DEF Sound, Pointers
      <4> QED
        BY <1>7, <1>17, <3>1, <3>4, <4>1, Zenon DEF Known
    <3> QED
      BY <3>1, <3>3, <3>4, Zenon
  <2> QED
    BY <2>1, <2>2, Zenon
<1>19. ASSUME NEW k \in Peers PROVE Served(State, k)'
  <2>1. CASE k = n
    BY <1>7, <1>11, <2>1, Zenon DEF Served
  <2>2. CASE k # n
    <3>1. Holders(State, k)' = Holders(s, k)
      <4>1. \A c \in Open(s) : conn'[c].out = k <=> s.conn[c].out = k
        <5> TAKE c \in Open(s)
        <5>1. CASE c \in Holders(s, n)
          BY <1>20, <2>2, <5>1, Zenon DEF Holders
        <5>2. CASE c \notin Holders(s, n)
          BY <1>9, <1>10, <5>2, Zenon
        <5> QED
          BY <5>1, <5>2, Zenon
      <4> QED
        BY <1>11, <1>14, <4>1, Zenon DEF Holders
    <3>2. Served(s, k)
      BY <1>1, Zenon DEF Sound
    <3> QED
      BY <1>6, <1>7, <1>11, <1>17, <2>2, <3>1, <3>2, Zenon DEF Served, Known
  <2> QED
    BY <2>1, <2>2, Zenon
<1> QED
  BY <1>1, <1>6, <1>15, <1>16, <1>17, <1>18, <1>19, Zenon DEF OutgoingInv, Sound, Forgetful

\* u is s after the connections G have given way to c, whose record is q instead
\* of ou: its own, or one of theirs if there is any.
GaveWay(s, u, G, c, ph, nm, ou, q) ==
    /\ IsState(u)
    /\ u.link = s.link /\ u.list = s.list /\ u.asked = s.asked /\ u.broken = s.broken
    /\ DOMAIN u.conn = Ids
    /\ u.conn = [d \in Ids |-> u.conn[d]]
    /\ \A d \in G : u.conn[d] = NoConn
    /\ \A d \in Ids : d \notin G /\ d # c => u.conn[d] = s.conn[d]
    /\ u.conn[c] = [phase |-> ph, name |-> nm, out |-> q]
    /\ q = ou \/ \E d \in G : q = s.conn[d].out
    /\ q = 0 => ou = 0 /\ \A d \in G : s.conn[d].out = 0

\* The connections G give way to c, which has the record if one of them had it.
LEMMA GiveWay ==
    ASSUME NEW s, IsState(s), NEW G \in SUBSET Ids, NEW c \in Ids, c \notin G, NEW u \in Replaced(s, G, c),
           NEW ph, NEW nm, NEW ou, s.conn[c] = [phase |-> ph, name |-> nm, out |-> ou]
    PROVE  \E q : GaveWay(s, u, G, c, ph, nm, ou, q)
<1>1. PICK q \in Taken(s, G, c) :
         u = [s EXCEPT !.conn = [d \in Ids |-> IF d \in G THEN NoConn
                                       ELSE IF d = c THEN [s.conn[c] EXCEPT !.out = q]
                                       ELSE s.conn[d]]]
  BY Zenon DEF Replaced
<1>2. [s.conn[c] EXCEPT !.out = q] = [phase |-> ph, name |-> nm, out |-> q]
  <2>1. [[phase |-> ph, name |-> nm, out |-> ou] EXCEPT !.out = q] = [phase |-> ph, name |-> nm, out |-> q]
    OBVIOUS
  <2> QED
    BY <2>1, Zenon
<1> DEFINE a == [phase |-> ph, name |-> nm, out |-> q]
           C == [d \in Ids |-> IF d \in G THEN NoConn ELSE IF d = c THEN a ELSE s.conn[d]]
<1>3. u = [s EXCEPT !.conn = C]
  BY <1>1, <1>2, Zenon
<1>4. /\ \A d \in G : C[d] = NoConn
      /\ \A d \in Ids : d \notin G /\ d # c => C[d] = s.conn[d]
      /\ C[c] = a /\ DOMAIN C = Ids /\ C = [d \in Ids |-> C[d]]
  <2> HIDE DEF a
  <2> QED
    BY Zenon
<1> HIDE DEF C
<1>5. u.conn = C /\ u.link = s.link /\ u.list = s.list /\ u.asked = s.asked /\ u.broken = s.broken /\ IsState(u)
  BY <1>3, Zenon DEF IsState
<1>6. s.conn[c].out = ou
  <2>1. [phase |-> ph, name |-> nm, out |-> ou].out = ou
    BY Zenon
  <2> QED
    BY <2>1, Zenon
<1>7. (q = ou \/ \E d \in G : q = s.conn[d].out) /\ (q = 0 => ou = 0 /\ \A d \in G : s.conn[d].out = 0)
  <2> DEFINE theirs == {s.conn[d].out : d \in G} \ {0}
  <2>1. q \in IF ou # 0 \/ theirs = {} THEN {ou} ELSE theirs
    BY <1>1, <1>6, Zenon DEF Taken
  <2>2. CASE ou # 0
    BY <2>1, <2>2, Zenon
  <2>3. CASE ou = 0 /\ theirs = {}
    <3>1. \A d \in G : s.conn[d].out = 0
      BY <2>3, Zenon
    <3> HIDE DEF theirs
    <3> QED
      BY <2>1, <2>3, <3>1, Zenon
  <2>4. CASE ou = 0 /\ theirs # {}
    BY <2>1, <2>4, Zenon
  <2> QED
    BY <2>2, <2>3, <2>4, Zenon
<1>8. GaveWay(s, u, G, c, ph, nm, ou, q)
  BY <1>4, <1>5, <1>7, Zenon DEF GaveWay
<1> QED
  BY <1>8, Zenon

\* The node_t of an ACK: a peer that was forgotten is known again.
LEMMA AckNode ==
    ASSUME NodesTyped, NEW n \in Peers, NEW r,
           LET m == IF Known(n) THEN node[n] ELSE new_node
           IN  r \in node_add_recent_address(m.recent) /\ node' = [node EXCEPT ![n] = [m EXCEPT !.recent = r]]
    PROVE  /\ NodesTyped'
           /\ \A k \in Peers : k # n => node'[k] = node[k]
           /\ Known(n) => node'[n].known = node[n].known /\ node'[n].black = node[n].black
           /\ ~Known(n) => node'[n].known = "again"
<1> DEFINE N == [known : {"yes", "forgotten", "again"}, black : {"never", "yes", "was"},
                 recent : Nat, tried : Nat, pubkey : BOOLEAN]
           m == IF Known(n) THEN node[n] ELSE new_node
           e == [m EXCEPT !.recent = r]
<1>1. m \in N /\ (Known(n) => m = node[n]) /\ (~Known(n) => m.known = "again")
  BY Zenon DEF NodesTyped, new_node
<1>2. r \in node_add_recent_address(m.recent) /\ node' = [node EXCEPT ![n] = e]
  BY Zenon
<1> HIDE DEF m
<1>3. r \in Nat
  BY <1>1, <1>2 DEF node_add_recent_address
<1>4. e \in N /\ e.known = m.known /\ e.black = m.black
  BY <1>1, <1>3, Zenon
<1> HIDE DEF e
<1>5. NodesTyped' /\ node'[n] = e /\ \A k \in Peers : k # n => node'[k] = node[k]
  BY <1>2, <1>4 DEF NodesTyped
<1> QED
  BY <1>1, <1>4, <1>5, Zenon

\* The other connections with the peer n of c.
Others(s, c, n) == {d \in Ids : d # c /\ s.conn[d].phase # "none" /\ s.conn[d].name = n}

\* t is s after all of them have given way to c, which has the record q.
Acked(s, t, c, n, q) ==
    /\ t.link = [s.link EXCEPT ![n] = c] /\ t.list = s.list /\ t.asked = s.asked /\ t.broken = s.broken
    /\ t.conn = [d \in Ids |-> t.conn[d]]
    /\ \A d \in Others(s, c, n) : t.conn[d] = NoConn
    /\ \A d \in Ids : d \notin Others(s, c, n) /\ d # c => t.conn[d] = s.conn[d]
    /\ t.conn[c] = [phase |-> "active", name |-> n, out |-> q]
    /\ q = s.conn[c].out \/ \E d \in Others(s, c, n) : q = s.conn[d].out
    /\ q = 0 => s.conn[c].out = 0 /\ \A d \in Others(s, c, n) : s.conn[d].out = 0

\* w is u with c as the active connection of n.
Raised(u, w, n, c) == w = [u EXCEPT !.link[n] = c, !.conn[c].phase = "active"]

\* ack_h: the connections that give way to c are all the others with its peer n.
LEMMA AckConnections ==
    ASSUME NEW s, IsState(s), Sound(s), NEW c \in Ids, NEW n, n = s.conn[c].name,
           s.conn[c].phase = "auth", s.conn[c] \in Connection,
           NEW u \in Replaced(s, Older(s, n), c), NEW w, Raised(u, w, n, c),
           NEW t \in Replaced(w, Pending(w, n), c)
    PROVE  \E q : Acked(s, t, c, n, q)
<1> DEFINE G == Older(s, n)
           P == Pending(w, n)
           gone == Others(s, c, n)
<1> USE PeersArePositive
<1>1. n \in Peers
  BY Zenon DEF Sound, Linked
<1>2. /\ G \in SUBSET Ids /\ c \notin G
      /\ \A d \in Ids : s.conn[d].phase = "active" /\ s.conn[d].name = n => d \in G
      /\ \A d \in G : s.conn[d].phase = "active" /\ s.conn[d].name = n
  <2>1. CASE s.link[n] = 0
    <3>1. G = {}
      BY <2>1, Zenon DEF Older
    <3>2. \A d \in Active(s) : s.link[s.conn[d].name] = d
      BY Zenon DEF Sound, Linked
    <3>3. \A d \in Ids : s.conn[d].phase = "active" => s.link[s.conn[d].name] = d
      BY <3>2, Zenon DEF Active, Open
    <3> HIDE DEF G
    <3> QED
      BY <2>1, <3>1, <3>3, Zenon
  <2>2. CASE s.link[n] # 0
    <3> DEFINE e == s.link[n]
    <3>1. e \in Active(s) /\ s.conn[e].name = n /\ G = {e}
      BY <1>1, <2>2, Zenon DEF Sound, Linked, Older
    <3>2. \A d \in Active(s) : s.conn[d].name = n => d = e
      BY Zenon DEF Sound, Linked
    <3> HIDE DEF e, G
    <3>3. e \in Ids /\ s.conn[e].phase = "active"
      BY <3>1, Zenon DEF Active, Open
    <3>4. \A d \in Ids : s.conn[d].phase = "active" => d \in Active(s)
      BY Zenon DEF Active, Open
    <3> QED
      BY <3>1, <3>2, <3>3, <3>4, Zenon
  <2> QED
    BY <2>1, <2>2, Zenon
<1>3. s.conn[c] = [phase |-> "auth", name |-> n, out |-> s.conn[c].out]
  BY Zenon DEF Connection
<1> HIDE DEF G, P, gone
<1>4. PICK o : GaveWay(s, u, G, c, "auth", n, s.conn[c].out, o)
  BY <1>2, <1>3, GiveWay, Zenon DEF G
<1> USE DEF GaveWay
<1>5. /\ IsState(w) /\ w.link = [s.link EXCEPT ![n] = c] /\ w.list = s.list /\ w.asked = s.asked
      /\ w.broken = s.broken /\ w.conn = [u.conn EXCEPT ![c] = [u.conn[c] EXCEPT !.phase = "active"]]
  BY <1>4, Zenon DEF IsState, Raised
<1>6. w.conn[c] = [phase |-> "active", name |-> n, out |-> o]
  <2>1. [[phase |-> "auth", name |-> n, out |-> o] EXCEPT !.phase = "active"]
          = [phase |-> "active", name |-> n, out |-> o]
    OBVIOUS
  <2>2. w.conn[c] = [u.conn[c] EXCEPT !.phase = "active"]
    BY <1>4, <1>5, Zenon
  <2> QED
    BY <1>4, <2>1, <2>2, Zenon
<1>7. \A d \in Ids : d # c => w.conn[d] = u.conn[d]
  BY <1>4, <1>5, Zenon
<1>8. /\ \A d \in G : w.conn[d] = NoConn
      /\ \A d \in Ids : d \notin G /\ d # c => w.conn[d] = s.conn[d]
  BY <1>2, <1>4, <1>7
<1>9. P = {d \in Ids : d # c /\ d \notin G /\ s.conn[d].phase \notin {"none", "active"} /\ s.conn[d].name = n}
  <2>1. w.conn[c].phase = "active"
    BY <1>6
  <2>2. \A d \in G : w.conn[d].phase = "none"
    BY <1>8, FreeSlot, Zenon
  <2>3. P = {d \in Ids : w.conn[d].phase # "none" /\ w.conn[d].phase # "active" /\ w.conn[d].name = n}
    BY Zenon DEF P, Pending, Open
  <2> QED
    BY <1>2, <1>8, <2>1, <2>2, <2>3, Zenon
<1>10. P \in SUBSET Ids /\ c \notin P
  BY <1>9, Zenon
<1> HIDE DEF GaveWay
<1>11. PICK q : GaveWay(w, t, P, c, "active", n, o, q)
  <2>1. IsState(w) /\ t \in Replaced(w, P, c)
    BY <1>5, Zenon DEF P
  <2> QED
    BY <1>6, <1>10, <2>1, GiveWay, Zenon
<1> USE DEF GaveWay
<1>12. gone = G \cup P
  <2>1. G \subseteq gone
    BY <1>2, Zenon DEF gone, Others
  <2>2. P \subseteq gone
    BY <1>9, Zenon DEF gone, Others
  <2>3. gone \subseteq G \cup P
    BY <1>2, <1>9, Zenon DEF gone, Others
  <2> QED
    BY <2>1, <2>2, <2>3, Zenon
<1>13. \A d \in gone : t.conn[d] = NoConn
  BY <1>2, <1>8, <1>10, <1>11, <1>12, Zenon
<1>14. \A d \in Ids : d \notin gone /\ d # c => t.conn[d] = s.conn[d]
  BY <1>8, <1>11, <1>12, Zenon
<1>15. \A d \in P : w.conn[d] = s.conn[d]
  BY <1>8, <1>9, Zenon
<1>16. q = s.conn[c].out \/ \E d \in gone : q = s.conn[d].out
  BY <1>4, <1>11, <1>12, <1>15, Zenon
<1>17. q = 0 => s.conn[c].out = 0 /\ \A d \in gone : s.conn[d].out = 0
  BY <1>4, <1>11, <1>12, <1>15, Zenon
<1>18. Acked(s, t, c, n, q)
  BY <1>5, <1>11, <1>13, <1>14, <1>16, <1>17, Zenon DEF gone, Acked
<1> QED
  BY <1>18, Zenon

\* ack_h
LEMMA AckHandler ==
    ASSUME OutgoingInv, ~broken, NEW c \in Ids, ack_h(c)
    PROVE  OutgoingInv'
<1> USE PeersArePositive
<1> DEFINE s == State
           n == conn[c].name
           Up(v) == [v EXCEPT !.link[n] = c, !.conn[c].phase = "active"]
           gone == Others(s, c, n)
<1>1. /\ NodesTyped /\ Sound(s) /\ IsState(s) /\ s.conn = conn /\ s.list = list /\ s.link = link
      /\ s.asked = asked /\ s.broken = broken /\ broken \in BOOLEAN
  BY StateIsState, Zenon DEF OutgoingInv, State
<1>2. s.conn[c].phase = "auth" /\ s.conn[c] \in Connection /\ n \in Peers
  <2>1. conn[c].phase = "auth"
    BY Zenon DEF ack_h
  <2> QED
    BY <1>1, <2>1, OpenConnection, Zenon DEF Sound, Linked
<1>3. PICK u \in Replaced(s, Older(s, n), c) :
          \E t \in Replaced(Up(u), Pending(Up(u), n), c) : Becomes(t)
  BY Zenon DEF ack_h
<1>4. PICK t \in Replaced(Up(u), Pending(Up(u), n), c) : Becomes(t)
  BY <1>3, Zenon
<1>5. /\ NodesTyped'
      /\ \A k \in Peers : k # n => node'[k] = node[k]
      /\ Known(n) => node'[n].known = node[n].known /\ node'[n].black = node[n].black
      /\ ~Known(n) => node'[n].known = "again"
  BY <1>1, <1>2, AckNode, Zenon DEF ack_h
<1>6. n = s.conn[c].name
  BY <1>1, Zenon
<1> HIDE DEF s, n
<1>28. PICK q : Acked(s, t, c, n, q)
  <2>1. Raised(u, Up(u), n, c)
    BY Zenon DEF Raised
  <2> HIDE DEF Up
  <2> QED
    BY <1>1, <1>2, <1>3, <1>4, <1>6, <2>1, AckConnections, Zenon
<1>7. /\ t.link = [s.link EXCEPT ![n] = c] /\ t.list = s.list /\ t.asked = s.asked /\ t.broken = s.broken
      /\ t.conn = [d \in Ids |-> t.conn[d]]
      /\ \A d \in gone : t.conn[d] = NoConn
      /\ \A d \in Ids : d \notin gone /\ d # c => t.conn[d] = s.conn[d]
      /\ t.conn[c] = [phase |-> "active", name |-> n, out |-> q]
      /\ q = s.conn[c].out \/ \E d \in gone : q = s.conn[d].out
      /\ q = 0 => s.conn[c].out = 0 /\ \A d \in gone : s.conn[d].out = 0
  BY <1>28, Zenon DEF Acked
<1>8. \A d \in Ids : d \in gone <=> d # c /\ d \in Open(s) /\ s.conn[d].name = n
  BY Zenon DEF Open, Others
<1>9. gone \subseteq Ids /\ c \notin gone /\ c \in Open(s)
  BY <1>2, Zenon DEF Open, Others
<1> HIDE DEF gone, Up
<1>10. t.conn[c].phase = "active" /\ t.conn[c].name = n /\ t.conn[c].out = q
  BY <1>7
<1>11. \A d \in gone : t.conn[d].phase = "none"
  BY <1>7, FreeSlot, Zenon
<1>12. \E x \in Open(s) : s.conn[x].name = n /\ s.conn[x].out = q /\ s.conn[x] \in Connection
  <2>1. \A d \in Open(s) : s.conn[d] \in Connection
    <3>1. s.conn \in [Ids -> Connection \cup {NoConn}]
      BY <1>1, Zenon DEF Sound, Typed
    <3> QED
      BY <3>1 DEF Open, NoConn
  <2> QED
    BY <1>6, <1>7, <1>8, <1>9, <2>1, Zenon
<1>13. /\ q \in {0, n, Freed}
       /\ q = n => s.list[n].state # "none"
       /\ q = Freed => s.list[n].state = "none" /\ node[n].known # "yes"
  <2>1. PICK x \in Open(s) : s.conn[x].name = n /\ s.conn[x].out = q /\ s.conn[x] \in Connection
    BY <1>12, Zenon
  <2>2. q \in Peers \cup {0, Freed}
    BY <2>1, Zenon DEF Connection
  <2>3. q \in Peers => q = n /\ s.list[n].state # "none"
    BY <1>1, <2>1, Zenon DEF Sound, Pointers
  <2>4. q = Freed => s.list[n].state = "none" /\ node[n].known # "yes"
    BY <1>1, <2>1, Zenon DEF Sound, Pointers
  <2> QED
    BY <1>2, <2>2, <2>3, <2>4, Zenon
<1>14. q = n <=> Holders(s, n) # {}
  <2>1. q = n => Holders(s, n) # {}
    BY <1>12, Zenon DEF Holders
  <2>2. ASSUME NEW x \in Holders(s, n) PROVE q = n
    <3>1. x \in Open(s) /\ s.conn[x].out = n /\ s.conn[x].name = n /\ s.list[n].state # "none" /\ x \in Ids
      BY <1>1, <1>2, Zenon DEF Sound, Pointers, Holders, Open
    <3>2. x = c \/ x \in gone
      BY <1>8, <3>1, Zenon
    <3>3. q # 0
      BY <1>2, <1>7, <3>1, <3>2
    <3> QED
      BY <1>13, <3>1, <3>3, Zenon
  <2> QED
    BY <2>1, <2>2, Zenon
<1>15. Open(t) = Open(s) \ gone
  BY <1>7, <1>9, <1>10, <1>11, Zenon DEF Open
<1>16. \A d \in Open(t) : d # c => d \in Open(s) /\ t.conn[d] = s.conn[d] /\ s.conn[d].name # n
  <2>1. Open(s) \subseteq Ids
    BY Zenon DEF Open
  <2> QED
    BY <1>7, <1>8, <1>15, <2>1, Zenon
<1>17. Typed(t)
  <2>1. t.conn[c] \in Connection
    BY <1>2, <1>7, <1>13 DEF Connection
  <2>2. \A d \in Ids : s.conn[d] \in Connection \cup {NoConn}
    BY <1>1, Zenon DEF Sound, Typed
  <2>3. \A d \in Ids : t.conn[d] \in Connection \cup {NoConn}
    <3>1. \A d \in Ids : d = c \/ t.conn[d] = NoConn \/ t.conn[d] = s.conn[d]
      BY <1>7, Zenon
    <3> QED
      BY <2>1, <2>2, <3>1, Zenon
  <2>4. t.conn \in [Ids -> Connection \cup {NoConn}]
    BY <1>7, <2>3, Zenon
  <2>5. t.link \in [Peers -> Ids \cup {0}]
    <3>1. s.link \in [Peers -> Ids \cup {0}]
      BY <1>1, Zenon DEF Sound, Typed
    <3>2. t.link = [s.link EXCEPT ![n] = c]
      BY <1>7, Zenon
    <3> QED
      BY <3>1, <3>2, Zenon
  <2> QED
    BY <1>1, <1>7, <2>4, <2>5, Zenon DEF Sound, Typed
<1>18. Linked(t)
  <2>1. \A d \in Ids : t.conn[d].phase \in {"auth", "active"} => t.conn[d].name \in Peers
    BY <1>1, <1>2, <1>7, <1>10, <1>11, ZenonT(30) DEF Sound, Linked
  <2>2. t.link[n] = c /\ \A k \in Peers : k # n => t.link[k] = s.link[k]
    BY <1>1, <1>2, <1>7, Zenon DEF Sound, Typed
  <2>3. ASSUME NEW k \in Peers, t.link[k] # 0 PROVE t.link[k] \in Active(t) /\ t.conn[t.link[k]].name = k
    <3>1. CASE k = n
      BY <1>9, <1>10, <1>15, <2>2, <3>1, Zenon DEF Active
    <3>2. CASE k # n
      <4> DEFINE d == s.link[k]
      <4>1. d \in Active(s) /\ s.conn[d].name = k /\ t.link[k] = d
        <5>1. Linked(s)
          BY <1>1, Zenon DEF Sound
        <5>2. t.link[k] = d /\ d # 0
          BY <2>2, <2>3, <3>2, Zenon
        <5> QED
          BY <5>1, <5>2, Zenon DEF Linked
      <4> HIDE DEF d
      <4>2. d \in Open(s) /\ d \in Ids /\ s.conn[d].phase = "active"
        BY <4>1, Zenon DEF Active, Open
      <4>3. d \notin gone /\ d # c
        BY <1>2, <1>8, <3>2, <4>1, <4>2, Zenon
      <4>4. t.conn[d] = s.conn[d] /\ d \in Open(t)
        BY <1>7, <1>15, <4>2, <4>3, Zenon
      <4> QED
        BY <4>1, <4>2, <4>4, Zenon DEF Active
    <3> QED
      BY <3>1, <3>2, Zenon
  <2>4. ASSUME NEW d \in Active(t) PROVE t.link[t.conn[d].name] = d
    <3>1. CASE d = c
      BY <1>10, <2>2, <3>1, Zenon
    <3>2. CASE d # c
      <4>1. d \in Open(s) /\ t.conn[d] = s.conn[d] /\ s.conn[d].name # n
        BY <1>16, <3>2, Zenon DEF Active
      <4>2. d \in Active(s)
        BY <4>1, Zenon DEF Active
      <4>3. s.conn[d].name \in Peers /\ s.link[s.conn[d].name] = d
        BY <1>1, <4>2, Zenon DEF Sound, Linked, Active, Open
      <4> QED
        BY <2>2, <4>1, <4>3, Zenon
    <3> QED
      BY <3>1, <3>2, Zenon
  <2> QED
    BY <2>1, <2>3, <2>4, Zenon DEF Linked
<1>19. Pointers(t)
  <2> SUFFICES ASSUME NEW d \in Open(t)
               PROVE  /\ t.conn[d].out \in Peers =>
                           /\ t.conn[d].name = t.conn[d].out
                           /\ t.list[t.conn[d].out].state # "none"
                           /\ \A e \in Open(t) : t.conn[e].out = t.conn[d].out => e = d
                      /\ t.conn[d].out = Freed =>
                           /\ t.conn[d].name \in Peers
                           /\ t.list[t.conn[d].name].state = "none"
                           /\ node[t.conn[d].name].known # "yes"
                           /\ t.conn[d].phase = "active" \/ ~Known(t.conn[d].name)
    BY Zenon DEF Pointers
  <2>1. \A e \in Open(t) : e # c /\ t.conn[e].out \in Peers => t.conn[e].out # n
    <3>1. Pointers(s)
      BY <1>1, Zenon DEF Sound
    <3>2. \A e \in Open(s) : s.conn[e].out \in Peers => s.conn[e].name = s.conn[e].out
      BY <3>1, Zenon DEF Pointers
    <3> QED
      BY <1>16, <3>2, Zenon
  <2>2. CASE d = c
    <3>1. q = n => \A e \in Open(t) : t.conn[e].out = q => e = c
      BY <1>2, <2>1, Zenon
    <3> QED
      BY <1>2, <1>7, <1>10, <1>13, <2>2, <3>1, Zenon
  <2>3. CASE d # c
    <3>1. d \in Open(s) /\ t.conn[d] = s.conn[d] /\ s.conn[d].name # n
      BY <1>16, <2>3, Zenon
    <3>2. CASE s.conn[d].out \in Peers
      <4>1. /\ s.conn[d].name = s.conn[d].out /\ s.list[s.conn[d].out].state # "none"
            /\ \A e \in Open(s) : s.conn[e].out = s.conn[d].out => e = d
        BY <1>1, <3>1, <3>2, Zenon DEF Sound, Pointers
      <4>2. \A e \in Open(t) : t.conn[e].out = s.conn[d].out => e = d
        BY <1>10, <1>13, <1>16, <3>1, <3>2, <4>1
      <4> QED
        BY <1>7, <3>1, <3>2, <4>1, <4>2, Zenon
    <3>3. CASE s.conn[d].out = Freed
      BY <1>1, <1>7, <3>1, <3>3, Zenon DEF Sound, Pointers
    <3> QED
      BY <3>1, <3>2, <3>3, Zenon
  <2> QED
    BY <2>2, <2>3, Zenon
<1>20. ASSUME NEW k \in Peers PROVE Holders(t, k) = {} <=> Holders(s, k) = {}
  <2>1. CASE k = n
    <3>1. c \in Open(t)
      BY <1>9, <1>15, Zenon
    <3>2. \A e \in Open(t) : e # c => t.conn[e].out # n
      <4>1. \A e \in Open(s) : s.conn[e].out \in Peers => s.conn[e].name = s.conn[e].out
        BY <1>1, Zenon DEF Sound, Pointers
      <4> QED
        BY <1>2, <1>16, <4>1, Zenon
    <3>3. Holders(t, n) # {} <=> q = n
      BY <1>10, <3>1, <3>2, Zenon DEF Holders
    <3> QED
      BY <1>14, <2>1, <3>3, Zenon
  <2>2. CASE k # n
    <3>1. \A e \in Open(t) : t.conn[e].out = k => e # c
      BY <1>10, <1>13, <2>2, Zenon
    <3>2. \A e \in Open(s) : s.conn[e].out = k => s.conn[e].name = k
      BY <1>1, Zenon DEF Sound, Pointers
    <3>3. \A e \in Open(s) : s.conn[e].out = k => e # c /\ e \notin gone /\ e \in Open(t) /\ t.conn[e] = s.conn[e]
      <4> TAKE e \in Open(s)
      <4> HAVE s.conn[e].out = k
      <4>1. e # c /\ e \in Ids
        BY <1>6, <2>2, <3>2, Zenon DEF Open
      <4>2. e \notin gone
        BY <1>8, <2>2, <3>2, <4>1
      <4> QED
        BY <1>7, <1>15, <4>1, <4>2, Zenon
    <3> QED
      BY <1>16, <3>1, <3>3, Zenon DEF Holders
  <2> QED
    BY <2>1, <2>2, Zenon
<1>21. \A k \in Peers : Served(t, k)
  BY <1>1, <1>7, <1>20, ZenonT(30) DEF Sound, Served
<1>22. Sound(t)
  BY <1>17, <1>18, <1>19, <1>21, Zenon DEF Sound
<1>23. \A k \in Peers : t.list[k].state # "none" => Known(k)
  BY <1>1, <1>7, Zenon DEF Sound, Served
<1>24. \A k \in Peers : node[k].known # "yes" => node'[k].known # "yes"
  BY <1>5, Zenon DEF Known
<1>25. \A k \in Peers : t.list[k].state # "none" =>
              /\ node'[k].known = node[k].known
              /\ node[k].black # "never" => node'[k].black # "never"
  BY <1>5, <1>23, Zenon
<1>26. \A k \in Peers : \/ Known(k) \/ node'[k].known = "forgotten"
                        \/ \A d \in Open(t) : t.conn[d].name = k => t.conn[d].phase = "active"
  BY <1>5, <1>10, <1>16, Zenon DEF Known
<1>27. t.broken \in BOOLEAN /\ (t.broken => Forgetful)
  BY <1>1, <1>7, Zenon
<1> QED
  BY <1>4, <1>5, <1>22, <1>24, <1>25, <1>26, <1>27, Landed, Zenon

\* retry
LEMMA RetryStep ==
    ASSUME OutgoingInv, ~broken, retry
    PROVE  OutgoingInv'
<1> USE PeersArePositive
<1> DEFINE s == State
<1>1. /\ NodesTyped /\ Sound(s) /\ s.conn = conn /\ s.list = list /\ s.link = link
      /\ s.asked = asked /\ s.broken = broken
  BY Zenon DEF OutgoingInv, State
<1>2. PICK gone \in SUBSET Active(s) :
       LET again == {n \in Peers : \E c \in gone : conn[c].out = n} IN
       \E t \in {f \in [again -> UNION {Tries(list[n], n) : n \in again}] :
                    \A n \in again : f[n] \in Tries(list[n], n)} :
          /\ conn' = [c \in Ids |->
                         IF c \notin gone THEN conn[c]
                         ELSE IF conn[c].out \in again /\ t[conn[c].out].does = "connect"
                              THEN Attempt(conn[c].out) ELSE NoConn]
          /\ link' = [n \in Peers |-> IF link[n] \in gone THEN 0 ELSE link[n]]
          /\ list' = [n \in Peers |-> IF n \in again THEN t[n].o ELSE list[n]]
          /\ asked' = [n \in Peers |-> IF n \in again /\ t[n].does = "ask" THEN asked[n] + 1 ELSE asked[n]]
          /\ broken' = \E c \in gone : conn[c].out = Freed
  BY Zenon DEF retry
<1> DEFINE again == {n \in Peers : \E c \in gone : conn[c].out = n}
<1>3. PICK t \in {f \in [again -> UNION {Tries(list[n], n) : n \in again}] :
                    \A n \in again : f[n] \in Tries(list[n], n)} :
          /\ conn' = [c \in Ids |->
                         IF c \notin gone THEN conn[c]
                         ELSE IF conn[c].out \in again /\ t[conn[c].out].does = "connect"
                              THEN Attempt(conn[c].out) ELSE NoConn]
          /\ link' = [n \in Peers |-> IF link[n] \in gone THEN 0 ELSE link[n]]
          /\ list' = [n \in Peers |-> IF n \in again THEN t[n].o ELSE list[n]]
          /\ asked' = [n \in Peers |-> IF n \in again /\ t[n].does = "ask" THEN asked[n] + 1 ELSE asked[n]]
          /\ broken' = \E c \in gone : conn[c].out = Freed
  BY <1>2, Zenon
<1>4. \A n \in again : t[n] \in Tries(list[n], n)
  BY <1>3, Zenon
<1>5. node' = node
  BY Zenon DEF retry
<1>6. gone \subseteq Ids /\ \A c \in gone : c \in Open(s) /\ conn[c].phase = "active" /\ conn[c] \in Connection
  BY <1>1 DEF Active, Open, Sound, Typed, NoConn
<1>7. \A n \in Peers : n \in again <=> \E c \in gone : conn[c].out = n
  BY Zenon
<1>8. again \subseteq Peers
  BY Zenon
<1> HIDE DEF again, s
\* The records that are tried again.
<1>9. ASSUME NEW n \in again
      PROVE  /\ list[n] \in Record /\ ~list[n].ev /\ list[n].state # "RESOLVE" /\ Known(n)
             /\ \A c \in Open(s) : conn[c].out = n => c \in gone
  <2>1. PICK c \in gone : conn[c].out = n
    BY <1>7, <1>8, Zenon
  <2>2. list[n].state # "none" /\ \A d \in Open(s) : conn[d].out = n => d = c
    BY <1>1, <1>6, <1>8, <2>1, Zenon DEF Sound, Pointers
  <2>3. list[n] \in Record
    BY <1>1, <1>8, <2>2 DEF Sound, Typed, NoOutgoing
  <2>4. c \in Holders(s, n)
    BY <1>1, <1>6, <2>1, Zenon DEF Holders
  <2>5. Served(s, n)
    BY <1>1, <1>8, Zenon DEF Sound
  <2> QED
    BY <1>1, <2>1, <2>2, <2>3, <2>4, <2>5, Zenon DEF Served
<1>10. ASSUME NEW n \in again
       PROVE  \/ t[n].does = "ask" /\ t[n].o \in Record /\ t[n].o.state = "RESOLVE" /\ ~t[n].o.ev
              \/ t[n].does = "delete" /\ t[n].o = NoOutgoing
              \/ t[n].does = "retry" /\ t[n].o \in Record /\ t[n].o.state = "END" /\ t[n].o.ev
              \/ /\ t[n].does = "connect" /\ t[n].o \in Record /\ ~t[n].o.ev
                 /\ t[n].o.state \in {"CANONICAL", "RECENT", "KNOWN"}
  <2> DEFINE e == t[n]
             o == list[n]
  <2>1. o \in Record /\ ~o.ev /\ n \in Peers /\ e \in Tries(o, n)
    BY <1>4, <1>8, <1>9, Zenon
  <2> HIDE DEF e, o
  <2>2. \/ e.does = "ask" /\ e.o = [o EXCEPT !.state = "RESOLVE"]
        \/ e.does = "delete" /\ e.o = NoOutgoing
        \/ e.does = "retry" /\ e.o = retry_outgoing
        \/ /\ e.does = "connect" /\ e.o \in Record /\ ~e.o.ev
           /\ e.o.state \in {"CANONICAL", "RECENT", "KNOWN"}
    BY <1>1, <2>1, TriesCases, Zenon
  <2>3. CASE e.does = "ask" /\ e.o = [o EXCEPT !.state = "RESOLVE"]
    <3>1. [o EXCEPT !.state = "RESOLVE"] \in Record /\ [o EXCEPT !.state = "RESOLVE"].state = "RESOLVE"
          /\ ~[o EXCEPT !.state = "RESOLVE"].ev
      BY <2>1, Zenon DEF Record
    <3> QED
      BY <2>3, <3>1, Zenon DEF e
  <2>4. CASE e.does = "retry" /\ e.o = retry_outgoing
    <3>1. retry_outgoing \in Record /\ retry_outgoing.state = "END" /\ retry_outgoing.ev
      BY DEF retry_outgoing, Record
    <3> QED
      BY <2>4, <3>1, Zenon DEF e
  <2> QED
    BY <2>2, <2>3, <2>4, Zenon DEF e
<1> DEFINE back == {c \in gone : conn[c].out \in again /\ t[conn[c].out].does = "connect"}
<1>11. /\ \A c \in Ids : c \notin gone => conn'[c] = conn[c]
       /\ \A c \in back : conn'[c] = Attempt(conn[c].out)
       /\ \A c \in gone : c \notin back => conn'[c] = NoConn
       /\ conn' = [c \in Ids |-> conn'[c]]
  BY <1>3, <1>6, Zenon
<1>12. \A c \in gone : c \in back <=> conn[c].out \in again /\ t[conn[c].out].does = "connect"
  BY Zenon
<1>13. back \subseteq gone
  BY Zenon
<1> HIDE DEF back
<1>14. \A c \in back : /\ conn'[c].phase = "connecting" /\ conn'[c].name = conn[c].out
                       /\ conn'[c].out = conn[c].out /\ conn'[c] \in Connection /\ conn[c].out \in again
  <2> TAKE c \in back
  <2>1. conn'[c] = Attempt(conn[c].out) /\ conn[c].out \in again /\ conn[c].out \in Peers
    BY <1>8, <1>11, <1>12, <1>13, Zenon
  <2> QED
    BY <2>1 DEF Attempt, Connection
<1>15. \A c \in gone : c \notin back => conn'[c].phase = "none"
  BY <1>11 DEF NoConn
<1>16. /\ (State.conn)' = conn' /\ (State.link)' = link' /\ (State.list)' = list'
       /\ (State.asked)' = asked'
  BY Zenon DEF State
<1>17. \A c \in Ids : c \in Open(State)' <=> (c \in back \/ (c \in Open(s) /\ c \notin gone))
  <2> TAKE c \in Ids
  <2>1. c \in Open(State)' <=> conn'[c].phase # "none"
    BY <1>16, Zenon DEF Open
  <2>2. c \in Open(s) <=> conn[c].phase # "none"
    BY <1>1, Zenon DEF Open
  <2> QED
    BY <1>11, <1>13, <1>14, <1>15, <2>1, <2>2, Zenon
<1>18. Open(State)' \subseteq Ids /\ Open(s) \subseteq Ids
  BY Zenon DEF Open
<1>19. \A c \in Open(State)' : c \notin gone => c \in Open(s) /\ conn'[c] = conn[c]
  BY <1>11, <1>13, <1>17, <1>18, Zenon
<1>20. \A c \in Open(State)' : c \in gone => c \in back
  BY <1>17, <1>18, Zenon
<1>21. \A n \in Peers : /\ n \in again => list'[n] = t[n].o
                        /\ n \notin again => list'[n] = list[n] /\ asked'[n] = asked[n]
                        /\ n \in again /\ t[n].does = "ask" => asked'[n] = asked[n] + 1
                        /\ link[n] \in gone => link'[n] = 0
                        /\ link[n] \notin gone => link'[n] = link[n]
  BY <1>3, Zenon
<1>22. Typed(State)'
  <2>1. \A c \in Ids : conn'[c] \in Connection \cup {NoConn}
    <3>1. \A c \in Ids : conn[c] \in Connection \cup {NoConn}
      BY <1>1, Zenon DEF Sound, Typed
    <3> QED
      BY <1>11, <1>14, <3>1, Zenon
  <2>2. conn' \in [Ids -> Connection \cup {NoConn}]
    BY <1>11, <2>1, Zenon
  <2>3. link' \in [Peers -> Ids \cup {0}]
    BY <1>1, <1>3, Zenon DEF Sound, Typed
  <2>4. \A n \in Peers : list'[n] \in Record \cup {NoOutgoing}
    BY <1>1, <1>10, <1>21, Zenon DEF Sound, Typed
  <2>5. list' \in [Peers -> Record \cup {NoOutgoing}]
    BY <1>3, <2>4, Zenon
  <2>6. asked' \in [Peers -> Nat]
    BY <1>1, <1>3 DEF Sound, Typed
  <2> QED
    BY <1>16, <2>2, <2>3, <2>5, <2>6, Zenon DEF Typed
<1>23. Linked(State)'
  <2>1. \A c \in Ids : conn'[c].phase \in {"auth", "active"} => conn'[c].name \in Peers
    BY <1>1, <1>11, <1>14, <1>15, Zenon DEF Sound, Linked
  <2>2. \A c \in Ids : c \in Active(State)' <=> c \in Active(s) /\ c \notin gone
    <3>1. \A c \in Ids : c \in Active(State)' <=> conn'[c].phase = "active"
      BY <1>16, Zenon DEF Active, Open
    <3>2. \A c \in Ids : c \in Active(s) <=> conn[c].phase = "active"
      BY <1>1, Zenon DEF Active, Open
    <3> QED
      BY <1>11, <1>14, <1>15, <3>1, <3>2
  <2>3. Active(State)' \subseteq Ids /\ Active(s) \subseteq Ids
    BY Zenon DEF Active, Open
  <2>4. ASSUME NEW n \in Peers, link'[n] # 0 PROVE link'[n] \in Active(State)' /\ conn'[link'[n]].name = n
    <3>1. link'[n] = link[n] /\ link[n] \notin gone /\ link[n] \in Active(s) /\ conn[link[n]].name = n
      BY <1>1, <1>21, <2>4, Zenon DEF Sound, Linked
    <3> QED
      BY <1>11, <2>2, <2>3, <3>1, Zenon
  <2>5. ASSUME NEW c \in Active(State)' PROVE link'[conn'[c].name] = c
    <3>1. c \in Active(s) /\ c \notin gone /\ conn'[c] = conn[c]
      BY <1>11, <2>2, <2>3, Zenon
    <3>2. conn[c].name \in Peers /\ link[conn[c].name] = c
      BY <1>1, <3>1, Zenon DEF Sound, Linked, Active, Open
    <3> QED
      BY <1>21, <3>1, <3>2
  <2> QED
    BY <1>16, <2>1, <2>4, <2>5, Zenon DEF Linked
<1>24. \A c \in Open(State)' : c \in Open(s) /\ conn'[c].out = conn[c].out
  BY <1>6, <1>13, <1>14, <1>19, <1>20, Zenon
<1>25. Pointers(State)'
  <2> SUFFICES ASSUME NEW c \in Open(State)'
               PROVE  /\ conn'[c].out \in Peers =>
                           /\ conn'[c].name = conn'[c].out
                           /\ list'[conn'[c].out].state # "none"
                           /\ \A d \in Open(State)' : conn'[d].out = conn'[c].out => d = c
                      /\ conn'[c].out = Freed =>
                           /\ conn'[c].name \in Peers
                           /\ list'[conn'[c].name].state = "none"
                           /\ node[conn'[c].name].known # "yes"
                           /\ conn'[c].phase = "active" \/ ~Known(conn'[c].name)
    BY <1>5, <1>16, Zenon DEF Pointers, Known
  <2>1. conn'[c].out \in Peers => \A d \in Open(State)' : conn'[d].out = conn'[c].out => d = c
    BY <1>1, <1>24, Zenon DEF Sound, Pointers
  <2>2. CASE c \in gone
    <3>1. c \in back /\ conn'[c].name = conn[c].out /\ conn'[c].out = conn[c].out /\ conn[c].out \in again
      BY <1>14, <1>20, <2>2, Zenon
    <3>2. list'[conn[c].out].state # "none"
      <4>1. t[conn[c].out].does = "connect"
        BY <1>12, <1>13, <3>1, Zenon
      <4>2. list'[conn[c].out] = t[conn[c].out].o
        BY <1>8, <1>21, <3>1, Zenon
      <4> QED
        BY <1>10, <3>1, <4>1, <4>2, Zenon
    <3> QED
      BY <1>8, <2>1, <3>1, <3>2, Zenon
  <2>3. CASE c \notin gone
    <3>1. c \in Open(s) /\ conn'[c] = conn[c]
      BY <1>19, <2>3, Zenon
    <3>2. CASE conn[c].out \in Peers
      <4>1. conn[c].name = conn[c].out /\ list[conn[c].out].state # "none"
        BY <1>1, <3>1, <3>2, Zenon DEF Sound, Pointers
      <4>2. conn[c].out \notin again
        BY <1>9, <2>3, <3>1, Zenon
      <4> QED
        BY <1>21, <2>1, <3>1, <3>2, <4>1, <4>2
    <3>3. CASE conn[c].out = Freed
      <4>1. /\ conn[c].name \in Peers /\ list[conn[c].name].state = "none"
            /\ node[conn[c].name].known # "yes"
            /\ conn[c].phase = "active" \/ ~Known(conn[c].name)
        BY <1>1, <3>1, <3>3, Zenon DEF Sound, Pointers
      <4>2. conn[c].name \notin again
        BY <1>9, <4>1, Zenon DEF Record
      <4> QED
        BY <1>21, <3>1, <3>3, <4>1, <4>2
    <3> QED
      BY <3>1, <3>2, <3>3, Zenon
  <2> QED
    BY <2>2, <2>3, Zenon
<1>26. ASSUME NEW n \in Peers PROVE Served(State, n)'
  <2>1. CASE n \notin again
    <3>1. Holders(State, n)' = Holders(s, n)
      <4>1. \A c \in Open(s) : conn[c].out = n => c \in Open(State)'
        BY <1>7, <1>17, <1>18, <2>1, Zenon
      <4> QED
        BY <1>1, <1>16, <1>24, <4>1, Zenon DEF Holders
    <3>2. Served(s, n)
      BY <1>1, Zenon DEF Sound
    <3> QED
      BY <1>1, <1>5, <1>16, <1>21, <2>1, <3>1, <3>2, Zenon DEF Served, Known
  <2>2. CASE n \in again
    <3>1. Known(n)' /\ list'[n] = t[n].o /\ (t[n].does = "ask" => asked'[n] > 0)
      <4>1. asked[n] \in Nat
        BY <1>1, Zenon DEF Sound, Typed
      <4> QED
        BY <1>5, <1>9, <1>21, <2>2, <4>1 DEF Known
    <3>2. t[n].does # "connect" => Holders(State, n)' = {}
      <4> SUFFICES ASSUME t[n].does # "connect", NEW c \in Holders(State, n)' PROVE FALSE
        BY Zenon
      <4>1. c \in Open(State)' /\ conn'[c].out = n
        BY <1>16, Zenon DEF Holders
      <4>2. c \in gone /\ conn[c].out = n
        BY <1>9, <1>24, <2>2, <4>1, Zenon
      <4> QED
        BY <1>12, <1>20, <4>1, <4>2, Zenon
    <3>3. t[n].does = "connect" => Holders(State, n)' # {}
      <4>1. PICK c \in gone : conn[c].out = n
        BY <1>7, <2>2, Zenon
      <4>2. t[n].does = "connect" => c \in back
        BY <1>12, <2>2, <4>1, Zenon
      <4>3. c \in back => c \in Open(State)' /\ conn'[c].out = n
        BY <1>6, <1>14, <1>17, <4>1, Zenon
      <4> QED
        BY <1>16, <4>2, <4>3, Zenon DEF Holders
    <3>4. CASE t[n].does = "ask" /\ t[n].o \in Record /\ t[n].o.state = "RESOLVE" /\ ~t[n].o.ev
      BY <1>16, <3>1, <3>2, <3>4, Zenon DEF Served
    <3>5. CASE t[n].does = "delete" /\ t[n].o = NoOutgoing
      BY <1>16, <3>1, <3>5 DEF Served, NoOutgoing
    <3>6. CASE t[n].does = "retry" /\ t[n].o \in Record /\ t[n].o.state = "END" /\ t[n].o.ev
      BY <1>16, <3>1, <3>2, <3>6, Zenon DEF Served
    <3>7. CASE /\ t[n].does = "connect" /\ t[n].o \in Record /\ ~t[n].o.ev
               /\ t[n].o.state \in {"CANONICAL", "RECENT", "KNOWN"}
      BY <1>16, <3>1, <3>3, <3>7, Zenon DEF Served
    <3> QED
      BY <1>10, <2>2, <3>4, <3>5, <3>6, <3>7, Zenon
  <2> QED
    BY <2>1, <2>2, Zenon
<1>27. broken' \in BOOLEAN /\ (broken' => Forgetful')
  <2>1. ASSUME NEW c \in gone, conn[c].out = Freed PROVE Forgetful
    BY <1>1, <1>6, <2>1, Zenon DEF Sound, Pointers, Forgetful
  <2> QED
    BY <1>3, <1>5, <2>1, Zenon DEF Forgetful
<1>28. NodesTyped'
  BY <1>1, <1>5, Zenon DEF NodesTyped
<1> QED
  BY <1>22, <1>23, <1>25, <1>26, <1>27, <1>28, Zenon DEF OutgoingInv, Sound

-----------------------------------------------------------------------------
(* The theorems.                                                            *)

\* At the start, every connection is one of those given.
LEMMA InitInv == Init => OutgoingInv
<1> SUFFICES ASSUME Init PROVE OutgoingInv
  BY Zenon
<1> USE PeersArePositive
<1>1. /\ (State.conn) = conn /\ (State.link) = link /\ (State.list) = list /\ (State.asked) = asked
  BY Zenon DEF State
<1>2. Connected \subseteq Peers /\ Connected \subseteq Ids
  BY PeersAssumption, Zenon DEF Ids
<1>3. /\ \A c \in Connected : conn[c] = [phase |-> "active", name |-> c, out |-> c]
      /\ \A c \in Ids : c \notin Connected => conn[c] = NoConn
      /\ conn = [c \in Ids |-> conn[c]]
  BY <1>2, Zenon DEF Init
<1>4. /\ \A c \in Connected : conn[c].phase = "active" /\ conn[c].name = c /\ conn[c].out = c
                              /\ conn[c] \in Connection
      /\ \A c \in Ids : c \notin Connected => conn[c].phase = "none"
  <2>1. ASSUME NEW c \in Connected
        PROVE  conn[c].phase = "active" /\ conn[c].name = c /\ conn[c].out = c /\ conn[c] \in Connection
    <3>1. conn[c] = [phase |-> "active", name |-> c, out |-> c] /\ c \in Peers
      BY <1>2, <1>3, Zenon
    <3> QED
      BY <3>1 DEF Connection
  <2> QED
    BY <1>3, <2>1 DEF NoConn
<1>5. Open(State) = Connected /\ Active(State) = Connected
  BY <1>1, <1>2, <1>4, ZenonT(30) DEF Open, Active
<1>6. /\ \A n \in Peers : link[n] = IF n \in Connected THEN n ELSE 0
      /\ \A n \in Connected : list[n] = [state |-> "RECENT", left |-> 0, ev |-> FALSE]
      /\ \A n \in Peers : n \notin Connected => list[n] = NoOutgoing
  BY <1>2, Zenon DEF Init
<1>7. /\ \A n \in Connected : list[n] \in Record /\ list[n].state = "RECENT" /\ ~list[n].ev
      /\ \A n \in Peers : n \notin Connected => list[n].state = "none"
  <2>1. ASSUME NEW n \in Connected PROVE list[n] \in Record /\ list[n].state = "RECENT" /\ ~list[n].ev
    <3>1. list[n] = [state |-> "RECENT", left |-> 0, ev |-> FALSE]
      BY <1>6, Zenon
    <3> QED
      BY <3>1 DEF Record
  <2> QED
    BY <1>6, <2>1 DEF NoOutgoing
<1>8. Typed(State)
  <2>1. conn \in [Ids -> Connection \cup {NoConn}]
    BY <1>3, <1>4
  <2>2. link \in [Peers -> Ids \cup {0}]
    BY <1>2, Zenon DEF Init
  <2>3. list \in [Peers -> Record \cup {NoOutgoing}]
    <3>1. list = [n \in Peers |-> list[n]]
      BY Zenon DEF Init
    <3> QED
      BY <1>6, <1>7, <3>1, Zenon
  <2>4. asked \in [Peers -> Nat]
    BY Zenon DEF Init
  <2> QED
    BY <1>1, <2>1, <2>2, <2>3, <2>4, Zenon DEF Typed
<1>9. Linked(State)
  <2>1. \A c \in Ids : conn[c].phase \in {"auth", "active"} => conn[c].name \in Peers
    BY <1>2, <1>4
  <2>2. \A n \in Peers : link[n] # 0 => link[n] \in Connected /\ conn[link[n]].name = n
    BY <1>4, <1>6
  <2>3. \A c \in Connected : link[conn[c].name] = c
    BY <1>2, <1>4, <1>6, Zenon
  <2> QED
    BY <1>1, <1>5, <2>1, <2>2, <2>3, Zenon DEF Linked
<1>10. Pointers(State)
  <2>1. \A c \in Connected : conn[c].out = c /\ conn[c].name = c /\ list[c].state # "none" /\ c # Freed
    BY <1>2, <1>4, <1>7, Zenon
  <2> QED
    BY <1>1, <1>5, <2>1 DEF Pointers
<1>11. NodesTyped /\ \A n \in Peers : Known(n)
  <2>1. node \in [Peers -> [known: {"yes"}, black: {"never"}, recent: {0, 1}, tried: {0}, pubkey: {FALSE, TRUE}]]
    BY Zenon DEF Init
  <2>2. \A n \in Peers : node[n] \in [known : {"yes", "forgotten", "again"}, black : {"never", "yes", "was"},
                                     recent : Nat, tried : Nat, pubkey : BOOLEAN]
    <3> TAKE n \in Peers
    <3> DEFINE x == node[n]
    <3>1. x \in [known: {"yes"}, black: {"never"}, recent: {0, 1}, tried: {0}, pubkey: {FALSE, TRUE}]
      BY <2>1, Zenon
    <3> HIDE DEF x
    <3>2. {FALSE, TRUE} = BOOLEAN
      BY Zenon
    <3>3. x \in [known: {"yes"}, black: {"never"}, recent: {0, 1}, tried: {0}, pubkey: BOOLEAN]
      BY <3>1, <3>2, Zenon
    <3> QED
      BY <3>3 DEF x
  <2>3. \A n \in Peers : node[n].known = "yes"
    BY <2>1, Zenon
  <2> QED
    BY <2>1, <2>2, <2>3, Zenon DEF NodesTyped, Known
<1>12. \A n \in Peers : Served(State, n)
  <2>1. \A n \in Connected : Holders(State, n) # {}
    BY <1>1, <1>4, <1>5, Zenon DEF Holders
  <2> QED
    BY <1>1, <1>2, <1>7, <1>11, <2>1, Zenon DEF Served
<1>13. broken = FALSE
  BY Zenon DEF Init
<1> QED
  BY <1>8, <1>9, <1>10, <1>11, <1>12, <1>13, Zenon DEF OutgoingInv, Sound

\* Every step keeps the invariant.
LEMMA NextInv == OutgoingInv /\ [Next]_vars => OutgoingInv'
<1> SUFFICES ASSUME OutgoingInv, [Next]_vars PROVE OutgoingInv'
  BY Zenon
<1>1. CASE UNCHANGED vars
  <2>1. Becomes(State) /\ node' = node
    BY <1>1, Zenon DEF vars, Becomes, State
  <2>2. NodesTyped /\ Sound(State) /\ State.broken \in BOOLEAN /\ (State.broken => Forgetful)
    BY Zenon DEF OutgoingInv, State
  <2> QED
    BY <2>1, <2>2, LandedSame, Zenon
<1>2. CASE ~broken /\ periodic_handler
  BY <1>2, PeriodicHandler, Zenon
<1>3. CASE ~broken /\ handle_new_meta_connection
  BY <1>3, HandleNewMetaConnection, Zenon
<1>4. CASE ~broken /\ retry
  BY <1>4, RetryStep, Zenon
<1>5. ASSUME ~broken, NEW n \in Peers,
             \/ retry_outgoing_handler(n)
             \/ \E found \in 0 .. MaxAddresses : canonical_resolve_cb(n, found)
             \/ blacklist(n) \/ whitelist(n) \/ meshlink_forget_node(n)
             \/ meshlink_hint_address(n) \/ mdns_io_handler(n) \/ NewKey(n)
      PROVE  OutgoingInv'
  BY <1>5, RetryOutgoingHandler, CanonicalResolve, ForgetNode, NodeCalls, Zenon
<1>6. ASSUME ~broken, NEW c \in Ids,
             \/ finish_connecting(c) \/ Ends(c) \/ timeout_handler(c) \/ ack_h(c) \/ pong_h(c)
             \/ \E n \in Peers : id_h(c, n)
      PROVE  OutgoingInv'
  BY <1>6, FinishConnecting, EndsStep, TimeoutHandler, AckHandler, PongHandler, IdHandler, Zenon
<1> QED
  BY <1>1, <1>2, <1>3, <1>4, <1>5, <1>6, Zenon DEF Next, Works

\* At most one thing carries on a record, and one does unless the peer has been
\* blacklisted.
LEMMA InvOneAttempt == OutgoingInv => OneAttempt
<1> SUFFICES ASSUME OutgoingInv, NEW n \in Peers, list[n].state # "none"
             PROVE  \/ \E a \in Attempts(n) : Attempts(n) = {a}
                    \/ Attempts(n) = {} /\ node[n].black # "never"
  BY Zenon DEF OneAttempt
<1>1. /\ list[n].ev => list[n].state = "END" /\ Holders(State, n) = {}
      /\ list[n].state = "RESOLVE" => asked[n] > 0 /\ Holders(State, n) = {}
      /\ \/ list[n].ev
         \/ list[n].state = "RESOLVE"
         \/ Holders(State, n) # {}
         \/ node[n].black # "never"
  BY Zenon DEF OutgoingInv, Sound, Served, State
<1>2. \A c, d \in Holders(State, n) : c = d
  BY Zenon DEF OutgoingInv, Sound, Pointers, Holders
<1> DEFINE A == Attempts(n)
<1>5. CASE list[n].ev
  <2>1. A = {<<"timer", 0>>}
    BY <1>1, <1>5, Zenon DEF Attempts
  <2> QED
    BY <2>1, Zenon
<1>6. CASE ~list[n].ev /\ list[n].state = "RESOLVE"
  <2>1. A = {<<"dns", 0>>}
    BY <1>1, <1>6, Zenon DEF Attempts
  <2> QED
    BY <2>1, Zenon
<1>7. CASE ~list[n].ev /\ list[n].state # "RESOLVE"
  <2>1. A = {<<"connection", c>> : c \in Holders(State, n)}
    BY <1>7, Zenon DEF Attempts
  <2>2. CASE Holders(State, n) = {}
    <3>1. A = {}
      BY <2>1, <2>2, Zenon
    <3> QED
      BY <1>1, <1>7, <2>2, <3>1, Zenon
  <2>3. ASSUME NEW c \in Holders(State, n) PROVE \E a \in A : A = {a}
    <3>1. A = {<<"connection", c>>}
      BY <1>2, <2>1, Zenon
    <3> QED
      BY <3>1, Zenon
  <2> QED
    BY <2>2, <2>3, Zenon
<1> QED
  BY <1>5, <1>6, <1>7, Zenon

\* The inductive invariant holds in every state.
THEOREM OutgoingInvariant == Spec => []OutgoingInv
  BY InitInv, NextInv, PTL DEF Spec

\* Whatever timers, DNS answers, connections, ACKs and calls of the application
\* do, a record on mesh->outgoings is carried on by exactly one of them, or by
\* none if its peer has been blacklisted.
THEOREM RecordsCarriedOn == Spec => []OneAttempt
  BY OutgoingInvariant, InvOneAttempt, PTL

\* Whichever end connects and however often, n->connection is the one active
\* connection with a peer.
THEOREM OneConnectionPerPeer == Spec => []OneActive
<1>1. OutgoingInv => OneActive
  <2> SUFFICES ASSUME OutgoingInv, NEW n \in Peers
               PROVE  {c \in Active(State) : conn[c].name = n} = IF link[n] = 0 THEN {} ELSE {link[n]}
    BY Zenon DEF OneActive
  <2>1. /\ link[n] # 0 => link[n] \in Active(State) /\ conn[link[n]].name = n
        /\ \A c \in Active(State) : link[conn[c].name] = c /\ c # 0
    <3>1. Linked(State) /\ State.link = link /\ State.conn = conn
      BY Zenon DEF OutgoingInv, Sound, State
    <3>2. \A c \in Active(State) : c # 0
      BY PeersArePositive, Zenon DEF Active, Open
    <3> QED
      BY <3>1, <3>2, Zenon DEF Linked
  <2> QED
    BY <2>1, Zenon
<1> QED
  BY <1>1, OutgoingInvariant, PTL

\* A pointer to a freed outgoing_t, and the use of one, needs a peer that was
\* forgotten: neither autoconnect nor the end of a connection leaves one.
THEOREM FreedOnlyByForgetting == Spec => []OutgoingLives
<1>1. OutgoingInv => OutgoingLives
  BY Zenon DEF OutgoingInv, OutgoingLives, Sound, Pointers, State, Forgetful
<1> QED
  BY <1>1, OutgoingInvariant, PTL
=============================================================================
