---------------------------- MODULE UtcpReceive ----------------------------
(***************************************************************************)
(* The receiving half of a reliable UTCP connection in more depth than     *)
(* Utcp can afford: one established connection, a peer that writes one     *)
(* byte at a time, each sent at once as a segment of its own, and that     *)
(* retransmits up to Mss bytes from a byte it has not seen acknowledged.   *)
(***************************************************************************)
EXTENDS UtcpConnection, FiniteSets

CONSTANTS
    Stream,             \* bound: bytes the peer writes
    MaxRetransmits      \* bound: retransmissions by the peer

VARIABLES
    c,                  \* the connection that receives
    got,                \* the bytes its callback received
    sent,               \* bytes the peer has sent so far
    flying,             \* the bytes whose first segment is still in flight
    retransmits

vars == <<c, got, sent, flying, retransmits>>

Init ==
    /\ c = [set_state(allocate_connection(0, TRUE), "ESTABLISHED")
              EXCEPT !.recv = TRUE, !.una = 1, !.rcvnxt = 1, !.wnd = RcvMax]
    /\ got = <<>> /\ sent = 0 /\ flying = {} /\ retransmits = 0

\* The peer writes and sends one byte, if the window allows.
Send ==
    /\ sent < Stream
    /\ sent < (c.rcvnxt - 1) + RcvMax
    /\ sent' = sent + 1
    /\ flying' = flying \cup {sent + 1}
    /\ UNCHANGED <<c, got, retransmits>>

\* The bytes from first to last arrive in one packet.
Arrive(first, last) ==
    LET h == Packet(first, c.una, RcvMax, {"ACK"}, [i \in 1 .. last - first + 1 |-> first + i - 1], TRUE)
        r == utcp_recv(c, h, 0, FALSE, FALSE)
    IN  c' = r.c /\ got' = got \o r.data

Segment(b) == Arrive(b, b) /\ flying' = flying \ {b} /\ UNCHANGED <<sent, retransmits>>

\* The peer has seen everything before una acknowledged.
Retransmit(una) ==
    /\ retransmits < MaxRetransmits /\ una <= sent
    /\ Arrive(una, Min2(sent, una + Mss - 1))
    /\ retransmits' = retransmits + 1
    /\ UNCHANGED <<sent, flying>>

Next == Send \/ (\E b \in flying : Segment(b)) \/ (\E una \in 1 .. c.rcvnxt : Retransmit(una))

Spec == Init /\ [][Next]_vars

\* The application receives the bytes of the stream in order, none of them missing,
\* duplicated or altered, whatever overlaps and gaps the segments had.  The comment
\* above sack_consume() says an entry that is completely before the consumed part
\* is deleted; the early return for "all SACK entries consumed" only deletes the first.
InOrder == got = [i \in 1 .. Len(got) |-> i]
=============================================================================
