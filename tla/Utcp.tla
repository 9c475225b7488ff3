-------------------------------- MODULE Utcp --------------------------------
(***************************************************************************)
(* Two nodes with one UTCP connection between them (utcp.c): "A" opens it  *)
(* as meshlink_channel_open_ex() does, "B" gets it through the accept      *)
(* callback.  The packets travel as MeshLink data packets, which may be    *)
(* lost and reordered.  The applications write, shut down, close and abort *)
(* at any time, and every timer that is set may expire.                    *)
(***************************************************************************)
EXTENDS UtcpConnection, FiniteSets, Bags

CONSTANTS
    Scenarios,          \* the flags "A" opens with, and the bounds of a behaviour:
                        \* [reliable, nopartial, A, B (bytes to write), events, may
                        \* (which kinds of events), net (packets in flight)]
    Iss,                \* Iss[p][n]: the initial sequence number p picks for its n-th
                        \* connection; rand() in the code, here all apart
    Writes              \* the lengths an application may write at once

VARIABLES
    conn,               \* conn[p]: the connection at end p, or NoConn
    net,                \* bag of [to, pkt]: the packets in flight
    written,            \* written[p]: the bytes (or datagrams) utcp_send() took at p
    got,                \* got[p]: the bytes (or datagrams) p's callback received
    ended,              \* ended[p]: how the stream first ended for p's callback
    born,               \* born[p]: number of connections p allocated so far
    past,               \* history: what may explain a stall, a reset or an early end
    left                \* what the scenario still allows: bytes to write, and events
                        \* (expired timers, aborts, resets, nodes going offline,
                        \* connections refused, reads shut down)

vars == <<conn, net, written, got, ended, born, past, left>>

Ends == {"A", "B"}
Peer(p) == IF p = "A" THEN "B" ELSE "A"

Init ==
    /\ conn = [p \in Ends |-> NoConn]
    /\ net = EmptyBag
    /\ written = [p \in Ends |-> <<>>]
    /\ got = [p \in Ends |-> <<>>]
    /\ ended = [p \in Ends |-> "open"]
    /\ born = [p \in Ends |-> 0]
    /\ past = [early |-> FALSE, cause |-> FALSE, cut |-> {}]
    /\ left \in Scenarios

InFlight(p, pkts) == [m \in {[to |-> Peer(p), pkt |-> pkts[i]] : i \in 1 .. Len(pkts)} |->
                        Cardinality({i \in 1 .. Len(pkts) : pkts[i] = m.pkt})]

\* The effects of a handler of end p that returned r and took one packet from rest.
Effect(p, result, rest) ==
    \E r \in {result} :
    /\ BagCardinality(rest) + Len(r.out) <= left.net
    /\ conn' = [conn EXCEPT ![p] = r.c]
    /\ born' = [born EXCEPT ![p] = IF conn[p] = NoConn /\ r.c # NoConn THEN @ + 1 ELSE @]
    /\ net' = rest (+) InFlight(p, r.out)
    /\ got' = [got EXCEPT ![p] = IF r.frame # <<>> THEN Append(@, r.frame) ELSE @ \o r.data]
    /\ ended' = [ended EXCEPT ![p] = IF @ = "open" THEN r.eof ELSE @]

\* The application has a handle: it opened or accepted the connection.
HasHandle(p) == IF conn[p] = NoConn THEN FALSE ELSE conn[p].state # "SYN_RECEIVED"

Event(kind) == kind \in left.may /\ left.events > 0 /\ left' = [left EXCEPT !.events = @ - 1]

Connect ==
    /\ born["A"] = 0
    /\ Effect("A", utcp_connect_ex(Iss["A"][1], left.reliable, left.nopartial), net)
    /\ UNCHANGED <<written, past, left>>

\* The n-th byte an application writes is the number n.
Write(p, len) ==
    LET c     == conn[p]
        start == IF c.reliable THEN Len(written[p])
                 ELSE IF written[p] = <<>> THEN 0 ELSE written[p][Len(written[p])][1]
        data  == [i \in 1 .. len |-> IF c.reliable THEN start + i ELSE start + 1]
        s     == utcp_send(c, data)
    IN  /\ len <= left[p]
        /\ s.n > 0
        /\ left' = [left EXCEPT ![p] = @ - s.n]
        /\ written' = [written EXCEPT ![p] =
              IF c.reliable THEN @ \o SubSeq(data, 1, s.n) ELSE Append(@, data)]
        /\ Effect(p, s.r, net)
        /\ UNCHANGED past

Shutdown(p, dir) ==
    /\ utcp_shutdown(conn[p], dir).c # conn[p]
    /\ IF dir = "RD" THEN Event("shut_rd") ELSE UNCHANGED left
    /\ past' = [past EXCEPT !.early = @ \/ (dir = "WR" /\ conn[p].state = "SYN_SENT")]
    /\ Effect(p, utcp_shutdown(conn[p], dir), net)
    /\ UNCHANGED written

Close(p) ==
    /\ ~conn[p].reapable
    /\ past' = [past EXCEPT !.early = @ \/ conn[p].state = "SYN_SENT", !.cause = TRUE]
    /\ Effect(p, utcp_close(conn[p]), net)
    /\ UNCHANGED <<written, left>>

Abort(p) ==
    /\ ~conn[p].reapable
    /\ Event("abort")
    /\ past' = [past EXCEPT !.cause = TRUE]
    /\ Effect(p, utcp_abort(conn[p]), net)
    /\ UNCHANGED written

ResetAll(p) ==
    /\ Event("reset")
    /\ past' = [past EXCEPT !.cause = TRUE, !.cut = @ \cup {p}]
    /\ Effect(p, utcp_reset(conn[p]), net)
    /\ UNCHANGED written

Offline(p, offline) ==
    /\ utcp_expect_data(conn[p], offline) # conn[p]
    /\ Event("offline")
    /\ Effect(p, Result(utcp_expect_data(conn[p], offline)), net)
    /\ UNCHANGED <<written, past>>

Timeout(p, connDue, rtrxDue) ==
    LET c == conn[p] IN
    /\ connDue => c.conn /\ c.state # "CLOSED"
    /\ rtrxDue => c.rtrx /\ c.state # "CLOSED" /\ ~connDue
    /\ IF connDue \/ rtrxDue THEN Event(IF connDue THEN "timeout" ELSE "rtrx")
       ELSE UNCHANGED left
    /\ past' = [past EXCEPT !.cause = @ \/ connDue \/ (rtrxDue /\ c.state = "SYN_RECEIVED")]
    /\ Effect(p, utcp_timeout(c, connDue, rtrxDue), net)
    /\ UNCHANGED written

Deliver(m) ==
    /\ \E welcome \in BOOLEAN :
         /\ IF welcome THEN UNCHANGED left
            ELSE Event("refuse") /\ m.to = "B" /\ ~HasHandle("B")
         /\ past' = [past EXCEPT !.cause = @ \/ ~welcome]
         /\ Effect(m.to, utcp_recv(conn[m.to], m.pkt, Iss[m.to][born[m.to] + 1], welcome /\ m.to = "B", welcome),
                   net (-) SetToBag({m}))
    /\ UNCHANGED written

Lose(m) ==
    /\ net' = net (-) SetToBag({m})
    /\ UNCHANGED <<conn, written, got, ended, born, past, left>>

Next ==
    \/ Connect
    \/ \E p \in Ends :
         /\ conn[p] # NoConn
         /\ \/ \E connDue, rtrxDue \in BOOLEAN : Timeout(p, connDue, rtrxDue)
            \/ ResetAll(p)
            \/ \E offline \in BOOLEAN : Offline(p, offline)
            \/ /\ HasHandle(p)
               /\ \/ \E len \in Writes : Write(p, len)
                  \/ \E dir \in {"RD", "WR"} : Shutdown(p, dir)
                  \/ Close(p)
                  \/ Abort(p)
    \/ \E m \in BagToSet(net) : Deliver(m) \/ Lose(m)

Spec == Init /\ [][Next]_vars

(***************************************************************************)
(* Properties.                                                             *)
(***************************************************************************)

\* What utcp.h promises the applications, whatever the network, the timers and
\* the other side do: see UtcpService.  Two things are not promised.  A node that
\* calls utcp_reset_all_connections() tells its own application that the stream
\* ended normally, wherever it was.  And the order of the bytes can be lost when a
\* retransmission covers two gaps at once, which needs segments of five bytes:
\* UtcpReceive shows it, the segments checked here are too short for it.
Service == INSTANCE UtcpService WITH reliable <- left.reliable, cut <- past.cut
DeliversStream == Service!Spec

Outstanding(c) == seqdiff(c.last, c.una)
SynUnacked(c) == IF c.state \in {"SYN_SENT", "SYN_RECEIVED"} THEN 1 ELSE 0
FinUnacked(c) == IF c.state \in {"FIN_WAIT_1", "CLOSING"} /\ c.una # c.last THEN 1 ELSE 0

\* Nothing unacknowledged is forgotten.  What lies between snd.una and snd.last is
\* exactly the buffered bytes plus an unacknowledged SYN or FIN, which is what the
\* offsets of buffer_copy() and the discard of acknowledged bytes rely on (and the
\* assertions of ack() and utcp_recv() say), the SACK entries lie in rcvbuf, and
\* while something is outstanding the retransmission timer is set.  The exception
\* is a connection that was shut down before the SYNACK came: utcp_recv() then
\* queues the FIN after it stopped the timer.
NothingForgotten ==
    \A p \in Ends : conn[p] # NoConn => LET c == conn[p] IN
        /\ c.state # "CLOSED" /\ c.una # c.last /\ ~past.early => c.rtrx
        /\ c.state \notin {"CLOSED", "SYN_RECEIVED"} =>
              /\ seqdiff(c.nxt, c.una) \in 0 .. Outstanding(c)
              /\ Len(c.sndbuf) = Outstanding(c) - SynUnacked(c) - FinUnacked(c)
              /\ \A i \in 1 .. Live(c.sacks) : c.sacks[i].offset + c.sacks[i].len <= Len(c.rcvbuf)

\* Loss, reordering and retransmission alone never break a reliable connection: the
\* callback is told of an error only if somebody closed, aborted, refused or timed
\* out, or if the SYNACK was retransmitted, which retransmit() does with the wrong
\* sequence number.
ErrorHasCause == left.reliable => \A p \in Ends : ended[p] = "error" => past.cause
=============================================================================
