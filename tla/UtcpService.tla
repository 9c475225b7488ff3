---------------------------- MODULE UtcpService ----------------------------
(***************************************************************************)
(* What UTCP promises its users (utcp.h): a reliable connection delivers   *)
(* to each side a prefix of the bytes the other side wrote, and says that  *)
(* the stream ended normally only when every byte was delivered, unless    *)
(* the side's own node reset its connections; an unreliable one delivers   *)
(* whole datagrams, each of which was written.                             *)
(***************************************************************************)
EXTENDS Integers, Sequences

VARIABLES
    reliable, written, got,
    ended,              \* what a callback was told last: "fin" is errno = 0
    cut                 \* the ends whose node has reset its connections

vars == <<reliable, written, got, ended, cut>>

Ends == {"A", "B"}
Peer(p) == IF p = "A" THEN "B" ELSE "A"

Init ==
    /\ reliable \in BOOLEAN
    /\ written = [p \in Ends |-> <<>>]
    /\ got = [p \in Ends |-> <<>>]
    /\ ended = [p \in Ends |-> "open"]
    /\ cut = {}

\* An application writes some bytes, or one datagram; not after its peer was told
\* the stream had ended, unless the peer's node said so on its own.
Write(p) ==
    /\ reliable => ended[Peer(p)] # "fin" \/ Peer(p) \in cut
    /\ Len(written'[p]) > Len(written[p])
    /\ SubSeq(written'[p], 1, Len(written[p])) = written[p]
    /\ written' = [written EXCEPT ![p] = written'[p]]
    /\ UNCHANGED <<reliable, got, ended, cut>>

\* The receive callback of p gets the next bytes, perhaps with the end of the stream.
Receive(p) ==
    /\ reliable
    /\ ended[p] = "open"
    /\ \E n \in Len(got[p]) .. Len(written[Peer(p)]) :
         /\ got' = [got EXCEPT ![p] = SubSeq(written[Peer(p)], 1, n)]
         /\ ended' \in {[ended EXCEPT ![p] = e] :
                          e \in {"open", "error"} \cup
                                (IF n = Len(written[Peer(p)]) THEN {"fin"} ELSE {})}
    /\ UNCHANGED <<reliable, written, cut>>

\* A datagram, or the end of an unreliable connection.
ReceiveDatagram(p) ==
    /\ ~reliable
    /\ ended[p] = "open"
    /\ \/ /\ \E i \in 1 .. Len(written[Peer(p)]) :
               got' = [got EXCEPT ![p] = Append(@, written[Peer(p)][i])]
          /\ ended' = ended
       \/ got' = got /\ ended' \in {[ended EXCEPT ![p] = e] : e \in {"fin", "error"}}
    /\ UNCHANGED <<reliable, written, cut>>

\* The node of p resets its connections, in the middle of a stream or not.  The
\* callback cannot tell this from the normal end.
Cut(p) ==
    /\ cut' = cut \cup {p}
    /\ ended' \in {ended, [ended EXCEPT ![p] = IF @ = "open" THEN "fin" ELSE @]}
    /\ UNCHANGED <<reliable, written, got>>

Next == \E p \in Ends : Write(p) \/ Receive(p) \/ ReceiveDatagram(p) \/ Cut(p)

Spec == Init /\ [][Next]_vars
=============================================================================
