---------------------------- MODULE SptpsReplay -----------------------------
(***************************************************************************)
(* The receive side of an SPTPS datagram session (src/sptps.c,             *)
(* sptps_receive_data_datagram): sequence numbers and the replay window.   *)
(*                                                                         *)
(* The sender numbers its datagrams with the 32 bit counter outseqno.  The *)
(* network loses, delays, reorders and duplicates them: any datagram that  *)
(* was sent may arrive at any time, any number of times.  The window is a  *)
(* circular bitmap: bit seqno % Win of late is 1 when that datagram of the *)
(* window has not been received yet.                                       *)
(***************************************************************************)
EXTENDS Integers

CONSTANTS
    Win,       \* s->replaywin * 8, the number of bits in the window
    SeqMod,    \* the number of sequence numbers of a uint32_t
    MaxSent    \* bound: datagrams the sender sends

ASSUME WinAssumption == Win \in Nat \ {0}
ASSUME SeqModAssumption == SeqMod \in Nat /\ SeqMod > Win
ASSUME MaxSentAssumption == MaxSent \in Nat

\* Handshake datagrams of the first key exchange: KEX and SIG, in plaintext.
Plain == 2

VARIABLES
    outcount,  \* datagrams sent so far; outseqno is outcount % SeqMod
    instate,   \* the receiver has session keys
    inseqno,   \* the sequence number the receiver expects next
    late,      \* the circular bitmap
    received,  \* s->received
    accepted   \* history: how often each datagram has been accepted

vars == <<outcount, instate, inseqno, late, received, accepted>>

Bits == 0 .. Win - 1

Init ==
    /\ outcount = 0
    /\ instate = FALSE
    /\ inseqno = 0
    /\ late = [b \in Bits |-> FALSE]
    /\ received = 0
    /\ accepted = [d \in 0 .. MaxSent - 1 |-> 0]

\* send_record_priv_datagram: datagram number outcount goes on the network.
Send ==
    /\ outcount < MaxSent
    /\ outcount' = outcount + 1
    /\ UNCHANGED <<instate, inseqno, late, received, accepted>>

\* The sequence number that datagram d carries.
SeqnoOf(d) == d % SeqMod

Accept(d) == accepted' = [accepted EXCEPT ![d] = @ + 1]

\* sptps_receive_data_datagram before the session keys are there: only the
\* next sequence number is taken, and the second message brings the keys.
ReceivePlain(d) ==
    /\ ~instate
    /\ d < Plain
    /\ SeqnoOf(d) = inseqno
    /\ inseqno' = (SeqnoOf(d) + 1) % SeqMod
    /\ instate' = (d + 1 = Plain)
    /\ Accept(d)
    /\ UNCHANGED <<outcount, late, received>>

\* seqno >= s->inseqno + s->replaywin * 8, in 32 bit arithmetic
FarAhead(seqno) == seqno >= (inseqno + Win) % SeqMod

\* seqno < s->inseqno, and older than the window or marked as received
Dropped(seqno) ==
    /\ seqno < inseqno
    /\ \/ inseqno >= Win /\ seqno < inseqno - Win
       \/ ~late[seqno % Win]

\* Mutant of Take: the datagram is not marked as received.
Take_NotMarked(d, bitmap) ==
    LET seqno == SeqnoOf(d) IN
    /\ late' = bitmap
    /\ inseqno' = IF seqno >= inseqno THEN (seqno + 1) % SeqMod ELSE inseqno
    /\ received' = IF inseqno' = 0 THEN 0 ELSE (received + 1) % SeqMod
    /\ Accept(d)
    /\ UNCHANGED <<outcount, instate>>

\* The datagram decrypts and passes the replay window, which leaves bitmap:
\* mark it as received, advance, count.
Take(d, bitmap) ==
    LET seqno == SeqnoOf(d) IN
    /\ late' = [bitmap EXCEPT ![seqno % Win] = FALSE]
    /\ inseqno' = IF seqno >= inseqno THEN (seqno + 1) % SeqMod ELSE inseqno
    /\ received' = IF inseqno' = 0 THEN 0 ELSE (received + 1) % SeqMod
    /\ Accept(d)
    /\ UNCHANGED <<outcount, instate>>

Encrypted(d) == instate /\ d >= Plain

ReceiveExpected(d) ==
    /\ Encrypted(d)
    /\ SeqnoOf(d) = inseqno
    /\ Take(d, late)

\* Far ahead: "Mark all packets in the replay window as being late".
ReceiveFarAhead(d) ==
    /\ Encrypted(d)
    /\ SeqnoOf(d) # inseqno
    /\ FarAhead(SeqnoOf(d))
    /\ Take(d, [b \in Bits |-> TRUE])

\* A late datagram that is inside the window and not marked as received.
ReceiveLate(d) ==
    /\ Encrypted(d)
    /\ SeqnoOf(d) < inseqno
    /\ ~FarAhead(SeqnoOf(d))
    /\ ~Dropped(SeqnoOf(d))
    /\ Take(d, late)

\* Mutant of the gap: the missed datagrams are not marked.
ReceiveGap_Unmarked(d) ==
    /\ Encrypted(d)
    /\ SeqnoOf(d) > inseqno
    /\ ~FarAhead(SeqnoOf(d))
    /\ Take(d, late)

\* "We missed some packets. Mark them in the bitmap as being late".
ReceiveGap(d) ==
    /\ Encrypted(d)
    /\ SeqnoOf(d) > inseqno
    /\ ~FarAhead(SeqnoOf(d))
    /\ Take(d, [b \in Bits |->
                  \/ late[b]
                  \/ \E i \in inseqno .. SeqnoOf(d) - 1 : i % Win = b])

Receive(d) ==
    \/ ReceivePlain(d)
    \/ ReceiveExpected(d)
    \/ ReceiveFarAhead(d)
    \/ ReceiveLate(d)
    \/ ReceiveGap(d)

Next == Send \/ \E d \in 0 .. outcount - 1 : Receive(d)

Spec == Init /\ [][Next]_vars

-----------------------------------------------------------------------------
\* Type invariant.
TypeOK ==
    /\ outcount \in 0 .. MaxSent
    /\ instate \in BOOLEAN
    /\ inseqno \in 0 .. SeqMod - 1
    /\ late \in [Bits -> BOOLEAN]
    /\ received \in 0 .. SeqMod - 1
    /\ accepted \in [0 .. MaxSent - 1 -> Nat]

\* However the network duplicates and reorders datagrams, none is accepted
\* twice: "If the sequence number is farther in the past than the bitmap goes,
\* or if the packet was already received, drop it".
NoReplay == \A d \in DOMAIN accepted : accepted[d] <= 1

\* Reordering within the window loses nothing: a datagram that is late by
\* less than the window and has not been received would still be accepted.
LateAccepted ==
    \A d \in Plain .. outcount - 1 :
        (/\ instate
         /\ accepted[d] = 0
         /\ SeqnoOf(d) < inseqno
         /\ SeqnoOf(d) >= inseqno - Win)
        => ~Dropped(SeqnoOf(d))

\* The inductive invariant behind NoReplay and LateAccepted: nothing at or
\* after inseqno has been accepted, and inside the window a bit is set
\* exactly for the datagrams that have not been accepted.
WindowInv ==
    /\ TypeOK
    /\ inseqno <= outcount
    /\ instate <=> inseqno >= Plain
    /\ \A d \in 0 .. MaxSent - 1 :
          accepted[d] <= 1 /\ (d >= inseqno => accepted[d] = 0)
    /\ \A d \in Plain .. MaxSent - 1 :
          d < inseqno /\ inseqno <= d + Win
          => (late[d % Win] <=> accepted[d] = 0)

\* The expected sequence number only moves forward.
Monotonic == [][inseqno' >= inseqno]_vars
=============================================================================
