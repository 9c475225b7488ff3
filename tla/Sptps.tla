------------------------------- MODULE Sptps --------------------------------
(***************************************************************************)
(* An SPTPS session over a reliable stream: the way protocol_auth.c uses   *)
(* src/sptps.c on a meta connection.  Two peers, an initiator and a        *)
(* responder, each start a session, authenticate, exchange application     *)
(* records, and at any time either of them (or both at once) forces a new  *)
(* key exchange while records of the other are still in flight.            *)
(*                                                                         *)
(* wire[p] holds the records p has sent and its peer has not yet read.     *)
(* The field pos of a record on the wire is a history field, it is not     *)
(* transmitted: the place of the record in the handshake of its sender.    *)
(***************************************************************************)
EXTENDS SptpsSession

CONSTANTS
    Ini, Res,       \* the two peers: initiator and responder
    MaxKex,         \* bound: key exchanges one peer starts by itself
    MaxData         \* bound: application records one peer sends

ASSUME PeersDiffer == Ini # Res
ASSUME BoundsAssumption == MaxKex \in Nat /\ MaxData \in Nat

VARIABLES
    sess,     \* sess[p]: the sptps_t of peer p
    wire,     \* wire[p]: records from p that its peer has not received
    kexes,    \* kexes[p]: KEX messages p has created (makes nonces fresh)
    sent,     \* sent[p]: application records p has sent
    rcvd,     \* rcvd[p]: number carried by the last application record p got
    failed    \* failed[p]: sptps_receive_data has returned false at p

vars == <<sess, wire, kexes, sent, rcvd, failed>>

Peers == {Ini, Res}

Peer(p) == IF p = Ini THEN Res ELSE Ini

Initiator(p) == p = Ini

\* The nonce of p's next KEX message.
NextNonce(p) == <<p, kexes[p] + 1>>

Init ==
    /\ sess = [p \in Peers |-> Stopped(Initiator(p))]
    /\ wire = [p \in Peers |-> <<>>]
    /\ kexes = [p \in Peers |-> 0]
    /\ sent = [p \in Peers |-> 0]
    /\ rcvd = [p \in Peers |-> 0]
    /\ failed = [p \in Peers |-> FALSE]

-----------------------------------------------------------------------------
(***************************************************************************)
(* History: position in the sequence KEX 1, SIG 1, KEX 2, SIG 2, ACK 2,    *)
(* KEX 3, ...  Round k ends at position 3k; the first round has no ACK, so *)
(* its SIG takes position 3.                                               *)
(***************************************************************************)
SigPos(k) == IF k = 1 THEN 3 ELSE 3 * k - 1

\* Positions of the last handshake record sent and received, in a state of
\* the k-th key exchange.
SentAt(state, k) ==
    CASE state = "ZERO" -> 0
      [] state = "KEX" -> 3 * k - 2
      [] state = "SIG" -> SigPos(k)
      [] OTHER -> 3 * k

RcvdAt(state, k) ==
    CASE state = "ZERO" -> 0
      [] state = "KEX" -> 3 * k - 3
      [] state = "SIG" -> 3 * k - 2
      [] state = "ACK" -> 3 * k - 1
      [] OTHER -> 3 * k

SentPos(p) == SentAt(sess[p].state, kexes[p])

RcvdPos(p) == RcvdAt(sess[p].state, kexes[p])

\* A record as it is put on the wire while p's KEX count is k.
Stamp(p, k, rec) ==
    [msg |-> rec.msg, seqno |-> rec.seqno, key |-> rec.key,
     pos |-> CASE rec.msg.kind = "kex" -> 3 * k - 2
               [] rec.msg.kind = "sig" -> SigPos(k)
               [] rec.msg.kind = "ack" -> 3 * k
               [] OTHER -> SentPos(p)]

Stamped(p, k, out) == [i \in DOMAIN out |-> Stamp(p, k, out[i])]

-----------------------------------------------------------------------------
(***************************************************************************)
(* Calls of the application.                                               *)
(***************************************************************************)
\* sptps_start
Start(p) ==
    /\ sess[p].state = "ZERO"
    /\ ~failed[p]
    /\ LET r == sptps_start(Initiator(p), NextNonce(p)) IN
         /\ sess' = [sess EXCEPT ![p] = r.s]
         /\ kexes' = [kexes EXCEPT ![p] = @ + 1]
         /\ wire' = [wire EXCEPT ![p] = @ \o Stamped(p, kexes[p] + 1, r.out)]
    /\ UNCHANGED <<sent, rcvd, failed>>

\* sptps_send_record with an application record type
SendData(p) ==
    /\ sent[p] < MaxData
    /\ sess[p].outstate
    /\ LET r == sptps_send_record(sess[p], sent[p] + 1) IN
         /\ sess' = [sess EXCEPT ![p] = r.s]
         /\ wire' = [wire EXCEPT ![p] = @ \o Stamped(p, kexes[p], r.out)]
    /\ sent' = [sent EXCEPT ![p] = @ + 1]
    /\ UNCHANGED <<kexes, rcvd, failed>>

\* sptps_force_kex when the session is idle; in any other state of an
\* authenticated session it changes nothing.
ForceKex(p) ==
    /\ kexes[p] < MaxKex
    /\ sess[p].outstate
    /\ sess[p].state = "SECONDARY_KEX"
    /\ LET r == sptps_force_kex(sess[p], NextNonce(p)) IN
         /\ sess' = [sess EXCEPT ![p] = r.s]
         /\ kexes' = [kexes EXCEPT ![p] = @ + 1]
         /\ wire' = [wire EXCEPT ![p] = @ \o Stamped(p, kexes[p] + 1, r.out)]
    /\ UNCHANGED <<sent, rcvd, failed>>

-----------------------------------------------------------------------------
(***************************************************************************)
(* The event loop reads a complete record from the socket.                 *)
(***************************************************************************)
Arrived(p) == Head(wire[Peer(p)])

Result(p) == sptps_receive_data(sess[p], Arrived(p), NextNonce(p))

\* The KEX count of p once the record that has arrived has been handled.
KexesAfter(p) ==
    kexes[p] + (IF DrawsNonce(sess[p], Arrived(p).msg) THEN 1 ELSE 0)

\* sptps_receive_data, the answers it sends and the receive_record callback.
\* When it returns false the caller terminates the connection, which stops
\* the session.
Receive(p) ==
    /\ wire[Peer(p)] # <<>>
    /\ sess[p].state # "ZERO"
    /\ sess' = [sess EXCEPT ![p] = IF Result(p).ok THEN Result(p).s
                                                  ELSE Stopped(Initiator(p))]
    /\ failed' = [failed EXCEPT ![p] = ~Result(p).ok]
    /\ wire' = [wire EXCEPT
                  ![Peer(p)] = Tail(@),
                  ![p] = @ \o Stamped(p, KexesAfter(p), Result(p).out)]
    /\ kexes' = [kexes EXCEPT ![p] = KexesAfter(p)]
    /\ rcvd' = [rcvd EXCEPT ![p] = IF Result(p).ok /\ Arrived(p).msg.kind = "data"
                                  THEN Arrived(p).msg.n ELSE @]
    /\ sent' = sent

Next ==
    \E p \in Peers : Start(p) \/ SendData(p) \/ ForceKex(p) \/ Receive(p)

\* The event loop reads a socket that has data; both peers do start.
Fairness == \A p \in Peers : WF_vars(Start(p)) /\ WF_vars(Receive(p))

Spec == Init /\ [][Next]_vars

FairSpec == Spec /\ Fairness

-----------------------------------------------------------------------------
(***************************************************************************)
(* Properties.                                                             *)
(***************************************************************************)
Nonces == Peers \X Nat

Keys == {None} \union (Nonces \X Nonces \X {0, 1})

Messages ==
    [kind : {"kex"}, nonce : Nonces]
    \union [kind : {"sig"}, tag : BOOLEAN, first : Nonces, second : Nonces]
    \union [kind : {"ack"}]
    \union [kind : {"data"}, n : Nat]

WireRecords == [msg : Messages, seqno : Nat, key : Keys, pos : Nat]

Sessions ==
    [initiator : BOOLEAN, state : KexStates,
     instate : BOOLEAN, outstate : BOOLEAN,
     mykex : {None} \union Nonces, hiskex : {None} \union Nonces,
     key : {None} \union (Nonces \X Nonces),
     incipher : Keys, outcipher : Keys,
     inseqno : Nat, outseqno : Nat]

\* Type invariant: the members of sptps_t, the records and the counters.
TypeOK ==
    /\ sess \in [Peers -> Sessions]
    /\ wire \in [Peers -> Seq(WireRecords)]
    /\ kexes \in [Peers -> Nat]
    /\ sent \in [Peers -> Nat]
    /\ rcvd \in [Peers -> Nat]
    /\ failed \in [Peers -> BOOLEAN]

\* However the key exchanges of the two peers and their application records
\* interleave, sptps_receive_data never fails on the records of an honest
\* peer: each is decrypted with the key and sequence number it was encrypted
\* with, and each handshake message is one the receiving state expects.
NoFailure == \A p \in Peers : ~failed[p]

\* When nothing is in flight and both sessions are idle, what each peer
\* encrypts with is what the other decrypts with, and the two directions
\* use different keys (receive_ack and receive_sig pick opposite halves).
KeyAgreement ==
    (\A p \in Peers : wire[p] = <<>> /\ sess[p].state = "SECONDARY_KEX")
    => /\ sess[Ini].outcipher = sess[Res].incipher
       /\ sess[Res].outcipher = sess[Ini].incipher
       /\ sess[Ini].outcipher # sess[Ini].incipher

\* Application records reach the receive_record callback in the order in
\* which they were sent, none skipped and none twice, also while the keys
\* change.
InOrderDelivery ==
    [][\A p \in Peers : Receive(p) /\ Arrived(p).msg.kind = "data"
                         => rcvd'[p] = rcvd[p] + 1]_vars

\* A session makes progress: whatever key exchanges the two peers start while
\* others are under way, all of them end, and every application record that was
\* sent is received.
Progress ==
    []<>(\A p \in Peers : /\ sess[p].state = "SECONDARY_KEX"
                          /\ rcvd[Peer(p)] = sent[p])
-----------------------------------------------------------------------------
(***************************************************************************)
(* The inductive invariant behind NoFailure and KeyAgreement.              *)
(***************************************************************************)
\* The key p encrypts with after k key exchanges, None before the first.
OutKey(p, k) ==
    IF k = 0 THEN None
             ELSE CipherKey(<<Ini, k>>, <<Res, k>>, IF p = Ini THEN 1 ELSE 0)

\* Key exchanges after which the keys in use were made: k counts the current
\* one, which changes outcipher when the SIG and incipher when the ACK arrives.
OutRound(state, k) == IF state \in {"KEX", "SIG"} THEN k - 1 ELSE k

InRound(state, k) == IF state \in {"KEX", "SIG", "ACK"} THEN k - 1 ELSE k

InUse(k) == k > 0

\* The session of p in the given state of its k-th key exchange.
SessionAt(p, state, k, inseqno, outseqno) ==
    [initiator |-> Initiator(p), state |-> state,
     instate |-> InUse(InRound(state, k)), outstate |-> InUse(OutRound(state, k)),
     mykex |-> IF state \in {"KEX", "SIG"} THEN <<p, k>> ELSE None,
     hiskex |-> IF state = "SIG" THEN <<Peer(p), k>> ELSE None,
     key |-> IF state = "ACK" THEN <<<<Ini, k>>, <<Res, k>>>> ELSE None,
     incipher |-> OutKey(Peer(p), InRound(state, k)),
     outcipher |-> OutKey(p, OutRound(state, k)),
     inseqno |-> inseqno, outseqno |-> outseqno]

\* The session holds just what its state and number of key exchanges say.
SessionInv(p) ==
    LET s == sess[p]
        k == kexes[p]
    IN
    /\ ~failed[p]
    /\ s = SessionAt(p, s.state, k, s.inseqno, s.outseqno)
    /\ s.state = "ZERO" <=> k = 0
    /\ s.state = "ZERO" => s.inseqno = 0 /\ s.outseqno = 0
    /\ s.state = "ACK" => k > 1

\* rec may follow position prev in what p sends, at most bound KEXs so far.
Link(p, prev, rec, bound) ==
    \E k \in 1 .. bound :
        \/ /\ rec.msg = Kex(<<p, k>>)
           /\ prev = 3 * k - 3 /\ rec.pos = 3 * k - 2
           /\ rec.key = OutKey(p, k - 1)
        \/ /\ rec.msg = Sig(Initiator(p), <<p, k>>, <<Peer(p), k>>)
           /\ prev = 3 * k - 2 /\ rec.pos = SigPos(k)
           /\ rec.key = OutKey(p, k - 1)
        \/ /\ rec.msg = AckMsg /\ k > 1
           /\ prev = 3 * k - 1 /\ rec.pos = 3 * k
           /\ rec.key = OutKey(p, k - 1)
        \/ /\ rec.msg.kind = "data"
           /\ rec.pos = prev /\ prev \in 3 * k .. 3 * k + 2
           /\ rec.key = OutKey(p, k)

\* The records of w follow each other, the first one after position from and
\* with sequence number seqno.
Chain(w, from, seqno, p, bound) ==
    \A i \in 1 .. Len(w) :
        /\ Link(p, IF i = 1 THEN from ELSE w[i - 1].pos, w[i], bound)
        /\ w[i].seqno = seqno + i - 1

LastPos(w, from) == IF Len(w) = 0 THEN from ELSE w[Len(w)].pos

\* What is in flight from p is what lies between what the peer has received
\* and what p has sent.
WireInv(p) ==
    LET q == Peer(p) IN
    /\ Chain(wire[p], RcvdPos(q), sess[q].inseqno, p, kexes[p])
    /\ LastPos(wire[p], RcvdPos(q)) = SentPos(p)
    /\ sess[p].outseqno = sess[q].inseqno + Len(wire[p])

\* The inductive invariant of the stream: each end's session is the one its
\* handshake state and number of key exchanges call for, and the records on
\* the wire are, in order and under the keys of their round, the ones that
\* lead the reader from where it is to where the writer is, so that
\* receive_handshake never meets a record its state does not expect.
HandshakeInv ==
    /\ TypeOK
    /\ \A p \in Peers : SessionInv(p) /\ WireInv(p)

\* The application records among the records w are those with the numbers after
\* lo up to hi, in this order.
IsData(rec) == rec.msg.kind = "data"

Numbered(w, lo, hi) ==
    /\ lo <= hi
    /\ \A i \in DOMAIN w : IsData(w[i]) => w[i].msg.n \in lo + 1 .. hi
    /\ \A i, j \in DOMAIN w :
         i < j /\ IsData(w[i]) /\ IsData(w[j]) => w[i].msg.n < w[j].msg.n
    /\ \A m \in lo + 1 .. hi : \E i \in DOMAIN w : IsData(w[i]) /\ w[i].msg.n = m

\* What makes InOrderDelivery inductive: the application records in flight are
\* those that were sent and have not been received.
DataInv == \A p \in Peers : Numbered(wire[p], rcvd[Peer(p)], sent[p])
=============================================================================
