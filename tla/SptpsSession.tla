---------------------------- MODULE SptpsSession ----------------------------
(***************************************************************************)
(* The session object of src/sptps.c (sptps_t) and the functions that act  *)
(* on it, as operators.  A handshake function of the C code returns a      *)
(* bool, changes the session and calls send_data(); here it returns a      *)
(* result [ok, s, out]: the bool, the session afterwards, and the records  *)
(* handed to send_data(), in order.                                        *)
(*                                                                         *)
(* Cryptography is symbolic.  A KEX message is named by the nonce in it    *)
(* (the nonce and the ECDH key are drawn together by send_kex), a          *)
(* signature by the string that was signed, a cipher key by the two KEX    *)
(* messages and the half of the PRF output it is taken from.  Decryption   *)
(* succeeds exactly when key and sequence number are those of encryption.  *)
(* Lengths tell the three handshake messages apart in the C code; the      *)
(* field "kind" does so here.                                              *)
(***************************************************************************)
EXTENDS Naturals, Sequences

CONSTANTS
    None    \* a NULL pointer: no KEX message, no key; also "sent as plaintext"

\* enum of sptps.h, Key exchange states; "ZERO" is a stopped session.
KexStates == {"ZERO", "KEX", "SECONDARY_KEX", "SIG", "ACK"}

\* A stopped session (memset to zero in sptps_stop) of the given role.
Stopped(initiator) ==
    [initiator |-> initiator, state |-> "ZERO",
     instate |-> FALSE, outstate |-> FALSE,
     mykex |-> None, hiskex |-> None, key |-> None,
     incipher |-> None, outcipher |-> None,
     inseqno |-> 0, outseqno |-> 0]

Kex(nonce) == [kind |-> "kex", nonce |-> nonce]

\* The string send_sig signs: role tag, own KEX message, the peer's.
Sig(tag, first, second) ==
    [kind |-> "sig", tag |-> tag, first |-> first, second |-> second]

AckMsg == [kind |-> "ack"]

Data(n) == [kind |-> "data", n |-> n]

IsHandshake(msg) == msg.kind # "data"

\* The two halves of the PRF output: seed is initiator nonce, responder nonce.
CipherKey(initkex, respkex, half) == <<initkex, respkex, half>>

Fail(s) == [ok |-> FALSE, s |-> s, out |-> <<>>]

Ok(s, out) == [ok |-> TRUE, s |-> s, out |-> out]

\* What the caller of sptps_send_record / send_kex hands to send_data().
Record(s, msg) ==
    [msg |-> msg,
     seqno |-> s.outseqno,
     key |-> IF s.outstate THEN s.outcipher ELSE None]

\* send_record_priv, send_record_priv_datagram
send_record_priv(s, msg) ==
    Ok([s EXCEPT !.outseqno = @ + 1], <<Record(s, msg)>>)

\* Mutant of sptps_send_record: a retry sends the record again.
sptps_send_record_Twice(s, n) ==
    LET first == send_record_priv(s, Data(n))
        again == send_record_priv(first.s, Data(n))
    IN IF s.outstate THEN Ok(again.s, first.out \o again.out) ELSE Fail(s)

\* sptps_send_record
sptps_send_record(s, n) ==
    IF s.outstate THEN send_record_priv(s, Data(n)) ELSE Fail(s)

\* send_kex, with the nonce randomize() draws.
send_kex(s, nonce) ==
    IF s.mykex # None
    THEN Fail(s)
    ELSE send_record_priv([s EXCEPT !.mykex = nonce], Kex(nonce))

send_sig(s) == send_record_priv(s, Sig(s.initiator, s.mykex, s.hiskex))

send_ack(s) == send_record_priv(s, AckMsg)

\* generate_key_material; the halves are split off by the users of s->key.
generate_key_material(s) ==
    [s EXCEPT !.key = IF s.initiator THEN <<s.mykex, s.hiskex>>
                                     ELSE <<s.hiskex, s.mykex>>]

\* Mutant of receive_ack: the half of the key of the other direction is taken.
receive_ack_SameHalf(s) ==
    [s EXCEPT !.incipher = CipherKey(s.key[1], s.key[2],
                                     IF s.initiator THEN 1 ELSE 0),
              !.key = None,
              !.instate = TRUE]

receive_ack(s) ==
    [s EXCEPT !.incipher = CipherKey(s.key[1], s.key[2],
                                     IF s.initiator THEN 0 ELSE 1),
              !.key = None,
              !.instate = TRUE]

\* Mutant of receive_kex: the KEX is not answered.
receive_kex_NoSig(s, msg) ==
    IF msg.kind # "kex" \/ s.hiskex # None
    THEN Fail(s)
    ELSE Ok([s EXCEPT !.hiskex = msg.nonce], <<>>)

receive_kex(s, msg) ==
    IF msg.kind # "kex" \/ s.hiskex # None
    THEN Fail(s)
    ELSE send_sig([s EXCEPT !.hiskex = msg.nonce])

\* The key is made, the two KEX messages are freed.
KeyedSession(s) == [generate_key_material(s) EXCEPT !.mykex = None, !.hiskex = None]

SetOutCipher(s) ==
    [s EXCEPT !.outcipher = CipherKey(s.key[1], s.key[2],
                                      IF s.initiator THEN 1 ELSE 0)]

\* Mutant of receive_sig: the cipher is set before the ACK is sent.
receive_sig_CipherFirst(s, msg) ==
    LET keyed == SetOutCipher(KeyedSession(s))
    IN IF msg # Sig(~s.initiator, s.hiskex, s.mykex)
       THEN Fail(s)
       ELSE IF s.outstate THEN send_ack(keyed) ELSE Ok(keyed, <<>>)

\* receive_sig: an ACK still goes out under the old key, then outcipher changes.
receive_sig(s, msg) ==
    LET keyed == KeyedSession(s)
        acked == IF s.outstate THEN send_ack(keyed) ELSE Ok(keyed, <<>>)
    IN IF msg # Sig(~s.initiator, s.hiskex, s.mykex)
       THEN Fail(s)
       ELSE Ok(SetOutCipher(acked.s), acked.out)

\* Mutant of sptps_force_kex: the state does not say that a KEX was sent.
sptps_force_kex_StateKept(s, nonce) ==
    CASE ~s.outstate -> Fail(s)
      [] s.outstate /\ s.state # "SECONDARY_KEX" -> Ok(s, <<>>)
      [] OTHER -> send_kex(s, nonce)

\* sptps_force_kex
sptps_force_kex(s, nonce) ==
    CASE ~s.outstate -> Fail(s)
      [] s.outstate /\ s.state # "SECONDARY_KEX" -> Ok(s, <<>>)
      [] OTHER -> send_kex([s EXCEPT !.state = "KEX"], nonce)

\* receive_handshake: one case per key exchange state.
ReceiveInKex(s, msg) ==
    LET r == receive_kex(s, msg)
    IN IF r.ok THEN Ok([r.s EXCEPT !.state = "SIG"], r.out) ELSE r

ReceiveInSecondaryKex(s, msg, nonce) ==
    LET k == send_kex(s, nonce)
        r == ReceiveInKex(k.s, msg)
    IN IF k.ok THEN [ok |-> r.ok, s |-> r.s, out |-> k.out \o r.out] ELSE k

\* The key exchange is over, with the ACK or, the first time, without one.
EndKex(s) == [receive_ack(s) EXCEPT !.state = "SECONDARY_KEX"]

ReceiveInSig(s, msg) ==
    LET r == receive_sig(s, msg)
    IN CASE ~r.ok -> r
         [] r.ok /\ s.outstate -> Ok([r.s EXCEPT !.state = "ACK"], r.out)
         [] OTHER -> Ok(EndKex([r.s EXCEPT !.outstate = TRUE]), r.out)

ReceiveInAck(s, msg) ==
    IF msg.kind # "ack"
    THEN Fail(s)
    ELSE Ok(EndKex(s), <<>>)

receive_handshake(s, msg, nonce) ==
    CASE s.state = "SECONDARY_KEX" -> ReceiveInSecondaryKex(s, msg, nonce)
      [] s.state = "KEX" -> ReceiveInKex(s, msg)
      [] s.state = "SIG" -> ReceiveInSig(s, msg)
      [] s.state = "ACK" -> ReceiveInAck(s, msg)
      [] OTHER -> Fail(s)

\* sptps_start: a zeroed session that sends its KEX at once.
sptps_start(initiator, nonce) ==
    send_kex([Stopped(initiator) EXCEPT !.state = "KEX"], nonce)

\* The record can be read with what the session has: as plaintext before the
\* session keys are in use, else with the current key and sequence number.
Readable(s, rec) ==
    IF s.instate THEN rec.key = s.incipher /\ rec.seqno = s.inseqno
                 ELSE rec.key = None

\* sptps_receive_data on one complete record of a stream.
sptps_receive_data(s, rec, nonce) ==
    LET t == [s EXCEPT !.inseqno = @ + 1] IN
    CASE s.state = "ZERO" -> Fail(s)
      [] s.state # "ZERO" /\ ~Readable(s, rec) -> Fail(t)
      [] s.state # "ZERO" /\ Readable(s, rec) /\ IsHandshake(rec.msg) ->
            receive_handshake(t, rec.msg, nonce)
      [] OTHER -> IF s.instate THEN Ok(t, <<>>) ELSE Fail(t)

\* Does receiving this message draw a nonce (send_kex in SECONDARY_KEX)?
DrawsNonce(s, msg) == s.state = "SECONDARY_KEX" /\ IsHandshake(msg)
=============================================================================
