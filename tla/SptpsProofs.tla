---------------------------- MODULE SptpsProofs -----------------------------
(***************************************************************************)
(* Theorems about Sptps, for any number of key exchanges and records.      *)
(* The lemmas come first: chains of records on a wire, what each handler   *)
(* of sptps.c does to a session whose members are given one by one, and    *)
(* what sptps_start, sptps_send_record, sptps_force_kex and the reception  *)
(* of each record do to a session of the invariant, SessionAt. A step that *)
(* keeps the wires chains preserves HandshakeInv; so do the steps that     *)
(* send and the reception of each record. HandshakeInv therefore holds in  *)
(* every state, and NoFailure and KeyAgreement follow from it. The last    *)
(* lemmas are about DataInv: which application records are in flight after *)
(* each step, given HandshakeInv. InOrderDelivery follows from the two.    *)
(***************************************************************************)
EXTENDS Sptps, SequenceTheorems, TLAPS

\* The provers get 30 seconds for a leaf, however busy the machine is.
USE SMTT(30), ZenonT(30)

-----------------------------------------------------------------------------
\* Lemmas about chains of records.

\* A record that may follow the last one extends the chain.
LEMMA ChainAppend ==
    ASSUME NEW w \in Seq(WireRecords), NEW rec \in WireRecords,
           NEW from \in Int, NEW seqno \in Nat, NEW p, NEW bound \in Nat,
           Chain(w, from, seqno, p, bound),
           Link(p, LastPos(w, from), rec, bound),
           rec.seqno = seqno + Len(w)
    PROVE  /\ Chain(Append(w, rec), from, seqno, p, bound)
           /\ LastPos(Append(w, rec), from) = rec.pos
           /\ Append(w, rec) \in Seq(WireRecords)
           /\ Len(Append(w, rec)) = Len(w) + 1
<1> DEFINE v == Append(w, rec)
<1>1. /\ v \in Seq(WireRecords) /\ Len(v) = Len(w) + 1 /\ Len(w) \in Nat
      /\ v[Len(v)] = rec
      /\ \A i \in 1 .. Len(w) : v[i] = w[i]
  OBVIOUS
<1>2. LastPos(v, from) = rec.pos
  BY <1>1 DEF LastPos
<1>3. ASSUME NEW i \in 1 .. Len(v)
      PROVE  /\ Link(p, IF i = 1 THEN from ELSE v[i - 1].pos, v[i], bound)
             /\ v[i].seqno = seqno + i - 1
  <2>1. CASE i <= Len(w)
    <3>1. v[i] = w[i] /\ (i # 1 => v[i - 1] = w[i - 1])
      BY <1>1, <2>1
    <3> QED
      BY <3>1, <2>1, <1>1 DEF Chain
  <2>2. CASE i = Len(w) + 1
    <3>1. v[i] = rec /\ (i # 1 => v[i - 1] = w[Len(w)])
      BY <1>1, <2>2
    <3>2. (IF i = 1 THEN from ELSE v[i - 1].pos) = LastPos(w, from)
      BY <3>1, <2>2, <1>1 DEF LastPos
    <3> QED
      BY <3>1, <3>2, <2>2, <1>1
  <2> QED
    BY <2>1, <2>2, <1>1
<1> HIDE DEF v
<1>4. Chain(v, from, seqno, p, bound)
  BY <1>3, Zenon DEF Chain
<1> QED
  BY <1>1, <1>2, <1>4, Zenon DEF v

\* Taking the first record off leaves a chain that starts where it stood.
LEMMA ChainTail ==
    ASSUME NEW w \in Seq(WireRecords), w # <<>>,
           NEW from \in Int, NEW seqno \in Nat, NEW p, NEW bound \in Nat,
           Chain(w, from, seqno, p, bound)
    PROVE  /\ Chain(Tail(w), Head(w).pos, seqno + 1, p, bound)
           /\ LastPos(Tail(w), Head(w).pos) = LastPos(w, from)
           /\ Tail(w) \in Seq(WireRecords)
           /\ Len(Tail(w)) = Len(w) - 1
           /\ Head(w) \in WireRecords
           /\ Link(p, from, Head(w), bound)
           /\ Head(w).seqno = seqno
           /\ Len(w) \in Nat /\ Len(w) >= 1
<1> DEFINE v == Tail(w)
<1>1. /\ v \in Seq(WireRecords) /\ Len(v) = Len(w) - 1
      /\ Len(w) \in Nat /\ Len(w) >= 1
      /\ Head(w) = w[1] /\ Head(w) \in WireRecords
      /\ \A i \in 1 .. Len(v) : v[i] = w[i + 1]
  BY HeadTailProperties
<1>2. LastPos(v, Head(w).pos) = LastPos(w, from)
  BY <1>1 DEF LastPos
<1>3. ASSUME NEW i \in 1 .. Len(v)
      PROVE  /\ Link(p, IF i = 1 THEN Head(w).pos ELSE v[i - 1].pos, v[i], bound)
             /\ v[i].seqno = (seqno + 1) + i - 1
  <2>1. i + 1 \in 1 .. Len(w) /\ i + 1 # 1 /\ (i + 1) - 1 = i
    BY <1>1
  <2>2. v[i] = w[i + 1]
    BY <1>1, Zenon
  <2>3. (IF i = 1 THEN Head(w).pos ELSE v[i - 1].pos) = w[i].pos
    BY <1>1
  <2>4. Link(p, w[i].pos, w[i + 1], bound) /\ w[i + 1].seqno = seqno + (i + 1) - 1
    BY <2>1, Zenon DEF Chain
  <2> QED
    BY <2>2, <2>3, <2>4
<1> HIDE DEF v
<1>4. Chain(v, Head(w).pos, seqno + 1, p, bound)
  BY <1>3, Zenon DEF Chain
<1>5. Link(p, from, Head(w), bound) /\ Head(w).seqno = seqno
  <2>1. 1 \in 1 .. Len(w)
    BY <1>1
  <2>2. Link(p, from, w[1], bound) /\ w[1].seqno = seqno + 1 - 1
    BY <2>1, Zenon DEF Chain
  <2> QED
    BY <2>2, <1>1
<1> QED
  BY <1>1, <1>2, <1>4, <1>5, Zenon DEF v

\* A larger bound on the number of KEX messages does no harm.
LEMMA ChainMonotonic ==
    ASSUME NEW w, NEW from, NEW seqno, NEW p,
           NEW bound \in Nat, NEW more \in Nat, bound <= more,
           Chain(w, from, seqno, p, bound)
    PROVE  Chain(w, from, seqno, p, more)
<1>1. 1 .. bound \subseteq 1 .. more
  OBVIOUS
<1>2. ASSUME NEW prev, NEW rec, Link(p, prev, rec, bound)
      PROVE  Link(p, prev, rec, more)
  BY <1>1, <1>2, Zenon DEF Link
<1> QED
  BY <1>2, Zenon DEF Chain
-----------------------------------------------------------------------------
\* What sptps_receive_data does with a record it can read, state by state.

\* Each peer is the other one's peer.
LEMMA PeerFacts ==
    ASSUME NEW p \in Peers
    PROVE  Peer(p) \in Peers /\ Peer(p) # p /\ Peer(Peer(p)) = p
BY PeersDiffer DEF Peer, Peers

\* The key in use after k key exchanges is a key.
LEMMA KeyTyped ==
    ASSUME NEW p \in Peers, NEW k \in Nat
    PROVE  OutKey(p, k) \in Keys
BY Zenon DEF OutKey, Keys, CipherKey, Nonces, Peers

\* The sessions the invariant allows have the type of sptps_t.
LEMMA SessionTyped ==
    ASSUME NEW p \in Peers, NEW state \in KexStates, NEW k \in Nat,
           state = "ZERO" \/ k >= 1, NEW in \in Nat, NEW out \in Nat
    PROVE  SessionAt(p, state, k, in, out) \in Sessions
<1>1. InRound(state, k) \in Nat /\ OutRound(state, k) \in Nat
  BY DEF InRound, OutRound, KexStates
<1>2. /\ OutKey(Peer(p), InRound(state, k)) \in Keys
      /\ OutKey(p, OutRound(state, k)) \in Keys
  BY <1>1, KeyTyped, PeerFacts, Zenon
<1>3. <<p, k>> \in Nonces /\ <<Peer(p), k>> \in Nonces
      /\ <<Ini, k>> \in Nonces /\ <<Res, k>> \in Nonces
  BY PeerFacts, Zenon DEF Nonces, Peers
<1> QED
  BY <1>1, <1>2, <1>3 DEF SessionAt, Sessions, Initiator, InUse

\* A session given by its members.
Members(ini, state, instate, outstate, mykex, hiskex, key, in, out, i, o) ==
    [initiator |-> ini, state |-> state,
     instate |-> instate, outstate |-> outstate,
     mykex |-> mykex, hiskex |-> hiskex, key |-> key,
     incipher |-> in, outcipher |-> out, inseqno |-> i, outseqno |-> o]

\* The two values of a flag, named so that provers treat them as values.
Yes == TRUE

No == FALSE

\* The record was sent with the key and number the session expects.
Expected(rec, instate, in, i) ==
    /\ rec.key = in /\ rec.seqno = i
    /\ instate \/ in = None

Sent(msg, o, out) == <<[msg |-> msg, seqno |-> o, key |-> out]>>

\* sptps_receive_data counts the record before it looks at what is in it.
LEMMA CountInseqno ==
    ASSUME NEW ini, NEW state, NEW instate, NEW outstate, NEW mykex, NEW hiskex,
           NEW key, NEW in, NEW out, NEW i \in Nat, NEW o
    PROVE  [Members(ini, state, instate, outstate, mykex, hiskex, key,
                    in, out, i, o) EXCEPT !.inseqno = @ + 1]
              = Members(ini, state, instate, outstate, mykex, hiskex, key,
                        in, out, i + 1, o)
BY DEF Members

\* An expected handshake record reaches receive_handshake.
LEMMA OnHandshake ==
    ASSUME NEW ini \in BOOLEAN, NEW state \in KexStates \ {"ZERO"},
           NEW instate \in BOOLEAN, NEW outstate, NEW mykex, NEW hiskex, NEW key,
           NEW in, NEW out, NEW i \in Nat, NEW o \in Nat, NEW nonce,
           NEW rec, rec.msg.kind # "data", Expected(rec, instate, in, i)
    PROVE  sptps_receive_data(Members(ini, state, instate, outstate, mykex,
                                      hiskex, key, in, out, i, o), rec, nonce)
              = receive_handshake(Members(ini, state, instate, outstate, mykex,
                                          hiskex, key, in, out, i + 1, o),
                                  rec.msg, nonce)
<1> DEFINE s == Members(ini, state, instate, outstate, mykex, hiskex, key,
                        in, out, i, o)
           t == Members(ini, state, instate, outstate, mykex, hiskex, key,
                        in, out, i + 1, o)
<1>1. s.state = state /\ s.instate = instate /\ s.incipher = in /\ s.inseqno = i
  BY Zenon DEF Members
<1>2. [s EXCEPT !.inseqno = @ + 1] = t
  BY CountInseqno
<1> HIDE DEF s, t
<1>3. Readable(s, rec) /\ IsHandshake(rec.msg) /\ s.state # "ZERO"
  BY <1>1, Zenon DEF Readable, IsHandshake, Expected
<1> QED
  BY <1>1, <1>2, <1>3, Zenon DEF sptps_receive_data, s, t

\* In state KEX a KEX is answered with a SIG.
LEMMA InKexOk ==
    ASSUME NEW s, NEW msg, NEW t, NEW out, receive_kex(s, msg) = Ok(t, out)
    PROVE  ReceiveInKex(s, msg) = Ok([t EXCEPT !.state = "SIG"], out)
BY DEF ReceiveInKex, Ok

\* receive_kex in state KEX: the answer is a SIG.
LEMMA KexInKex ==
    ASSUME NEW ini \in BOOLEAN, NEW instate \in BOOLEAN, NEW outstate \in BOOLEAN,
           NEW mykex, NEW key, NEW in, NEW out, outstate \/ out = None,
           NEW i \in Nat, NEW o \in Nat, NEW his, NEW state
    PROVE  ReceiveInKex(Members(ini, state, instate, outstate, mykex, None, key,
                                in, out, i, o), Kex(his))
              = Ok(Members(ini, "SIG", instate, outstate, mykex, his, key,
                           in, out, i, o + 1),
                   Sent(Sig(ini, mykex, his), o, out))
<1> DEFINE s == Members(ini, state, instate, outstate, mykex, None, key,
                        in, out, i, o)
           t == Members(ini, state, instate, outstate, mykex, his, key,
                        in, out, i, o)
           u == Members(ini, state, instate, outstate, mykex, his, key,
                        in, out, i, o + 1)
           v == Members(ini, "SIG", instate, outstate, mykex, his, key,
                        in, out, i, o + 1)
<1>1. s.hiskex = None /\ [s EXCEPT !.hiskex = his] = t
  BY DEF Members
<1>2. [t EXCEPT !.outseqno = @ + 1] = u /\ [u EXCEPT !.state = "SIG"] = v
  BY DEF Members
<1>3. /\ t.initiator = ini /\ t.mykex = mykex /\ t.hiskex = his
      /\ t.outseqno = o /\ t.outstate = outstate /\ t.outcipher = out
  BY Zenon DEF Members
<1> HIDE DEF s, t, u, v
<1>4. receive_kex(s, Kex(his)) = send_sig(t)
  BY <1>1, Zenon DEF receive_kex, Kex
<1>5. Record(t, Sig(ini, mykex, his))
        = [msg |-> Sig(ini, mykex, his), seqno |-> o, key |-> out]
  BY <1>3, Zenon DEF Record
<1>6. send_sig(t) = Ok(u, Sent(Sig(ini, mykex, his), o, out))
  BY <1>2, <1>3, <1>5, Zenon DEF send_sig, send_record_priv, Sent
<1>7. ReceiveInKex(s, Kex(his)) = Ok(v, Sent(Sig(ini, mykex, his), o, out))
  BY <1>2, <1>4, <1>6, InKexOk
<1> QED
  BY <1>7, Zenon DEF s, v

\* Concatenating two one-element sequences gives the pair.
LEMMA PairConcat ==
    ASSUME NEW S, NEW a \in S, NEW b \in S
    PROVE  <<a>> \o <<b>> = <<a, b>>
<1>1. <<a>> \in Seq(S) /\ <<b>> \in Seq(S) /\ <<a, b>> \in Seq(S)
  OBVIOUS
<1>2. Len(<<a>>) = 1 /\ Len(<<b>>) = 1 /\ Len(<<a, b>>) = 2
  BY Zenon
<1>3. /\ Len(<<a>> \o <<b>>) = 2 /\ <<a>> \o <<b>> \in Seq(S)
      /\ (<<a>> \o <<b>>)[1] = a /\ (<<a>> \o <<b>>)[2] = b
  BY <1>1, <1>2
<1>4. \A i \in 1 .. Len(<<a, b>>) : (<<a>> \o <<b>>)[i] = <<a, b>>[i]
  BY <1>2, <1>3
<1> QED
  BY <1>1, <1>2, <1>3, <1>4, SeqEqual, Zenon

\* In the idle state a KEX is answered with a KEX and a SIG.
LEMMA InSecondaryKexOk ==
    ASSUME NEW s, NEW msg, NEW nonce, NEW t, NEW u, NEW first, NEW second,
           send_kex(s, nonce) = Ok(t, first),
           ReceiveInKex(t, msg) = Ok(u, second)
    PROVE  ReceiveInSecondaryKex(s, msg, nonce) = Ok(u, first \o second)
<1>1. /\ Ok(t, first).ok /\ Ok(t, first).s = t /\ Ok(t, first).out = first
      /\ Ok(u, second).ok = TRUE
      /\ Ok(u, second).s = u /\ Ok(u, second).out = second
  BY Zenon DEF Ok
<1>2. ReceiveInSecondaryKex(s, msg, nonce)
        = [ok |-> Ok(u, second).ok, s |-> Ok(u, second).s,
           out |-> Ok(t, first).out \o Ok(u, second).out]
  BY <1>1, Zenon DEF ReceiveInSecondaryKex
<1> QED
  BY <1>1, <1>2, Zenon DEF Ok

\* A KEX in the idle state is answered with our KEX and a SIG.
LEMMA KexInSecondaryKex ==
    ASSUME NEW ini \in BOOLEAN, NEW instate \in BOOLEAN, NEW outstate \in BOOLEAN,
           NEW key, NEW in, NEW out, outstate \/ out = None,
           NEW i \in Nat, NEW o \in Nat, NEW his, NEW nonce, NEW state
    PROVE  ReceiveInSecondaryKex(
              Members(ini, state, instate, outstate, None, None, key,
                      in, out, i, o), Kex(his), nonce)
              = Ok(Members(ini, "SIG", instate, outstate, nonce, his, key,
                           in, out, i, (o + 1) + 1),
                   Sent(Kex(nonce), o, out)
                   \o Sent(Sig(ini, nonce, his), o + 1, out))
<1> DEFINE s == Members(ini, state, instate, outstate, None, None, key,
                        in, out, i, o)
           t == Members(ini, state, instate, outstate, nonce, None, key,
                        in, out, i, o)
           u == Members(ini, state, instate, outstate, nonce, None, key,
                        in, out, i, o + 1)
<1>1. s.mykex = None /\ [s EXCEPT !.mykex = nonce] = t
  BY DEF Members
<1>2. [t EXCEPT !.outseqno = @ + 1] = u
  BY DEF Members
<1>3. t.outseqno = o /\ t.outstate = outstate /\ t.outcipher = out
  BY Zenon DEF Members
<1>4. ReceiveInKex(u, Kex(his))
        = Ok(Members(ini, "SIG", instate, outstate, nonce, his, key,
                     in, out, i, (o + 1) + 1),
             Sent(Sig(ini, nonce, his), o + 1, out))
  BY KexInKex
<1> HIDE DEF s, t, u
<1>5. Record(t, Kex(nonce)) = [msg |-> Kex(nonce), seqno |-> o, key |-> out]
  BY <1>3, Zenon DEF Record
<1>6. send_kex(s, nonce) = Ok(u, Sent(Kex(nonce), o, out))
  BY <1>1, <1>2, <1>5, Zenon DEF send_kex, send_record_priv, Sent
<1>7. ReceiveInSecondaryKex(s, Kex(his), nonce)
        = Ok(Members(ini, "SIG", instate, outstate, nonce, his, key,
                     in, out, i, (o + 1) + 1),
             Sent(Kex(nonce), o, out)
             \o Sent(Sig(ini, nonce, his), o + 1, out))
  BY <1>4, <1>6, InSecondaryKexOk
<1> QED
  BY <1>7, Zenon DEF s

\* The seed of the session keys, initiator first.
Seed(ini, mykex, hiskex) == IF ini THEN <<mykex, hiskex>> ELSE <<hiskex, mykex>>

InHalf(ini, seed) == CipherKey(seed[1], seed[2], IF ini THEN 0 ELSE 1)

OutHalf(ini, seed) == CipherKey(seed[1], seed[2], IF ini THEN 1 ELSE 0)

\* receive_ack: the new key for decryption is in use.
LEMMA AckReceived ==
    ASSUME NEW ini \in BOOLEAN, NEW state, NEW instate, NEW outstate,
           NEW mykex, NEW hiskex, NEW seed, NEW in, NEW out, NEW i, NEW o
    PROVE  EndKex(Members(ini, state, instate, outstate, mykex, hiskex,
                          seed, in, out, i, o))
              = Members(ini, "SECONDARY_KEX", Yes, outstate, mykex, hiskex, None,
                        InHalf(ini, seed), out, i, o)
<1> DEFINE M(st, ins, key, ic) ==
             Members(ini, st, ins, outstate, mykex, hiskex, key, ic, out, i, o)
           h == InHalf(ini, seed)
           s == M(state, instate, seed, in)
           t == M(state, instate, seed, h)
           u == M(state, instate, None, h)
           v == M(state, Yes, None, h)
           w == M("SECONDARY_KEX", Yes, None, h)
<1>1. s.key = seed /\ s.initiator = ini
  BY Zenon DEF Members
<1>2. CipherKey(s.key[1], s.key[2], IF s.initiator THEN 0 ELSE 1) = h
  BY <1>1, Zenon DEF InHalf
<1> HIDE DEF h
<1>3. [s EXCEPT !.incipher = h] = t
  BY DEF Members
<1>4. [t EXCEPT !.key = None] = u
  BY DEF Members
<1>5. ASSUME NEW b
      PROVE  [u EXCEPT !.instate = b] = M(state, b, None, h)
  BY DEF Members
<1>6. ASSUME NEW b
      PROVE  [M(state, b, None, h) EXCEPT !.state = "SECONDARY_KEX"]
               = M("SECONDARY_KEX", b, None, h)
  BY DEF Members
<1> HIDE DEF M
<1> HIDE DEF s, t, u
<1>56. /\ [u EXCEPT !.instate = Yes] = v
       /\ [v EXCEPT !.state = "SECONDARY_KEX"] = w
  BY <1>5, <1>6, Zenon
<1> HIDE DEF v, w
<1>7. receive_ack(s) = [s EXCEPT !.incipher = h, !.key = None, !.instate = Yes]
  BY <1>2, Zenon DEF receive_ack, Yes
<1>8. EndKex(s) = w
  BY <1>3, <1>4, <1>56, <1>7, Zenon DEF EndKex
<1> QED
  BY <1>8, Zenon DEF s, w, h, M

\* An ACK in the state that waits for it ends the key exchange.
LEMMA AckInAck ==
    ASSUME NEW ini \in BOOLEAN, NEW state, NEW instate, NEW outstate,
           NEW mykex, NEW hiskex, NEW seed, NEW in, NEW out, NEW i, NEW o
    PROVE  ReceiveInAck(Members(ini, state, instate, outstate, mykex, hiskex,
                                seed, in, out, i, o), AckMsg)
              = Ok(Members(ini, "SECONDARY_KEX", Yes, outstate, mykex, hiskex,
                           None, InHalf(ini, seed), out, i, o),
                   <<>>)
<1> DEFINE s == Members(ini, state, instate, outstate, mykex, hiskex,
                        seed, in, out, i, o)
<1>1. EndKex(s)
        = Members(ini, "SECONDARY_KEX", Yes, outstate, mykex, hiskex, None,
                  InHalf(ini, seed), out, i, o)
  BY AckReceived
<1> HIDE DEF s
<1>2. ReceiveInAck(s, AckMsg)
        = Ok(EndKex(s), <<>>)
  BY Zenon DEF ReceiveInAck, AckMsg
<1> QED
  BY <1>1, <1>2, Zenon DEF s

\* generate_key_material, after which the KEX messages are freed.
LEMMA Keyed ==
    ASSUME NEW ini \in BOOLEAN, NEW state, NEW instate, NEW outstate,
           NEW mykex, NEW hiskex, NEW key, NEW in, NEW out, NEW i, NEW o
    PROVE  KeyedSession(Members(ini, state, instate, outstate, mykex, hiskex,
                                key, in, out, i, o))
              = Members(ini, state, instate, outstate, None, None,
                        Seed(ini, mykex, hiskex), in, out, i, o)
<1> DEFINE M(my, his, ke) ==
             Members(ini, state, instate, outstate, my, his, ke, in, out, i, o)
           seed == Seed(ini, mykex, hiskex)
           s == M(mykex, hiskex, key)
           t == M(mykex, hiskex, seed)
           u == M(None, hiskex, seed)
           v == M(None, None, seed)
<1>1. s.mykex = mykex /\ s.hiskex = hiskex /\ s.initiator = ini
  BY Zenon DEF Members
<1>2. (IF s.initiator THEN <<s.mykex, s.hiskex>> ELSE <<s.hiskex, s.mykex>>) = seed
  BY <1>1, Zenon DEF Seed
<1> HIDE DEF seed
<1>3. [s EXCEPT !.key = seed] = t
  BY DEF Members
<1>4. [t EXCEPT !.mykex = None] = u
  BY DEF Members
<1>5. [u EXCEPT !.hiskex = None] = v
  BY DEF Members
<1> HIDE DEF s, t, u, v
<1>6. generate_key_material(s) = t
  BY <1>2, <1>3, Zenon DEF generate_key_material
<1>7. KeyedSession(s) = v
  BY <1>4, <1>5, <1>6, Zenon DEF KeyedSession
<1> QED
  BY <1>7, Zenon DEF s, v, seed

\* The new key for encryption is in use.
LEMMA OutCipherSet ==
    ASSUME NEW ini \in BOOLEAN, NEW state, NEW instate, NEW outstate,
           NEW mykex, NEW hiskex, NEW seed, NEW in, NEW out, NEW i, NEW o
    PROVE  SetOutCipher(Members(ini, state, instate, outstate, mykex, hiskex,
                                seed, in, out, i, o))
              = Members(ini, state, instate, outstate, mykex, hiskex, seed, in,
                        OutHalf(ini, seed), i, o)
<1> DEFINE s == Members(ini, state, instate, outstate, mykex, hiskex, seed,
                        in, out, i, o)
           h == OutHalf(ini, seed)
           t == Members(ini, state, instate, outstate, mykex, hiskex, seed,
                        in, h, i, o)
<1>1. s.initiator = ini /\ s.key = seed
  BY Zenon DEF Members
<1>2. CipherKey(s.key[1], s.key[2], IF s.initiator THEN 1 ELSE 0) = h
  BY <1>1, Zenon DEF OutHalf
<1> HIDE DEF h
<1>3. [s EXCEPT !.outcipher = h] = t
  BY DEF Members
<1> HIDE DEF s, t
<1>4. SetOutCipher(s) = t
  BY <1>2, <1>3, Zenon DEF SetOutCipher
<1> QED
  BY <1>4, Zenon DEF s, t, h

\* A matching SIG: what receive_sig makes of the session.
LEMMA SigAccepted ==
    ASSUME NEW s, NEW msg, NEW keyed, NEW acked, NEW out,
           msg = Sig(~s.initiator, s.hiskex, s.mykex),
           KeyedSession(s) = keyed,
           (IF s.outstate THEN send_ack(keyed) ELSE Ok(keyed, <<>>))
              = Ok(acked, out)
    PROVE  receive_sig(s, msg) = Ok(SetOutCipher(acked), out)
<1>1. Ok(acked, out).s = acked /\ Ok(acked, out).out = out
  BY Zenon DEF Ok
<1> QED
  BY <1>1, Zenon DEF receive_sig

\* The first SIG of a session ends the key exchange in both directions.
LEMMA SigInSigFirst ==
    ASSUME NEW ini \in BOOLEAN, NEW state, NEW instate, NEW mykex, NEW hiskex,
           NEW key, NEW in, NEW out, NEW i, NEW o
    PROVE  ReceiveInSig(Members(ini, state, instate, No, mykex, hiskex, key,
                                in, out, i, o), Sig(~ini, hiskex, mykex))
              = Ok(Members(ini, "SECONDARY_KEX", Yes, Yes, None, None, None,
                           InHalf(ini, Seed(ini, mykex, hiskex)),
                           OutHalf(ini, Seed(ini, mykex, hiskex)), i, o), <<>>)
<1> DEFINE seed == Seed(ini, mykex, hiskex)
           s == Members(ini, state, instate, No, mykex, hiskex, key,
                        in, out, i, o)
           keyed == Members(ini, state, instate, No, None, None, seed,
                            in, out, i, o)
           h == OutHalf(ini, seed)
           t == Members(ini, state, instate, No, None, None, seed, in, h, i, o)
           u == Members(ini, state, instate, Yes, None, None, seed, in, h, i, o)
           v == Members(ini, "SECONDARY_KEX", Yes, Yes, None, None, None,
                        InHalf(ini, seed), h, i, o)
           msg == Sig(~ini, hiskex, mykex)
<1>1. /\ s.initiator = ini /\ s.mykex = mykex /\ s.hiskex = hiskex
      /\ s.outstate = No /\ keyed.key = seed
  BY Zenon DEF Members
<1>2. KeyedSession(s) = keyed
  BY Keyed
<1>3. EndKex(u) = v
  BY AckReceived
<1> HIDE DEF seed
<1>5. SetOutCipher(keyed) = t
  BY OutCipherSet
<1> HIDE DEF h
<1>6. [t EXCEPT !.outstate = Yes] = u
  BY DEF Members
<1>7. msg = Sig(~s.initiator, s.hiskex, s.mykex)
  BY <1>1, Zenon
<1> HIDE DEF s, keyed, t, u, v, msg
<1>8. (IF s.outstate THEN send_ack(keyed) ELSE Ok(keyed, <<>>)) = Ok(keyed, <<>>)
  BY <1>1, Zenon DEF No
<1>9. receive_sig(s, msg) = Ok(t, <<>>)
  BY <1>2, <1>5, <1>7, <1>8, SigAccepted
<1>10. Ok(t, <<>>).ok /\ Ok(t, <<>>).s = t /\ Ok(t, <<>>).out = <<>>
  BY Zenon DEF Ok
<1>11. [t EXCEPT !.outstate = TRUE] = u
  BY <1>6, Zenon DEF Yes
<1>12. ReceiveInSig(s, msg) = Ok(EndKex([t EXCEPT !.outstate = TRUE]), <<>>)
  BY <1>1, <1>9, <1>10, Zenon DEF ReceiveInSig, No
<1>13. ReceiveInSig(s, msg) = Ok(v, <<>>)
  BY <1>3, <1>11, <1>12, Zenon
<1> QED
  BY <1>13, Zenon DEF s, v, h, seed, msg

\* A later SIG is answered with an ACK under the old key.
LEMMA SigInSigLater ==
    ASSUME NEW ini \in BOOLEAN, NEW state, NEW instate, NEW mykex, NEW hiskex,
           NEW key, NEW in, NEW out, NEW i, NEW o \in Nat
    PROVE  ReceiveInSig(Members(ini, state, instate, Yes, mykex, hiskex, key,
                                in, out, i, o), Sig(~ini, hiskex, mykex))
              = Ok(Members(ini, "ACK", instate, Yes, None, None,
                           Seed(ini, mykex, hiskex), in,
                           OutHalf(ini, Seed(ini, mykex, hiskex)), i, o + 1),
                   Sent(AckMsg, o, out))
<1> DEFINE seed == Seed(ini, mykex, hiskex)
           s == Members(ini, state, instate, Yes, mykex, hiskex, key,
                        in, out, i, o)
           M(st, oc, n) == Members(ini, st, instate, Yes, None, None, seed,
                                   in, oc, i, n)
           h == OutHalf(ini, seed)
           keyed == M(state, out, o)
           acked == M(state, out, o + 1)
           u == M(state, h, o + 1)
           v == M("ACK", h, o + 1)
           msg == Sig(~ini, hiskex, mykex)
           answer == Sent(AckMsg, o, out)
<1>1. /\ s.initiator = ini /\ s.mykex = mykex /\ s.hiskex = hiskex
      /\ s.outstate = Yes /\ keyed.key = seed /\ keyed.outstate = Yes
      /\ keyed.outseqno = o /\ keyed.outcipher = out
  BY Zenon DEF Members
<1>2. KeyedSession(s) = keyed
  BY Keyed
<1> HIDE DEF seed
<1>5. SetOutCipher(acked) = u
  BY OutCipherSet
<1> HIDE DEF h
<1>4. [keyed EXCEPT !.outseqno = @ + 1] = acked
  BY DEF Members
<1>6. [u EXCEPT !.state = "ACK"] = v
  BY DEF Members
<1>7. msg = Sig(~s.initiator, s.hiskex, s.mykex)
  BY <1>1, Zenon
<1> HIDE DEF s, keyed, acked, u, v, msg
<1>8. send_ack(keyed) = Ok(acked, answer)
  <2>1. Record(keyed, AckMsg) = [msg |-> AckMsg, seqno |-> o, key |-> out]
    BY <1>1, Zenon DEF Record, Yes
  <2> QED
    BY <1>4, <2>1, Zenon DEF send_ack, send_record_priv, Sent
<1> HIDE DEF answer
<1>9. (IF s.outstate THEN send_ack(keyed) ELSE Ok(keyed, <<>>)) = Ok(acked, answer)
  BY <1>1, <1>8, Zenon DEF Yes
<1>10. receive_sig(s, msg) = Ok(u, answer)
  BY <1>2, <1>5, <1>7, <1>9, SigAccepted
<1>11. Ok(u, answer).ok /\ Ok(u, answer).s = u /\ Ok(u, answer).out = answer
  BY Zenon DEF Ok
<1>12. ReceiveInSig(s, msg) = Ok([u EXCEPT !.state = "ACK"], answer)
  BY <1>1, <1>10, <1>11, Zenon DEF ReceiveInSig, Yes
<1>13. ReceiveInSig(s, msg) = Ok(v, answer)
  BY <1>6, <1>12, Zenon
<1> QED
  BY <1>13, Zenon DEF s, v, h, seed, msg, answer

-----------------------------------------------------------------------------
\* The handlers on the sessions of the invariant.

\* Both peers take the halves of the same seed, in opposite roles.
LEMMA KeyHalves ==
    ASSUME NEW p \in Peers, NEW k \in Nat, k >= 1
    PROVE  /\ Seed(Initiator(p), <<p, k>>, <<Peer(p), k>>) = <<<<Ini, k>>, <<Res, k>>>>
           /\ OutHalf(Initiator(p), <<<<Ini, k>>, <<Res, k>>>>) = OutKey(p, k)
           /\ InHalf(Initiator(p), <<<<Ini, k>>, <<Res, k>>>>) = OutKey(Peer(p), k)
<1>1. k # 0
  OBVIOUS
<1>2. CASE p = Ini
  BY <1>1, <1>2, PeersDiffer, Zenon DEF Initiator, Seed, OutHalf, InHalf, OutKey, Peer
<1>3. CASE p = Res
  BY <1>1, <1>3, PeersDiffer, Zenon DEF Initiator, Seed, OutHalf, InHalf, OutKey, Peer
<1> QED
  BY <1>2, <1>3, Zenon DEF Peers

\* The members of a session in each state.
LEMMA AtKex ==
    ASSUME NEW p \in Peers, NEW k, NEW i, NEW o
    PROVE  SessionAt(p, "KEX", k, i, o)
              = Members(Initiator(p), "KEX", InUse(k - 1), InUse(k - 1), <<p, k>>,
                        None, None, OutKey(Peer(p), k - 1), OutKey(p, k - 1),
                        i, o)
<1>1. InRound("KEX", k) = k - 1 /\ OutRound("KEX", k) = k - 1
  BY Zenon DEF InRound, OutRound
<1>2. /\ (IF "KEX" \in {"KEX", "SIG"} THEN <<p, k>> ELSE None) = <<p, k>>
      /\ (IF "KEX" = "SIG" THEN <<Peer(p), k>> ELSE None) = None
      /\ (IF "KEX" = "ACK" THEN <<<<Ini, k>>, <<Res, k>>>> ELSE None) = None
  BY Zenon
<1> QED
  BY <1>1, <1>2, Zenon DEF SessionAt, Members

\* SessionAt in state SIG, member by member.
LEMMA AtSig ==
    ASSUME NEW p \in Peers, NEW k, NEW i, NEW o
    PROVE  SessionAt(p, "SIG", k, i, o)
              = Members(Initiator(p), "SIG", InUse(k - 1), InUse(k - 1), <<p, k>>,
                        <<Peer(p), k>>, None,
                        OutKey(Peer(p), k - 1), OutKey(p, k - 1), i, o)
<1>1. InRound("SIG", k) = k - 1 /\ OutRound("SIG", k) = k - 1
  BY Zenon DEF InRound, OutRound
<1>2. /\ (IF "SIG" \in {"KEX", "SIG"} THEN <<p, k>> ELSE None) = <<p, k>>
      /\ (IF "SIG" = "ACK" THEN <<<<Ini, k>>, <<Res, k>>>> ELSE None) = None
  BY Zenon
<1> QED
  BY <1>1, <1>2, Zenon DEF SessionAt, Members

\* SessionAt in state ACK, member by member.
LEMMA AtAck ==
    ASSUME NEW p \in Peers, NEW k, NEW i, NEW o
    PROVE  SessionAt(p, "ACK", k, i, o)
              = Members(Initiator(p), "ACK", InUse(k - 1), InUse(k), None, None,
                        <<<<Ini, k>>, <<Res, k>>>>,
                        OutKey(Peer(p), k - 1), OutKey(p, k), i, o)
<1>1. InRound("ACK", k) = k - 1 /\ OutRound("ACK", k) = k
  BY Zenon DEF InRound, OutRound
<1>2. /\ (IF "ACK" \in {"KEX", "SIG"} THEN <<p, k>> ELSE None) = None
      /\ (IF "ACK" = "SIG" THEN <<Peer(p), k>> ELSE None) = None
  BY Zenon
<1> QED
  BY <1>1, <1>2, Zenon DEF SessionAt, Members

\* SessionAt in the idle state, member by member.
LEMMA AtSecondaryKex ==
    ASSUME NEW p \in Peers, NEW k, NEW i, NEW o
    PROVE  SessionAt(p, "SECONDARY_KEX", k, i, o)
              = Members(Initiator(p), "SECONDARY_KEX", InUse(k), InUse(k), None,
                        None, None, OutKey(Peer(p), k), OutKey(p, k), i, o)
<1>1. InRound("SECONDARY_KEX", k) = k /\ OutRound("SECONDARY_KEX", k) = k
  BY Zenon DEF InRound, OutRound
<1>2. /\ (IF "SECONDARY_KEX" \in {"KEX", "SIG"} THEN <<p, k>> ELSE None) = None
      /\ (IF "SECONDARY_KEX" = "SIG" THEN <<Peer(p), k>> ELSE None) = None
      /\ (IF "SECONDARY_KEX" = "ACK" THEN <<<<Ini, k>>, <<Res, k>>>>
                                     ELSE None) = None
  BY Zenon
<1> QED
  BY <1>1, <1>2, Zenon DEF SessionAt, Members

\* What a record carries, and the key and number it was sent with.
Carries(rec, msg, key, seqno) ==
    rec.msg = msg /\ rec.key = key /\ rec.seqno = seqno

\* A KEX that answers ours.
LEMMA AtKexOnKex ==
    ASSUME NEW p \in Peers, NEW k \in Nat, k >= 1, NEW i \in Nat, NEW o \in Nat,
           NEW nonce, NEW rec,
           Carries(rec, Kex(<<Peer(p), k>>), OutKey(Peer(p), k - 1), i)
    PROVE  sptps_receive_data(SessionAt(p, "KEX", k, i, o), rec, nonce)
              = Ok(SessionAt(p, "SIG", k, i + 1, o + 1),
                   Sent(Sig(Initiator(p), <<p, k>>, <<Peer(p), k>>), o, OutKey(p, k - 1)))
<1> DEFINE ini == Initiator(p)
           f == InUse(k - 1)
           in == OutKey(Peer(p), k - 1)
           out == OutKey(p, k - 1)
           his == <<Peer(p), k>>
           my == <<p, k>>
<1>1. ini \in BOOLEAN /\ f \in BOOLEAN
  BY DEF Initiator, InUse
<1>2. (f \/ in = None) /\ (f \/ out = None)
  BY DEF OutKey, InUse
<1>a. SessionAt(p, "KEX", k, i, o)
        = Members(ini, "KEX", f, f, my, None, None, in, out, i, o)
  BY AtKex, Zenon
<1>b. SessionAt(p, "SIG", k, i + 1, o + 1)
        = Members(ini, "SIG", f, f, my, his, None, in, out, i + 1, o + 1)
  BY AtSig, Zenon
<1>4. rec.msg.kind # "data"
  BY DEF Kex, Carries
<1> HIDE DEF ini, f, in, out, his, my
<1>5. Expected(rec, f, in, i)
  BY <1>2, Zenon DEF Expected, Carries, in
<1>6. "KEX" \in KexStates \ {"ZERO"}
  BY Zenon DEF KexStates
<1>7. sptps_receive_data(Members(ini, "KEX", f, f, my, None, None, in, out, i, o),
                         rec, nonce)
        = receive_handshake(Members(ini, "KEX", f, f, my, None, None, in, out,
                                    i + 1, o), rec.msg, nonce)
  BY <1>1, <1>4, <1>5, <1>6, OnHandshake
<1>8. ReceiveInKex(Members(ini, "KEX", f, f, my, None, None, in, out, i + 1, o),
                   Kex(his))
        = Ok(Members(ini, "SIG", f, f, my, his, None, in, out, i + 1, o + 1),
             Sent(Sig(ini, my, his), o, out))
  BY <1>1, <1>2, KexInKex
<1>9. Members(ini, "KEX", f, f, my, None, None, in, out, i + 1, o).state = "KEX"
  BY Zenon DEF Members
<1>10. receive_handshake(Members(ini, "KEX", f, f, my, None, None, in, out,
                                 i + 1, o), Kex(his), nonce)
         = ReceiveInKex(Members(ini, "KEX", f, f, my, None, None, in, out,
                                i + 1, o), Kex(his))
  BY <1>9, Zenon DEF receive_handshake
<1>11. rec.msg = Kex(his)
  BY Zenon DEF his, Carries
<1>12. sptps_receive_data(SessionAt(p, "KEX", k, i, o), rec, nonce)
         = Ok(SessionAt(p, "SIG", k, i + 1, o + 1), Sent(Sig(ini, my, his), o, out))
  BY <1>a, <1>b, <1>7, <1>8, <1>10, <1>11, Zenon
<1> QED
  BY <1>12, Zenon DEF ini, my, his, out

\* A KEX in the idle state starts the next key exchange.
LEMMA AtSecondaryKexOnKex ==
    ASSUME NEW p \in Peers, NEW k \in Nat, k >= 1, NEW i \in Nat, NEW o \in Nat,
           NEW rec, Carries(rec, Kex(<<Peer(p), k + 1>>), OutKey(Peer(p), k), i)
    PROVE  sptps_receive_data(SessionAt(p, "SECONDARY_KEX", k, i, o), rec,
                              <<p, k + 1>>)
              = Ok(SessionAt(p, "SIG", k + 1, i + 1, (o + 1) + 1),
                   Sent(Kex(<<p, k + 1>>), o, OutKey(p, k))
                   \o Sent(Sig(Initiator(p), <<p, k + 1>>, <<Peer(p), k + 1>>),
                           o + 1, OutKey(p, k)))
<1> DEFINE ini == Initiator(p)
           f == InUse(k)
           in == OutKey(Peer(p), k)
           out == OutKey(p, k)
           his == <<Peer(p), k + 1>>
           my == <<p, k + 1>>
           S(state, mykex, hiskex, j, n) ==
             Members(ini, state, f, f, mykex, hiskex, None, in, out, j, n)
           s == S("SECONDARY_KEX", None, None, i, o)
           t == S("SECONDARY_KEX", None, None, i + 1, o)
           u == S("SIG", my, his, i + 1, (o + 1) + 1)
           answer == Sent(Kex(my), o, out) \o Sent(Sig(ini, my, his), o + 1, out)
<1>1. ini \in BOOLEAN /\ f \in BOOLEAN /\ (k + 1) - 1 = k
  BY DEF Initiator, InUse
<1>2. (f \/ in = None) /\ (f \/ out = None)
  BY DEF OutKey, InUse
<1>3. SessionAt(p, "SECONDARY_KEX", k, i, o) = s
  BY AtSecondaryKex, Zenon
<1>4. SessionAt(p, "SIG", k + 1, i + 1, (o + 1) + 1) = u
  BY <1>1, AtSig, Zenon
<1>5. rec.msg.kind # "data" /\ rec.msg = Kex(his)
  BY DEF Kex, Carries
<1>6. "SECONDARY_KEX" \in KexStates \ {"ZERO"}
  BY Zenon DEF KexStates
<1> HIDE DEF ini, f, in, out, his, my
<1>7. Expected(rec, f, in, i)
  BY <1>2, Zenon DEF Expected, Carries, in
<1>8. sptps_receive_data(s, rec, my) = receive_handshake(t, rec.msg, my)
  BY <1>1, <1>5, <1>6, <1>7, OnHandshake
<1>9. ReceiveInSecondaryKex(t, Kex(his), my) = Ok(u, answer)
  BY <1>1, <1>2, KexInSecondaryKex
<1>10. t.state = "SECONDARY_KEX"
  BY Zenon DEF Members
<1> HIDE DEF s, t, u, answer
<1>11. receive_handshake(t, Kex(his), my) = ReceiveInSecondaryKex(t, Kex(his), my)
  BY <1>10, Zenon DEF receive_handshake
<1>12. sptps_receive_data(s, rec, my) = Ok(u, answer)
  BY <1>5, <1>8, <1>9, <1>11, Zenon
<1> QED
  BY <1>3, <1>4, <1>12, Zenon DEF ini, my, his, out, answer

\* The SIG of the first key exchange.
LEMMA AtSigOnSigFirst ==
    ASSUME NEW p \in Peers, NEW i \in Nat, NEW o \in Nat, NEW nonce, NEW rec,
           Carries(rec, Sig(Initiator(Peer(p)), <<Peer(p), 1>>, <<p, 1>>), None, i)
    PROVE  sptps_receive_data(SessionAt(p, "SIG", 1, i, o), rec, nonce)
              = Ok(SessionAt(p, "SECONDARY_KEX", 1, i + 1, o), <<>>)
<1> DEFINE ini == Initiator(p)
           his == <<Peer(p), 1>>
           my == <<p, 1>>
           s == Members(ini, "SIG", No, No, my, his, None, None, None, i, o)
           t == Members(ini, "SIG", No, No, my, his, None, None, None, i + 1, o)
           seed == Seed(ini, my, his)
           u == Members(ini, "SECONDARY_KEX", Yes, Yes, None, None, None,
                        InHalf(ini, seed), OutHalf(ini, seed), i + 1, o)
           msg == Sig(~ini, his, my)
<1>1. /\ ini \in BOOLEAN /\ No \in BOOLEAN
      /\ InUse(1 - 1) = No /\ InUse(1) = Yes
      /\ OutKey(p, 1 - 1) = None /\ OutKey(Peer(p), 1 - 1) = None
  BY DEF Initiator, InUse, Yes, No, OutKey
<1>2. InHalf(ini, seed) = OutKey(Peer(p), 1) /\ OutHalf(ini, seed) = OutKey(p, 1)
  <2>1. 1 \in Nat /\ 1 >= 1
    OBVIOUS
  <2> QED
    BY <2>1, KeyHalves, Zenon
<1>3. SessionAt(p, "SIG", 1, i, o) = s
  BY <1>1, AtSig, Zenon
<1>4. SessionAt(p, "SECONDARY_KEX", 1, i + 1, o) = u
  BY <1>1, <1>2, AtSecondaryKex, Zenon
<1>5. Initiator(Peer(p)) = ~ini
  BY PeersDiffer, Zenon DEF Initiator, Peer, Peers
<1>6. rec.msg.kind # "data" /\ rec.msg = msg
  BY <1>5 DEF Sig, Carries
<1>7. "SIG" \in KexStates \ {"ZERO"}
  BY Zenon DEF KexStates
<1> HIDE DEF ini, his, my
<1>8. Expected(rec, No, None, i)
  BY Zenon DEF Expected, Carries
<1>9. sptps_receive_data(s, rec, nonce) = receive_handshake(t, rec.msg, nonce)
  BY <1>1, <1>6, <1>7, <1>8, OnHandshake
<1>10. ReceiveInSig(t, msg) = Ok(u, <<>>)
  BY <1>1, SigInSigFirst
<1>11. t.state = "SIG"
  BY Zenon DEF Members
<1> HIDE DEF s, t, u, msg
<1>12. receive_handshake(t, msg, nonce) = ReceiveInSig(t, msg)
  BY <1>11, Zenon DEF receive_handshake
<1> QED
  BY <1>3, <1>4, <1>6, <1>9, <1>10, <1>12, Zenon

\* The SIG of a later key exchange.
LEMMA AtSigOnSigLater ==
    ASSUME NEW p \in Peers, NEW k \in Nat, k > 1, NEW i \in Nat, NEW o \in Nat,
           NEW nonce, NEW rec,
           Carries(rec, Sig(Initiator(Peer(p)), <<Peer(p), k>>, <<p, k>>),
                   OutKey(Peer(p), k - 1), i)
    PROVE  sptps_receive_data(SessionAt(p, "SIG", k, i, o), rec, nonce)
              = Ok(SessionAt(p, "ACK", k, i + 1, o + 1),
                   Sent(AckMsg, o, OutKey(p, k - 1)))
<1> DEFINE ini == Initiator(p)
           his == <<Peer(p), k>>
           my == <<p, k>>
           in == OutKey(Peer(p), k - 1)
           out == OutKey(p, k - 1)
           s == Members(ini, "SIG", Yes, Yes, my, his, None, in, out, i, o)
           t == Members(ini, "SIG", Yes, Yes, my, his, None, in, out, i + 1, o)
           seed == Seed(ini, my, his)
           u == Members(ini, "ACK", Yes, Yes, None, None, seed,
                        in, OutHalf(ini, seed), i + 1, o + 1)
           msg == Sig(~ini, his, my)
           answer == Sent(AckMsg, o, out)
<1>1. /\ ini \in BOOLEAN /\ Yes \in BOOLEAN
      /\ InUse(k - 1) = Yes /\ InUse(k) = Yes
  BY DEF Initiator, InUse, Yes
<1>2. seed = <<<<Ini, k>>, <<Res, k>>>> /\ OutHalf(ini, seed) = OutKey(p, k)
  <2>1. k >= 1
    OBVIOUS
  <2> QED
    BY <2>1, KeyHalves, Zenon
<1>3. SessionAt(p, "SIG", k, i, o) = s
  BY <1>1, AtSig, Zenon
<1>4. SessionAt(p, "ACK", k, i + 1, o + 1) = u
  BY <1>1, <1>2, AtAck, Zenon
<1>5. Initiator(Peer(p)) = ~ini
  BY PeersDiffer, Zenon DEF Initiator, Peer, Peers
<1>6. rec.msg.kind # "data" /\ rec.msg = msg
  BY <1>5 DEF Sig, Carries
<1>7. "SIG" \in KexStates \ {"ZERO"}
  BY Zenon DEF KexStates
<1> HIDE DEF ini, his, my, in, out
<1>8. Expected(rec, Yes, in, i)
  BY Zenon DEF Expected, Carries, Yes, in
<1>9. sptps_receive_data(s, rec, nonce) = receive_handshake(t, rec.msg, nonce)
  BY <1>1, <1>6, <1>7, <1>8, OnHandshake
<1>10. ReceiveInSig(t, msg) = Ok(u, answer)
  BY <1>1, SigInSigLater
<1>11. t.state = "SIG"
  BY Zenon DEF Members
<1> HIDE DEF s, t, u, msg, answer
<1>12. receive_handshake(t, msg, nonce) = ReceiveInSig(t, msg)
  BY <1>11, Zenon DEF receive_handshake
<1> QED
  BY <1>3, <1>4, <1>6, <1>9, <1>10, <1>12, Zenon DEF answer, out

\* The ACK that ends a later key exchange.
LEMMA AtAckOnAck ==
    ASSUME NEW p \in Peers, NEW k \in Nat, k > 1, NEW i \in Nat, NEW o \in Nat,
           NEW nonce, NEW rec, Carries(rec, AckMsg, OutKey(Peer(p), k - 1), i)
    PROVE  sptps_receive_data(SessionAt(p, "ACK", k, i, o), rec, nonce)
              = Ok(SessionAt(p, "SECONDARY_KEX", k, i + 1, o), <<>>)
<1> DEFINE ini == Initiator(p)
           in == OutKey(Peer(p), k - 1)
           out == OutKey(p, k)
           seed == <<<<Ini, k>>, <<Res, k>>>>
           s == Members(ini, "ACK", Yes, Yes, None, None, seed, in, out, i, o)
           t == Members(ini, "ACK", Yes, Yes, None, None, seed, in, out, i + 1, o)
           u == Members(ini, "SECONDARY_KEX", Yes, Yes, None, None, None,
                        InHalf(ini, seed), out, i + 1, o)
<1>1. /\ ini \in BOOLEAN /\ Yes \in BOOLEAN
      /\ InUse(k - 1) = Yes /\ InUse(k) = Yes
  BY DEF Initiator, InUse, Yes
<1>2. InHalf(ini, seed) = OutKey(Peer(p), k)
  <2>1. k >= 1
    OBVIOUS
  <2> QED
    BY <2>1, KeyHalves, Zenon
<1>3. SessionAt(p, "ACK", k, i, o) = s
  BY <1>1, AtAck, Zenon
<1>4. SessionAt(p, "SECONDARY_KEX", k, i + 1, o) = u
  BY <1>1, <1>2, AtSecondaryKex, Zenon
<1>6. rec.msg.kind # "data" /\ rec.msg = AckMsg
  BY DEF AckMsg, Carries
<1>7. "ACK" \in KexStates \ {"ZERO"}
  BY Zenon DEF KexStates
<1> HIDE DEF ini, in, out, seed
<1>8. Expected(rec, Yes, in, i)
  BY Zenon DEF Expected, Carries, Yes, in
<1>9. sptps_receive_data(s, rec, nonce) = receive_handshake(t, rec.msg, nonce)
  BY <1>1, <1>6, <1>7, <1>8, OnHandshake
<1>10. ReceiveInAck(t, AckMsg) = Ok(u, <<>>)
  BY <1>1, AckInAck
<1>11. t.state = "ACK"
  BY Zenon DEF Members
<1> HIDE DEF s, t, u
<1>12. receive_handshake(t, AckMsg, nonce) = ReceiveInAck(t, AckMsg)
  BY <1>11, Zenon DEF receive_handshake
<1> QED
  BY <1>3, <1>4, <1>6, <1>9, <1>10, <1>12, Zenon

\* Application data, in any state in which there is a key to read it with.
LEMMA AtAnyOnData ==
    ASSUME NEW p \in Peers, NEW state \in KexStates \ {"ZERO"}, NEW k \in Nat,
           NEW i \in Nat, NEW o \in Nat, NEW nonce, NEW rec, NEW msg,
           msg.kind = "data", InRound(state, k) \in Nat, InRound(state, k) > 0,
           Carries(rec, msg, OutKey(Peer(p), InRound(state, k)), i)
    PROVE  sptps_receive_data(SessionAt(p, state, k, i, o), rec, nonce)
              = Ok(SessionAt(p, state, k, i + 1, o), <<>>)
<1> DEFINE s == SessionAt(p, state, k, i, o)
           t == SessionAt(p, state, k, i + 1, o)
<1>1. InUse(InRound(state, k))
  BY Zenon DEF InUse
<1>2. s.instate
  BY <1>1, Zenon DEF SessionAt
<1>3. /\ s.state = state /\ s.inseqno = i
      /\ s.incipher = OutKey(Peer(p), InRound(state, k))
  BY Zenon DEF SessionAt
<1>4. [s EXCEPT !.inseqno = @ + 1] = t
  BY DEF SessionAt
<1> HIDE DEF s, t
<1>5. Readable(s, rec) /\ ~IsHandshake(rec.msg) /\ s.state # "ZERO"
  BY <1>2, <1>3, Zenon DEF Readable, IsHandshake, Carries
<1>6. sptps_receive_data(s, rec, nonce) = Ok(t, <<>>)
  BY <1>2, <1>4, <1>5, Zenon DEF sptps_receive_data
<1> QED
  BY <1>6, Zenon DEF s, t

\* sptps_send_record, in any state in which there is a key to send with.
LEMMA AtAnySend ==
    ASSUME NEW p \in Peers, NEW state \in KexStates, NEW k \in Nat,
           NEW i \in Nat, NEW o \in Nat, NEW n
    PROVE  InUse(OutRound(state, k)) =>
           sptps_send_record(SessionAt(p, state, k, i, o), n)
              = Ok(SessionAt(p, state, k, i, o + 1),
                   Sent(Data(n), o, OutKey(p, OutRound(state, k))))
<1> DEFINE s == SessionAt(p, state, k, i, o)
           t == SessionAt(p, state, k, i, o + 1)
           key == OutKey(p, OutRound(state, k))
<1>1. s.outseqno = o /\ s.outcipher = key
  BY Zenon DEF SessionAt
<1>2. [s EXCEPT !.outseqno = @ + 1] = t
  BY DEF SessionAt
<1> SUFFICES ASSUME InUse(OutRound(state, k))
             PROVE  sptps_send_record(s, n) = Ok(t, Sent(Data(n), o, key))
  BY Zenon
<1>3. s.outstate
  BY Zenon DEF SessionAt
<1> HIDE DEF s, t, key
<1>4. Record(s, Data(n)) = [msg |-> Data(n), seqno |-> o, key |-> key]
  BY <1>1, <1>3, Zenon DEF Record
<1> QED
  BY <1>2, <1>3, <1>4, Zenon DEF sptps_send_record, send_record_priv, Sent

\* send_kex from a session that has no KEX of its own outstanding.
LEMMA KexSent ==
    ASSUME NEW ini, NEW state, NEW instate, NEW outstate \in BOOLEAN, NEW hiskex,
           NEW key, NEW in, NEW out, outstate \/ out = None,
           NEW i, NEW o \in Nat, NEW nonce
    PROVE  send_kex(Members(ini, state, instate, outstate, None, hiskex, key,
                            in, out, i, o), nonce)
              = Ok(Members(ini, state, instate, outstate, nonce, hiskex, key,
                           in, out, i, o + 1), Sent(Kex(nonce), o, out))
<1> DEFINE M(my, n) == Members(ini, state, instate, outstate, my, hiskex, key,
                               in, out, i, n)
           s == M(None, o)
           t == M(nonce, o)
           u == M(nonce, o + 1)
<1>1. s.mykex = None /\ [s EXCEPT !.mykex = nonce] = t
  BY DEF Members
<1>2. [t EXCEPT !.outseqno = @ + 1] = u
  BY DEF Members
<1>3. t.outseqno = o /\ t.outstate = outstate /\ t.outcipher = out
  BY Zenon DEF Members
<1> HIDE DEF s, t, u
<1>4. Record(t, Kex(nonce)) = [msg |-> Kex(nonce), seqno |-> o, key |-> out]
  BY <1>3, Zenon DEF Record
<1>5. send_kex(s, nonce) = Ok(u, Sent(Kex(nonce), o, out))
  BY <1>1, <1>2, <1>4, Zenon DEF send_kex, send_record_priv, Sent
<1> QED
  BY <1>5, Zenon DEF s, u

\* sptps_force_kex in the idle state.
LEMMA AtSecondaryKexForce ==
    ASSUME NEW p \in Peers, NEW k \in Nat, k >= 1, NEW i \in Nat, NEW o \in Nat
    PROVE  sptps_force_kex(SessionAt(p, "SECONDARY_KEX", k, i, o), <<p, k + 1>>)
              = Ok(SessionAt(p, "KEX", k + 1, i, o + 1),
                   Sent(Kex(<<p, k + 1>>), o, OutKey(p, k)))
<1> DEFINE ini == Initiator(p)
           in == OutKey(Peer(p), k)
           out == OutKey(p, k)
           my == <<p, k + 1>>
           S(state, mykex, n) ==
             Members(ini, state, Yes, Yes, mykex, None, None, in, out, i, n)
           s == S("SECONDARY_KEX", None, o)
           t == S("KEX", None, o)
           u == S("KEX", my, o + 1)
<1>1. (k + 1) - 1 = k /\ InUse(k) = Yes /\ Yes \in BOOLEAN
  BY DEF InUse, Yes
<1>2. SessionAt(p, "SECONDARY_KEX", k, i, o) = s
  BY <1>1, AtSecondaryKex, Zenon
<1>3. SessionAt(p, "KEX", k + 1, i, o + 1) = u
  BY <1>1, AtKex, Zenon
<1> HIDE DEF ini, in, out, my
<1>4. s.state = "SECONDARY_KEX" /\ s.outstate = Yes
  BY Zenon DEF Members
<1>5. [s EXCEPT !.state = "KEX"] = t
  BY DEF Members
<1>6. send_kex(t, my) = Ok(u, Sent(Kex(my), o, out))
  <2>1. Yes \/ out = None
    BY Zenon DEF Yes
  <2> QED
    BY <1>1, <2>1, KexSent
<1> HIDE DEF s, t, u
<1>7. sptps_force_kex(s, my) = send_kex([s EXCEPT !.state = "KEX"], my)
  BY <1>4, Zenon DEF sptps_force_kex, Yes
<1> QED
  BY <1>2, <1>3, <1>5, <1>6, <1>7, Zenon DEF my, out

\* A stopped session, and sptps_start.
LEMMA AtZeroStart ==
    ASSUME NEW p \in Peers
    PROVE  /\ Stopped(Initiator(p)) = SessionAt(p, "ZERO", 0, 0, 0)
           /\ sptps_start(Initiator(p), <<p, 1>>)
                = Ok(SessionAt(p, "KEX", 1, 0, 1), Sent(Kex(<<p, 1>>), 0, None))
<1> DEFINE ini == Initiator(p)
           my == <<p, 1>>
           S(state, mykex, n) ==
             Members(ini, state, No, No, mykex, None, None, None, None, 0, n)
           s == S("ZERO", None, 0)
           t == S("KEX", None, 0)
           u == S("KEX", my, 1)
<1>1. /\ 1 - 1 = 0 /\ InUse(0) = No /\ No \in BOOLEAN /\ ~No
      /\ OutKey(p, 0) = None /\ OutKey(Peer(p), 0) = None
      /\ InRound("ZERO", 0) = 0 /\ OutRound("ZERO", 0) = 0
  BY DEF InUse, No, OutKey, InRound, OutRound
<1>2. Stopped(ini) = s
  BY Zenon DEF Stopped, Members, No
<1>3. SessionAt(p, "KEX", 1, 0, 1) = u
  BY <1>1, AtKex, Zenon
<1>4. SessionAt(p, "ZERO", 0, 0, 0) = s
  <2>1. /\ (IF "ZERO" \in {"KEX", "SIG"} THEN <<p, 0>> ELSE None) = None
        /\ (IF "ZERO" = "SIG" THEN <<Peer(p), 0>> ELSE None) = None
        /\ (IF "ZERO" = "ACK" THEN <<<<Ini, 0>>, <<Res, 0>>>> ELSE None) = None
    BY Zenon
  <2> QED
    BY <1>1, <2>1, Zenon DEF SessionAt, Members
<1> HIDE DEF ini, my
<1>5. [s EXCEPT !.state = "KEX"] = t
  BY DEF Members
<1>6. send_kex(t, my) = Ok(u, Sent(Kex(my), 0, None))
  <2>1. 0 \in Nat /\ 0 + 1 = 1
    OBVIOUS
  <2> QED
    BY <1>1, <2>1, KexSent
<1> HIDE DEF s, t, u
<1>7. sptps_start(ini, my) = Ok(u, Sent(Kex(my), 0, None))
  BY <1>2, <1>5, <1>6, Zenon DEF sptps_start
<1> QED
  BY <1>2, <1>3, <1>4, <1>7, Zenon DEF ini, my

-----------------------------------------------------------------------------
\* Every action preserves the invariant.

\* What is in flight from p: a chain between two positions and two numbers.
InFlight(w, from, seqno, p, bound, to, next) ==
    /\ w \in Seq(WireRecords)
    /\ Chain(w, from, seqno, p, bound)
    /\ LastPos(w, from) = to
    /\ next = seqno + Len(w)

\* A step of p to the given session and the given wires from p and to p.
Moves(p, state, k, i, o, wp, wq) ==
    /\ sess' = [sess EXCEPT ![p] = SessionAt(p, state, k, i, o)]
    /\ kexes' = [kexes EXCEPT ![p] = k]
    /\ wire' = [wire EXCEPT ![Peer(p)] = wq, ![p] = wp]
    /\ failed' = [failed EXCEPT ![p] = FALSE]
    /\ sent' \in [Peers -> Nat] /\ rcvd' \in [Peers -> Nat]

\* A step of p that leaves it in a session of the invariant, with the wires
\* still chains between what has been received and what has been sent.
LEMMA StepPreserves ==
    ASSUME HandshakeInv, NEW p \in Peers, NEW state \in KexStates \ {"ZERO"},
           NEW k \in Nat, k >= 1, k >= kexes[p], state = "ACK" => k > 1,
           NEW i \in Nat, NEW o \in Nat, NEW wp, NEW wq,
           Moves(p, state, k, i, o, wp, wq),
           InFlight(wp, RcvdPos(Peer(p)), sess[Peer(p)].inseqno, p, k,
                    SentAt(state, k), o),
           InFlight(wq, RcvdAt(state, k), i, Peer(p), kexes[Peer(p)],
                    SentPos(Peer(p)), sess[Peer(p)].outseqno)
    PROVE  HandshakeInv'
<1> DEFINE q == Peer(p)
           s == SessionAt(p, state, k, i, o)
<1>1. q \in Peers /\ q # p /\ Peer(q) = p /\ Peers = {p, q}
  BY PeerFacts, Zenon DEF Peers, Peer
<1>2. TypeOK /\ SessionInv(p) /\ SessionInv(q)
  BY <1>1, Zenon DEF HandshakeInv
<1>3. s \in Sessions
  BY SessionTyped, Zenon DEF KexStates
<1>4. s.state = state /\ s.inseqno = i /\ s.outseqno = o
  BY Zenon DEF SessionAt
<1> HIDE DEF q, s
<1>5. /\ sess'[p] = s /\ sess'[q] = sess[q]
      /\ kexes'[p] = k /\ kexes'[q] = kexes[q]
      /\ wire'[p] = wp /\ wire'[q] = wq
      /\ failed'[p] = FALSE /\ failed'[q] = failed[q]
  BY <1>1, <1>2, Zenon DEF TypeOK, s, q, Moves
<1>6. TypeOK'
  <2>1. sess' \in [Peers -> Sessions]
    BY <1>2, <1>3, Zenon DEF TypeOK, s, Moves
  <2>2. wire' \in [Peers -> Seq(WireRecords)]
    BY <1>2, Zenon DEF TypeOK, Moves, InFlight
  <2>3. kexes' \in [Peers -> Nat] /\ failed' \in [Peers -> BOOLEAN]
    BY <1>2, Zenon DEF TypeOK, Moves
  <2> QED
    BY <2>1, <2>2, <2>3, Zenon DEF TypeOK, Moves
<1>7. SessionInv(p)'
  BY <1>4, <1>5 DEF SessionInv, s
<1>8. SessionInv(q)'
  BY <1>2, <1>5, Zenon DEF SessionInv
<1>9. WireInv(p)'
  BY <1>1, <1>4, <1>5, Zenon DEF WireInv, RcvdPos, SentPos, q, InFlight
<1>10. WireInv(q)'
  BY <1>1, <1>4, <1>5, Zenon DEF WireInv, RcvdPos, SentPos, q, InFlight
<1> QED
  BY <1>1, <1>6, <1>7, <1>8, <1>9, <1>10, Zenon DEF HandshakeInv

\* Positions in the handshake are numbers.
LEMMA PositionTyped ==
    ASSUME NEW state \in KexStates, NEW k \in Nat, state = "ZERO" <=> k = 0
    PROVE  RcvdAt(state, k) \in Nat /\ SentAt(state, k) \in Nat
<1>1. CASE state = "ZERO"
  BY <1>1, Zenon DEF RcvdAt, SentAt
<1>2. CASE state = "KEX"
  BY <1>2 DEF RcvdAt, SentAt
<1>3. CASE state = "SIG"
  BY <1>3 DEF RcvdAt, SentAt, SigPos
<1>4. CASE state = "ACK"
  BY <1>4 DEF RcvdAt, SentAt
<1>5. CASE state = "SECONDARY_KEX"
  BY <1>5 DEF RcvdAt, SentAt
<1> QED
  BY <1>1, <1>2, <1>3, <1>4, <1>5, Zenon DEF KexStates

\* What the invariant says of the wires, for the use of the step lemmas.
LEMMA WireFacts ==
    ASSUME HandshakeInv, NEW p \in Peers
    PROVE  /\ InFlight(wire[p], RcvdPos(Peer(p)), sess[Peer(p)].inseqno, p,
                       kexes[p], SentPos(p), sess[p].outseqno)
           /\ sess[p].inseqno \in Nat /\ sess[p].outseqno \in Nat
           /\ kexes[p] \in Nat /\ sess[p].state \in KexStates
           /\ RcvdPos(p) \in Nat /\ SentPos(p) \in Nat
           /\ sess[p].state = "ZERO" <=> kexes[p] = 0
<1>1. TypeOK /\ WireInv(p) /\ SessionInv(p)
  BY Zenon DEF HandshakeInv
<1>2. sess[p] \in Sessions /\ kexes[p] \in Nat /\ wire[p] \in Seq(WireRecords)
  BY <1>1, Zenon DEF TypeOK
<1>3. /\ sess[p].inseqno \in Nat /\ sess[p].outseqno \in Nat
      /\ sess[p].state \in KexStates
  BY <1>2, Zenon DEF Sessions
<1>4. sess[p].state = "ZERO" <=> kexes[p] = 0
  BY <1>1, Zenon DEF SessionInv
<1>5. RcvdPos(p) \in Nat /\ SentPos(p) \in Nat
  BY <1>2, <1>3, <1>4, PositionTyped, Zenon DEF RcvdPos, SentPos
<1>6. InFlight(wire[p], RcvdPos(Peer(p)), sess[Peer(p)].inseqno, p, kexes[p],
               SentPos(p), sess[p].outseqno)
  BY <1>1, <1>2, Zenon DEF WireInv, InFlight
<1> QED
  BY <1>2, <1>3, <1>4, <1>5, <1>6, Zenon

\* The records on the wire for what send_data() was given.
Rec(msg, o, key) == [msg |-> msg, seqno |-> o, key |-> key]

\* A record on the wire keeps its contents and gets the position of its kind.
LEMMA StampFacts ==
    ASSUME NEW p \in Peers, NEW k \in Nat, k >= 1, SentPos(p) \in Nat,
           NEW msg \in Messages, NEW o \in Nat, NEW key \in Keys
    PROVE  LET rec == Stamp(p, k, Rec(msg, o, key)) IN
           /\ rec \in WireRecords
           /\ rec.msg = msg /\ rec.seqno = o /\ rec.key = key
           /\ msg.kind = "kex" => rec.pos = 3 * k - 2
           /\ msg.kind = "sig" => rec.pos = SigPos(k)
           /\ msg.kind = "ack" => rec.pos = 3 * k
           /\ msg.kind = "data" => rec.pos = SentPos(p)
<1> DEFINE rec == Stamp(p, k, Rec(msg, o, key))
<1>1. /\ Rec(msg, o, key).msg = msg /\ Rec(msg, o, key).seqno = o
      /\ Rec(msg, o, key).key = key
  BY Zenon DEF Rec
<1>2. rec.msg = msg /\ rec.seqno = o /\ rec.key = key
  BY <1>1, Zenon DEF Stamp
<1>3. /\ msg.kind = "kex" => rec.pos = 3 * k - 2
      /\ msg.kind = "sig" => rec.pos = SigPos(k)
      /\ msg.kind = "ack" => rec.pos = 3 * k
      /\ msg.kind = "data" => rec.pos = SentPos(p)
  BY <1>1, Zenon DEF Stamp
<1>4. msg.kind \in {"kex", "sig", "ack", "data"}
  BY Zenon DEF Messages
<1>5. rec.pos \in Nat
  BY <1>3, <1>4 DEF SigPos
<1>6. rec = [msg |-> rec.msg, seqno |-> rec.seqno, key |-> rec.key, pos |-> rec.pos]
  BY Zenon DEF Stamp
<1> HIDE DEF rec
<1>7. rec \in WireRecords
  BY <1>2, <1>5, <1>6, Zenon DEF WireRecords
<1> QED
  BY <1>2, <1>3, <1>7, Zenon DEF rec

\* What is put on the wire is a record with the sequence number it was sealed with.
LEMMA StampRecord ==
    ASSUME NEW p \in Peers, NEW k \in Nat, k >= 1, SentPos(p) \in Nat,
           NEW msg \in Messages, NEW o \in Nat, NEW key \in Keys
    PROVE  /\ Stamp(p, k, Rec(msg, o, key)) \in WireRecords
           /\ Stamp(p, k, Rec(msg, o, key)).seqno = o
BY StampFacts

\* A handler that sends nothing leaves the wire as it is.
LEMMA EmitNone ==
    ASSUME NEW p, NEW k, NEW w \in Seq(WireRecords)
    PROVE  w \o Stamped(p, k, <<>>) = w
<1>1. Stamped(p, k, <<>>) = <<>>
  BY DEF Stamped
<1> QED
  BY <1>1

\* A handler that sends one record appends it.
LEMMA EmitOne ==
    ASSUME NEW p, NEW k, NEW w \in Seq(WireRecords), NEW msg, NEW o, NEW key,
           NEW x \in WireRecords, x = Stamp(p, k, Rec(msg, o, key))
    PROVE  w \o Stamped(p, k, Sent(msg, o, key)) = Append(w, x)
<1>1. Sent(msg, o, key) = <<Rec(msg, o, key)>>
  BY Zenon DEF Sent, Rec
<1>2. Stamped(p, k, <<Rec(msg, o, key)>>) = <<Stamp(p, k, Rec(msg, o, key))>>
  BY DEF Stamped
<1>3. w \o <<x>> = Append(w, x)
  OBVIOUS
<1> QED
  BY <1>1, <1>2, <1>3, Zenon

\* The output of two sends, in order, and the numbers their records carry.
SentTwo(msg1, o1, msg2, o2, key) == Sent(msg1, o1, key) \o Sent(msg2, o2, key)
Follows(o2, o1) == o2 = o1 + 1
InTurn(p, k, w, m1, o1, m2, o2, key) ==
    w \o Stamped(p, k, SentTwo(m1, o1, m2, o2, key))
      = (w \o Stamped(p, k, Sent(m1, o1, key))) \o Stamped(p, k, Sent(m2, o2, key))

\* Two records put on the wire together are the same as one after the other.
LEMMA EmitTwice ==
    ASSUME NEW p, NEW k, NEW w \in Seq(WireRecords), NEW m1, NEW o1, NEW m2, NEW o2,
           NEW key, Stamp(p, k, Rec(m1, o1, key)) \in WireRecords,
           Stamp(p, k, Rec(m2, o2, key)) \in WireRecords
    PROVE  InTurn(p, k, w, m1, o1, m2, o2, key)
<1> DEFINE a == Rec(m1, o1, key)
           b == Rec(m2, o2, key)
           x == Stamp(p, k, a)
           y == Stamp(p, k, b)
<1>1. SentTwo(m1, o1, m2, o2, key) = <<a, b>>
  <2>1. a \in {a, b} /\ b \in {a, b}
    BY Zenon
  <2>2. <<a>> \o <<b>> = <<a, b>>
    BY <2>1, PairConcat, Zenon
  <2> QED
    BY <2>2, Zenon DEF SentTwo, Sent, Rec
<1>2. Sent(m1, o1, key) = <<a>> /\ Sent(m2, o2, key) = <<b>>
  BY Zenon DEF Sent, Rec
<1>3. x \in WireRecords /\ y \in WireRecords
  BY Zenon
<1> HIDE DEF a, b
<1>4. /\ Stamped(p, k, <<a, b>>) = <<x, y>>
      /\ Stamped(p, k, <<a>>) = <<x>> /\ Stamped(p, k, <<b>>) = <<y>>
  BY DEF Stamped
<1> HIDE DEF x, y
<1>5. <<x, y>> = <<x>> \o <<y>>
  BY <1>3, PairConcat, Zenon
<1>6. w \o (<<x>> \o <<y>>) = (w \o <<x>>) \o <<y>>
  BY <1>3, ConcatAssociative
<1> QED
  BY <1>1, <1>2, <1>4, <1>5, <1>6, Zenon DEF InTurn

\* One record put on a wire by p, whose KEX count is then k.
LEMMA EmitChain ==
    ASSUME NEW p \in Peers, NEW k \in Nat, k >= 1, SentPos(p) \in Nat,
           NEW w, NEW from \in Nat, NEW seqno \in Nat, NEW bound \in Nat,
           NEW to, NEW o \in Nat, bound <= k,
           InFlight(w, from, seqno, p, bound, to, o),
           NEW msg \in Messages, NEW key \in Keys,
           Link(p, to, Stamp(p, k, Rec(msg, o, key)), k)
    PROVE  InFlight(w \o Stamped(p, k, Sent(msg, o, key)), from, seqno, p, k,
                    Stamp(p, k, Rec(msg, o, key)).pos, o + 1)
<1> DEFINE rec == Stamp(p, k, Rec(msg, o, key))
           v == Append(w, rec)
<1>1. /\ w \in Seq(WireRecords) /\ Len(w) \in Nat
      /\ Chain(w, from, seqno, p, bound)
      /\ LastPos(w, from) = to /\ o = seqno + Len(w)
  BY DEF InFlight
<1>2. rec \in WireRecords /\ rec.seqno = o
  <2> HIDE DEF v
  <2> QED
    BY StampRecord
<1>3. Link(p, to, rec, k)
  BY Zenon
<1> HIDE DEF rec
<1>4. w \o Stamped(p, k, Sent(msg, o, key)) = v
  BY <1>1, <1>2, EmitOne DEF rec
<1>5. Chain(w, from, seqno, p, k)
  BY <1>1, ChainMonotonic, Zenon
<1>6. from \in Int
  OBVIOUS
<1>7. /\ Chain(v, from, seqno, p, k)
      /\ LastPos(v, from) = rec.pos
      /\ v \in Seq(WireRecords)
      /\ Len(v) = Len(w) + 1
  BY <1>1, <1>2, <1>3, <1>5, <1>6, ChainAppend, Zenon
<1>8. o + 1 = seqno + Len(v)
  BY <1>1, <1>7
<1>9. InFlight(v, from, seqno, p, k, rec.pos, o + 1)
  BY <1>7, <1>8, Zenon DEF InFlight
<1> QED
  BY <1>4, <1>9, Zenon DEF rec

\* A function updated with its own value.
LEMMA SameUpdate ==
    ASSUME NEW S, NEW T, NEW f \in [S -> T], NEW a \in S
    PROVE  [f EXCEPT ![a] = f[a]] = f
BY Zenon

\* The parts of a successful result.
LEMMA OkFacts ==
    ASSUME NEW s, NEW out
    PROVE  Ok(s, out).ok /\ Ok(s, out).s = s /\ Ok(s, out).out = out
BY Zenon DEF Ok

\* A step in which p sends and receives nothing.
LEMMA SendingPreserves ==
    ASSUME HandshakeInv, NEW p \in Peers, NEW state \in KexStates \ {"ZERO"},
           NEW k \in Nat, k >= 1, k >= kexes[p], state = "ACK" => k > 1,
           NEW o \in Nat, NEW w,
           sess' = [sess EXCEPT ![p] = SessionAt(p, state, k, sess[p].inseqno, o)],
           kexes' = [kexes EXCEPT ![p] = k],
           wire' = [wire EXCEPT ![p] = w],
           sent' \in [Peers -> Nat], UNCHANGED <<rcvd, failed>>,
           RcvdAt(state, k) = RcvdPos(p),
           InFlight(w, RcvdPos(Peer(p)), sess[Peer(p)].inseqno, p, k,
                    SentAt(state, k), o)
    PROVE  HandshakeInv'
<1> DEFINE q == Peer(p)
           i == sess[p].inseqno
<1>1. q \in Peers /\ Peer(q) = p /\ q # p
  BY PeerFacts, Zenon
<1>2. TypeOK /\ SessionInv(p)
  BY Zenon DEF HandshakeInv
<1>3. InFlight(wire[q], RcvdPos(p), i, q, kexes[q], SentPos(q), sess[q].outseqno)
      /\ i \in Nat
  BY <1>1, WireFacts, Zenon
<1>4. wire' = [wire EXCEPT ![q] = wire[q], ![p] = w]
  BY <1>1, <1>2, SameUpdate, Zenon DEF TypeOK
<1>5. failed' = [failed EXCEPT ![p] = FALSE]
  <2>1. failed[p] = FALSE
    BY <1>2, Zenon DEF SessionInv, TypeOK
  <2> QED
    BY <1>2, <2>1, SameUpdate, Zenon DEF TypeOK
<1>6. rcvd' \in [Peers -> Nat]
  BY <1>2, Zenon DEF TypeOK
<1>7. Moves(p, state, k, i, o, w, wire[q])
  BY <1>4, <1>5, <1>6, Zenon DEF Moves
<1> HIDE DEF i
<1> QED
  BY <1>3, <1>7, StepPreserves, Zenon

\* sptps_start preserves the invariant.
LEMMA StartPreserves ==
    ASSUME HandshakeInv, NEW p \in Peers, Start(p)
    PROVE  HandshakeInv'
<1> DEFINE q == Peer(p)
           msg == Kex(<<p, 1>>)
           w == wire[p] \o Stamped(p, 1, Sent(msg, 0, None))
           rec == Stamp(p, 1, Rec(msg, 0, None))
<1>1. TypeOK /\ SessionInv(p) /\ q \in Peers
  BY PeerFacts, Zenon DEF HandshakeInv
<1>2. /\ kexes[p] = 0 /\ sess[p].inseqno = 0 /\ sess[p].outseqno = 0
      /\ sess[p].state = "ZERO" /\ SentPos(p) = 0 /\ RcvdPos(p) = 0
  BY <1>1, Zenon DEF Start, SessionInv, SentPos, RcvdPos, SentAt, RcvdAt
<1>3. NextNonce(p) = <<p, 1>> /\ kexes[p] + 1 = 1
  BY <1>2 DEF NextNonce
<1>4. sptps_start(Initiator(p), <<p, 1>>) = Ok(SessionAt(p, "KEX", 1, 0, 1),
                                             Sent(msg, 0, None))
  BY AtZeroStart, Zenon
<1>5. /\ sess' = [sess EXCEPT ![p] = SessionAt(p, "KEX", 1, 0, 1)]
      /\ kexes' = [kexes EXCEPT ![p] = 1]
      /\ wire' = [wire EXCEPT ![p] = w]
      /\ UNCHANGED <<sent, rcvd, failed>>
  <2>1. /\ sptps_start(Initiator(p), NextNonce(p)).s = SessionAt(p, "KEX", 1, 0, 1)
        /\ sptps_start(Initiator(p), NextNonce(p)).out = Sent(msg, 0, None)
    <3>1. sptps_start(Initiator(p), NextNonce(p))
            = Ok(SessionAt(p, "KEX", 1, 0, 1), Sent(msg, 0, None))
      BY <1>3, <1>4, Zenon
    <3> HIDE DEF msg
    <3> QED
      BY <3>1, OkFacts
  <2> QED
    BY <1>3, <2>1, Zenon DEF Start
<1>6. msg \in Messages /\ None \in Keys /\ msg.kind = "kex"
  BY Zenon DEF Kex, Messages, Keys, Nonces
<1>7. 1 \in Nat /\ 1 >= 1 /\ 0 \in Nat /\ 3 * 1 - 2 = 1 /\ 0 + 1 = 1 /\ 0 <= 1
  OBVIOUS
<1>8. rec.pos = 1 /\ rec.msg = msg /\ rec.key = None
  BY <1>2, <1>6, <1>7, StampFacts
<1>9. Link(p, 0, rec, 1)
  BY <1>8 DEF Link, OutKey
<1>10. InFlight(w, RcvdPos(q), sess[q].inseqno, p, 1, 1, 1)
  <2>1. /\ InFlight(wire[p], RcvdPos(q), sess[q].inseqno, p, 0, 0, 0)
        /\ SentPos(p) \in Nat
    BY <1>2, WireFacts, Zenon
  <2>2. RcvdPos(q) \in Nat /\ sess[q].inseqno \in Nat
    BY <1>1, WireFacts, Zenon
  <2> HIDE DEF rec, msg, q
  <2>3. InFlight(w, RcvdPos(q), sess[q].inseqno, p, 1, rec.pos, 0 + 1)
    BY <1>6, <1>7, <1>9, <2>1, <2>2, EmitChain, Zenon DEF rec
  <2> QED
    BY <1>7, <1>8, <2>3, Zenon
<1>11. RcvdAt("KEX", 1) = 0 /\ SentAt("KEX", 1) = 1
  BY DEF RcvdAt, SentAt
<1>12. /\ "KEX" \in KexStates \ {"ZERO"} /\ ("KEX" = "ACK" => 1 > 1)
       /\ 1 >= kexes[p]
  BY <1>2 DEF KexStates
<1>13. sent' \in [Peers -> Nat]
  BY <1>1, <1>5, Zenon DEF TypeOK
<1> HIDE DEF w
<1> QED
  BY <1>2, <1>5, <1>7, <1>10, <1>11, <1>12, <1>13, SendingPreserves, Zenon

\* sptps_send_record of an application record preserves the invariant.
LEMMA SendDataPreserves ==
    ASSUME HandshakeInv, NEW p \in Peers, SendData(p)
    PROVE  HandshakeInv'
<1> DEFINE q == Peer(p)
           k == kexes[p]
           state == sess[p].state
           i == sess[p].inseqno
           o == sess[p].outseqno
           msg == Data(sent[p] + 1)
           key == OutKey(p, OutRound(state, k))
           w == wire[p] \o Stamped(p, k, Sent(msg, o, key))
           rec == Stamp(p, k, Rec(msg, o, key))
<1>1. TypeOK /\ SessionInv(p) /\ q \in Peers
  BY PeerFacts, Zenon DEF HandshakeInv
<1>2. /\ k \in Nat /\ i \in Nat /\ o \in Nat /\ state \in KexStates
      /\ sent[p] \in Nat /\ SentPos(p) \in Nat
      /\ (state = "ZERO" <=> k = 0)
      /\ InFlight(wire[p], RcvdPos(q), sess[q].inseqno, p, k, SentPos(p), o)
  BY <1>1, WireFacts, Zenon DEF TypeOK
<1>3. sess[p] = SessionAt(p, state, k, i, o) /\ (state = "ACK" => k > 1)
  BY <1>1, Zenon DEF SessionInv
<1>4. InUse(OutRound(state, k))
  <2>1. SessionAt(p, state, k, i, o).outstate
    BY <1>3, Zenon DEF SendData
  <2> HIDE DEF k, state, i, o
  <2> QED
    BY <2>1, Zenon DEF SessionAt
<1>5. state # "ZERO" /\ k >= 1 /\ OutRound(state, k) \in Nat
      /\ OutRound(state, k) >= 1
  BY <1>2, <1>4 DEF InUse, OutRound, KexStates
<1>6. sptps_send_record(sess[p], sent[p] + 1)
        = Ok(SessionAt(p, state, k, i, o + 1), Sent(msg, o, key))
  <2> HIDE DEF k, state, i, o
  <2> QED
    BY <1>2, <1>3, <1>4, AtAnySend
<1>7. /\ sess' = [sess EXCEPT ![p] = SessionAt(p, state, k, i, o + 1)]
      /\ wire' = [wire EXCEPT ![p] = w]
      /\ sent' = [sent EXCEPT ![p] = @ + 1]
      /\ UNCHANGED <<kexes, rcvd, failed>>
  <2>1. /\ sptps_send_record(sess[p], sent[p] + 1).s
             = SessionAt(p, state, k, i, o + 1)
        /\ sptps_send_record(sess[p], sent[p] + 1).out = Sent(msg, o, key)
    <3> HIDE DEF k, state, i, o, msg, key
    <3> QED
      BY <1>6, OkFacts
  <2> QED
    BY <2>1, Zenon DEF SendData
<1>8. msg \in Messages /\ msg.kind = "data" /\ key \in Keys
  <2>1. msg \in Messages /\ msg.kind = "data"
    BY <1>2 DEF Data, Messages
  <2>2. key \in Keys
    BY <1>5, KeyTyped, Zenon
  <2> QED
    BY <2>1, <2>2, Zenon
<1>9. rec.pos = SentPos(p) /\ rec.msg = msg /\ rec.key = key
  <2> HIDE DEF k, o, msg, key
  <2> QED
    BY <1>2, <1>5, <1>8, StampFacts
<1>10. Link(p, SentPos(p), rec, k)
  <2>1. PICK r \in 1 .. k : r = OutRound(state, k)
    BY <1>2, <1>5 DEF OutRound
  <2>2. SentPos(p) \in 3 * r .. 3 * r + 2
    <3>1. CASE state = "KEX"
      BY <1>2, <1>5, <2>1, <3>1 DEF SentPos, SentAt, OutRound
    <3>2. CASE state = "SIG"
      BY <1>2, <1>5, <2>1, <3>2 DEF SentPos, SentAt, OutRound, SigPos
    <3>3. CASE state \in {"ACK", "SECONDARY_KEX"}
      BY <1>2, <1>5, <2>1, <3>3 DEF SentPos, SentAt, OutRound
    <3> QED
      BY <1>2, <1>5, <3>1, <3>2, <3>3, Zenon DEF KexStates
  <2> HIDE DEF rec, k, state
  <2> QED
    BY <1>8, <1>9, <2>1, <2>2, Zenon DEF Link, key
<1>11. InFlight(w, RcvdPos(q), sess[q].inseqno, p, k, SentPos(p), o + 1)
  <2>1. RcvdPos(q) \in Nat /\ sess[q].inseqno \in Nat /\ k <= k
    BY <1>1, <1>2, WireFacts
  <2> HIDE DEF rec, msg, q, k, o, key, state
  <2>2. InFlight(w, RcvdPos(q), sess[q].inseqno, p, k, rec.pos, o + 1)
    BY <1>2, <1>5, <1>8, <1>10, <2>1, EmitChain, Zenon DEF rec
  <2> QED
    BY <1>9, <2>2, Zenon
<1>12. kexes' = [kexes EXCEPT ![p] = k] /\ sent' \in [Peers -> Nat]
  BY <1>1, <1>7, SameUpdate DEF TypeOK
<1>13. /\ RcvdAt(state, k) = RcvdPos(p) /\ SentAt(state, k) = SentPos(p)
       /\ state \in KexStates \ {"ZERO"} /\ k >= kexes[p] /\ o + 1 \in Nat
  BY <1>2, <1>5 DEF RcvdPos, SentPos
<1> HIDE DEF w, state, o, k
<1> QED
  BY <1>2, <1>3, <1>5, <1>7, <1>11, <1>12, <1>13, SendingPreserves, Zenon

\* sptps_force_kex preserves the invariant.
LEMMA ForceKexPreserves ==
    ASSUME HandshakeInv, NEW p \in Peers, ForceKex(p)
    PROVE  HandshakeInv'
<1> DEFINE q == Peer(p)
           k == kexes[p]
           i == sess[p].inseqno
           o == sess[p].outseqno
           msg == Kex(<<p, k + 1>>)
           key == OutKey(p, k)
           w == wire[p] \o Stamped(p, k + 1, Sent(msg, o, key))
           rec == Stamp(p, k + 1, Rec(msg, o, key))
<1>1. TypeOK /\ SessionInv(p) /\ q \in Peers
  BY PeerFacts, Zenon DEF HandshakeInv
<1>2. /\ k \in Nat /\ i \in Nat /\ o \in Nat /\ SentPos(p) \in Nat
      /\ InFlight(wire[p], RcvdPos(q), sess[q].inseqno, p, k, SentPos(p), o)
  BY WireFacts, Zenon
<1>3. /\ sess[p].state = "SECONDARY_KEX" /\ k >= 1
      /\ sess[p] = SessionAt(p, "SECONDARY_KEX", k, i, o)
      /\ SentPos(p) = 3 * k /\ RcvdPos(p) = 3 * k
  BY <1>1, <1>2 DEF ForceKex, SessionInv, SentPos, SentAt, RcvdPos, RcvdAt
<1>4. sptps_force_kex(sess[p], NextNonce(p))
        = Ok(SessionAt(p, "KEX", k + 1, i, o + 1), Sent(msg, o, key))
  <2>1. NextNonce(p) = <<p, k + 1>>
    BY Zenon DEF NextNonce
  <2> HIDE DEF k, i, o
  <2> QED
    BY <1>2, <1>3, <2>1, AtSecondaryKexForce
<1>5. /\ sess' = [sess EXCEPT ![p] = SessionAt(p, "KEX", k + 1, i, o + 1)]
      /\ kexes' = [kexes EXCEPT ![p] = k + 1]
      /\ wire' = [wire EXCEPT ![p] = w]
      /\ UNCHANGED <<sent, rcvd, failed>>
  <2>1. /\ sptps_force_kex(sess[p], NextNonce(p)).s
             = SessionAt(p, "KEX", k + 1, i, o + 1)
        /\ sptps_force_kex(sess[p], NextNonce(p)).out = Sent(msg, o, key)
    <3> HIDE DEF k, i, o, msg, key
    <3> QED
      BY <1>4, OkFacts
  <2> QED
    BY <2>1, Zenon DEF ForceKex
<1>6. msg \in Messages /\ msg.kind = "kex" /\ key \in Keys
  BY <1>2, KeyTyped DEF Kex, Messages, Nonces
<1>7. /\ k + 1 \in Nat /\ k + 1 >= 1 /\ k <= k + 1 /\ k + 1 >= k
      /\ o + 1 \in Nat /\ 3 * (k + 1) - 2 = 3 * k + 1 /\ (k + 1) - 1 = k
      /\ 3 * (k + 1) - 3 = 3 * k /\ k + 1 \in 1 .. k + 1
  BY <1>2
<1>8. rec.pos = 3 * k + 1 /\ rec.msg = msg /\ rec.key = key
  <2> HIDE DEF k, o, msg, key
  <2> QED
    BY <1>2, <1>6, <1>7, StampFacts
<1>9. Link(p, 3 * k, rec, k + 1)
  <2> HIDE DEF rec, k
  <2> QED
    BY <1>7, <1>8, Zenon DEF Link, key, msg
<1>10. InFlight(w, RcvdPos(q), sess[q].inseqno, p, k + 1, 3 * k + 1, o + 1)
  <2>1. RcvdPos(q) \in Nat /\ sess[q].inseqno \in Nat
    BY <1>1, WireFacts, Zenon
  <2>2. /\ InFlight(wire[p], RcvdPos(q), sess[q].inseqno, p, k, 3 * k, o)
        /\ SentPos(p) \in Nat
    BY <1>2, <1>3, Zenon
  <2> HIDE DEF rec, msg, q, k, o, key
  <2>3. InFlight(w, RcvdPos(q), sess[q].inseqno, p, k + 1, rec.pos, o + 1)
    BY <1>2, <1>6, <1>7, <1>9, <2>1, <2>2, EmitChain, Zenon DEF rec
  <2> QED
    BY <1>8, <2>3, Zenon
<1>11. RcvdAt("KEX", k + 1) = RcvdPos(p) /\ SentAt("KEX", k + 1) = 3 * k + 1
  BY <1>3, <1>7, Zenon DEF RcvdAt, SentAt
<1>12. "KEX" \in KexStates \ {"ZERO"} /\ ("KEX" = "ACK" => k + 1 > 1)
  BY Zenon DEF KexStates
<1>13. sent' \in [Peers -> Nat]
  BY <1>1, <1>5, Zenon DEF TypeOK
<1> HIDE DEF w, o, k
<1> QED
  BY <1>2, <1>5, <1>7, <1>10, <1>11, <1>12, <1>13, SendingPreserves, Zenon DEF k

-----------------------------------------------------------------------------
\* The reception of a record preserves the invariant.

\* A step in which p handles the first record on its way to it.
LEMMA ReceivingPreserves ==
    ASSUME HandshakeInv, NEW p \in Peers, Receive(p),
           NEW state \in KexStates \ {"ZERO"},
           NEW k \in Nat, k >= 1, k >= kexes[p], state = "ACK" => k > 1,
           NEW o \in Nat, NEW out,
           Result(p) = Ok(SessionAt(p, state, k, sess[p].inseqno + 1, o), out),
           KexesAfter(p) = k,
           RcvdAt(state, k) = Arrived(p).pos,
           InFlight(wire[p] \o Stamped(p, k, out), RcvdPos(Peer(p)),
                    sess[Peer(p)].inseqno, p, k, SentAt(state, k), o)
    PROVE  HandshakeInv'
<1> DEFINE q == Peer(p)
           i == sess[p].inseqno
           s == SessionAt(p, state, k, i + 1, o)
           w == wire[p] \o Stamped(p, k, out)
           v == Tail(wire[q])
           rec == Arrived(p)
<1>1. q \in Peers /\ Peer(q) = p /\ q # p
  BY PeerFacts, Zenon
<1>2. TypeOK /\ SessionInv(p)
  BY Zenon DEF HandshakeInv
<1>3. /\ InFlight(wire[q], RcvdPos(p), i, q, kexes[q], SentPos(q), sess[q].outseqno)
      /\ i \in Nat /\ kexes[q] \in Nat /\ RcvdPos(p) \in Nat
  BY <1>1, WireFacts, Zenon
<1>4. wire[q] # <<>> /\ Head(wire[q]) = rec
  BY Zenon DEF Receive, Arrived
<1>5. Result(p).ok /\ Result(p).s = s /\ Result(p).out = out
  BY OkFacts
<1>6. /\ Chain(v, rec.pos, i + 1, q, kexes[q])
      /\ LastPos(v, rec.pos) = SentPos(q)
      /\ v \in Seq(WireRecords) /\ Len(v) = Len(wire[q]) - 1
      /\ rec \in WireRecords /\ Len(wire[q]) \in Nat
  <2>1. wire[q] \in Seq(WireRecords) /\ RcvdPos(p) \in Int
    BY <1>3 DEF InFlight
  <2>2. /\ Chain(wire[q], RcvdPos(p), i, q, kexes[q])
        /\ LastPos(wire[q], RcvdPos(p)) = SentPos(q)
    BY <1>3, Zenon DEF InFlight
  <2> HIDE DEF i, q, rec
  <2> QED
    BY <1>3, <1>4, <2>1, <2>2, ChainTail, Zenon
<1>7. InFlight(v, RcvdAt(state, k), i + 1, q, kexes[q], SentPos(q),
               sess[q].outseqno) /\ i + 1 \in Nat
  <2>1. sess[q].outseqno = i + Len(wire[q])
    BY <1>3, Zenon DEF InFlight
  <2>2. i \in Nat /\ Len(wire[q]) \in Nat /\ Len(v) = Len(wire[q]) - 1
    BY <1>3, <1>6, Zenon
  <2> HIDE DEF i, q, rec, v
  <2> HIDE DEF s, w
  <2>3. i + Len(wire[q]) = (i + 1) + Len(v) /\ i + 1 \in Nat
    <3> DEFINE n == Len(wire[q])
               m == Len(v)
    <3>1. i \in Nat /\ n \in Nat /\ m = n - 1
      BY <2>2, Zenon
    <3> HIDE DEF n, m
    <3>2. i + n = (i + 1) + m /\ i + 1 \in Nat
      BY <3>1
    <3> QED
      BY <3>2, Zenon DEF n, m
  <2>4. RcvdAt(state, k) = rec.pos
    BY Zenon DEF rec
  <2> QED
    BY <1>6, <2>1, <2>3, <2>4, Zenon DEF InFlight
<1>8. rec.msg.kind = "data" => rec.msg.n \in Nat
  <2>1. rec.msg \in Messages
    BY <1>6, Zenon DEF WireRecords
  <2> HIDE DEF rec
  <2> QED
    BY <2>1, Zenon DEF Messages
<1>9. Moves(p, state, k, i + 1, o, w, v)
  <2>1. sess' = [sess EXCEPT ![p] = s] /\ kexes' = [kexes EXCEPT ![p] = k]
    BY <1>5, Zenon DEF Receive
  <2>2. wire' = [wire EXCEPT ![q] = v, ![p] = w]
    BY <1>1, <1>2, <1>5, Zenon DEF Receive, TypeOK
  <2>3. failed' = [failed EXCEPT ![p] = FALSE]
    BY <1>5, Zenon DEF Receive
  <2>4. rcvd' \in [Peers -> Nat] /\ sent' \in [Peers -> Nat]
    BY <1>2, <1>8, Zenon DEF Receive, TypeOK
  <2> QED
    BY <2>1, <2>2, <2>3, <2>4, Zenon DEF Moves
<1> HIDE DEF i, w, v
<1> QED
  BY <1>7, <1>9, StepPreserves, Zenon DEF w

\* What the invariant says of the record that has arrived.
LEMMA ArrivedFacts ==
    ASSUME HandshakeInv, NEW p \in Peers, Receive(p)
    PROVE  /\ Arrived(p) \in WireRecords
           /\ Link(Peer(p), RcvdPos(p), Arrived(p), kexes[Peer(p)])
           /\ Arrived(p).seqno = sess[p].inseqno
           /\ sess[p].state \in KexStates \ {"ZERO"} /\ kexes[p] >= 1
           /\ sess[p] = SessionAt(p, sess[p].state, kexes[p],
                                  sess[p].inseqno, sess[p].outseqno)
           /\ sess[p].state = "ACK" => kexes[p] > 1
           /\ kexes[Peer(p)] \in Nat
<1> DEFINE q == Peer(p)
           i == sess[p].inseqno
<1>1. q \in Peers /\ Peer(q) = p
  BY PeerFacts, Zenon
<1>2. /\ InFlight(wire[q], RcvdPos(p), i, q, kexes[q], SentPos(q), sess[q].outseqno)
      /\ i \in Nat /\ kexes[q] \in Nat /\ RcvdPos(p) \in Nat
  BY <1>1, WireFacts, Zenon
<1>3. wire[q] # <<>> /\ Head(wire[q]) = Arrived(p)
  BY Zenon DEF Receive, Arrived
<1>4. /\ wire[q] \in Seq(WireRecords) /\ RcvdPos(p) \in Int
      /\ Chain(wire[q], RcvdPos(p), i, q, kexes[q])
  BY <1>2 DEF InFlight
<1> HIDE DEF i
<1>5. /\ Head(wire[q]) \in WireRecords /\ Head(wire[q]).seqno = i
      /\ Link(q, RcvdPos(p), Head(wire[q]), kexes[q])
  BY <1>2, <1>3, <1>4, ChainTail, Zenon
<1>6. /\ sess[p].state \in KexStates /\ sess[p].state # "ZERO"
      /\ kexes[p] \in Nat /\ (sess[p].state = "ZERO" <=> kexes[p] = 0)
  BY WireFacts, Zenon DEF Receive
<1>7. SessionInv(p)
  BY Zenon DEF HandshakeInv
<1> QED
  <2>1. /\ sess[p] = SessionAt(p, sess[p].state, kexes[p], sess[p].inseqno,
                              sess[p].outseqno)
        /\ sess[p].state = "ACK" => kexes[p] > 1
    BY <1>7, Zenon DEF SessionInv
  <2>2. sess[p].state \in KexStates \ {"ZERO"} /\ kexes[p] >= 1
    BY <1>6
  <2>3. /\ Arrived(p) \in WireRecords /\ Arrived(p).seqno = sess[p].inseqno
        /\ Link(Peer(p), RcvdPos(p), Arrived(p), kexes[Peer(p)])
    BY <1>3, <1>5, Zenon DEF i
  <2>4. kexes[Peer(p)] \in Nat
    BY <1>2, Zenon
  <2> QED
    BY <2>1, <2>2, <2>3, <2>4, Zenon

\* Receiving an application record preserves the invariant, in every state.
LEMMA ReceiveDataPreserves ==
    ASSUME HandshakeInv, NEW p \in Peers, Receive(p),
           Arrived(p).msg.kind = "data", Arrived(p).pos = RcvdPos(p),
           NEW r \in Nat, r >= 1, RcvdPos(p) \in 3 * r .. 3 * r + 2,
           Arrived(p).key = OutKey(Peer(p), r)
    PROVE  HandshakeInv'
<1> DEFINE q == Peer(p)
           k == kexes[p]
           state == sess[p].state
           i == sess[p].inseqno
           o == sess[p].outseqno
           rec == Arrived(p)
<1>1. /\ state \in KexStates \ {"ZERO"} /\ k >= 1 /\ rec.seqno = i
      /\ sess[p] = SessionAt(p, state, k, i, o) /\ (state = "ACK" => k > 1)
  BY ArrivedFacts, Zenon
<1>2. /\ k \in Nat /\ i \in Nat /\ o \in Nat
      /\ InFlight(wire[p], RcvdPos(q), sess[q].inseqno, p, k, SentPos(p), o)
  BY WireFacts, Zenon
<1>3. InRound(state, k) = r
  <2>1. CASE state = "KEX"
    BY <1>1, <1>2, <2>1 DEF RcvdPos, RcvdAt, InRound
  <2>2. CASE state = "SIG"
    BY <1>1, <1>2, <2>2 DEF RcvdPos, RcvdAt, InRound
  <2>3. CASE state = "ACK"
    BY <1>1, <1>2, <2>3 DEF RcvdPos, RcvdAt, InRound
  <2>4. CASE state = "SECONDARY_KEX"
    BY <1>1, <1>2, <2>4 DEF RcvdPos, RcvdAt, InRound
  <2> QED
    BY <1>1, <2>1, <2>2, <2>3, <2>4, Zenon DEF KexStates
<1>4. Carries(rec, rec.msg, OutKey(q, InRound(state, k)), i)
  BY <1>1, <1>3, Zenon DEF Carries
<1>5. Result(p) = Ok(SessionAt(p, state, k, i + 1, o), <<>>)
  <2>1. rec.msg.kind = "data" /\ InRound(state, k) \in Nat /\ InRound(state, k) > 0
    BY <1>3
  <2> HIDE DEF k, state, i, o, rec
  <2>2. sptps_receive_data(SessionAt(p, state, k, i, o), rec, NextNonce(p))
          = Ok(SessionAt(p, state, k, i + 1, o), <<>>)
    <3>1. state \in KexStates \ {"ZERO"} /\ k \in Nat /\ i \in Nat /\ o \in Nat
      BY <1>1, <1>2, Zenon
    <3> QED
      BY <1>4, <2>1, <3>1, AtAnyOnData
  <2> QED
    BY <1>1, <2>2, Zenon DEF Result, rec
<1>6. KexesAfter(p) = k
  BY <1>2 DEF KexesAfter, DrawsNonce, IsHandshake
<1>7. InFlight(wire[p] \o Stamped(p, k, <<>>), RcvdPos(q), sess[q].inseqno, p, k,
               SentAt(state, k), o)
  <2>1. wire[p] \o Stamped(p, k, <<>>) = wire[p]
    BY <1>2, EmitNone, Zenon DEF InFlight
  <2> QED
    BY <1>2, <2>1, Zenon DEF SentPos
<1>8. RcvdAt(state, k) = rec.pos /\ k >= kexes[p]
  BY <1>2 DEF RcvdPos
<1> HIDE DEF k, state, o
<1> QED
  BY <1>1, <1>2, <1>5, <1>6, <1>7, <1>8, ReceivingPreserves, Zenon

\* Receiving the KEX that answers, or crosses, one's own preserves the invariant.
LEMMA ReceiveKexInKexPreserves ==
    ASSUME HandshakeInv, NEW p \in Peers, Receive(p), sess[p].state = "KEX",
           Arrived(p).msg = Kex(<<Peer(p), kexes[p]>>),
           Arrived(p).key = OutKey(Peer(p), kexes[p] - 1),
           Arrived(p).pos = 3 * kexes[p] - 2
    PROVE  HandshakeInv'
<1> DEFINE q == Peer(p)
           k == kexes[p]
           i == sess[p].inseqno
           o == sess[p].outseqno
           rec == Arrived(p)
           msg == Sig(Initiator(p), <<p, k>>, <<q, k>>)
           key == OutKey(p, k - 1)
           out == Sent(msg, o, key)
           new == Stamp(p, k, Rec(msg, o, key))
<1>1. /\ k >= 1 /\ rec.seqno = i /\ sess[p] = SessionAt(p, "KEX", k, i, o)
  BY ArrivedFacts, Zenon
<1>2. /\ k \in Nat /\ i \in Nat /\ o \in Nat /\ SentPos(p) \in Nat
      /\ InFlight(wire[p], RcvdPos(q), sess[q].inseqno, p, k, SentPos(p), o)
      /\ q \in Peers /\ RcvdPos(q) \in Nat /\ sess[q].inseqno \in Nat
  BY WireFacts, PeerFacts, Zenon
<1>3. Result(p) = Ok(SessionAt(p, "SIG", k, i + 1, o + 1), out)
  <2>1. Carries(rec, Kex(<<q, k>>), OutKey(q, k - 1), i)
    BY <1>1, Zenon DEF Carries
  <2> HIDE DEF k, i, o, rec
  <2>2. sptps_receive_data(SessionAt(p, "KEX", k, i, o), rec, NextNonce(p))
          = Ok(SessionAt(p, "SIG", k, i + 1, o + 1), out)
    <3>1. k \in Nat /\ k >= 1 /\ i \in Nat /\ o \in Nat
      BY <1>1, <1>2, Zenon
    <3> QED
      BY <2>1, <3>1, AtKexOnKex
  <2> QED
    BY <1>1, <2>2, Zenon DEF Result, rec
<1>4. KexesAfter(p) = k
  BY <1>2 DEF KexesAfter, DrawsNonce
<1>5. msg \in Messages /\ msg.kind = "sig" /\ key \in Keys
  <2>1. msg \in Messages /\ msg.kind = "sig"
    BY <1>2, Zenon DEF Sig, Messages, Nonces, Initiator
  <2>2. k - 1 \in Nat
    BY <1>1, <1>2
  <2> QED
    BY <2>1, <2>2, KeyTyped, Zenon
<1>6. new.pos = SigPos(k) /\ new.msg = msg /\ new.key = key
  <2> HIDE DEF k, o, msg, key
  <2> QED
    <3>1. k \in Nat /\ k >= 1 /\ o \in Nat /\ SentPos(p) \in Nat
      BY <1>1, <1>2, <1>5, Zenon
    <3>2. msg \in Messages /\ msg.kind = "sig" /\ key \in Keys
      BY <1>1, <1>2, <1>5, Zenon
    <3> QED
      BY <3>1, <3>2, StampFacts
<1>7. SentPos(p) = 3 * k - 2 /\ k \in 1 .. k
  BY <1>1, <1>2 DEF SentPos, SentAt
<1>8. Link(p, SentPos(p), new, k)
  <2> HIDE DEF new, k
  <2> QED
    BY <1>6, <1>7, Zenon DEF Link, msg, key
<1>9. InFlight(wire[p] \o Stamped(p, k, out), RcvdPos(q), sess[q].inseqno, p, k,
               SigPos(k), o + 1)
  <2>1. k <= k
    BY <1>2
  <2> HIDE DEF k, o, msg, key, q, new
  <2>2. InFlight(wire[p] \o Stamped(p, k, out), RcvdPos(q), sess[q].inseqno, p, k,
                 new.pos, o + 1)
    BY <1>1, <1>2, <1>5, <1>8, <2>1, EmitChain, Zenon DEF new
  <2> QED
    BY <1>6, <2>2, Zenon
<1>10. /\ RcvdAt("SIG", k) = rec.pos /\ SentAt("SIG", k) = SigPos(k)
       /\ k >= kexes[p] /\ o + 1 \in Nat
  BY <1>2 DEF RcvdAt, SentAt
<1>11. "SIG" \in KexStates \ {"ZERO"} /\ ("SIG" = "ACK" => k > 1)
  BY Zenon DEF KexStates
<1> HIDE DEF k, o, out
<1> QED
  BY <1>1, <1>2, <1>3, <1>4, <1>9, <1>10, <1>11, ReceivingPreserves, Zenon

\* Receiving the SIG of the first key exchange preserves the invariant: no ACK.
LEMMA ReceiveSigFirstPreserves ==
    ASSUME HandshakeInv, NEW p \in Peers, Receive(p), sess[p].state = "SIG",
           kexes[p] = 1,
           Arrived(p).msg = Sig(Initiator(Peer(p)), <<Peer(p), 1>>, <<p, 1>>),
           Arrived(p).key = OutKey(Peer(p), 0),
           Arrived(p).pos = SigPos(1)
    PROVE  HandshakeInv'
<1> DEFINE q == Peer(p)
           i == sess[p].inseqno
           o == sess[p].outseqno
           rec == Arrived(p)
<1>1. /\ rec.seqno = i /\ sess[p] = SessionAt(p, "SIG", 1, i, o)
  BY ArrivedFacts, Zenon
<1>2. /\ i \in Nat /\ o \in Nat /\ SentPos(p) \in Nat
      /\ InFlight(wire[p], RcvdPos(q), sess[q].inseqno, p, 1, SentPos(p), o)
      /\ q \in Peers /\ RcvdPos(q) \in Nat /\ sess[q].inseqno \in Nat
  BY WireFacts, PeerFacts, Zenon
<1>3. Result(p) = Ok(SessionAt(p, "SECONDARY_KEX", 1, i + 1, o), <<>>)
  <2>1. Carries(rec, Sig(Initiator(q), <<q, 1>>, <<p, 1>>), None, i)
    BY <1>1, Zenon DEF Carries, OutKey
  <2> HIDE DEF i, o, rec
  <2>2. sptps_receive_data(SessionAt(p, "SIG", 1, i, o), rec, NextNonce(p))
          = Ok(SessionAt(p, "SECONDARY_KEX", 1, i + 1, o), <<>>)
    <3>1. i \in Nat /\ o \in Nat
      BY <1>2, Zenon
    <3> QED
      BY <2>1, <3>1, AtSigOnSigFirst
  <2> QED
    BY <1>1, <2>2, Zenon DEF Result, rec
<1>4. KexesAfter(p) = 1
  BY DEF KexesAfter, DrawsNonce
<1>5. /\ RcvdAt("SECONDARY_KEX", 1) = rec.pos
      /\ SentAt("SECONDARY_KEX", 1) = SentPos(p)
  BY DEF RcvdAt, SentAt, SentPos, SigPos
<1>6. InFlight(wire[p] \o Stamped(p, 1, <<>>), RcvdPos(q), sess[q].inseqno, p, 1,
               SentPos(p), o)
  <2>1. wire[p] \o Stamped(p, 1, <<>>) = wire[p]
    BY <1>2, EmitNone, Zenon DEF InFlight
  <2> QED
    BY <1>2, <2>1, Zenon
<1>7. /\ "SECONDARY_KEX" \in KexStates \ {"ZERO"}
      /\ ("SECONDARY_KEX" = "ACK" => 1 > 1)
      /\ 1 \in Nat /\ 1 >= 1 /\ 1 >= kexes[p]
  BY DEF KexStates
<1> HIDE DEF o
<1> QED
  BY <1>2, <1>3, <1>4, <1>5, <1>6, <1>7, ReceivingPreserves, Zenon

\* Receiving the ACK preserves the invariant.
LEMMA ReceiveAckPreserves ==
    ASSUME HandshakeInv, NEW p \in Peers, Receive(p), sess[p].state = "ACK",
           Arrived(p).msg = AckMsg,
           Arrived(p).key = OutKey(Peer(p), kexes[p] - 1),
           Arrived(p).pos = 3 * kexes[p]
    PROVE  HandshakeInv'
<1> DEFINE q == Peer(p)
           k == kexes[p]
           i == sess[p].inseqno
           o == sess[p].outseqno
           rec == Arrived(p)
<1>1. /\ k > 1 /\ k >= 1 /\ rec.seqno = i /\ sess[p] = SessionAt(p, "ACK", k, i, o)
  BY ArrivedFacts, Zenon
<1>2. /\ k \in Nat /\ i \in Nat /\ o \in Nat /\ SentPos(p) \in Nat
      /\ InFlight(wire[p], RcvdPos(q), sess[q].inseqno, p, k, SentPos(p), o)
      /\ q \in Peers /\ RcvdPos(q) \in Nat /\ sess[q].inseqno \in Nat
  BY WireFacts, PeerFacts, Zenon
<1>3. Result(p) = Ok(SessionAt(p, "SECONDARY_KEX", k, i + 1, o), <<>>)
  <2>1. Carries(rec, AckMsg, OutKey(q, k - 1), i)
    BY <1>1, Zenon DEF Carries
  <2> HIDE DEF k, i, o, rec
  <2>2. sptps_receive_data(SessionAt(p, "ACK", k, i, o), rec, NextNonce(p))
          = Ok(SessionAt(p, "SECONDARY_KEX", k, i + 1, o), <<>>)
    <3>1. k \in Nat /\ k > 1 /\ i \in Nat /\ o \in Nat
      BY <1>1, <1>2, Zenon
    <3>2. \A r, nonce : Carries(r, AckMsg, OutKey(Peer(p), k - 1), i)
            => sptps_receive_data(SessionAt(p, "ACK", k, i, o), r, nonce)
                 = Ok(SessionAt(p, "SECONDARY_KEX", k, i + 1, o), <<>>)
      BY <3>1, AtAckOnAck
    <3> QED
      BY <2>1, <3>2, Zenon
  <2> QED
    BY <1>1, <2>2, Zenon DEF Result, rec
<1>4. KexesAfter(p) = k
  BY <1>2 DEF KexesAfter, DrawsNonce
<1>5. /\ RcvdAt("SECONDARY_KEX", k) = rec.pos
      /\ SentAt("SECONDARY_KEX", k) = SentPos(p)
  BY Zenon DEF RcvdAt, SentAt, SentPos
<1>6. InFlight(wire[p] \o Stamped(p, k, <<>>), RcvdPos(q), sess[q].inseqno, p, k,
               SentPos(p), o)
  <2>1. wire[p] \o Stamped(p, k, <<>>) = wire[p]
    BY <1>2, EmitNone, Zenon DEF InFlight
  <2> QED
    BY <1>2, <2>1, Zenon
<1>7. /\ "SECONDARY_KEX" \in KexStates \ {"ZERO"}
      /\ ("SECONDARY_KEX" = "ACK" => k > 1)
      /\ k >= kexes[p]
  BY <1>2 DEF KexStates
<1> HIDE DEF k, o
<1> QED
  BY <1>1, <1>2, <1>3, <1>4, <1>5, <1>6, <1>7, ReceivingPreserves, Zenon

\* Receiving the SIG of a later key exchange preserves the invariant.
LEMMA ReceiveSigLaterPreserves ==
    ASSUME HandshakeInv, NEW p \in Peers, Receive(p), sess[p].state = "SIG",
           kexes[p] > 1,
           Arrived(p).msg = Sig(Initiator(Peer(p)), <<Peer(p), kexes[p]>>,
                                <<p, kexes[p]>>),
           Arrived(p).key = OutKey(Peer(p), kexes[p] - 1),
           Arrived(p).pos = SigPos(kexes[p])
    PROVE  HandshakeInv'
<1> DEFINE q == Peer(p)
           k == kexes[p]
           i == sess[p].inseqno
           o == sess[p].outseqno
           rec == Arrived(p)
           key == OutKey(p, k - 1)
           out == Sent(AckMsg, o, key)
           new == Stamp(p, k, Rec(AckMsg, o, key))
<1>1. /\ k > 1 /\ k >= 1 /\ rec.seqno = i /\ sess[p] = SessionAt(p, "SIG", k, i, o)
  BY ArrivedFacts, Zenon
<1>2. /\ k \in Nat /\ i \in Nat /\ o \in Nat /\ SentPos(p) \in Nat
      /\ InFlight(wire[p], RcvdPos(q), sess[q].inseqno, p, k, SentPos(p), o)
      /\ q \in Peers /\ RcvdPos(q) \in Nat /\ sess[q].inseqno \in Nat
  BY WireFacts, PeerFacts, Zenon
<1>3. Result(p) = Ok(SessionAt(p, "ACK", k, i + 1, o + 1), out)
  <2>1. Carries(rec, Sig(Initiator(q), <<q, k>>, <<p, k>>), OutKey(q, k - 1), i)
    BY <1>1, Zenon DEF Carries
  <2> HIDE DEF k, i, o, rec
  <2>2. sptps_receive_data(SessionAt(p, "SIG", k, i, o), rec, NextNonce(p))
          = Ok(SessionAt(p, "ACK", k, i + 1, o + 1), out)
    <3>1. k \in Nat /\ k > 1 /\ i \in Nat /\ o \in Nat
      BY <1>1, <1>2, ZenonT(30)
    <3> QED
      BY <2>1, <3>1, AtSigOnSigLater
  <2> QED
    BY <1>1, <2>2, Zenon DEF Result, rec
<1>4. KexesAfter(p) = k
  BY <1>2 DEF KexesAfter, DrawsNonce
<1>5. AckMsg \in Messages /\ AckMsg.kind = "ack" /\ key \in Keys
  <2>1. AckMsg \in Messages /\ AckMsg.kind = "ack"
    BY Zenon DEF AckMsg, Messages
  <2>2. k - 1 \in Nat
    BY <1>1, <1>2
  <2> QED
    BY <2>1, <2>2, KeyTyped, Zenon
<1>6. new.pos = 3 * k /\ new.msg = AckMsg /\ new.key = key
  <2> HIDE DEF k, o, key
  <2> QED
    <3>1. k \in Nat /\ k >= 1 /\ o \in Nat /\ SentPos(p) \in Nat
      BY <1>1, <1>2, <1>5, Zenon
    <3>2. AckMsg \in Messages /\ AckMsg.kind = "ack" /\ key \in Keys
      BY <1>1, <1>2, <1>5, Zenon
    <3> QED
      BY <3>1, <3>2, StampFacts
<1>7. SentPos(p) = 3 * k - 1 /\ k \in 1 .. k
  BY <1>1, <1>2 DEF SentPos, SentAt, SigPos
<1>8. Link(p, SentPos(p), new, k)
  <2> HIDE DEF new, k
  <2> QED
    BY <1>1, <1>6, <1>7, Zenon DEF Link, key
<1>9. InFlight(wire[p] \o Stamped(p, k, out), RcvdPos(q), sess[q].inseqno, p, k,
               3 * k, o + 1)
  <2>1. k <= k
    BY <1>2
  <2> HIDE DEF k, o, key, q, new
  <2>2. InFlight(wire[p] \o Stamped(p, k, out), RcvdPos(q), sess[q].inseqno, p, k,
                 new.pos, o + 1)
    BY <1>1, <1>2, <1>5, <1>8, <2>1, EmitChain, Zenon DEF new
  <2> QED
    BY <1>6, <2>2, Zenon
<1>10. /\ RcvdAt("ACK", k) = rec.pos /\ SentAt("ACK", k) = 3 * k
       /\ k >= kexes[p] /\ o + 1 \in Nat
  BY <1>1, <1>2 DEF RcvdAt, SentAt, SigPos
<1>11. "ACK" \in KexStates \ {"ZERO"}
  BY Zenon DEF KexStates
<1> HIDE DEF k, o, out
<1> QED
  BY <1>1, <1>2, <1>3, <1>4, <1>9, <1>10, <1>11, ReceivingPreserves, Zenon

\* The records of a KEX answered in the idle state, put on the wire in order.
LEMMA EmitChainTwo ==
    ASSUME NEW p \in Peers, NEW k \in Nat, k >= 1, SentPos(p) \in Nat,
           NEW w, NEW from \in Nat, NEW seqno \in Nat, NEW bound \in Nat,
           NEW to, NEW o \in Nat, NEW o1 \in Nat, Follows(o1, o), bound <= k,
           InFlight(w, from, seqno, p, bound, to, o),
           NEW m1 \in Messages, NEW m2 \in Messages, NEW key \in Keys,
           Link(p, to, Stamp(p, k, Rec(m1, o, key)), k),
           Link(p, Stamp(p, k, Rec(m1, o, key)).pos,
                Stamp(p, k, Rec(m2, o1, key)), k)
    PROVE  InFlight(w \o Stamped(p, k, Sent(m1, o, key) \o Sent(m2, o1, key)),
                    from, seqno, p, k,
                    Stamp(p, k, Rec(m2, o1, key)).pos, o1 + 1)
<1> DEFINE x == Stamp(p, k, Rec(m1, o, key))
           y == Stamp(p, k, Rec(m2, o1, key))
           u == w \o Stamped(p, k, Sent(m1, o, key))
           v == u \o Stamped(p, k, Sent(m2, o1, key))
<1>1. InFlight(u, from, seqno, p, k, x.pos, o1)
  BY EmitChain, Zenon DEF Follows
<1>2. k <= k
  OBVIOUS
<1>3. Link(p, x.pos, y, k)
  BY Zenon
<1>4. InFlight(v, from, seqno, p, k, y.pos, o1 + 1)
  <2> HIDE DEF x, u
  <2> QED
    BY <1>1, <1>2, <1>3, EmitChain, Zenon
<1>5. x \in WireRecords /\ y \in WireRecords /\ w \in Seq(WireRecords)
  BY <1>2, StampFacts, Zenon DEF InFlight
<1>6. w \o Stamped(p, k, SentTwo(m1, o, m2, o1, key)) = v
  <2>1. InTurn(p, k, w, m1, o, m2, o1, key)
    BY <1>5, EmitTwice, Zenon
  <2> QED
    BY <2>1, Zenon DEF InTurn
<1> QED
  BY <1>4, <1>6, Zenon DEF SentTwo

\* Receiving a KEX the peer started preserves the invariant.
LEMMA ReceiveKexIdlePreserves ==
    ASSUME HandshakeInv, NEW p \in Peers, Receive(p),
           sess[p].state = "SECONDARY_KEX",
           Arrived(p).msg = Kex(<<Peer(p), kexes[p] + 1>>),
           Arrived(p).key = OutKey(Peer(p), kexes[p]),
           Arrived(p).pos = 3 * kexes[p] + 1
    PROVE  HandshakeInv'
<1> DEFINE q == Peer(p)
           k == kexes[p]
           n == k + 1
           i == sess[p].inseqno
           o == sess[p].outseqno
           o1 == o + 1
           rec == Arrived(p)
           m1 == Kex(<<p, n>>)
           m2 == Sig(Initiator(p), <<p, n>>, <<q, n>>)
           key == OutKey(p, k)
           out == Sent(m1, o, key) \o Sent(m2, o1, key)
           x == Stamp(p, n, Rec(m1, o, key))
           y == Stamp(p, n, Rec(m2, o1, key))
<1>1. /\ k >= 1 /\ rec.seqno = i
      /\ sess[p] = SessionAt(p, "SECONDARY_KEX", k, i, o)
  BY ArrivedFacts, Zenon
<1>2. /\ k \in Nat /\ i \in Nat /\ o \in Nat /\ SentPos(p) \in Nat
      /\ InFlight(wire[p], RcvdPos(q), sess[q].inseqno, p, k, SentPos(p), o)
      /\ q \in Peers /\ RcvdPos(q) \in Nat /\ sess[q].inseqno \in Nat
  BY WireFacts, PeerFacts, Zenon
<1>3. Result(p) = Ok(SessionAt(p, "SIG", n, i + 1, o1 + 1), out)
  <2>1. Carries(rec, Kex(<<q, k + 1>>), OutKey(q, k), i) /\ NextNonce(p) = <<p, k + 1>>
    BY <1>1, ZenonT(30) DEF Carries, NextNonce
  <2> HIDE DEF k, i, o, rec
  <2>2. sptps_receive_data(SessionAt(p, "SECONDARY_KEX", k, i, o), rec, NextNonce(p))
          = Ok(SessionAt(p, "SIG", n, i + 1, o1 + 1), out)
    <3>1. k \in Nat /\ k >= 1 /\ i \in Nat /\ o \in Nat
      BY <1>1, <1>2, Zenon
    <3> QED
      BY <2>1, <3>1, AtSecondaryKexOnKex
  <2> QED
    BY <1>1, <2>2, Zenon DEF Result, rec
<1>4. KexesAfter(p) = n
  BY <1>2 DEF KexesAfter, DrawsNonce, IsHandshake, Kex
<1>5. /\ n \in Nat /\ n >= 1 /\ k <= n /\ n >= kexes[p] /\ n > 1 /\ n - 1 = k
      /\ 3 * n - 3 = 3 * k /\ 3 * n - 2 = 3 * k + 1 /\ n \in 1 .. n
      /\ o1 \in Nat /\ o1 = o + 1 /\ o1 + 1 \in Nat
  BY <1>1, <1>2
<1>6. /\ m1 \in Messages /\ m1.kind = "kex" /\ m2 \in Messages /\ m2.kind = "sig"
      /\ key \in Keys
  <2>1. m1 \in Messages /\ m1.kind = "kex"
    BY <1>5, Zenon DEF Kex, Messages, Nonces
  <2>2. m2 \in Messages /\ m2.kind = "sig"
    BY <1>2, <1>5, Zenon DEF Sig, Messages, Nonces, Initiator
  <2> QED
    BY <1>2, <2>1, <2>2, KeyTyped, Zenon
<1>7. SentPos(p) = 3 * k
  BY <1>2, Zenon DEF SentPos, SentAt
<1>8. x.pos = 3 * n - 2 /\ x.msg = m1 /\ x.key = key
  <2>1. n \in Nat /\ n >= 1 /\ o \in Nat /\ SentPos(p) \in Nat
    BY <1>2, <1>5, Zenon
  <2> HIDE DEF n, o, m1, key
  <2> QED
    <3>1. n \in Nat /\ n >= 1 /\ o \in Nat /\ SentPos(p) \in Nat
      BY <1>6, <2>1, Zenon
    <3>2. m1 \in Messages /\ m1.kind = "kex" /\ key \in Keys
      BY <1>6, <2>1, Zenon
    <3> QED
      BY <3>1, <3>2, StampFacts
<1>9. y.pos = SigPos(n) /\ y.msg = m2 /\ y.key = key
  <2>1. n \in Nat /\ n >= 1 /\ o1 \in Nat /\ SentPos(p) \in Nat
    BY <1>2, <1>5, Zenon
  <2> HIDE DEF n, o1, m2, key
  <2> QED
    <3>1. n \in Nat /\ n >= 1 /\ o1 \in Nat /\ SentPos(p) \in Nat
      BY <1>6, <2>1, Zenon
    <3>2. m2 \in Messages /\ m2.kind = "sig" /\ key \in Keys
      BY <1>6, <2>1, Zenon
    <3> QED
      BY <3>1, <3>2, StampFacts
<1>10. Link(p, SentPos(p), x, n) /\ Link(p, x.pos, y, n)
  <2> HIDE DEF x, y, n, k
  <2> QED
    BY <1>5, <1>7, <1>8, <1>9, Zenon DEF Link, m1, m2, key
<1>11. InFlight(wire[p] \o Stamped(p, n, out), RcvdPos(q), sess[q].inseqno, p, n,
                SigPos(n), o1 + 1)
  <2> HIDE DEF k, n, o, o1, m1, m2, key, q, x, y
  <2>1. InFlight(wire[p] \o Stamped(p, n, out), RcvdPos(q), sess[q].inseqno, p, n,
                 y.pos, o1 + 1)
    BY <1>2, <1>5, <1>6, <1>10, EmitChainTwo, Zenon DEF x, y, Follows
  <2> QED
    BY <1>9, <2>1, Zenon
<1>12. RcvdAt("SIG", n) = rec.pos /\ SentAt("SIG", n) = SigPos(n)
  BY <1>2 DEF RcvdAt, SentAt
<1>13. "SIG" \in KexStates \ {"ZERO"} /\ ("SIG" = "ACK" => n > 1)
  BY Zenon DEF KexStates
<1> HIDE DEF n, o, o1, out
<1> QED
  BY <1>2, <1>3, <1>4, <1>5, <1>11, <1>12, <1>13, ReceivingPreserves, Zenon

\* Which state a position belongs to: the key exchange r a record continues
\* is the receiver's own, or the one after it.
LEMMA PositionFixesState ==
    ASSUME NEW state \in KexStates \ {"ZERO"}, NEW k \in Nat, k >= 1,
           state = "ACK" => k > 1, NEW r \in Nat, r >= 1
    PROVE  /\ RcvdAt(state, k) = 3 * r - 3 =>
                \/ state = "KEX" /\ r = k
                \/ state = "SECONDARY_KEX" /\ r = k + 1
           /\ RcvdAt(state, k) = 3 * r - 2 => state = "SIG" /\ r = k
           /\ RcvdAt(state, k) = 3 * r - 1 => state = "ACK" /\ r = k
<1>1. CASE state = "KEX"
  <2>1. RcvdAt(state, k) = 3 * k - 3
    BY <1>1, Zenon DEF RcvdAt
  <2> QED
    BY <1>1, <2>1
<1>2. CASE state = "SIG"
  <2>1. RcvdAt(state, k) = 3 * k - 2
    BY <1>2, Zenon DEF RcvdAt
  <2> QED
    BY <1>2, <2>1
<1>3. CASE state = "ACK"
  <2>1. RcvdAt(state, k) = 3 * k - 1
    BY <1>3, Zenon DEF RcvdAt
  <2> QED
    BY <1>3, <2>1
<1>4. CASE state = "SECONDARY_KEX"
  <2>1. RcvdAt(state, k) = 3 * k
    BY <1>4, Zenon DEF RcvdAt
  <2> QED
    BY <1>4, <2>1
<1> QED
  BY <1>1, <1>2, <1>3, <1>4, Zenon DEF KexStates

\* sptps_receive_data preserves the invariant, by the message at the head of
\* the wire.
LEMMA ReceivePreserves ==
    ASSUME HandshakeInv, NEW p \in Peers, Receive(p)
    PROVE  HandshakeInv'
<1> DEFINE q == Peer(p)
           k == kexes[p]
           rec == Arrived(p)
           state == sess[p].state
<1>1. /\ Link(q, RcvdPos(p), rec, kexes[q]) /\ kexes[q] \in Nat
      /\ state \in KexStates \ {"ZERO"} /\ k >= 1 /\ (state = "ACK" => k > 1)
  BY ArrivedFacts, Zenon
<1>2. k \in Nat /\ RcvdPos(p) = RcvdAt(state, k) /\ Peer(q) = p
  BY WireFacts, PeerFacts, Zenon DEF RcvdPos
<1>3. PICK r \in 1 .. kexes[q] :
        \/ /\ rec.msg = Kex(<<q, r>>)
           /\ RcvdPos(p) = 3 * r - 3 /\ rec.pos = 3 * r - 2
           /\ rec.key = OutKey(q, r - 1)
        \/ /\ rec.msg = Sig(Initiator(q), <<q, r>>, <<Peer(q), r>>)
           /\ RcvdPos(p) = 3 * r - 2 /\ rec.pos = SigPos(r)
           /\ rec.key = OutKey(q, r - 1)
        \/ /\ rec.msg = AckMsg /\ r > 1
           /\ RcvdPos(p) = 3 * r - 1 /\ rec.pos = 3 * r
           /\ rec.key = OutKey(q, r - 1)
        \/ /\ rec.msg.kind = "data"
           /\ rec.pos = RcvdPos(p) /\ RcvdPos(p) \in 3 * r .. 3 * r + 2
           /\ rec.key = OutKey(q, r)
  BY <1>1, Zenon DEF Link
<1>4. r \in Nat /\ r >= 1
  BY <1>1
<1>5. /\ RcvdPos(p) = 3 * r - 3 =>
           \/ state = "KEX" /\ r = k
           \/ state = "SECONDARY_KEX" /\ r = k + 1
      /\ RcvdPos(p) = 3 * r - 2 => state = "SIG" /\ r = k
      /\ RcvdPos(p) = 3 * r - 1 => state = "ACK" /\ r = k
  <2> HIDE DEF k, state
  <2> QED
    BY <1>1, <1>2, <1>4, PositionFixesState
<1>6. CASE /\ rec.msg = Kex(<<q, r>>)
           /\ RcvdPos(p) = 3 * r - 3 /\ rec.pos = 3 * r - 2
           /\ rec.key = OutKey(q, r - 1)
  <2>1. CASE state = "KEX" /\ r = k
    BY <1>6, <2>1, ReceiveKexInKexPreserves, Zenon
  <2>2. CASE state = "SECONDARY_KEX" /\ r = k + 1
    <3>1. r - 1 = k /\ 3 * r - 2 = 3 * k + 1
      BY <1>2, <2>2
    <3> QED
      BY <1>6, <2>2, <3>1, ReceiveKexIdlePreserves, Zenon
  <2> QED
    BY <1>5, <1>6, <2>1, <2>2, Zenon
<1>7. CASE /\ rec.msg = Sig(Initiator(q), <<q, r>>, <<Peer(q), r>>)
           /\ RcvdPos(p) = 3 * r - 2 /\ rec.pos = SigPos(r)
           /\ rec.key = OutKey(q, r - 1)
  <2>1. state = "SIG" /\ r = k
    BY <1>5, <1>7, Zenon
  <2>2. CASE k > 1
    BY <1>2, <1>7, <2>1, <2>2, ReceiveSigLaterPreserves, Zenon
  <2>3. CASE k = 1
    <3>1. r = 1 /\ r - 1 = 0
      BY <2>1, <2>3
    <3> QED
      BY <1>2, <1>7, <2>1, <2>3, <3>1, ReceiveSigFirstPreserves, Zenon
  <2> QED
    BY <1>1, <1>2, <2>2, <2>3
<1>8. CASE /\ rec.msg = AckMsg /\ r > 1
           /\ RcvdPos(p) = 3 * r - 1 /\ rec.pos = 3 * r
           /\ rec.key = OutKey(q, r - 1)
  BY <1>5, <1>8, ReceiveAckPreserves, Zenon
<1>9. CASE /\ rec.msg.kind = "data"
           /\ rec.pos = RcvdPos(p) /\ RcvdPos(p) \in 3 * r .. 3 * r + 2
           /\ rec.key = OutKey(q, r)
  BY <1>4, <1>9, ReceiveDataPreserves, Zenon
<1> QED
  BY <1>3, <1>6, <1>7, <1>8, <1>9, Zenon

\* The members of a session that the theorems below read.
LEMMA SessionFields ==
    ASSUME NEW p, NEW state, NEW k, NEW i, NEW o
    PROVE  /\ SessionAt(p, state, k, i, o).state = state
           /\ SessionAt(p, state, k, i, o).inseqno = i
           /\ SessionAt(p, state, k, i, o).outseqno = o
           /\ SessionAt(p, state, k, i, o).incipher = OutKey(Peer(p), InRound(state, k))
           /\ SessionAt(p, state, k, i, o).outcipher = OutKey(p, OutRound(state, k))
BY Zenon DEF SessionAt

\* Before sptps_start the invariant holds: no keys, nothing in flight.
LEMMA InitEstablishes ==
    ASSUME Init
    PROVE  HandshakeInv
<1>1. \A p \in Peers : /\ sess[p] = SessionAt(p, "ZERO", 0, 0, 0) /\ kexes[p] = 0
                       /\ wire[p] = <<>> /\ sent[p] = 0 /\ rcvd[p] = 0 /\ ~failed[p]
  BY AtZeroStart, Zenon DEF Init
<1>2. TypeOK
  <2>1. "ZERO" \in KexStates
    BY Zenon DEF KexStates
  <2>2. \A p \in Peers : SessionAt(p, "ZERO", 0, 0, 0) \in Sessions
    BY <2>1, SessionTyped, Zenon
  <2>3. sess \in [Peers -> Sessions]
    BY <1>1, <2>2, Zenon DEF Init
  <2>4. wire \in [Peers -> Seq(WireRecords)]
    BY DEF Init
  <2> QED
    BY <2>3, <2>4, Zenon DEF Init, TypeOK
<1>3. ASSUME NEW p \in Peers
      PROVE  /\ sess[p].state = "ZERO" /\ sess[p].inseqno = 0 /\ sess[p].outseqno = 0
             /\ kexes[p] = 0 /\ wire[p] = <<>> /\ ~failed[p]
             /\ SentPos(p) = 0 /\ RcvdPos(p) = 0
  <2>1. sess[p].state = "ZERO" /\ sess[p].inseqno = 0 /\ sess[p].outseqno = 0
    BY <1>1, SessionFields
  <2> QED
    BY <1>1, <2>1, Zenon DEF SentPos, RcvdPos, SentAt, RcvdAt
<1>4. ASSUME NEW p \in Peers PROVE SessionInv(p)
  BY <1>1, <1>3, Zenon DEF SessionInv
<1>5. ASSUME NEW p \in Peers PROVE WireInv(p)
  <2>1. Peer(p) \in Peers
    BY PeerFacts, Zenon
  <2>2. Len(wire[p]) = 0
    BY <1>3
  <2> QED
    BY <1>3, <2>1, <2>2 DEF WireInv, Chain, LastPos
<1> QED
  BY <1>2, <1>4, <1>5, Zenon DEF HandshakeInv

\* Every step of the two peers preserves the invariant.
LEMMA NextPreserves ==
    ASSUME HandshakeInv, [Next]_vars
    PROVE  HandshakeInv'
<1>1. CASE UNCHANGED vars
  <2>1. /\ sess' = sess /\ wire' = wire /\ kexes' = kexes /\ sent' = sent
        /\ rcvd' = rcvd /\ failed' = failed
    BY <1>1, Zenon DEF vars
  <2> QED
    BY <2>1, Zenon DEF HandshakeInv, TypeOK, SessionInv, WireInv, SentPos, RcvdPos
<1>2. CASE \E p \in Peers : Start(p)
  BY <1>2, StartPreserves, Zenon
<1>3. CASE \E p \in Peers : SendData(p)
  BY <1>3, SendDataPreserves, Zenon
<1>4. CASE \E p \in Peers : ForceKex(p)
  BY <1>4, ForceKexPreserves, Zenon
<1>5. CASE \E p \in Peers : Receive(p)
  BY <1>5, ReceivePreserves, Zenon
<1> QED
  BY <1>1, <1>2, <1>3, <1>4, <1>5, Zenon DEF Next

\* When nothing is in flight and both sessions are idle they have made the
\* same number of key exchanges, and so the same keys.
LEMMA InvImpliesKeyAgreement ==
    ASSUME HandshakeInv
    PROVE  KeyAgreement
<1> SUFFICES ASSUME \A p \in Peers : wire[p] = <<>> /\ sess[p].state = "SECONDARY_KEX"
             PROVE  /\ sess[Ini].outcipher = sess[Res].incipher
                    /\ sess[Res].outcipher = sess[Ini].incipher
                    /\ sess[Ini].outcipher # sess[Ini].incipher
  BY Zenon DEF KeyAgreement
<1>1. Ini \in Peers /\ Res \in Peers /\ Peer(Ini) = Res /\ Peer(Res) = Ini
  BY PeersDiffer, Zenon DEF Peers, Peer
<1>2. kexes[Ini] \in Nat /\ kexes[Res] \in Nat /\ kexes[Ini] # 0
  BY <1>1, WireFacts, Zenon
<1>3. kexes[Ini] = kexes[Res]
  <2>1. RcvdPos(Res) = 3 * kexes[Res] /\ SentPos(Ini) = 3 * kexes[Ini]
    BY <1>1, Zenon DEF RcvdPos, SentPos, RcvdAt, SentAt
  <2>2. WireInv(Ini) /\ wire[Ini] = <<>>
    BY <1>1, Zenon DEF HandshakeInv
  <2>3. RcvdPos(Res) = SentPos(Ini)
    BY <1>1, <2>2, Zenon DEF WireInv, LastPos
  <2> QED
    BY <1>2, <2>1, <2>3
<1>4. ASSUME NEW p \in Peers
      PROVE  /\ sess[p].outcipher = OutKey(p, kexes[p])
             /\ sess[p].incipher = OutKey(Peer(p), kexes[p])
  <2>1. sess[p] = SessionAt(p, "SECONDARY_KEX", kexes[p], sess[p].inseqno,
                            sess[p].outseqno)
    BY Zenon DEF HandshakeInv, SessionInv
  <2>2. /\ InRound("SECONDARY_KEX", kexes[p]) = kexes[p]
        /\ OutRound("SECONDARY_KEX", kexes[p]) = kexes[p]
    BY Zenon DEF InRound, OutRound
  <2> QED
    BY <2>1, <2>2, SessionFields
<1>5. OutKey(Ini, kexes[Ini]) # OutKey(Res, kexes[Ini])
  BY <1>2, PeersDiffer DEF OutKey, CipherKey
<1> QED
  BY <1>1, <1>3, <1>4, <1>5, Zenon

-----------------------------------------------------------------------------
\* Application records in flight.

\* A record that is sent is the last of those in flight.
LEMMA AppendPlaces ==
    ASSUME NEW S, NEW w \in Seq(S), NEW x \in S
    PROVE  /\ Len(w) \in Nat /\ DOMAIN w = 1 .. Len(w)
           /\ DOMAIN Append(w, x) = 1 .. Len(w) + 1
           /\ Append(w, x)[Len(w) + 1] = x
           /\ \A i \in 1 .. Len(w) : Append(w, x)[i] = w[i]
OBVIOUS

\* A handshake record that is sent leaves the application records as they are.
LEMMA OtherSent ==
    ASSUME NEW S, NEW w \in Seq(S), NEW x \in S, ~IsData(x),
           NEW lo \in Nat, NEW hi \in Nat, Numbered(w, lo, hi)
    PROVE  Numbered(Append(w, x), lo, hi)
<1> DEFINE n == Len(w)
           v == Append(w, x)
<1>1. /\ n \in Nat /\ DOMAIN w = 1 .. n /\ DOMAIN v = 1 .. n + 1 /\ v[n + 1] = x
      /\ \A i \in 1 .. n : v[i] = w[i]
  BY AppendPlaces
<1> HIDE DEF n, v
<1>2. \A i \in DOMAIN v : i \in DOMAIN w \/ ~IsData(v[i])
  BY <1>1
<1>3. \A i \in DOMAIN w : i \in DOMAIN v /\ v[i] = w[i]
  BY <1>1
<1> QED
  BY <1>2, <1>3, Zenon DEF Numbered, v

\* The next application record is numbered after all those in flight.
LEMMA DataSent ==
    ASSUME NEW S, NEW w \in Seq(S), NEW x \in S,
           NEW lo \in Nat, NEW hi \in Nat, Numbered(w, lo, hi), x.msg = Data(hi + 1)
    PROVE  Numbered(Append(w, x), lo, hi + 1)
<1> DEFINE n == Len(w)
           v == Append(w, x)
<1>1. /\ n \in Nat /\ DOMAIN w = 1 .. n /\ DOMAIN v = 1 .. n + 1 /\ v[n + 1] = x
      /\ \A i \in 1 .. n : v[i] = w[i]
  BY AppendPlaces
<1>2. IsData(x) /\ x.msg.n = hi + 1
  BY DEF IsData, Data
<1> HIDE DEF n, v
<1>3. ASSUME NEW i \in DOMAIN v, IsData(v[i])
      PROVE  v[i].msg.n \in lo + 1 .. hi + 1
  <2>1. CASE i = n + 1
    BY <1>1, <1>2, <2>1 DEF Numbered
  <2>2. CASE i \in 1 .. n
    <3>1. v[i] = w[i] /\ i \in DOMAIN w
      BY <1>1, <2>2, Zenon
    <3>2. w[i].msg.n \in lo + 1 .. hi
      BY <1>3, <3>1, Zenon DEF Numbered
    <3> QED
      BY <3>1, <3>2
  <2> QED
    BY <1>1, <2>1, <2>2
<1>4. ASSUME NEW i \in DOMAIN v, NEW j \in DOMAIN v, i < j, IsData(v[i]), IsData(v[j])
      PROVE  v[i].msg.n < v[j].msg.n
  <2>0. i \in 1 .. n /\ v[i] = w[i] /\ i \in DOMAIN w
    BY <1>1, <1>4
  <2>1. CASE j = n + 1
    <3>1. w[i].msg.n \in lo + 1 .. hi
      BY <1>4, <2>0, Zenon DEF Numbered
    <3>2. v[j].msg.n = hi + 1
      BY <1>1, <1>2, <2>1, Zenon
    <3> QED
      BY <2>0, <3>1, <3>2
  <2>2. CASE j \in 1 .. n
    BY <1>1, <1>4, <2>0, <2>2, Zenon DEF Numbered
  <2> QED
    BY <1>1, <2>1, <2>2
<1>5. ASSUME NEW m \in lo + 1 .. hi + 1
      PROVE  \E i \in DOMAIN v : IsData(v[i]) /\ v[i].msg.n = m
  <2>1. CASE m = hi + 1
    <3>1. n + 1 \in DOMAIN v
      BY <1>1
    <3> QED
      BY <1>1, <1>2, <2>1, <3>1, Zenon
  <2>2. CASE m \in lo + 1 .. hi
    <3>1. PICK i \in DOMAIN w : IsData(w[i]) /\ w[i].msg.n = m
      BY <2>2, Zenon DEF Numbered
    <3>2. i \in DOMAIN v /\ v[i] = w[i]
      BY <1>1, <3>1
    <3> QED
      BY <3>1, <3>2, Zenon
  <2> QED
    BY <2>1, <2>2
<1>6. lo <= hi + 1
  BY DEF Numbered
<1> QED
  BY <1>3, <1>4, <1>5, <1>6, Zenon DEF Numbered, v

\* The record that is received is the first of those in flight.
LEMMA TailPlaces ==
    ASSUME NEW S, NEW w \in Seq(S), w # <<>>
    PROVE  /\ Len(w) \in Nat /\ Len(w) >= 1 /\ DOMAIN w = 1 .. Len(w)
           /\ DOMAIN Tail(w) = 1 .. Len(w) - 1 /\ Head(w) = w[1]
           /\ \A i \in 1 .. Len(w) - 1 : Tail(w)[i] = w[i + 1]
OBVIOUS

\* The rest of the records in flight are in the same order.
LEMMA TailKeeps ==
    ASSUME NEW S, NEW w \in Seq(S), w # <<>>
    PROVE  /\ \A i \in DOMAIN Tail(w) : i + 1 \in DOMAIN w /\ Tail(w)[i] = w[i + 1]
           /\ \A i \in DOMAIN w :
                 \/ w[i] = Head(w) /\ i = 1
                 \/ \E j \in DOMAIN Tail(w) : j + 1 = i /\ Tail(w)[j] = w[i]
           /\ 1 \in DOMAIN w /\ Head(w) = w[1]
<1> DEFINE n == Len(w)
           v == Tail(w)
<1>1. /\ n \in Nat /\ n >= 1 /\ DOMAIN w = 1 .. n /\ DOMAIN v = 1 .. n - 1 /\ Head(w) = w[1]
      /\ \A i \in 1 .. n - 1 : v[i] = w[i + 1]
  BY TailPlaces, Zenon
<1> HIDE DEF n, v
<1>2. ASSUME NEW i \in DOMAIN w, i # 1
      PROVE  \E j \in DOMAIN v : j + 1 = i /\ v[j] = w[i]
  <2>1. i - 1 \in DOMAIN v /\ (i - 1) + 1 = i
    BY <1>1, <1>2
  <2>2. v[i - 1] = w[i]
    BY <1>1, <2>1, Zenon
  <2> QED
    BY <2>1, <2>2, Zenon
<1>3. \A i \in DOMAIN v : i + 1 \in DOMAIN w /\ v[i] = w[i + 1]
  BY <1>1
<1>4. 1 \in DOMAIN w
  BY <1>1
<1> QED
  BY <1>1, <1>2, <1>3, <1>4, Zenon DEF v

\* A handshake record that is received leaves the application records as they are.
LEMMA OtherReceived ==
    ASSUME NEW S, NEW w \in Seq(S), w # <<>>, ~IsData(Head(w)),
           NEW lo \in Nat, NEW hi \in Nat, Numbered(w, lo, hi)
    PROVE  Numbered(Tail(w), lo, hi)
<1> DEFINE v == Tail(w)
<1>1. /\ \A i \in DOMAIN v : i + 1 \in DOMAIN w /\ v[i] = w[i + 1]
      /\ \A i \in DOMAIN w :
            \/ w[i] = Head(w) /\ i = 1
            \/ \E j \in DOMAIN v : j + 1 = i /\ v[j] = w[i]
  BY TailKeeps, Zenon
<1>2. \A i, j \in DOMAIN v : i < j => i + 1 < j + 1
  BY TailPlaces
<1> HIDE DEF v
<1>3. \A i \in DOMAIN v : IsData(v[i]) => v[i].msg.n \in lo + 1 .. hi
  BY <1>1, Zenon DEF Numbered
<1>4. \A i, j \in DOMAIN v : i < j /\ IsData(v[i]) /\ IsData(v[j]) => v[i].msg.n < v[j].msg.n
  BY <1>1, <1>2, Zenon DEF Numbered
<1>5. ASSUME NEW m \in lo + 1 .. hi
      PROVE  \E i \in DOMAIN v : IsData(v[i]) /\ v[i].msg.n = m
  <2>1. PICK i \in DOMAIN w : IsData(w[i]) /\ w[i].msg.n = m
    BY Zenon DEF Numbered
  <2> QED
    BY <1>1, <2>1, Zenon
<1> QED
  BY <1>3, <1>4, <1>5, Zenon DEF Numbered, v

\* The first application record in flight is the next one to be received.
LEMMA DataReceived ==
    ASSUME NEW S, NEW w \in Seq(S), w # <<>>, IsData(Head(w)),
           NEW lo \in Nat, NEW hi \in Nat, Numbered(w, lo, hi)
    PROVE  /\ Head(w).msg.n = lo + 1
           /\ Numbered(Tail(w), lo + 1, hi)
<1> DEFINE v == Tail(w)
           h == w[1].msg.n
<1>1. /\ \A i \in DOMAIN v : i + 1 \in DOMAIN w /\ v[i] = w[i + 1]
      /\ \A i \in DOMAIN w :
            \/ w[i] = Head(w) /\ i = 1
            \/ \E j \in DOMAIN v : j + 1 = i /\ v[j] = w[i]
      /\ 1 \in DOMAIN w /\ Head(w) = w[1]
  BY TailKeeps, Zenon
<1>2. /\ \A i, j \in DOMAIN v : i < j => i + 1 < j + 1
      /\ \A i \in DOMAIN v : 1 < i + 1
      /\ \A i \in DOMAIN w : i # 1 => 1 < i
  BY TailPlaces
<1> HIDE DEF v, h
<1>3. IsData(w[1]) /\ h \in lo + 1 .. hi
  BY <1>1, Zenon DEF Numbered, h
<1>4. lo + 1 \in lo + 1 .. hi
  BY <1>3
<1>5. PICK f \in DOMAIN w : IsData(w[f]) /\ w[f].msg.n = lo + 1
  BY <1>4, Zenon DEF Numbered
<1>6. f = 1
  <2>1. ASSUME f # 1 PROVE h < lo + 1
    <3>1. 1 < f
      BY <1>2, <1>5, <2>1, Zenon
    <3>2. w[1].msg.n < w[f].msg.n
      BY <1>1, <1>3, <1>5, <3>1, Zenon DEF Numbered
    <3> QED
      BY <1>5, <3>2, Zenon DEF h
  <2> QED
    BY <1>3, <2>1
<1>7. h = lo + 1
  BY <1>5, <1>6, Zenon DEF h
<1>8. ASSUME NEW i \in DOMAIN v, IsData(v[i])
      PROVE  v[i].msg.n \in (lo + 1) + 1 .. hi
  <2>1. i + 1 \in DOMAIN w /\ IsData(w[i + 1]) /\ v[i] = w[i + 1] /\ 1 < i + 1
    BY <1>1, <1>2, <1>8, Zenon
  <2>2. w[i + 1].msg.n \in lo + 1 .. hi /\ h < w[i + 1].msg.n
    BY <1>1, <1>3, <2>1, Zenon DEF Numbered, h
  <2> DEFINE m == w[i + 1].msg.n
  <2>3. m \in lo + 1 .. hi /\ h < m /\ v[i].msg.n = m
    BY <2>1, <2>2, Zenon
  <2> HIDE DEF m
  <2>4. m \in (lo + 1) + 1 .. hi
    BY <1>7, <2>3
  <2> QED
    BY <2>3, <2>4, Zenon
<1>9. ASSUME NEW i \in DOMAIN v, NEW j \in DOMAIN v, i < j, IsData(v[i]), IsData(v[j])
      PROVE  v[i].msg.n < v[j].msg.n
  <2>1. /\ i + 1 \in DOMAIN w /\ j + 1 \in DOMAIN w /\ i + 1 < j + 1
        /\ v[i] = w[i + 1] /\ v[j] = w[j + 1]
    BY <1>1, <1>2, <1>9, Zenon
  <2> QED
    BY <1>9, <2>1, Zenon DEF Numbered
<1>10. ASSUME NEW m \in (lo + 1) + 1 .. hi
       PROVE  \E i \in DOMAIN v : IsData(v[i]) /\ v[i].msg.n = m
  <2>1. m \in lo + 1 .. hi /\ m # lo + 1
    OBVIOUS
  <2>2. PICK i \in DOMAIN w : IsData(w[i]) /\ w[i].msg.n = m
    BY <2>1, Zenon DEF Numbered
  <2>3. i # 1
    BY <1>7, <2>1, <2>2, Zenon DEF h
  <2> QED
    BY <1>1, <2>2, <2>3, Zenon
<1>11. lo + 1 <= hi
  BY <1>3
<1> QED
  BY <1>1, <1>7, <1>8, <1>9, <1>10, <1>11, Zenon DEF Numbered, v, h

-----------------------------------------------------------------------------
\* What the session functions hand to send_data().

\* Nothing, one or two handshake records.
HandshakeOnly(out) ==
    \/ out = <<>>
    \/ \E a : ~IsData(a) /\ out = <<a>>
    \/ \E a, b : ~IsData(a) /\ ~IsData(b) /\ out = <<a, b>>

\* At most one handshake record.
AtMostOne(out) == out = <<>> \/ \E a : ~IsData(a) /\ out = <<a>>

\* One record is sent by send_record_priv.
LEMMA OneSent ==
    ASSUME NEW s, NEW msg
    PROVE  /\ send_record_priv(s, msg).out = <<Record(s, msg)>>
           /\ send_record_priv(s, msg).ok
           /\ Record(s, msg).msg = msg
BY Zenon DEF send_record_priv, Record, Ok

\* A KEX, a SIG and an ACK are handshake records.
LEMMA HandshakeKinds ==
    ASSUME NEW s
    PROVE  /\ \A nonce : ~IsData(Record(s, Kex(nonce)))
           /\ \A tag, a, b : ~IsData(Record(s, Sig(tag, a, b)))
           /\ ~IsData(Record(s, AckMsg))
<1>1. \A msg : Record(s, msg).msg = msg
  BY OneSent, Zenon
<1>2. \A nonce : Kex(nonce).kind # "data"
  BY Zenon DEF Kex
<1>3. \A tag, a, b : Sig(tag, a, b).kind # "data"
  BY Zenon DEF Sig
<1>4. AckMsg.kind # "data"
  BY Zenon DEF AckMsg
<1>5. \A nonce : ~IsData(Record(s, Kex(nonce)))
  BY <1>1, <1>2, Zenon DEF IsData
<1>6. \A tag, a, b : ~IsData(Record(s, Sig(tag, a, b)))
  BY <1>1, <1>3 DEF IsData
<1>7. ~IsData(Record(s, AckMsg))
  BY <1>1, <1>4, Zenon DEF IsData
<1> QED
  BY <1>5, <1>6, <1>7, Zenon

\* send_kex, send_sig and send_ack send a handshake record, or fail.
LEMMA HandshakeSent ==
    ASSUME NEW s
    PROVE  /\ \A nonce : AtMostOne(send_kex(s, nonce).out)
           /\ AtMostOne(send_sig(s).out) /\ AtMostOne(send_ack(s).out)
<1>1. AtMostOne(Fail(s).out)
  BY Zenon DEF Fail, AtMostOne
<1>2. ASSUME NEW nonce PROVE AtMostOne(send_kex(s, nonce).out)
  <2> DEFINE t == [s EXCEPT !.mykex = nonce]
  <2>1. send_record_priv(t, Kex(nonce)).out = <<Record(t, Kex(nonce))>>
    BY OneSent, Zenon
  <2>2. ~IsData(Record(t, Kex(nonce)))
    BY HandshakeKinds, Zenon
  <2>3. send_kex(s, nonce) = IF s.mykex # None THEN Fail(s) ELSE send_record_priv(t, Kex(nonce))
    BY Zenon DEF send_kex
  <2> HIDE DEF t
  <2> QED
    BY <1>1, <2>1, <2>2, <2>3, Zenon DEF AtMostOne
<1>3. ASSUME NEW msg, ~IsData(Record(s, msg))
      PROVE  AtMostOne(send_record_priv(s, msg).out)
  BY <1>3, OneSent, Zenon DEF AtMostOne
<1>4. AtMostOne(send_sig(s).out) /\ AtMostOne(send_ack(s).out)
  BY <1>3, HandshakeKinds, Zenon DEF send_sig, send_ack
<1> QED
  BY <1>2, <1>4, Zenon

\* The handlers of the handshake states answer with handshake records.
LEMMA KexAnswers ==
    ASSUME NEW s, NEW msg PROVE AtMostOne(ReceiveInKex(s, msg).out)
<1>1. AtMostOne(receive_kex(s, msg).out)
  <2>1. AtMostOne(Fail(s).out)
    BY Zenon DEF Fail, AtMostOne
  <2>2. AtMostOne(send_sig([s EXCEPT !.hiskex = msg.nonce]).out)
    BY HandshakeSent, Zenon
  <2> QED
    BY <2>1, <2>2, Zenon DEF receive_kex
<1>2. \A t, out : Ok(t, out).out = out
  BY Zenon DEF Ok
<1> QED
  BY <1>1, <1>2, Zenon DEF ReceiveInKex

\* So does a SIG, which an ACK may answer.
LEMMA SigAnswers ==
    ASSUME NEW s, NEW msg PROVE AtMostOne(ReceiveInSig(s, msg).out)
<1>1. \A t, out : Ok(t, out).out = out
  BY Zenon DEF Ok
<1>2. AtMostOne(Fail(s).out) /\ AtMostOne(<<>>)
  BY Zenon DEF Fail, AtMostOne
<1>3. AtMostOne(receive_sig(s, msg).out)
  <2> DEFINE acked == IF s.outstate THEN send_ack(KeyedSession(s)) ELSE Ok(KeyedSession(s), <<>>)
  <2>1. AtMostOne(acked.out)
    BY <1>1, <1>2, HandshakeSent, Zenon
  <2>2. receive_sig(s, msg) = IF msg # Sig(~s.initiator, s.hiskex, s.mykex) THEN Fail(s)
                              ELSE Ok(SetOutCipher(acked.s), acked.out)
    BY Zenon DEF receive_sig
  <2> HIDE DEF acked
  <2> QED
    BY <1>1, <1>2, <2>1, <2>2, Zenon
<1> DEFINE r == receive_sig(s, msg)
<1>4. ReceiveInSig(s, msg).out = r.out
  <2>1. CASE ~r.ok
    BY <2>1, Zenon DEF ReceiveInSig
  <2>2. CASE r.ok /\ s.outstate
    BY <1>1, <2>2, Zenon DEF ReceiveInSig
  <2>3. CASE r.ok /\ ~s.outstate
    BY <1>1, <2>3, Zenon DEF ReceiveInSig
  <2> QED
    BY <2>1, <2>2, <2>3, Zenon
<1> QED
  BY <1>3, <1>4, Zenon

\* Two answers, one after the other.
LEMMA TwoAnswers ==
    ASSUME NEW a, NEW b, AtMostOne(a), AtMostOne(b)
    PROVE  HandshakeOnly(a \o b)
<1>1. CASE a = <<>> /\ b = <<>>
  <2>1. <<>> \o <<>> = <<>>
    OBVIOUS
  <2> QED
    BY <1>1, <2>1, Zenon DEF HandshakeOnly
<1>2. ASSUME NEW x, ~IsData(x), a = <<x>>, b = <<>> PROVE HandshakeOnly(a \o b)
  <2>1. <<x>> \o <<>> = <<x>>
    OBVIOUS
  <2> QED
    BY <1>2, <2>1, Zenon DEF HandshakeOnly
<1>3. ASSUME NEW x, ~IsData(x), b = <<x>>, a = <<>> PROVE HandshakeOnly(a \o b)
  <2>1. <<>> \o <<x>> = <<x>>
    OBVIOUS
  <2> QED
    BY <1>3, <2>1, Zenon DEF HandshakeOnly
<1>4. ASSUME NEW x, NEW y, ~IsData(x), ~IsData(y), a = <<x>>, b = <<y>>
      PROVE  HandshakeOnly(a \o b)
  <2>1. x \in {x, y} /\ y \in {x, y}
    BY Zenon
  <2>2. <<x>> \o <<y>> = <<x, y>>
    BY <2>1, PairConcat, Zenon
  <2> QED
    BY <1>4, <2>2, Zenon DEF HandshakeOnly
<1> QED
  BY <1>1, <1>2, <1>3, <1>4, Zenon DEF AtMostOne

\* Whatever sptps_receive_data answers, it is the handshake's.
LEMMA ReceiveAnswers ==
    ASSUME NEW s, NEW rec, NEW nonce, s.state \in KexStates
    PROVE  HandshakeOnly(sptps_receive_data(s, rec, nonce).out)
<1>1. /\ \A out : AtMostOne(out) => HandshakeOnly(out)
      /\ \A t : HandshakeOnly(Fail(t).out)
      /\ \A t : HandshakeOnly(Ok(t, <<>>).out)
  BY Zenon DEF HandshakeOnly, AtMostOne, Ok, Fail
<1>2. ASSUME NEW t, NEW msg
      PROVE  HandshakeOnly(receive_handshake(t, msg, nonce).out)
  <2>1. HandshakeOnly(ReceiveInSecondaryKex(t, msg, nonce).out)
    <3> DEFINE k == send_kex(t, nonce)
               r == ReceiveInKex(k.s, msg)
    <3>1. AtMostOne(k.out) /\ AtMostOne(r.out)
      BY HandshakeSent, KexAnswers, Zenon
    <3>2. ReceiveInSecondaryKex(t, msg, nonce) =
            IF k.ok THEN [ok |-> r.ok, s |-> r.s, out |-> k.out \o r.out] ELSE k
      BY Zenon DEF ReceiveInSecondaryKex
    <3> HIDE DEF k, r
    <3>3. HandshakeOnly(k.out \o r.out)
      BY <3>1, TwoAnswers, Zenon
    <3> DEFINE both == k.out \o r.out
    <3>4. [ok |-> r.ok, s |-> r.s, out |-> both].out = both
      BY Zenon
    <3> HIDE DEF both
    <3> QED
      BY <1>1, <3>1, <3>2, <3>3, <3>4, Zenon DEF both
  <2>2. HandshakeOnly(ReceiveInKex(t, msg).out) /\ HandshakeOnly(ReceiveInSig(t, msg).out)
    BY <1>1, KexAnswers, SigAnswers, Zenon
  <2>3. HandshakeOnly(ReceiveInAck(t, msg).out)
    BY <1>1, Zenon DEF ReceiveInAck
  <2>4. \/ receive_handshake(t, msg, nonce) = ReceiveInSecondaryKex(t, msg, nonce)
        \/ receive_handshake(t, msg, nonce) = ReceiveInKex(t, msg)
        \/ receive_handshake(t, msg, nonce) = ReceiveInSig(t, msg)
        \/ receive_handshake(t, msg, nonce) = ReceiveInAck(t, msg)
        \/ receive_handshake(t, msg, nonce) = Fail(t)
    BY Zenon DEF receive_handshake
  <2> QED
    BY <1>1, <2>1, <2>2, <2>3, <2>4, Zenon
<1> DEFINE t == [s EXCEPT !.inseqno = @ + 1]
<1>3. \/ sptps_receive_data(s, rec, nonce) = Fail(s)
      \/ sptps_receive_data(s, rec, nonce) = Fail(t)
      \/ sptps_receive_data(s, rec, nonce) = receive_handshake(t, rec.msg, nonce)
      \/ sptps_receive_data(s, rec, nonce) = Ok(t, <<>>)
  <2> HIDE DEF t
  <2> QED
    BY Zenon DEF sptps_receive_data, t
<1> HIDE DEF t
<1> QED
  BY <1>1, <1>2, <1>3, Zenon

-----------------------------------------------------------------------------
\* The application records in flight, by the steps of the two peers.

\* A record is an application record on the wire if it was one before.
LEMMA StampedOnly ==
    ASSUME NEW p, NEW k, NEW out, HandshakeOnly(out)
    PROVE  HandshakeOnly(Stamped(p, k, out))
<1>1. \A a : ~IsData(a) => ~IsData(Stamp(p, k, a))
  BY Zenon DEF IsData, Stamp
<1>2. Stamped(p, k, <<>>) = <<>>
  BY DEF Stamped
<1>3. \A a : Stamped(p, k, <<a>>) = <<Stamp(p, k, a)>>
  BY DEF Stamped
<1>4. \A a, b : Stamped(p, k, <<a, b>>) = <<Stamp(p, k, a), Stamp(p, k, b)>>
  BY DEF Stamped
<1>5. CASE out = <<>>
  BY <1>2, <1>5, Zenon DEF HandshakeOnly
<1>6. ASSUME NEW a, ~IsData(a), out = <<a>> PROVE HandshakeOnly(Stamped(p, k, out))
  BY <1>1, <1>3, <1>6, Zenon DEF HandshakeOnly
<1>7. ASSUME NEW a, NEW b, ~IsData(a), ~IsData(b), out = <<a, b>>
      PROVE  HandshakeOnly(Stamped(p, k, out))
  BY <1>1, <1>4, <1>7, ZenonT(30) DEF HandshakeOnly
<1> QED
  BY <1>5, <1>6, <1>7, Zenon DEF HandshakeOnly

\* Handshake records that are sent leave the application records as they are.
LEMMA OnlySent ==
    ASSUME NEW T, NEW w \in Seq(T), NEW out, HandshakeOnly(out),
           NEW lo \in Nat, NEW hi \in Nat, Numbered(w, lo, hi)
    PROVE  Numbered(w \o out, lo, hi)
<1>1. CASE out = <<>>
  <2>1. w \o <<>> = w
    OBVIOUS
  <2> QED
    BY <1>1, <2>1, Zenon
<1>2. ASSUME NEW a, ~IsData(a), out = <<a>> PROVE Numbered(w \o out, lo, hi)
  <2> DEFINE S == T \cup {a}
  <2>1. w \in Seq(S) /\ a \in S
    OBVIOUS
  <2>2. w \o <<a>> = Append(w, a)
    BY <2>1
  <2> HIDE DEF S
  <2>3. Numbered(Append(w, a), lo, hi)
    BY <1>2, <2>1, OtherSent, Zenon
  <2> QED
    BY <1>2, <2>2, <2>3, Zenon
<1>3. ASSUME NEW a, NEW b, ~IsData(a), ~IsData(b), out = <<a, b>>
      PROVE  Numbered(w \o out, lo, hi)
  <2> DEFINE S == T \cup {a, b}
             v == Append(w, a)
  <2>1. w \in Seq(S) /\ a \in S /\ b \in S
    OBVIOUS
  <2> HIDE DEF S
  <2>2. w \o <<a, b>> = Append(v, b)
    <3>1. <<a>> \o <<b>> = <<a, b>>
      BY <2>1, PairConcat, Zenon
    <3>2. w \o (<<a>> \o <<b>>) = (w \o <<a>>) \o <<b>>
      BY <2>1, ConcatAssociative
    <3>3. w \o <<a>> = v /\ v \in Seq(S)
      BY <2>1
    <3> HIDE DEF v
    <3>4. v \o <<b>> = Append(v, b)
      BY <2>1, <3>3
    <3> QED
      BY <3>1, <3>2, <3>3, <3>4, Zenon
  <2>3. v \in Seq(S)
    BY <2>1
  <2>4. Numbered(v, lo, hi)
    BY <1>3, <2>1, OtherSent, Zenon
  <2> HIDE DEF v
  <2>5. Numbered(Append(v, b), lo, hi)
    BY <1>3, <2>1, <2>3, <2>4, OtherSent, Zenon
  <2> QED
    BY <1>3, <2>2, <2>5, Zenon
<1> QED
  BY <1>1, <1>2, <1>3, Zenon DEF HandshakeOnly

\* What p and its peer have in flight, and have sent and received.
LEMMA DataTypes ==
    ASSUME TypeOK, DataInv, NEW p \in Peers
    PROVE  /\ wire[p] \in Seq(WireRecords) /\ sent[p] \in Nat /\ rcvd[Peer(p)] \in Nat
           /\ Numbered(wire[p], rcvd[Peer(p)], sent[p])
BY PeerFacts, Zenon DEF TypeOK, DataInv

\* A step of p that puts handshake records on the wire, or nothing.
LEMMA HandshakeStep ==
    ASSUME TypeOK, DataInv, NEW p \in Peers, NEW k, NEW out, HandshakeOnly(out),
           wire' = [wire EXCEPT ![p] = @ \o Stamped(p, k, out)], UNCHANGED <<sent, rcvd>>
    PROVE  DataInv'
<1> SUFFICES ASSUME NEW r \in Peers PROVE Numbered(wire'[r], rcvd[Peer(r)], sent[r])
  BY Zenon DEF DataInv
<1>1. CASE r = p
  <2>1. wire'[p] = wire[p] \o Stamped(p, k, out)
    BY Zenon DEF TypeOK
  <2> QED
    BY <1>1, <2>1, DataTypes, StampedOnly, OnlySent, Zenon
<1>2. CASE r # p
  <2>1. wire'[r] = wire[r]
    BY <1>2, Zenon DEF TypeOK
  <2> QED
    BY <2>1, DataTypes, Zenon
<1> QED
  BY <1>1, <1>2, Zenon

\* sptps_start and sptps_force_kex send a KEX.
LEMMA StartKeepsData ==
    ASSUME TypeOK, DataInv, NEW p \in Peers, Start(p) \/ ForceKex(p)
    PROVE  DataInv'
<1>1. \A out : AtMostOne(out) => HandshakeOnly(out)
  BY Zenon DEF HandshakeOnly, AtMostOne
<1>2. CASE Start(p)
  <2> DEFINE out == sptps_start(Initiator(p), NextNonce(p)).out
  <2>1. HandshakeOnly(out)
    BY <1>1, HandshakeSent, Zenon DEF sptps_start
  <2>2. /\ wire' = [wire EXCEPT ![p] = @ \o Stamped(p, kexes[p] + 1, out)]
        /\ UNCHANGED <<sent, rcvd>>
    BY <1>2, Zenon DEF Start
  <2> HIDE DEF out
  <2> QED
    BY <2>1, <2>2, HandshakeStep, Zenon
<1>3. CASE ForceKex(p)
  <2> DEFINE out == sptps_force_kex(sess[p], NextNonce(p)).out
             s == [sess[p] EXCEPT !.state = "KEX"]
  <2>1. sptps_force_kex(sess[p], NextNonce(p)) = send_kex(s, NextNonce(p))
    BY <1>3 DEF sptps_force_kex, ForceKex
  <2>2. HandshakeOnly(out)
    BY <1>1, <2>1, HandshakeSent, Zenon
  <2>3. /\ wire' = [wire EXCEPT ![p] = @ \o Stamped(p, kexes[p] + 1, out)]
        /\ UNCHANGED <<sent, rcvd>>
    BY <1>3, Zenon DEF ForceKex
  <2> HIDE DEF out
  <2> QED
    BY <2>2, <2>3, HandshakeStep, Zenon
<1> QED
  BY <1>2, <1>3, Zenon

\* sptps_send_record sends the next application record.
LEMMA SendKeepsData ==
    ASSUME TypeOK, DataInv, NEW p \in Peers, SendData(p)
    PROVE  DataInv'
<1> DEFINE m == sent[p] + 1
           a == Record(sess[p], Data(m))
           x == Stamp(p, kexes[p], a)
           w == wire[p]
<1>1. sptps_send_record(sess[p], m).out = <<a>> /\ a.msg = Data(m)
  BY OneSent, Zenon DEF sptps_send_record, SendData
<1>2. /\ wire' = [wire EXCEPT ![p] = @ \o Stamped(p, kexes[p], <<a>>)]
      /\ sent' = [sent EXCEPT ![p] = m] /\ rcvd' = rcvd
  BY <1>1, Zenon DEF SendData
<1> HIDE DEF a
<1>3. Stamped(p, kexes[p], <<a>>) = <<x>>
  BY DEF Stamped
<1>4. x.msg = Data(m)
  BY <1>1, Zenon DEF Stamp
<1> HIDE DEF x
<1>5. wire'[p] = w \o <<x>> /\ sent'[p] = m
  BY <1>2, <1>3, Zenon DEF TypeOK
<1>6. /\ w \in Seq(WireRecords) /\ sent[p] \in Nat /\ rcvd[Peer(p)] \in Nat
      /\ Numbered(w, rcvd[Peer(p)], sent[p])
  BY DataTypes, Zenon
<1> DEFINE S == WireRecords \cup {x}
<1> HIDE DEF w
<1>7. w \in Seq(S) /\ x \in S
  BY <1>6
<1> HIDE DEF S
<1>8. w \o <<x>> = Append(w, x)
  BY <1>7
<1>9. Numbered(wire'[p], rcvd'[Peer(p)], sent'[p])
  BY <1>2, <1>4, <1>5, <1>6, <1>7, <1>8, DataSent, Zenon
<1>10. ASSUME NEW r \in Peers, r # p PROVE Numbered(wire'[r], rcvd'[Peer(r)], sent'[r])
  <2>1. wire'[r] = wire[r] /\ sent'[r] = sent[r] /\ rcvd' = rcvd
    BY <1>2, <1>10, Zenon DEF TypeOK
  <2> QED
    BY <2>1, DataTypes, Zenon
<1> QED
  BY <1>9, <1>10, Zenon DEF DataInv

\* sptps_receive_data takes the next application record, or answers a handshake
\* record with others.
LEMMA ReceiveKeepsData ==
    ASSUME TypeOK, DataInv, NEW p \in Peers, Receive(p), Result(p).ok
    PROVE  /\ DataInv'
           /\ Arrived(p).msg.kind = "data" => rcvd'[p] = rcvd[p] + 1
<1> DEFINE q == Peer(p)
           out == Stamped(p, KexesAfter(p), Result(p).out)
           v == wire[q]
<1>1. q \in Peers /\ q # p /\ Peer(q) = p
  BY PeerFacts, Zenon
<1>2. HandshakeOnly(out)
  <2>1. sess[p].state \in KexStates
    BY Zenon DEF TypeOK, Sessions
  <2>2. HandshakeOnly(Result(p).out)
    BY <2>1, ReceiveAnswers, Zenon DEF Result
  <2> QED
    BY <2>2, StampedOnly, Zenon
<1>3. /\ v # <<>> /\ Arrived(p) = Head(v)
      /\ wire' = [wire EXCEPT ![q] = Tail(@), ![p] = @ \o out]
      /\ rcvd' = [rcvd EXCEPT ![p] = IF Arrived(p).msg.kind = "data" THEN Arrived(p).msg.n ELSE @]
      /\ sent' = sent
  BY Zenon DEF Receive, Arrived
<1> HIDE DEF out
<1>4. wire'[p] = wire[p] \o out /\ wire'[q] = Tail(v) /\ rcvd'[q] = rcvd[q]
  BY <1>1, <1>3, Zenon DEF TypeOK
<1>5. rcvd'[p] = IF IsData(Head(v)) THEN Head(v).msg.n ELSE rcvd[p]
  BY <1>3, Zenon DEF TypeOK, IsData
<1>6. /\ v \in Seq(WireRecords) /\ sent[q] \in Nat /\ rcvd[p] \in Nat
      /\ Numbered(v, rcvd[p], sent[q])
  BY <1>1, DataTypes, Zenon
<1>7. /\ wire[p] \in Seq(WireRecords) /\ sent[p] \in Nat /\ rcvd[q] \in Nat
      /\ Numbered(wire[p], rcvd[q], sent[p])
  BY <1>1, DataTypes, Zenon
<1>8. Numbered(wire'[p], rcvd'[q], sent'[p])
  BY <1>2, <1>3, <1>4, <1>7, OnlySent, ZenonT(30)
<1> HIDE DEF v
<1>9. CASE IsData(Head(v))
  <2>1. Head(v).msg.n = rcvd[p] + 1 /\ Numbered(Tail(v), rcvd[p] + 1, sent[q])
    BY <1>3, <1>6, <1>9, DataReceived, Zenon
  <2>2. rcvd'[p] = rcvd[p] + 1 /\ Numbered(wire'[q], rcvd'[p], sent'[q])
    BY <1>3, <1>4, <1>5, <1>9, <2>1, Zenon
  <2> QED
    BY <1>1, <1>8, <2>2, Zenon DEF DataInv, Peers, Peer
<1>10. CASE ~IsData(Head(v))
  <2>1. Numbered(Tail(v), rcvd[p], sent[q])
    BY <1>3, <1>6, <1>10, OtherReceived, Zenon
  <2>2. Numbered(wire'[q], rcvd'[p], sent'[q])
    BY <1>3, <1>4, <1>5, <1>10, <2>1, Zenon
  <2> QED
    BY <1>1, <1>3, <1>8, <1>10, <2>2, Zenon DEF DataInv, Peers, Peer, IsData
<1> QED
  BY <1>9, <1>10, Zenon

-----------------------------------------------------------------------------
\* The theorems.

\* The inductive invariant holds in every state, for any two peers and any
\* number of key exchanges and application records.
THEOREM HandshakeInvariant == Spec => []HandshakeInv
<1>1. Init => HandshakeInv
  BY InitEstablishes, Zenon
<1>2. HandshakeInv /\ [Next]_vars => HandshakeInv'
  BY NextPreserves, Zenon
<1> QED
  BY <1>1, <1>2, PTL DEF Spec

\* Type correctness of the two sessions, the wires and the counters.
THEOREM TypeCorrect == Spec => []TypeOK
<1>1. HandshakeInv => TypeOK
  BY Zenon DEF HandshakeInv
<1> QED
  BY <1>1, HandshakeInvariant, PTL

\* sptps_receive_data never returns false on what an honest peer sent,
\* however many key exchanges cross each other and the application's records.
THEOREM ReceiveNeverFails == Spec => []NoFailure
<1>1. HandshakeInv => NoFailure
  BY Zenon DEF HandshakeInv, SessionInv, NoFailure
<1> QED
  BY <1>1, HandshakeInvariant, PTL

\* Two idle sessions with nothing in flight hold matching keys, a different
\* one in each direction.
THEOREM KeysAgree == Spec => []KeyAgreement
<1>1. HandshakeInv => KeyAgreement
  BY InvImpliesKeyAgreement, Zenon
<1> QED
  BY <1>1, HandshakeInvariant, PTL

\* Application records are received in the order in which they were sent, none
\* skipped and none twice, however many of them and of key exchanges there are.
THEOREM DeliveredInOrder == Spec => InOrderDelivery
<1>1. Init => DataInv
  <2> SUFFICES ASSUME Init, NEW p \in Peers PROVE Numbered(wire[p], rcvd[Peer(p)], sent[p])
    BY Zenon DEF DataInv
  <2>1. wire[p] = <<>> /\ rcvd[Peer(p)] = 0 /\ sent[p] = 0
    BY PeerFacts, Zenon DEF Init
  <2>2. Numbered(<<>>, 0, 0)
    BY DEF Numbered
  <2> QED
    BY <2>1, <2>2, Zenon
<1> DEFINE Ordered == \A p \in Peers : Receive(p) /\ Arrived(p).msg.kind = "data"
                                       => rcvd'[p] = rcvd[p] + 1
<1>2. ASSUME HandshakeInv, HandshakeInv', NEW p \in Peers, Receive(p) PROVE Result(p).ok
  <2>1. failed'[p] = ~Result(p).ok
    BY <1>2, Zenon DEF Receive, HandshakeInv, TypeOK
  <2>2. ~failed'[p]
    BY <1>2, Zenon DEF HandshakeInv, SessionInv
  <2> QED
    BY <2>1, <2>2, Zenon
<1>3. ASSUME HandshakeInv, HandshakeInv', DataInv, [Next]_vars PROVE DataInv'
  <2>1. TypeOK
    BY <1>3, Zenon DEF HandshakeInv
  <2>2. CASE UNCHANGED vars
    BY <1>3, <2>2, Zenon DEF vars, DataInv
  <2>3. CASE Next
    BY <1>2, <1>3, <2>1, <2>3, StartKeepsData, SendKeepsData, ReceiveKeepsData, Zenon DEF Next
  <2> QED
    BY <1>3, <2>2, <2>3, Zenon
<1>4. ASSUME HandshakeInv, HandshakeInv', DataInv PROVE Ordered
  BY <1>2, <1>4, ReceiveKeepsData, Zenon DEF HandshakeInv
<1>5. HandshakeInv /\ HandshakeInv' /\ DataInv => [Ordered]_vars
  BY <1>4, Zenon
<1>6. Spec => []HandshakeInv
  BY HandshakeInvariant, Zenon
<1>7. HandshakeInv /\ HandshakeInv' /\ DataInv /\ [Next]_vars => DataInv'
  BY <1>3, Zenon
<1> QED
  BY <1>1, <1>5, <1>6, <1>7, PTL DEF Spec, InOrderDelivery
=============================================================================
