------------------------- MODULE SptpsReplayProofs --------------------------
(***************************************************************************)
(* Proofs about SptpsReplay, for windows and counters of any size.         *)
(***************************************************************************)
EXTENDS SptpsReplay, TLAPS

\* The provers get 30 seconds for a leaf, however busy the machine is.
USE SMTT(30), ZenonT(30)

\* Two different numbers of one window have different bits in the bitmap.
LEMMA BitsDiffer ==
    ASSUME NEW W \in Nat \ {0}, NEW a \in Nat, NEW b \in Nat, a < b, b < a + W
    PROVE  a % W # b % W
<1>1. SUFFICES ASSUME a % W = b % W PROVE FALSE
  BY Zenon
<1> DEFINE qa == a \div W
           qb == b \div W
<1>2. a = W * qa + (a % W) /\ qa \in Int /\ a % W \in Int
  OBVIOUS
<1>3. b = W * qb + (b % W) /\ qb \in Int /\ b % W \in Int
  OBVIOUS
<1> HIDE DEF qa, qb
<1>4. b - a = W * (qb - qa)
  BY <1>1, <1>2, <1>3
<1>5. qb - qa >= 1
  <2>1. ASSUME qb - qa <= 0 PROVE FALSE
    <3>1. W * (qb - qa) <= 0
      BY <2>1, <1>2, <1>3
    <3> QED
      BY <3>1, <1>4
  <2> QED
    BY <2>1, <1>2, <1>3
<1>6. W * (qb - qa) >= W
  BY <1>5, <1>2, <1>3
<1> QED
  BY <1>4, <1>6

\* Two sequence numbers less than a window apart have different bits.
LEMMA DifferentBits ==
    ASSUME NEW a \in Nat, NEW b \in Nat, a # b, a < b + Win, b < a + Win
    PROVE  a % Win # b % Win
<1>1. CASE a < b
  BY <1>1, BitsDiffer, WinAssumption, Zenon
<1>2. CASE b < a
  <2>1. b % Win # a % Win
    BY <1>2, BitsDiffer, WinAssumption, Zenon
  <2> QED
    BY <2>1, Zenon
<1> QED
  BY <1>1, <1>2

\* The bit of a sequence number is a bit of the window.
LEMMA BitInRange ==
    ASSUME NEW a \in Nat
    PROVE  a % Win \in Bits
BY WinAssumption DEF Bits

\* The sender stays clear of the point where inseqno + Win wraps around.
NoWrap == MaxSent + Win < SeqMod

\* Below the wrap, sequence numbers are plain numbers.
LEMMA NoWrapArithmetic ==
    ASSUME NoWrap, NEW n \in Nat, n <= MaxSent
    PROVE  /\ n % SeqMod = n
           /\ (n + Win) % SeqMod = n + Win
BY WinAssumption, SeqModAssumption, MaxSentAssumption DEF NoWrap

\* Every accepted datagram leaves the window invariant intact, whatever the
\* bitmap the tests left, as long as that bitmap is right below inseqno'.
LEMMA TakePreserves ==
    ASSUME NoWrap, WindowInv, instate,
           NEW d \in Plain .. outcount - 1,
           accepted[d] = 0,
           NEW bitmap \in [Bits -> BOOLEAN],
           \A x \in Plain .. MaxSent - 1 :
               /\ x # d
               /\ x < (IF d >= inseqno THEN d + 1 ELSE inseqno)
               /\ (IF d >= inseqno THEN d + 1 ELSE inseqno) <= x + Win
               => (bitmap[x % Win] <=> accepted[x] = 0),
           Take(d, bitmap),
           d < inseqno => inseqno <= d + Win
    PROVE  WindowInv'
<1> USE WinAssumption, SeqModAssumption, MaxSentAssumption DEF Plain
<1> DEFINE next == IF d >= inseqno THEN d + 1 ELSE inseqno
<1>1. /\ d \in Nat /\ d < MaxSent /\ inseqno \in Nat /\ outcount \in Nat
      /\ outcount <= MaxSent /\ SeqnoOf(d) = d /\ (d + 1) % SeqMod = d + 1
  BY NoWrapArithmetic DEF WindowInv, TypeOK, SeqnoOf
<1>2. d % Win \in Bits
  BY <1>1, BitInRange, Zenon
<1>3. /\ late' = [bitmap EXCEPT ![d % Win] = FALSE]
      /\ inseqno' = next
      /\ accepted' = [accepted EXCEPT ![d] = @ + 1]
      /\ outcount' = outcount /\ instate' = instate
  BY <1>1, Zenon DEF Take, Accept
<1>4. next \in Nat /\ next <= outcount /\ next >= Plain /\ d < next
  BY <1>1 DEF WindowInv
<1>5. TypeOK'
  <2>1. received' \in 0 .. SeqMod - 1
    BY <1>1 DEF Take, WindowInv, TypeOK
  <2>2. accepted' \in [0 .. MaxSent - 1 -> Nat]
    BY <1>1, <1>3 DEF WindowInv, TypeOK
  <2>3. late' \in [Bits -> BOOLEAN]
    BY <1>2, <1>3, Zenon
  <2> QED
    BY <2>1, <2>2, <2>3, <1>1, <1>3, <1>4 DEF WindowInv, TypeOK, NoWrap
<1>6. \A x \in 0 .. MaxSent - 1 :
        accepted'[x] <= 1 /\ (x >= inseqno' => accepted'[x] = 0)
  BY <1>1, <1>3, <1>4 DEF WindowInv, TypeOK
<1>7. ASSUME NEW x \in Plain .. MaxSent - 1, x < inseqno', inseqno' <= x + Win
      PROVE  late'[x % Win] <=> accepted'[x] = 0
  <2>1. x % Win \in Bits
    BY BitInRange
  <2>2. CASE x = d
    BY <2>2, <1>1, <1>2, <1>3 DEF WindowInv, TypeOK
  <2>3. CASE x # d
    <3>1. x < d + Win /\ d < x + Win
      BY <1>1, <1>3, <1>4, <1>7, <2>3
    <3>2. x % Win # d % Win
      <4>1. x \in Nat
        OBVIOUS
      <4> QED
        BY <4>1, <3>1, <2>3, <1>1, DifferentBits, Zenon
    <3>3. bitmap[x % Win] <=> accepted[x] = 0
      BY <1>3, <1>7, <2>3, Zenon
    <3> QED
      BY <3>2, <3>3, <2>1, <2>3, <1>1, <1>2, <1>3 DEF WindowInv, TypeOK
  <2> QED
    BY <2>2, <2>3, Zenon
<1> QED
  BY <1>3, <1>4, <1>5, <1>6, <1>7, Zenon DEF WindowInv

\* Below, d is always a datagram that has been sent.
LEMMA SentDatagram ==
    ASSUME NoWrap, WindowInv, NEW d \in 0 .. outcount - 1
    PROVE  /\ d \in Nat /\ d < MaxSent /\ d \in DOMAIN accepted
           /\ SeqnoOf(d) = d
           /\ inseqno \in Nat /\ inseqno <= outcount
           /\ outcount \in Nat /\ outcount <= MaxSent
           /\ FarAhead(d) <=> d >= inseqno + Win
<1>1. /\ inseqno \in Nat /\ inseqno <= outcount
      /\ outcount \in Nat /\ outcount <= MaxSent
  BY MaxSentAssumption, SeqModAssumption DEF WindowInv, TypeOK
<1>2. d \in Nat /\ d < MaxSent
  BY <1>1, MaxSentAssumption
<1>3. d \in DOMAIN accepted
  BY <1>2, MaxSentAssumption DEF WindowInv, TypeOK
<1>4. SeqnoOf(d) = d
  BY <1>2, NoWrapArithmetic, MaxSentAssumption DEF SeqnoOf
<1>5. FarAhead(d) <=> d >= inseqno + Win
  <2>1. (inseqno + Win) % SeqMod = inseqno + Win
    BY <1>1, NoWrapArithmetic, MaxSentAssumption
  <2> QED
    BY <2>1, Zenon DEF FarAhead
<1> QED
  BY <1>1, <1>2, <1>3, <1>4, <1>5, Zenon

\* A packet with the expected number preserves the invariant.
LEMMA ExpectedPreserves ==
    ASSUME NoWrap, WindowInv, NEW d \in 0 .. outcount - 1, ReceiveExpected(d)
    PROVE  WindowInv'
<1>1. /\ instate /\ d >= Plain /\ d = inseqno /\ Take(d, late)
  BY SentDatagram, Zenon DEF ReceiveExpected, Encrypted
<1>2. accepted[d] = 0 /\ late \in [Bits -> BOOLEAN]
  BY <1>1, SentDatagram DEF WindowInv, TypeOK
<1>3. ASSUME NEW x \in Plain .. MaxSent - 1, x # d, x < d + 1, d + 1 <= x + Win
      PROVE  late[x % Win] <=> accepted[x] = 0
  <2>1. x < inseqno /\ inseqno <= x + Win
    BY <1>1, <1>3, SentDatagram, WinAssumption DEF Plain
  <2> QED
    BY <2>1, Zenon DEF WindowInv
<1>4. d \in Plain .. outcount - 1
  BY <1>1, SentDatagram DEF Plain
<1> HIDE DEF WindowInv
<1> QED
  BY <1>1, <1>2, <1>3, <1>4, TakePreserves, SentDatagram

\* A packet beyond the window, which clears the bitmap, preserves the invariant.
LEMMA FarAheadPreserves ==
    ASSUME NoWrap, WindowInv, NEW d \in 0 .. outcount - 1, ReceiveFarAhead(d)
    PROVE  WindowInv'
<1> DEFINE all == [b \in Bits |-> TRUE]
<1>1. /\ instate /\ d >= Plain /\ d >= inseqno + Win /\ Take(d, all)
  BY SentDatagram, Zenon DEF ReceiveFarAhead, Encrypted
<1>2. d > inseqno
  BY <1>1, SentDatagram, WinAssumption
<1>3. accepted[d] = 0 /\ all \in [Bits -> BOOLEAN]
  BY <1>2, SentDatagram DEF WindowInv, TypeOK
<1>4. ASSUME NEW x \in Plain .. MaxSent - 1, x # d, x < d + 1, d + 1 <= x + Win
      PROVE  all[x % Win] <=> accepted[x] = 0
  <2>1. x >= inseqno /\ x \in 0 .. MaxSent - 1 /\ x \in Nat
    BY <1>1, <1>4, SentDatagram, WinAssumption, MaxSentAssumption DEF Plain
  <2>2. accepted[x] = 0
    BY <2>1, Zenon DEF WindowInv
  <2> QED
    BY <2>1, <2>2, BitInRange, Zenon
<1>5. d \in Plain .. outcount - 1
  BY <1>1, SentDatagram DEF Plain
<1> HIDE DEF all
<1> QED
  BY <1>1, <1>2, <1>3, <1>4, <1>5, TakePreserves, SentDatagram

\* A packet from within the window preserves the invariant.
LEMMA LatePreserves ==
    ASSUME NoWrap, WindowInv, NEW d \in 0 .. outcount - 1, ReceiveLate(d)
    PROVE  WindowInv'
<1>1. /\ instate /\ d >= Plain /\ d < inseqno /\ Take(d, late)
      /\ ~Dropped(d)
  BY SentDatagram, Zenon DEF ReceiveLate, Encrypted
<1>2. inseqno <= d + Win /\ late[d % Win]
  BY <1>1, SentDatagram, WinAssumption DEF Dropped
<1>3. d \in Plain .. outcount - 1 /\ d \in Plain .. MaxSent - 1
  BY <1>1, SentDatagram, MaxSentAssumption DEF Plain
<1>4. accepted[d] = 0 /\ late \in [Bits -> BOOLEAN]
  BY <1>1, <1>2, <1>3, Zenon DEF WindowInv, TypeOK
<1>5. \A x \in Plain .. MaxSent - 1 :
        x # d /\ x < inseqno /\ inseqno <= x + Win
        => (late[x % Win] <=> accepted[x] = 0)
  BY Zenon DEF WindowInv
<1> QED
  BY <1>1, <1>2, <1>3, <1>4, <1>5, TakePreserves, SentDatagram

\* A packet a little ahead, which marks what it skips, preserves the invariant.
LEMMA GapPreserves ==
    ASSUME NoWrap, WindowInv, NEW d \in 0 .. outcount - 1, ReceiveGap(d)
    PROVE  WindowInv'
<1> DEFINE gap == [b \in Bits |->
                     \/ late[b]
                     \/ \E i \in inseqno .. d - 1 : i % Win = b]
<1>1. /\ instate /\ d >= Plain /\ d > inseqno /\ d < inseqno + Win
      /\ Take(d, gap)
  <2>1. SeqnoOf(d) = d
    BY SentDatagram, Zenon
  <2>2. Take(d, gap) /\ Encrypted(d) /\ d > inseqno /\ ~FarAhead(d)
    BY <2>1, Zenon DEF ReceiveGap
  <2> QED
    BY <2>2, SentDatagram, WinAssumption DEF Encrypted
<1>2. accepted[d] = 0
  BY <1>1, SentDatagram DEF WindowInv, TypeOK
<1>3. gap \in [Bits -> BOOLEAN]
  BY Zenon DEF WindowInv, TypeOK
<1>4. ASSUME NEW x \in Plain .. MaxSent - 1, x # d, x < d + 1, d + 1 <= x + Win
      PROVE  gap[x % Win] <=> accepted[x] = 0
  <2>1. x \in Nat /\ x \in 0 .. MaxSent - 1 /\ x % Win \in Bits
    BY BitInRange, MaxSentAssumption DEF Plain
  <2>2. CASE x >= inseqno
    <3>1. x \in inseqno .. d - 1
      BY <1>4, <2>1, <2>2, SentDatagram
    <3>2. accepted[x] = 0
      BY <2>1, <2>2, Zenon DEF WindowInv
    <3> QED
      BY <3>1, <3>2, <2>1, Zenon
  <2>3. CASE x < inseqno
    <3>1. ASSUME NEW i \in inseqno .. d - 1 PROVE i % Win # x % Win
      <4>1. i \in Nat /\ i # x /\ i < x + Win /\ x < i + Win
        BY <1>4, <2>1, <2>3, SentDatagram, WinAssumption
      <4> QED
        BY <4>1, <2>1, DifferentBits, Zenon
    <3>2. gap[x % Win] <=> late[x % Win]
      BY <3>1, <2>1, Zenon DEF WindowInv, TypeOK
    <3>3. inseqno <= x + Win
      BY <1>1, <1>4, <2>1, SentDatagram, WinAssumption
    <3> QED
      BY <3>2, <3>3, <2>3, Zenon DEF WindowInv
  <2> QED
    BY <2>1, <2>2, <2>3, SentDatagram
<1>5. d \in Plain .. outcount - 1
  BY <1>1, SentDatagram DEF Plain
<1> HIDE DEF gap
<1> QED
  BY <1>1, <1>2, <1>3, <1>4, <1>5, TakePreserves, SentDatagram

\* A packet received before the first key preserves the invariant.
LEMMA PlainPreserves ==
    ASSUME NoWrap, WindowInv, NEW d \in 0 .. outcount - 1, ReceivePlain(d)
    PROVE  WindowInv'
<1> USE MaxSentAssumption, SeqModAssumption, WinAssumption DEF Plain
<1>1. /\ d = inseqno /\ inseqno < Plain /\ ~instate
      /\ instate' = (d + 1 = Plain)
      /\ accepted' = [accepted EXCEPT ![d] = @ + 1]
      /\ UNCHANGED <<outcount, late, received>>
  BY SentDatagram, Zenon DEF ReceivePlain, Accept
<1>2. (d + 1) % SeqMod = d + 1
  BY SentDatagram, NoWrapArithmetic
<1>3. inseqno' = d + 1
  BY <1>2, SentDatagram, Zenon DEF ReceivePlain
<1>4. d \in Nat /\ d < MaxSent /\ d + 1 <= outcount /\ d < 2
  BY <1>1, SentDatagram
<1>5. TypeOK'
  BY <1>1, <1>3, <1>4 DEF WindowInv, TypeOK, NoWrap
<1>6. \A x \in 0 .. MaxSent - 1 :
        accepted'[x] <= 1 /\ (x >= inseqno' => accepted'[x] = 0)
  BY <1>1, <1>3, <1>4 DEF WindowInv, TypeOK
<1>7. instate' <=> inseqno' >= Plain
  <2>1. CASE d + 1 = Plain
    <3>1. instate' = TRUE
      BY <2>1, <1>1, Zenon
    <3> QED
      BY <3>1, <2>1, <1>3
  <2>2. CASE d + 1 # Plain
    <3>1. instate' = FALSE
      BY <2>2, <1>1, Zenon
    <3> QED
      BY <3>1, <2>2, <1>3, <1>4
  <2> QED
    BY <2>1, <2>2, Zenon
<1>8. \A x \in Plain .. MaxSent - 1 : ~(x < inseqno')
  BY <1>3, <1>4
<1> QED
  BY <1>1, <1>3, <1>4, <1>5, <1>6, <1>7, <1>8, Zenon DEF WindowInv

\* Receiving any packet preserves the invariant.
LEMMA ReceivePreserves ==
    ASSUME NoWrap, WindowInv, NEW d \in 0 .. outcount - 1, Receive(d)
    PROVE  WindowInv'
BY PlainPreserves, ExpectedPreserves, FarAheadPreserves, LatePreserves,
   GapPreserves, Zenon DEF Receive

\* Sending a packet preserves the invariant.
LEMMA SendPreserves ==
    ASSUME WindowInv, Send
    PROVE  WindowInv'
<1>1. TypeOK'
  BY MaxSentAssumption DEF WindowInv, TypeOK, Send
<1> QED
  BY <1>1, MaxSentAssumption, SeqModAssumption DEF WindowInv, TypeOK, Send

\* The window invariant holds in every reachable state, whatever the size of
\* the window, as long as the sender stops before inseqno + Win wraps.
THEOREM WindowInvariant ==
    ASSUME NoWrap
    PROVE  Spec => []WindowInv
<1>1. ASSUME Init PROVE WindowInv
  <2>1. TypeOK
    <3>1. instate \in BOOLEAN /\ late \in [Bits -> BOOLEAN]
      BY <1>1, Zenon DEF Init
    <3>2. accepted \in [0 .. MaxSent - 1 -> Nat]
      BY <1>1, Zenon DEF Init
    <3> QED
      BY <1>1, <3>1, <3>2, MaxSentAssumption, SeqModAssumption, WinAssumption
         DEF Init, TypeOK
  <2>2. ~instate /\ ~(inseqno >= Plain) /\ inseqno <= outcount
    BY <1>1 DEF Init, Plain
  <2>3. \A d \in 0 .. MaxSent - 1 : accepted[d] = 0
    BY <1>1, Zenon DEF Init
  <2>4. \A d \in Plain .. MaxSent - 1 : ~(d < inseqno)
    BY <1>1, MaxSentAssumption DEF Init, Plain
  <2> QED
    BY <2>1, <2>2, <2>3, <2>4 DEF WindowInv
<1>2. WindowInv /\ [Next]_vars => WindowInv'
  <2>1. ASSUME WindowInv, Next PROVE WindowInv'
    BY <2>1, SendPreserves, ReceivePreserves, Zenon DEF Next
  <2>2. ASSUME WindowInv, UNCHANGED vars PROVE WindowInv'
    BY <2>2, Zenon DEF vars, WindowInv, TypeOK
  <2> QED
    BY <2>1, <2>2, Zenon
<1> QED
  BY <1>1, <1>2, PTL DEF Spec

\* No datagram passes sptps_receive_data_datagram twice, whatever the network
\* loses, delays, reorders and duplicates.
THEOREM NeverReplayed ==
    ASSUME NoWrap
    PROVE  Spec => []NoReplay
<1>1. WindowInv => NoReplay
  BY Zenon DEF WindowInv, TypeOK, NoReplay
<1> QED
  BY <1>1, WindowInvariant, PTL

\* A datagram that is late by less than the window is not taken for a replay.
THEOREM LateNeverDropped ==
    ASSUME NoWrap
    PROVE  Spec => []LateAccepted
<1>1. ASSUME WindowInv, NEW d \in Plain .. outcount - 1, instate,
             accepted[d] = 0, SeqnoOf(d) < inseqno, SeqnoOf(d) >= inseqno - Win
      PROVE  ~Dropped(SeqnoOf(d))
  <2>1. d \in 0 .. outcount - 1
    BY DEF Plain
  <2>2. SeqnoOf(d) = d /\ d \in Plain .. MaxSent - 1 /\ d \in Nat /\ inseqno \in Nat
    BY <2>1, <1>1, SentDatagram, MaxSentAssumption DEF Plain
  <2>3. inseqno <= d + Win /\ d < inseqno
    BY <1>1, <2>2, WinAssumption
  <2>4. late[d % Win]
    BY <1>1, <2>2, <2>3, Zenon DEF WindowInv
  <2> QED
    BY <2>2, <2>3, <2>4, WinAssumption DEF Dropped
<1>2. WindowInv => LateAccepted
  BY <1>1, Zenon DEF LateAccepted
<1> QED
  BY <1>2, WindowInvariant, PTL

\* The sequence number the receiver expects never goes back.
THEOREM InseqnoAdvances ==
    ASSUME NoWrap
    PROVE  Spec => Monotonic
<1>1. ASSUME WindowInv, NEW d \in 0 .. outcount - 1, Receive(d)
      PROVE  inseqno' >= inseqno
  <2>1. (d + 1) % SeqMod = d + 1 /\ SeqnoOf(d) = d /\ d \in Nat /\ inseqno \in Nat
    BY <1>1, SentDatagram, NoWrapArithmetic, MaxSentAssumption
  <2>2. (inseqno' = d + 1 /\ d >= inseqno) \/ inseqno' = inseqno
    BY <1>1, <2>1 DEF Receive, ReceivePlain, ReceiveExpected, ReceiveFarAhead,
                      ReceiveLate, ReceiveGap, Take
  <2> QED
    BY <2>1, <2>2
<1>2. WindowInv /\ [Next]_vars => inseqno' >= inseqno
  BY <1>1 DEF Next, Send, vars, WindowInv, TypeOK
<1> QED
  BY <1>2, WindowInvariant, PTL DEF Spec, Monotonic
=============================================================================
