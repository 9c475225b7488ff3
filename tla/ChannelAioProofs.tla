-------------------------- MODULE ChannelAioProofs --------------------------
(***************************************************************************)
(* Proofs about the asynchronous I/O of a channel (module ChannelAio), for *)
(* any capacity, sizes and bounds: closing the channel in a callback frees *)
(* it once and nothing uses it afterwards, a buffer ends early only for a  *)
(* reason, and data is sent in order. The first part is about call stacks  *)
(* and queues of buffers; the second shows that each function of           *)
(* meshlink.c preserves ChannelInv. A step of channel_poll, channel_recv   *)
(* or aio_abort goes on with another stack (Resumes) and queue (Kept),     *)
(* with or without a callback (Finish).                                    *)
(***************************************************************************)
EXTENDS ChannelAio, TLAPS

\* The provers get 30 seconds for a leaf, however busy the machine is.
USE SMTT(30), ZenonT(30)

\* The stack t is s with the frame x on it.
Puts(t, x, s) ==
    /\ t \in Seq(Frames) /\ Len(t) = Len(s) + 1
    /\ t[1] = x /\ \A i \in 1 .. Len(s) : t[i + 1] = s[i]

\* The stack t is s without its first k frames.
Drops(t, s, k) ==
    /\ t \in Seq(Frames) /\ Len(t) = Len(s) - k
    /\ \A i \in 1 .. Len(t) : t[i] = s[i + k]

\* Buffers have ended since the report old, for the reason why if not whole.
Reported(r, old, why) ==
    /\ r \in Seq(Endings) /\ Len(r) = Len(old)
    /\ \A i \in DOMAIN r : r[i] = "cut" => why = "cut" \/ (i \in DOMAIN old /\ old[i] = "cut")

\* Calling a function puts its frame on the stack.
LEMMA PutsOne ==
    ASSUME NEW s \in Seq(Frames), NEW x \in Frames
    PROVE  Puts(<<x>> \o s, x, s)
BY DEF Puts

\* Returning from one takes its frame off.
LEMMA DropsOne ==
    ASSUME NEW s \in Seq(Frames), s # <<>>
    PROVE  Drops(Tail(s), s, 1)
BY DEF Drops

\* Several frames are taken off when aio_finish_one returns false and its callers
\* return.
LEMMA DropsMany ==
    ASSUME NEW s \in Seq(Frames), NEW k \in 1 .. Len(s)
    PROVE  Drops(SubSeq(s, k + 1, Len(s)), s, k)
BY DEF Drops

\* Returning from all functions.
LEMMA DropsAll ==
    ASSUME NEW s \in Seq(Frames)
    PROVE  Drops(<<>>, s, Len(s))
BY DEF Drops

\* A call that the code makes leaves the stack well-formed.
LEMMA PutsWell ==
    ASSUME NEW s \in Seq(Frames), NEW x \in Frames, NEW t, Puts(t, x, s), WellFormed(s),
           s = <<>> => x.f # "abort", s # <<>> => MayCall(x.f, s[1].f)
    PROVE  WellFormed(t)
<1>1. ASSUME NEW i \in 1 .. Len(t) - 1 PROVE MayCall(t[i].f, t[i + 1].f)
  <2>1. CASE i = 1
    BY <2>1 DEF Puts
  <2>2. CASE i > 1
    <3>1. i - 1 \in 1 .. Len(s) - 1 /\ t[i] = s[i - 1] /\ t[i + 1] = s[i]
      BY <2>2 DEF Puts
    <3> QED BY <3>1 DEF WellFormed
  <2> QED BY <2>1, <2>2
<1>2. t[Len(t)].f # "abort"
  <2>1. CASE s = <<>>
    BY <2>1 DEF Puts
  <2>2. CASE s # <<>>
    BY <2>2 DEF Puts, WellFormed
  <2> QED BY <2>1, <2>2, Zenon
<1> QED BY <1>1, <1>2, Zenon DEF WellFormed

\* So does a return.
LEMMA DropsWell ==
    ASSUME NEW s \in Seq(Frames), NEW k \in 0 .. Len(s), NEW t, Drops(t, s, k), WellFormed(s)
    PROVE  WellFormed(t)
<1>1. ASSUME NEW i \in 1 .. Len(t) - 1 PROVE MayCall(t[i].f, t[i + 1].f)
  <2>1. i + k \in 1 .. Len(s) - 1 /\ t[i] = s[i + k] /\ t[i + 1] = s[i + k + 1]
    BY DEF Drops
  <2> QED BY <2>1, Zenon DEF WellFormed
<1>2. t # <<>> => t[Len(t)].f # "abort"
  BY DEF Drops, WellFormed
<1> QED BY <1>1, <1>2, Zenon DEF WellFormed

\* Which functions are on the stack after a call.
LEMMA PutsHas ==
    ASSUME NEW s \in Seq(Frames), NEW x \in Frames, NEW t, Puts(t, x, s), NEW f
    PROVE  Has(t, f) <=> x.f = f \/ Has(s, f)
<1>1. ASSUME Has(t, f), x.f # f PROVE Has(s, f)
  <2>1. PICK i \in 1 .. Len(t) : t[i].f = f
    BY <1>1 DEF Has, Puts
  <2>2. i - 1 \in 1 .. Len(s) /\ t[i] = s[i - 1]
    BY <1>1, <2>1 DEF Puts
  <2> QED BY <2>1, <2>2 DEF Has
<1>2. ASSUME Has(s, f) PROVE Has(t, f)
  <2>1. PICK i \in 1 .. Len(s) : s[i].f = f
    BY <1>2 DEF Has
  <2>2. i + 1 \in 1 .. Len(t) /\ t[i + 1] = s[i]
    BY DEF Puts
  <2> QED BY <2>1, <2>2 DEF Has, Puts
<1>3. ASSUME x.f = f PROVE Has(t, f)
  BY <1>3 DEF Has, Puts
<1> QED BY <1>1, <1>2, <1>3, Zenon

\* A return puts nothing on the stack.
LEMMA DropsHas ==
    ASSUME NEW s \in Seq(Frames), NEW k \in 0 .. Len(s), NEW t, Drops(t, s, k), NEW f, Has(t, f)
    PROVE  Has(s, f)
<1>1. PICK i \in 1 .. Len(t) : t[i].f = f
  BY DEF Has, Drops
<1>2. i + k \in 1 .. Len(s) /\ t[i] = s[i + k]
  BY DEF Drops
<1> QED BY <1>1, <1>2 DEF Has

\* A function is still called once at most if it was not running when called.
LEMMA PutsOnce ==
    ASSUME NEW s \in Seq(Frames), NEW x \in Frames, NEW t, Puts(t, x, s), NEW f,
           Once(s, f), x.f = f => ~Has(s, f)
    PROVE  Once(t, f)
<1> SUFFICES ASSUME NEW i \in 1 .. Len(t), NEW j \in 1 .. Len(t), t[i].f = f, t[j].f = f
             PROVE  i = j
  BY DEF Once, Puts
<1>1. ASSUME NEW k \in 1 .. Len(t), k # 1 PROVE k - 1 \in DOMAIN s /\ t[k] = s[k - 1]
  BY <1>1 DEF Puts
<1>2. CASE i = 1 /\ j # 1
  BY <1>1, <1>2, Zenon DEF Puts, Has
<1>3. CASE i # 1 /\ j = 1
  BY <1>1, <1>3 DEF Puts, Has
<1>4. CASE i # 1 /\ j # 1
  <2>1. i - 1 = j - 1
    BY <1>1, <1>4 DEF Once
  <2> QED BY <2>1
<1> QED BY <1>2, <1>3, <1>4, Zenon

\* After a return, a function that was running once is not running any more.
LEMMA DropsOnce ==
    ASSUME NEW s \in Seq(Frames), NEW k \in 0 .. Len(s), NEW t, Drops(t, s, k), NEW f, Once(s, f)
    PROVE  /\ Once(t, f)
           /\ k > 0 /\ s[1].f = f => ~Has(t, f)
<1>1. ASSUME NEW i \in DOMAIN t PROVE i \in Nat /\ i > 0 /\ i + k \in DOMAIN s /\ t[i] = s[i + k]
  BY DEF Drops
<1>2. Once(t, f)
  <2> SUFFICES ASSUME NEW i \in DOMAIN t, NEW j \in DOMAIN t, t[i].f = f, t[j].f = f
               PROVE  i = j
    BY Zenon DEF Once
  <2>1. i + k = j + k
    BY <1>1, Zenon DEF Once
  <2> QED BY <2>1, <1>1
<1>3. ASSUME k > 0, s[1].f = f, Has(t, f) PROVE FALSE
  <2>1. PICK i \in DOMAIN t : t[i].f = f
    BY <1>3, Zenon DEF Has
  <2>2. 1 \in DOMAIN s /\ i + k = 1
    BY <1>1, <1>3, <2>1 DEF Once
  <2> QED BY <1>1, <1>3, <2>2
<1> QED BY <1>2, <1>3, Zenon

\* A call of channel_poll with as much space as there is.
LEMMA PutsRoom ==
    ASSUME NEW s \in Seq(Frames), NEW x \in Frames, NEW t, Puts(t, x, s), NEW n, Room(s, n),
           x.f = "poll" => x.len <= n
    PROVE  Room(t, n)
<1>1. ASSUME NEW i \in DOMAIN t, i # 1 PROVE i - 1 \in DOMAIN s /\ t[i] = s[i - 1]
  BY <1>1 DEF Puts
<1> QED BY <1>1, Zenon DEF Room, Puts

\* A call of aio_abort for a failure.
LEMMA PutsNotCut ==
    ASSUME NEW s \in Seq(Frames), NEW x \in Frames, NEW t, Puts(t, x, s), NotCut(s),
           x.f = "abort" => x.why # "cut"
    PROVE  NotCut(t)
<1>1. ASSUME NEW i \in DOMAIN t, i # 1 PROVE i - 1 \in DOMAIN s /\ t[i] = s[i - 1]
  BY <1>1 DEF Puts
<1> QED BY <1>1, Zenon DEF NotCut, Puts

\* A return leaves the space of the other frames of channel_poll.
LEMMA DropsRoom ==
    ASSUME NEW s \in Seq(Frames), NEW k \in 0 .. Len(s), NEW t, Drops(t, s, k), NEW n, Room(s, n)
    PROVE  Room(t, n)
<1>1. ASSUME NEW i \in DOMAIN t PROVE i + k \in DOMAIN s /\ t[i] = s[i + k]
  BY DEF Drops
<1> QED BY <1>1, Zenon DEF Room

\* A return leaves the other frames as they were.
LEMMA DropsPlain ==
    ASSUME NEW s \in Seq(Frames), NEW k \in 0 .. Len(s), NEW t, Drops(t, s, k)
    PROVE  /\ NotCut(s) => NotCut(t)
           /\ AllPlain(s) => AllPlain(t)
<1>1. ASSUME NEW i \in DOMAIN t PROVE i + k \in DOMAIN s /\ t[i] = s[i + k]
  BY DEF Drops
<1> QED BY <1>1, Zenon DEF NotCut, AllPlain

\* Without channel_poll on the stack the space may be anything.
LEMMA NoPollRoom ==
    ASSUME NEW s, ~Has(s, "poll"), NEW n
    PROVE  Room(s, n)
BY Zenon DEF Room, Has

\* If the application runs outside of aio_finish_one and of the accept callback, no
\* function of the channel is on the stack.
LEMMA RestIsPlain ==
    ASSUME NEW s \in Seq(Frames), WellFormed(s), ~Has(s, "finish"), s # <<>> => s[1].f = "plain"
    PROVE  AllPlain(s)
<1> SUFFICES ASSUME NEW i \in 1 .. Len(s), s[i].f # "plain"
             PROVE  FALSE
  BY DEF AllPlain
<1>1. ASSUME NEW j \in 1 .. Len(s) PROVE s[j].f # "finish"
  BY <1>1 DEF Has
<1>2. s # <<>> /\ i # 1
  OBVIOUS
<1>3. i - 1 \in 1 .. Len(s) - 1 /\ i - 1 + 1 = i
  BY <1>2
<1>4. MayCall(s[i - 1].f, s[i].f)
  BY <1>3, Zenon DEF WellFormed
<1>5. s[i - 1].f = "abort"
  BY <1>1, <1>3, <1>4 DEF MayCall
<1>6. i - 2 \in 1 .. Len(s) - 1 /\ i - 2 + 1 = i - 1
  BY <1>2, <1>3, <1>5
<1>7. MayCall(s[i - 2].f, s[i - 1].f)
  BY <1>6, Zenon DEF WellFormed
<1> QED BY <1>1, <1>5, <1>6, <1>7 DEF MayCall

\* The identifiers of queued buffers are numbers.
LEMMA BufferIds ==
    ASSUME NEW q \in Seq(Buffers), NEW i \in 1 .. Len(q)
    PROVE  q[i].id \in Nat
<1>1. q[i] \in Buffers
  OBVIOUS
<1> QED BY <1>1, Zenon DEF Buffers

\* meshlink_channel_aio_send appends a buffer that is later than all before.
LEMMA QueueGrows ==
    ASSUME NEW q \in Seq(Buffers), NEW low \in Nat, NEW high \in Nat, Ordered(q, low, high),
           NEW b \in Buffers, b.id = high + 1, low <= high + 1
    PROVE  Append(q, b) \in Seq(Buffers) /\ Ordered(Append(q, b), low, high + 1)
<1> DEFINE t == Append(q, b)
<1>1. t \in Seq(Buffers) /\ Len(t) = Len(q) + 1 /\ t[Len(q) + 1] = b
  OBVIOUS
<1>2. \A i \in 1 .. Len(q) : t[i] = q[i] /\ q[i].id \in Nat
  BY BufferIds
<1> HIDE DEF t
<1>3. \A i \in 1 .. Len(t) : low <= t[i].id /\ t[i].id <= high + 1
  BY <1>1, <1>2 DEF Ordered
<1>4. ASSUME NEW i \in 1 .. Len(t), NEW j \in 1 .. Len(t), i < j PROVE t[i].id < t[j].id
  <2>1. CASE j = Len(q) + 1
    BY <1>1, <1>2, <1>4, <2>1 DEF Ordered
  <2>2. CASE j # Len(q) + 1
    BY <1>1, <1>2, <1>4, <2>2 DEF Ordered
  <2> QED BY <2>1, <2>2, Zenon
<1>5. Ordered(t, low, high + 1)
  BY <1>3, <1>4, Zenon DEF Ordered
<1> QED BY <1>1, <1>5, Zenon DEF t

\* aio_finish_one unlinks the first buffer; the rest are later than it.
LEMMA QueueShrinks ==
    ASSUME NEW q \in Seq(Buffers), q # <<>>, NEW low \in Nat, NEW high \in Nat,
           Ordered(q, low, high), NEW m \in Nat, m <= Head(q).id \/ m = low
    PROVE  Tail(q) \in Seq(Buffers) /\ Ordered(Tail(q), m, high)
<1> DEFINE t == Tail(q)
<1>1. t \in Seq(Buffers) /\ Len(t) = Len(q) - 1 /\ Head(q) = q[1]
  OBVIOUS
<1>2. \A i \in 1 .. Len(t) : t[i] = q[i + 1]
  OBVIOUS
<1>3. \A i \in 1 .. Len(q) : q[i].id \in Nat
  BY BufferIds, Zenon
<1> HIDE DEF t
<1>4. ASSUME NEW i \in 1 .. Len(t) PROVE m <= t[i].id /\ t[i].id <= high
  <2>1. q[1].id < q[i + 1].id /\ low <= q[i + 1].id /\ q[i + 1].id <= high
    BY <1>1 DEF Ordered
  <2>2. t[i] = q[i + 1] /\ q[1].id \in Nat /\ q[i + 1].id \in Nat
    BY <1>1, <1>2, <1>3
  <2> QED BY <1>1, <2>1, <2>2
<1>5. ASSUME NEW i \in 1 .. Len(t), NEW j \in 1 .. Len(t), i < j PROVE t[i].id < t[j].id
  BY <1>1, <1>2, <1>5 DEF Ordered
<1>6. Ordered(t, m, high)
  BY <1>4, <1>5, Zenon DEF Ordered
<1> QED BY <1>1, <1>6, Zenon DEF t

\* Sending from the first buffer leaves the order.
LEMMA QueueHeadChanges ==
    ASSUME NEW q \in Seq(Buffers), q # <<>>, NEW low \in Nat, NEW high \in Nat,
           Ordered(q, low, high), NEW m \in Nat, m <= Head(q).id,
           NEW b \in Buffers, b.id = Head(q).id
    PROVE  <<b>> \o Tail(q) \in Seq(Buffers) /\ Ordered(<<b>> \o Tail(q), m, high)
<1> DEFINE t == <<b>> \o Tail(q)
<1>1. t \in Seq(Buffers) /\ Len(t) = Len(q) /\ Head(q) = q[1] /\ t[1] = b
  OBVIOUS
<1>2. \A i \in 2 .. Len(t) : t[i] = q[i]
  OBVIOUS
<1> HIDE DEF t
<1>3. \A i \in 1 .. Len(q) : q[i].id \in Nat /\ t[i].id = q[i].id
  BY <1>1, <1>2, BufferIds
<1>4. ASSUME NEW i \in 1 .. Len(t) PROVE m <= t[i].id /\ t[i].id <= high
  <2>1. q[1].id <= q[i].id /\ q[i].id <= high
    BY <1>1, <1>3 DEF Ordered
  <2> QED BY <1>1, <1>3, <2>1
<1>5. ASSUME NEW i \in 1 .. Len(t), NEW j \in 1 .. Len(t), i < j PROVE t[i].id < t[j].id
  BY <1>1, <1>3, <1>5, Zenon DEF Ordered
<1>6. Ordered(t, m, high)
  BY <1>4, <1>5, Zenon DEF Ordered
<1> QED BY <1>1, <1>6, Zenon DEF t

\* The report of a buffer that ends.
LEMMA ReportChanges ==
    ASSUME NEW r \in Seq(Endings), NEW i, NEW v \in Endings, NEW why, v = "cut" => why = "cut"
    PROVE  Reported([r EXCEPT ![i] = v], r, why)
<1> DEFINE t == [r EXCEPT ![i] = v]
<1>1. t \in [1 .. Len(r) -> Endings]
  <2>1. r \in [1 .. Len(r) -> Endings]
    OBVIOUS
  <2>2. \A f \in [1 .. Len(r) -> Endings] : [f EXCEPT ![i] = v] \in [1 .. Len(r) -> Endings]
    BY Zenon
  <2> QED BY <2>1, <2>2, Zenon
<1>2. t \in Seq(Endings) /\ Len(t) = Len(r)
  <2>1. Len(r) \in Nat
    OBVIOUS
  <2> HIDE DEF t
  <2> QED BY <1>1, <2>1
<1>3. \A j \in DOMAIN t : j \in DOMAIN r /\ t[j] \in {v, r[j]}
  BY Zenon
<1> HIDE DEF t
<1>4. Reported(t, r, why)
  BY <1>2, <1>3, Zenon DEF Reported
<1> QED BY <1>4, Zenon DEF t

\* A return leaves a function that is running further down.
LEMMA DropsKeeps ==
    ASSUME NEW s \in Seq(Frames), NEW k \in 0 .. Len(s), NEW t, Drops(t, s, k), NEW f,
           \A i \in 1 .. k : s[i].f # f, Has(s, f)
    PROVE  Has(t, f)
<1>1. PICK i \in 1 .. Len(s) : s[i].f = f
  BY DEF Has
<1>2. i > k
  BY <1>1
<1>3. i - k \in 1 .. Len(t) /\ t[i - k] = s[i]
  BY <1>2 DEF Drops
<1> QED BY <1>1, <1>3 DEF Has, Drops

\* The frames that are put on the stack.
LEMMA FrameKinds ==
    /\ \A n \in Nat : Poll(n) \in Frames /\ Recv(n) \in Frames
    /\ \A why \in {"cut", "failed"} : Abort(why) \in Frames
    /\ \A f \in {"finish", "plain", "dead"} : [f |-> f] \in Frames
BY Zenon DEF Frames, Poll, Recv, Abort

\* What is in a frame.
LEMMA FrameFields ==
    ASSUME NEW x \in Frames
    PROVE  /\ x.f \in {"poll", "recv", "abort", "finish", "accept", "plain", "dead"}
           /\ x.f \in {"poll", "recv"} => x.len \in Nat
           /\ x.f = "abort" => x.why \in {"cut", "failed"}
BY Zenon DEF Frames

\* The loops of channel_poll and channel_recv go on with less data.
LEMMA FrameShrinks ==
    ASSUME NEW x \in Frames, x.f \in {"poll", "recv"}, NEW n \in Nat
    PROVE  /\ [x EXCEPT !.len = n] \in Frames
           /\ [x EXCEPT !.len = n].f = x.f
           /\ [x EXCEPT !.len = n].len = n
BY Zenon DEF Frames

\* During the accept callback no other function of the channel runs.
LEMMA AcceptAlone ==
    ASSUME NEW s \in Seq(Frames), WellFormed(s), Has(s, "accept")
    PROVE  Len(s) = 1 /\ s[1].f = "accept"
<1>1. PICK i \in 1 .. Len(s) : s[i].f = "accept"
  BY DEF Has
<1>2. i = 1
  <2> SUFFICES ASSUME i # 1 PROVE FALSE
    BY Zenon
  <2>1. i - 1 \in 1 .. Len(s) - 1 /\ i - 1 + 1 = i
    OBVIOUS
  <2>2. MayCall(s[i - 1].f, s[i].f)
    BY <2>1, Zenon DEF WellFormed
  <2> QED BY <1>1, <2>2, Zenon DEF MayCall
<1>3. Len(s) > 1 => MayCall(s[1].f, s[2].f)
  BY DEF WellFormed
<1>4. ~MayCall("accept", s[2].f)
  BY Zenon DEF MayCall
<1>5. s[1].f = "accept"
  BY <1>1, <1>2, Zenon
<1>6. Len(s) = 1
  <2>1. ~(Len(s) > 1)
    BY <1>3, <1>4, <1>5, Zenon
  <2>2. Len(s) \in Nat /\ Len(s) # 0
    BY <1>1
  <2>3. \A n \in Nat : n # 0 /\ ~(n > 1) => n = 1
    OBVIOUS
  <2> QED BY <2>1, <2>2, <2>3, Zenon
<1> QED BY <1>5, <1>6, Zenon

\* When aio_finish_one returns false, its callers return up to the callback they
\* were called from, and nothing else.
LEMMA Unwinds ==
    ASSUME NEW s \in Seq(Frames), WellFormed(s), s # <<>>, s[1].f = "finish"
    PROVE  \E k \in 1 .. Len(s) :
              /\ Unwound(s) = SubSeq(s, k + 1, Len(s))
              /\ k < Len(s) => s[k + 1].f \in {"finish", "accept", "plain"}
<1> DEFINE App == {"finish", "accept", "plain"}
           keep == {i \in 1 .. Len(s) + 1 : i > 1 /\ (i <= Len(s) => s[i].f \in App)}
           from == CHOOSE i \in keep : \A j \in keep : i <= j
<1>1. \E i \in keep : \A j \in keep : i <= j
  <2>1. \A i \in 1 .. Len(s) - 1 : MayCall(s[i].f, s[i + 1].f)
    BY Zenon DEF WellFormed
  <2>2. CASE 2 \in keep
    BY <2>2
  <2>3. CASE 2 \notin keep /\ 3 \in keep
    BY <2>3
  <2>4. CASE 2 \notin keep /\ 3 \notin keep
    <3>1. Len(s) >= 2 /\ s[2].f \notin App
      BY <2>4
    <3>2. MayCall(s[1].f, s[2].f)
      BY <2>1, <3>1
    <3>3. Len(s) >= 3 /\ s[3].f \notin App
      BY <2>4, <3>1
    <3>4. MayCall(s[2].f, s[3].f)
      <4>1. 2 \in 1 .. Len(s) - 1 /\ 2 + 1 = 3
        BY <3>3
      <4> QED BY <2>1, <4>1, Zenon
    <3>5. s[3].f \in {"poll", "recv"}
      BY <3>1, <3>2, <3>3, <3>4, Zenon DEF MayCall
    <3>6. Len(s) >= 4 => MayCall(s[3].f, s[4].f)
      BY <2>1, <3>3
    <3>7. Len(s) >= 4 => s[4].f \in App
      BY <3>5, <3>6, Zenon DEF MayCall
    <3>8. 4 \in keep
      BY <3>3, <3>7
    <3> QED BY <3>8, <2>4
  <2> QED BY <2>2, <2>3, <2>4, Zenon
<1>2. from \in keep
  BY <1>1, Zenon
<1>3. Unwound(s) = SubSeq(s, from, Len(s))
  BY Zenon DEF Unwound
<1> HIDE DEF from
<1>4. from - 1 \in 1 .. Len(s) /\ from - 1 + 1 = from
  BY <1>2
<1>5. from - 1 < Len(s) => s[from].f \in App
  BY <1>2
<1> QED BY <1>3, <1>4, <1>5, Zenon

\* A further buffer to receive into does not change the order of those to send.
LEMMA OrderedMore ==
    ASSUME NEW q \in Seq(Buffers), NEW low, NEW high \in Nat, Ordered(q, low, high)
    PROVE  Ordered(q, low, high + 1)
<1>1. ASSUME NEW i \in 1 .. Len(q) PROVE q[i].id <= high + 1
  BY BufferIds DEF Ordered
<1> QED BY <1>1, Zenon DEF Ordered

-----------------------------------------------------------------------------
\* While a function of the channel runs, outside the accept callback, the channel
\* has not been freed; a step that frees nothing keeps it so.
LEMMA Alive ==
    ASSUME ChannelInv, stack # <<>>, stack[1].f \notin {"plain", "accept"},
           UNCHANGED <<open, freed, used, released, closedInAccept>>, nested => nested',
           Has(stack', "accept") => Has(stack, "accept")
    PROVE  FreedIsLeft' /\ ClosedIsReleased'
<1>1. stack \in Seq(Frames) /\ WellFormed(stack) /\ freed \in Nat /\ FreedIsLeft /\ ClosedIsReleased
  BY Zenon DEF ChannelInv, ChannelTypes
<1>2. ~Has(stack, "accept")
  BY <1>1, AcceptAlone, Zenon
<1>3. ~closedInAccept
  BY <1>1, <1>2, Zenon DEF ClosedIsReleased, Accepting
<1>4. ~AllPlain(stack)
  BY <1>1 DEF AllPlain
<1>5. nested \/ (~used /\ freed = 0)
  BY <1>1, <1>3, <1>4 DEF FreedIsLeft
<1>6. FreedIsLeft'
  BY <1>5 DEF FreedIsLeft
<1>7. ClosedIsReleased'
  BY <1>1, <1>2, <1>3, Zenon DEF ClosedIsReleased, Accepting
<1> QED BY <1>6, <1>7, Zenon

\* The same while the application has not closed the channel.
LEMMA NotReleased ==
    ASSUME ChannelInv, ~released,
           UNCHANGED <<open, freed, used, released, closedInAccept>>, nested => nested'
    PROVE  FreedIsLeft' /\ ClosedIsReleased'
<1>1. freed \in Nat /\ FreedIsLeft /\ ClosedIsReleased
  BY Zenon DEF ChannelInv, ChannelTypes
<1>2. nested \/ (~used /\ freed = 0)
  BY <1>1 DEF FreedIsLeft, ClosedIsReleased
<1>3. FreedIsLeft'
  BY <1>2 DEF FreedIsLeft
<1>4. ClosedIsReleased'
  BY <1>1, Zenon DEF ClosedIsReleased
<1> QED BY <1>3, <1>4, Zenon

\* A step that changes neither the stack nor the channel.
LEMMA SameStack ==
    ASSUME ChannelInv, UNCHANGED <<heap, stack>>
    PROVE  WellFormed(stack') /\ OneCallback' /\ FreedIsLeft' /\ ClosedIsReleased'
<1>1. UNCHANGED <<open, freed, in_callback, released, used, nested, closedInAccept>>
  BY Zenon DEF heap
<1>2. WellFormed(stack') /\ OneCallback'
  BY <1>1, Zenon DEF ChannelInv, OneCallback
<1>3. FreedIsLeft'
  BY <1>1, Zenon DEF ChannelInv, FreedIsLeft
<1>4. ClosedIsReleased'
  BY <1>1, Zenon DEF ChannelInv, ClosedIsReleased, Accepting
<1> QED BY <1>2, <1>3, <1>4, Zenon

\* aio_finish_one has called the callback; below is the stack to return to.
Finished(why, below) ==
    /\ Puts(stack', [f |-> "finish"], below)
    /\ WellFormed(stack')
    /\ Reported(report', report, why)
    /\ nested => nested'
    /\ OneCallback'

\* aio_finish_one sets in_callback and reports the buffer.
LEMMA Finishes ==
    ASSUME ChannelTypes, NEW aio, NEW why \in {"whole", "cut", "failed"}, NEW below \in Seq(Frames),
           WellFormed(below), below # <<>> => MayCall("finish", below[1].f),
           OneCallback, ~nested => Once(below, "finish"), Finish(aio, why, below)
    PROVE  Finished(why, below)
<1> DEFINE x == [f |-> "finish"]
<1>1. x \in Frames /\ x.f = "finish"
  BY FrameKinds, Zenon
<1> HIDE DEF x
<1>2. Puts(stack', x, below)
  BY <1>1, PutsOne, Zenon DEF Finish, x
<1>3. WellFormed(stack')
  BY <1>1, <1>2, PutsWell, Zenon
<1>4. Reported(report', report, why)
  <2> DEFINE v == IF aio.done = aio.len THEN "whole" ELSE why
  <2>1. v \in Endings /\ (v = "cut" => why = "cut")
    BY Zenon DEF Endings
  <2>2. report' = [report EXCEPT ![aio.id] = v] /\ report \in Seq(Endings)
    BY Zenon DEF Finish, ChannelTypes
  <2> HIDE DEF v
  <2> QED BY <2>1, <2>2, ReportChanges, Zenon
<1>5. nested => nested'
  BY Zenon DEF Finish
<1>6. ASSUME ~nested' PROVE Once(stack', "finish") /\ (in_callback' <=> Has(stack', "finish"))
  <2>1. ~nested /\ ~Has(below, "finish") /\ in_callback'
    BY <1>6, Zenon DEF Finish, EnterCallback
  <2>2. Has(stack', "finish")
    BY <1>1, <1>2, PutsHas, Zenon
  <2>3. Once(stack', "finish")
    BY <1>1, <1>2, <2>1, PutsOnce, Zenon
  <2> QED BY <2>1, <2>2, <2>3, Zenon
<1>7. OneCallback'
  BY <1>6, Zenon DEF OneCallback
<1> QED BY <1>2, <1>3, <1>4, <1>5, <1>7, Zenon DEF Finished, x

-----------------------------------------------------------------------------
\* meshlink_channel_aio_send and meshlink_channel_aio_fd_send.
LEMMA SendCallPreserves ==
    ASSUME ChannelInv, NEW len \in Lens, aio_send_call(len)
    PROVE  ChannelInv'
<1>1. /\ ChannelTypes /\ WellFormed(stack) /\ OneCallback /\ SpaceIsThere /\ EndsForAReason /\ InOrder
      /\ stack \in Seq(Frames) /\ space \in Nat /\ aio_send \in Seq(Buffers)
      /\ report \in Seq(Endings)
  BY Zenon DEF ChannelInv, ChannelTypes
<1>2. InApp /\ ~released
      /\ UNCHANGED <<open, freed, in_callback, released, used, nested, closedInAccept>>
  BY Zenon DEF aio_send_call
<1>3. FreedIsLeft' /\ ClosedIsReleased'
  BY <1>2, NotReleased, Zenon
<1>4. PICK fd \in BOOLEAN :
         LET todo == IF fd THEN utcp_get_sndbuf_free ELSE Least(len, utcp_get_sndbuf_free)
         IN  /\ aio_send' = Append(aio_send, Buffer(len, fd))
             /\ stack' = IF todo = 0 THEN stack
                         ELSE IF Accepting THEN <<[f |-> "dead"]>>
                         ELSE <<Poll(todo)>> \o stack
  BY Zenon DEF aio_send_call
<1> DEFINE todo == IF fd THEN utcp_get_sndbuf_free ELSE Least(len, utcp_get_sndbuf_free)
<1>5. todo \in Nat /\ todo <= space
  BY <1>1, SizesAssumption DEF Least, utcp_get_sndbuf_free
<1>6. /\ aio_send' = Append(aio_send, Buffer(len, fd))
      /\ stack' = IF todo = 0 THEN stack
                  ELSE IF Accepting THEN <<[f |-> "dead"]>> ELSE <<Poll(todo)>> \o stack
  BY <1>4, Zenon
<1> HIDE DEF todo
<1>7. report' \in Seq(Endings) /\ Len(report') = Len(report) + 1 /\ EndsForAReason'
  <2>1. report' = Append(report, "queued") /\ (requeued => requeued')
    BY Zenon DEF aio_send_call
  <2>2. "queued" \in Endings
    BY Zenon DEF Endings
  <2>3. report' \in Seq(Endings) /\ Len(report') = Len(report) + 1
    BY <1>1, <2>1, <2>2
  <2>4. \A k \in DOMAIN report' : report'[k] = "cut" => k \in DOMAIN report /\ report[k] = "cut"
    BY <1>1, <2>1
  <2> QED BY <1>1, <2>1, <2>3, <2>4, Zenon DEF EndsForAReason
<1>8. aio_send' \in Seq(Buffers) /\ InOrder'
  <2> DEFINE b == Buffer(len, fd)
  <2>1. b \in Buffers /\ b.id = Len(report) + 1
    BY <1>1, SizesAssumption DEF Buffer, Buffers
  <2> HIDE DEF b
  <2>2. last \in Nat /\ Len(report) \in Nat /\ last' = last
    BY <1>1 DEF ChannelTypes, aio_send_call
  <2>3. aio_send' \in Seq(Buffers) /\ Ordered(aio_send', last, Len(report) + 1)
    BY <1>1, <1>6, <2>1, <2>2, QueueGrows, Zenon DEF InOrder, b
  <2>4. last' <= Len(report') + 1
    BY <1>1, <1>7, <2>2 DEF InOrder
  <2> QED BY <1>7, <2>2, <2>3, <2>4, Zenon DEF InOrder
<1>9. aio_send' \in Seq(Buffers) /\ report' \in Seq(Endings) /\ space' = space /\ last' = last
      /\ freed' = freed /\ aio_receive' = aio_receive
  BY <1>7, <1>8, Zenon DEF aio_send_call
<1>10. requeued' = (requeued \/ Has(stack, "poll"))
  BY Zenon DEF aio_send_call
<1>11. stack' \in Seq(Frames) /\ WellFormed(stack') /\ OneCallback' /\ SpaceIsThere'
  <2>1. CASE stack' = stack
    <3>1. ~requeued' => Once(stack, "poll") /\ NotCut(stack) /\ Room(stack, space)
      BY <1>1, <1>10, NoPollRoom, Zenon DEF SpaceIsThere
    <3>2. SpaceIsThere'
      BY <1>9, <2>1, <3>1, Zenon DEF SpaceIsThere
    <3> QED BY <1>1, <1>2, <2>1, <3>2, Zenon DEF OneCallback
  <2>2. CASE Accepting /\ stack' = <<[f |-> "dead"]>>
    <3>1. Len(stack) = 1 /\ stack[1].f = "accept"
      BY <1>1, <2>2, AcceptAlone, Zenon DEF Accepting
    <3>2. ~Has(stack, "finish")
      BY <1>1, <3>1 DEF Has
    <3>3. /\ stack' \in Seq(Frames) /\ Len(stack') = 1 /\ stack'[1].f = "dead"
          /\ DOMAIN stack' = {1}
      BY <2>2, FrameKinds
    <3>4. WellFormed(stack') /\ ~Has(stack', "finish") /\ Once(stack', "finish")
          /\ Once(stack', "poll")
          /\ NotCut(stack') /\ Room(stack', space)
      BY <3>3 DEF WellFormed, Has, Once, NotCut, Room
    <3>5. OneCallback' /\ SpaceIsThere'
      BY <1>1, <1>2, <1>9, <3>2, <3>4, Zenon DEF OneCallback, SpaceIsThere
    <3> QED BY <3>3, <3>4, <3>5, Zenon
  <2>3. CASE ~Accepting /\ stack' = <<Poll(todo)>> \o stack
    <3> DEFINE x == Poll(todo)
    <3>1. x \in Frames /\ x.f = "poll" /\ x.len = todo
      BY <1>5, FrameKinds, Zenon DEF Poll
    <3> HIDE DEF x
    <3>2. Puts(stack', x, stack)
      BY <1>1, <2>3, <3>1, PutsOne, Zenon DEF x
    <3>3. stack # <<>> => MayCall(x.f, stack[1].f)
      <4>1. stack # <<>> => stack[1].f \in {"finish", "accept", "plain"}
        BY <1>1, <1>2 DEF InApp, Runs, Top
      <4>2. stack # <<>> => stack[1].f # "accept"
        BY <1>1, <2>3 DEF Accepting, Has
      <4> QED BY <3>1, <4>1, <4>2, Zenon DEF MayCall
    <3>4. WellFormed(stack')
      BY <1>1, <3>1, <3>2, <3>3, PutsWell, Zenon
    <3>5. OneCallback'
      <4>1. Has(stack', "finish") <=> Has(stack, "finish")
        BY <1>1, <3>1, <3>2, PutsHas, Zenon
      <4>2. Once(stack, "finish") => Once(stack', "finish")
        BY <1>1, <3>1, <3>2, PutsOnce, Zenon
      <4> QED BY <1>1, <1>2, <4>1, <4>2, Zenon DEF OneCallback
    <3>6. SpaceIsThere'
      <4>1. CASE requeued'
        BY <4>1, Zenon DEF SpaceIsThere
      <4>2. CASE ~requeued'
        <5>1. ~requeued /\ ~Has(stack, "poll")
          BY <1>10, <4>2, Zenon
        <5>2. Once(stack', "poll")
          BY <1>1, <3>1, <3>2, <5>1, PutsOnce, Zenon DEF SpaceIsThere
        <5>3. NotCut(stack')
          BY <1>1, <3>1, <3>2, <5>1, PutsNotCut, Zenon DEF SpaceIsThere
        <5>4. Room(stack', space)
          BY <1>1, <1>5, <3>1, <3>2, <5>1, NoPollRoom, PutsRoom, Zenon
        <5> QED BY <1>9, <5>2, <5>3, <5>4, Zenon DEF SpaceIsThere
      <4> QED BY <4>1, <4>2, Zenon
    <3> QED BY <3>2, <3>4, <3>5, <3>6, Zenon DEF Puts
  <2> QED BY <1>6, <2>1, <2>2, <2>3, Zenon
<1>12. ChannelTypes'
  BY <1>1, <1>9, <1>11, Zenon DEF ChannelTypes
<1> QED BY <1>3, <1>7, <1>8, <1>11, <1>12, Zenon DEF ChannelInv

\* meshlink_channel_aio_receive and meshlink_channel_aio_fd_receive.
LEMMA ReceiveCallPreserves ==
    ASSUME ChannelInv, NEW len \in Lens, aio_receive_call(len)
    PROVE  ChannelInv'
<1>1. /\ ChannelTypes /\ WellFormed(stack) /\ SpaceIsThere /\ EndsForAReason /\ InOrder
      /\ aio_send \in Seq(Buffers) /\ aio_receive \in Seq(Buffers) /\ report \in Seq(Endings)
  BY Zenon DEF ChannelInv, ChannelTypes
<1>2. UNCHANGED <<heap, alive, space, aio_send, stack, last, received>>
  BY Zenon DEF aio_receive_call
<1>3. WellFormed(stack') /\ OneCallback' /\ FreedIsLeft' /\ ClosedIsReleased'
  BY <1>2, SameStack, Zenon
<1>4. requeued' = requeued /\ freed' = freed
  BY <1>2, Zenon DEF heap
<1>5. SpaceIsThere'
  BY <1>1, <1>2, <1>4, Zenon DEF SpaceIsThere
<1>6. report' \in Seq(Endings) /\ Len(report') = Len(report) + 1 /\ EndsForAReason'
  <2>1. report' = Append(report, "queued")
    BY Zenon DEF aio_receive_call
  <2>2. "queued" \in Endings
    BY Zenon DEF Endings
  <2>3. report' \in Seq(Endings) /\ Len(report') = Len(report) + 1
    BY <1>1, <2>1, <2>2
  <2>4. \A k \in DOMAIN report' : report'[k] = "cut" => k \in DOMAIN report /\ report[k] = "cut"
    BY <1>1, <2>1
  <2> QED BY <1>1, <1>4, <2>3, <2>4, Zenon DEF EndsForAReason
<1>7. InOrder'
  <2>1. last \in Nat /\ Len(report) \in Nat
    BY <1>1 DEF ChannelTypes
  <2>2. Ordered(aio_send, last, Len(report) + 1)
    BY <1>1, <2>1, OrderedMore, Zenon DEF InOrder
  <2>3. last <= Len(report) + 1 + 1
    BY <1>1, <2>1 DEF InOrder
  <2> QED BY <1>2, <1>6, <2>2, <2>3, Zenon DEF InOrder
<1>8. aio_receive' \in Seq(Buffers)
  <2>1. PICK fd \in BOOLEAN : aio_receive' = Append(aio_receive, Buffer(len, fd))
    BY Zenon DEF aio_receive_call
  <2>2. Buffer(len, fd) \in Buffers
    BY <1>1, SizesAssumption DEF Buffer, Buffers
  <2> QED BY <1>1, <2>1, <2>2
<1>9. ChannelTypes'
  BY <1>1, <1>2, <1>4, <1>6, <1>8, Zenon DEF ChannelTypes
<1> QED BY <1>3, <1>5, <1>6, <1>7, <1>9, Zenon DEF ChannelInv

\* meshlink_channel_send, which is refused while buffers are queued.
LEMMA SendPreserves ==
    ASSUME ChannelInv, NEW len \in Lens, meshlink_channel_send(len)
    PROVE  ChannelInv' /\ last' >= last
<1>1. /\ ChannelTypes /\ SpaceIsThere /\ EndsForAReason /\ InOrder
      /\ space \in Nat /\ report \in Seq(Endings) /\ last \in Nat
  BY Zenon DEF ChannelInv, ChannelTypes
<1>2. UNCHANGED <<heap, alive, aio_send, aio_receive, stack, report, received>>
  BY Zenon DEF meshlink_channel_send
<1>3. WellFormed(stack') /\ OneCallback' /\ FreedIsLeft' /\ ClosedIsReleased'
  BY <1>2, SameStack, Zenon
<1>4. requeued' = requeued /\ freed' = freed
  BY <1>2, Zenon DEF heap
<1>5. aio_send = <<>>
  BY Zenon DEF meshlink_channel_send, SendAllowed
<1>6. SpaceIsThere' /\ EndsForAReason'
  BY <1>1, <1>2, <1>4, <1>5, Zenon DEF SpaceIsThere, EndsForAReason
<1>7. last' = Len(report) + 1 /\ last' \in Nat
  BY <1>1 DEF meshlink_channel_send
<1>8. InOrder'
  BY <1>1, <1>2, <1>5, <1>7 DEF InOrder, Ordered
<1>9. space' \in Nat
  BY <1>1, SizesAssumption DEF meshlink_channel_send, Least
<1>10. ChannelTypes'
  BY <1>1, <1>2, <1>4, <1>7, <1>9, Zenon DEF ChannelTypes
<1>11. last' >= last
  BY <1>1, <1>7, Zenon DEF InOrder
<1> QED BY <1>3, <1>6, <1>8, <1>10, <1>11, Zenon DEF ChannelInv

\* meshlink_channel_close frees the channel only when none of its functions is
\* running.
LEMMA ClosePreserves ==
    ASSUME ChannelInv, meshlink_channel_close
    PROVE  ChannelInv'
<1>1. /\ ChannelTypes /\ WellFormed(stack) /\ OneCallback /\ FreedIsLeft /\ ClosedIsReleased
      /\ SpaceIsThere /\ EndsForAReason /\ InOrder
      /\ stack \in Seq(Frames) /\ report \in Seq(Endings) /\ freed \in Nat
  BY Zenon DEF ChannelInv, ChannelTypes
<1>2. /\ InApp /\ ~released /\ released' /\ ~open' /\ aio_send' = <<>> /\ aio_receive' = <<>>
      /\ freed' = (IF in_callback THEN freed ELSE freed + 1)
      /\ closedInAccept' = Accepting
      /\ UNCHANGED <<in_callback, alive, space, stack, used, nested, requeued, last, received>>
  BY Zenon DEF meshlink_channel_close
<1>3. WellFormed(stack') /\ OneCallback' /\ SpaceIsThere'
  BY <1>1, <1>2, Zenon DEF OneCallback, SpaceIsThere
<1>4. nested \/ (~used /\ freed = 0)
  BY <1>1, <1>2 DEF FreedIsLeft, ClosedIsReleased
<1>5. FreedIsLeft'
  <2>1. CASE nested \/ Accepting
    BY <1>2, <2>1, Zenon DEF FreedIsLeft
  <2>2. CASE ~nested /\ ~Accepting /\ in_callback
    BY <1>2, <1>4, <2>2 DEF FreedIsLeft
  <2>3. CASE ~nested /\ ~Accepting /\ ~in_callback
    <3>1. ~Has(stack, "finish")
      BY <1>1, <2>3, Zenon DEF OneCallback
    <3>2. stack # <<>> => stack[1].f \in {"finish", "accept", "plain"}
      BY <1>1, <1>2 DEF InApp, Runs, Top
    <3>3. stack # <<>> => Has(stack, stack[1].f)
      BY <1>1 DEF Has
    <3>4. stack # <<>> => stack[1].f = "plain"
      BY <2>3, <3>1, <3>2, <3>3, Zenon DEF Accepting
    <3>5. AllPlain(stack)
      BY <1>1, <3>1, <3>4, RestIsPlain, Zenon
    <3> QED BY <1>2, <1>4, <2>3, <3>5 DEF FreedIsLeft
  <2> QED BY <2>1, <2>2, <2>3, Zenon
<1>6. ClosedIsReleased'
  BY <1>2, Zenon DEF ClosedIsReleased, Accepting
<1>7. report' \in Seq(Endings) /\ Len(report') = Len(report) /\ EndsForAReason'
  <2> DEFINE gone(k) == \E q \in {aio_send, aio_receive} : \E j \in DOMAIN q : q[j].id = k
  <2>1. report' = [k \in DOMAIN report |-> IF gone(k) THEN "dropped" ELSE report[k]]
    BY Zenon DEF meshlink_channel_close
  <2> HIDE DEF gone
  <2>2. DOMAIN report = 1 .. Len(report) /\ Len(report) \in Nat /\ "dropped" \in Endings
    BY <1>1 DEF Endings
  <2>3. report' \in [1 .. Len(report) -> Endings]
    BY <1>1, <2>1, <2>2
  <2>4. report' \in Seq(Endings) /\ Len(report') = Len(report)
    BY <2>2, <2>3
  <2>5. \A k \in DOMAIN report' : report'[k] = "cut" => k \in DOMAIN report /\ report[k] = "cut"
    BY <2>1, Zenon
  <2> QED BY <1>1, <1>2, <2>4, <2>5, Zenon DEF EndsForAReason
<1>8. InOrder'
  BY <1>1, <1>2, <1>7 DEF InOrder, Ordered
<1>9. freed' \in Nat
  BY <1>1, <1>2
<1>10. ChannelTypes'
  BY <1>1, <1>2, <1>7, <1>9 DEF ChannelTypes
<1> QED BY <1>3, <1>5, <1>6, <1>7, <1>8, <1>10, Zenon DEF ChannelInv

\* channel_accept returns, and frees the channel if it is refused.
LEMMA AcceptPreserves ==
    ASSUME ChannelInv, channel_accept
    PROVE  ChannelInv'
<1>1. /\ ChannelTypes /\ WellFormed(stack) /\ OneCallback /\ FreedIsLeft /\ ClosedIsReleased
      /\ SpaceIsThere /\ EndsForAReason /\ InOrder
      /\ stack \in Seq(Frames) /\ freed \in Nat
  BY Zenon DEF ChannelInv, ChannelTypes
<1>2. /\ stack # <<>> /\ stack[1].f = "accept" /\ stack' = <<>>
      /\ UNCHANGED <<in_callback, used, nested, requeued, closedInAccept, alive, space, aio_send,
                     aio_receive, report, last, received>>
  BY <1>1 DEF channel_accept, Runs, Top
<1>3. Accepting
  BY <1>1, <1>2 DEF Accepting, Has
<1>4. ~Has(stack, "finish") /\ ~AllPlain(stack)
  BY <1>1, <1>2, <1>3, AcceptAlone DEF Accepting, Has, AllPlain
<1>5. WellFormed(stack') /\ OneCallback' /\ SpaceIsThere'
  <2>1. WellFormed(stack') /\ ~Has(stack', "finish") /\ Once(stack', "finish")
        /\ Once(stack', "poll") /\ NotCut(stack') /\ Room(stack', space')
    BY <1>2 DEF WellFormed, Has, Once, NotCut, Room
  <2> QED BY <1>1, <1>2, <1>4, <2>1, Zenon DEF OneCallback, SpaceIsThere
<1>6. nested \/ closedInAccept \/ (~used /\ freed = 0)
  BY <1>1, <1>4 DEF FreedIsLeft
<1>7. \/ UNCHANGED <<open, freed, released>>
      \/ freed' = freed + 1 /\ released' /\ ~open'
  BY Zenon DEF channel_accept
<1>8. FreedIsLeft'
  <2>1. AllPlain(stack')
    BY <1>2 DEF AllPlain
  <2> QED BY <1>2, <1>6, <1>7, <2>1 DEF FreedIsLeft
<1>9. ClosedIsReleased'
  <2>1. ~Accepting'
    BY <1>2 DEF Accepting, Has
  <2> QED BY <1>1, <1>2, <1>7, <2>1 DEF ClosedIsReleased
<1>10. EndsForAReason' /\ InOrder'
  BY <1>1, <1>2, Zenon DEF EndsForAReason, InOrder
<1>11. freed' \in Nat
  BY <1>1, <1>7
<1>12. ChannelTypes'
  BY <1>1, <1>2, <1>11 DEF ChannelTypes
<1> QED BY <1>5, <1>8, <1>9, <1>10, <1>12, Zenon DEF ChannelInv

\* The callback returns to aio_finish_one, which frees a channel that was closed;
\* its callers do not touch it.
LEMMA CallbackReturnsPreserves ==
    ASSUME ChannelInv, CallbackReturns
    PROVE  ChannelInv'
<1>1. /\ ChannelTypes /\ WellFormed(stack) /\ OneCallback /\ FreedIsLeft /\ ClosedIsReleased
      /\ SpaceIsThere /\ EndsForAReason /\ InOrder
      /\ stack \in Seq(Frames) /\ freed \in Nat
  BY Zenon DEF ChannelInv, ChannelTypes
<1>2. /\ stack # <<>> /\ stack[1].f = "finish" /\ ~in_callback'
      /\ UNCHANGED <<open, alive, space, aio_send, aio_receive, released, nested, requeued,
                     closedInAccept, report, last, received>>
  BY <1>1 DEF CallbackReturns, Runs, Top
<1>3. EndsForAReason' /\ InOrder'
  BY <1>1, <1>2, Zenon DEF EndsForAReason, InOrder
<1>4. ~Has(stack, "accept") /\ ~closedInAccept
  <2>1. ~Has(stack, "accept")
    BY <1>1, <1>2, AcceptAlone, Zenon
  <2> QED BY <1>1, <1>2, <2>1, Zenon DEF ClosedIsReleased, Accepting
<1>5. nested \/ (~used /\ freed = 0)
  <2>1. ~AllPlain(stack)
    BY <1>1, <1>2 DEF AllPlain
  <2> QED BY <1>1, <1>4, <2>1 DEF FreedIsLeft
<1>6. CASE freed > 0
  <2>1. nested /\ UNCHANGED <<freed, stack>>
    BY <1>1, <1>5, <1>6 DEF CallbackReturns
  <2>2. OneCallback' /\ FreedIsLeft' /\ WellFormed(stack')
    BY <1>1, <1>2, <2>1, Zenon DEF OneCallback, FreedIsLeft
  <2>3. ClosedIsReleased' /\ SpaceIsThere'
    BY <1>1, <1>2, <2>1, Zenon DEF ClosedIsReleased, Accepting, SpaceIsThere
  <2>4. ChannelTypes'
    BY <1>1, <1>2, <2>1, Zenon DEF ChannelTypes
  <2> QED BY <1>3, <2>2, <2>3, <2>4, Zenon DEF ChannelInv
<1>7. ASSUME NEW k \in 1 .. Len(stack), Drops(stack', stack, k), freed' \in Nat, FreedIsLeft'
      PROVE  ChannelInv'
  <2>1. stack' \in Seq(Frames) /\ WellFormed(stack')
    BY <1>1, <1>7, DropsWell DEF Drops
  <2>2. OneCallback'
    BY <1>1, <1>2, <1>7, DropsOnce DEF OneCallback
  <2>3. ClosedIsReleased'
    <3>1. ~Accepting'
      BY <1>1, <1>4, <1>7, DropsHas DEF Accepting
    <3> QED BY <1>1, <1>2, <1>4, <3>1, Zenon DEF ClosedIsReleased
  <2>4. SpaceIsThere'
    <3>1. Once(stack, "poll") => Once(stack', "poll")
      BY <1>1, <1>7, DropsOnce
    <3>2. NotCut(stack) => NotCut(stack')
      BY <1>1, <1>7, DropsPlain
    <3>3. Room(stack, space) => Room(stack', space)
      BY <1>1, <1>7, DropsRoom
    <3> QED BY <1>1, <1>2, <3>1, <3>2, <3>3, Zenon DEF SpaceIsThere
  <2>5. ChannelTypes'
    BY <1>1, <1>2, <1>7, <2>1, Zenon DEF ChannelTypes
  <2> QED BY <1>3, <1>7, <2>1, <2>2, <2>3, <2>4, <2>5, Zenon DEF ChannelInv
<1>8. CASE ~(freed > 0) /\ open
  <2>1. stack' = Tail(stack) /\ freed' = freed /\ used' = used
    BY <1>8, Zenon DEF CallbackReturns
  <2>2. Drops(stack', stack, 1) /\ 1 \in 1 .. Len(stack)
    BY <1>1, <1>2, <2>1, DropsOne
  <2>3. FreedIsLeft'
    BY <1>2, <1>5, <2>1 DEF FreedIsLeft
  <2> QED BY <1>1, <1>7, <2>1, <2>2, <2>3, Zenon
<1>9. CASE ~(freed > 0) /\ ~open
  <2>1. stack' = Unwound(stack) /\ freed' = freed + 1 /\ used' = used /\ freed = 0
    BY <1>1, <1>9 DEF CallbackReturns
  <2>2. PICK k \in 1 .. Len(stack) :
           /\ Unwound(stack) = SubSeq(stack, k + 1, Len(stack))
           /\ k < Len(stack) => stack[k + 1].f \in {"finish", "accept", "plain"}
    BY <1>1, <1>2, Unwinds, Zenon
  <2>3. Drops(stack', stack, k)
    BY <1>1, <2>1, <2>2, DropsMany, Zenon
  <2>4. ASSUME ~nested PROVE AllPlain(stack')
    <3>1. stack' \in Seq(Frames) /\ WellFormed(stack')
      BY <1>1, <2>3, DropsWell DEF Drops
    <3>2. ~Has(stack', "finish") /\ ~Has(stack', "accept")
      BY <1>1, <1>2, <1>4, <2>3, <2>4, DropsOnce, DropsHas DEF OneCallback
    <3>3. stack' # <<>> => stack'[1] = stack[k + 1] /\ k < Len(stack) /\ Has(stack', stack'[1].f)
      BY <1>1, <2>3, <3>1 DEF Drops, Has
    <3>4. stack' # <<>> => stack'[1].f = "plain"
      BY <2>2, <3>2, <3>3, Zenon
    <3> QED BY <3>1, <3>2, <3>4, RestIsPlain, Zenon
  <2>5. FreedIsLeft'
    <3>1. released'
      BY <1>1, <1>2, <1>9, Zenon DEF ClosedIsReleased
    <3> QED BY <1>2, <1>5, <2>1, <2>4, <3>1 DEF FreedIsLeft
  <2> QED BY <1>7, <2>1, <2>3, <2>5
<1> QED BY <1>6, <1>8, <1>9, Zenon

\* A poll or receive callback returns.
LEMMA PlainReturnsPreserves ==
    ASSUME ChannelInv, PlainReturns
    PROVE  ChannelInv'
<1>1. /\ ChannelTypes /\ WellFormed(stack) /\ OneCallback /\ FreedIsLeft /\ ClosedIsReleased
      /\ SpaceIsThere /\ EndsForAReason /\ InOrder
      /\ stack \in Seq(Frames)
  BY Zenon DEF ChannelInv, ChannelTypes
<1>2. /\ stack # <<>> /\ stack[1].f = "plain" /\ stack' = Tail(stack)
      /\ UNCHANGED <<heap, alive, space, aio_send, aio_receive, report, last, received>>
  BY <1>1 DEF PlainReturns, Runs, Top
<1>3. UNCHANGED <<open, freed, in_callback, released, used, nested, requeued, closedInAccept>>
  BY <1>2, Zenon DEF heap
<1>4. EndsForAReason' /\ InOrder'
  BY <1>1, <1>2, <1>3, Zenon DEF EndsForAReason, InOrder
<1>5. Drops(stack', stack, 1) /\ 1 \in 0 .. Len(stack)
  BY <1>1, <1>2, DropsOne
<1>6. stack' \in Seq(Frames) /\ WellFormed(stack')
  BY <1>1, <1>5, DropsWell, Zenon DEF Drops
<1>7. OneCallback'
  <2>1. Has(stack', "finish") => Has(stack, "finish")
    BY <1>1, <1>5, DropsHas, Zenon
  <2>2. Has(stack, "finish") => Has(stack', "finish")
    <3>1. \A j \in 1 .. 1 : stack[j].f # "finish"
      BY <1>2
    <3> QED BY <1>1, <1>5, <3>1, DropsKeeps, Zenon
  <2>3. Once(stack, "finish") => Once(stack', "finish")
    BY <1>1, <1>5, DropsOnce, Zenon
  <2> QED BY <1>1, <1>3, <2>1, <2>2, <2>3, Zenon DEF OneCallback
<1>8. FreedIsLeft'
  <2>1. AllPlain(stack) => AllPlain(stack')
    BY <1>1, <1>5, DropsPlain, Zenon
  <2> QED BY <1>1, <1>3, <2>1, Zenon DEF FreedIsLeft
<1>9. ClosedIsReleased'
  <2>1. ~Has(stack, "accept")
    BY <1>1, <1>2, AcceptAlone, Zenon
  <2>2. ~Has(stack', "accept")
    BY <1>1, <1>5, <2>1, DropsHas, Zenon
  <2> QED BY <1>1, <1>2, <1>3, <2>1, <2>2, Zenon DEF ClosedIsReleased, Accepting
<1>10. SpaceIsThere'
  <2>1. Once(stack, "poll") => Once(stack', "poll")
    BY <1>1, <1>5, DropsOnce, Zenon
  <2>2. NotCut(stack) => NotCut(stack')
    BY <1>1, <1>5, DropsPlain, Zenon
  <2>3. Room(stack, space) => Room(stack', space)
    BY <1>1, <1>5, DropsRoom, Zenon
  <2> QED BY <1>1, <1>2, <1>3, <2>1, <2>2, <2>3, Zenon DEF SpaceIsThere
<1>11. ChannelTypes'
  BY <1>1, <1>2, <1>3, <1>6, Zenon DEF ChannelTypes
<1> QED BY <1>4, <1>6, <1>7, <1>8, <1>9, <1>10, <1>11, Zenon DEF ChannelInv

-----------------------------------------------------------------------------
\* A stack that the functions of the channel can go on with after a step.
Resumes(below) ==
    /\ below \in Seq(Frames) /\ WellFormed(below)
    /\ below # <<>> => MayCall("finish", below[1].f)
    /\ Has(below, "finish") <=> Has(stack, "finish")
    /\ Once(stack, "finish") => Once(below, "finish")
    /\ Has(below, "accept") => Has(stack, "accept")
    /\ requeued \/ /\ Once(below, "poll") /\ NotCut(below)
                   /\ aio_send' = <<>> \/ Room(below, space')

\* The step leaves the channel alone and its queue of buffers in order.
Kept ==
    /\ UNCHANGED <<open, freed, released, used, requeued, closedInAccept>>
    /\ space' \in Nat /\ last' \in Nat
    /\ aio_send' \in Seq(Buffers) /\ aio_receive' \in Seq(Buffers)
    /\ last' <= Len(report) + 1 /\ Ordered(aio_send', last', Len(report))

\* A step of the functions of the channel without a callback.
LEMMA ResumePreserves ==
    ASSUME ChannelInv, stack # <<>>, stack[1].f \in {"poll", "recv", "abort"},
           Kept, Resumes(stack'), UNCHANGED <<report, in_callback, nested>>
    PROVE  ChannelInv'
<1>1. /\ OneCallback /\ SpaceIsThere /\ EndsForAReason /\ report \in Seq(Endings) /\ freed \in Nat
  BY Zenon DEF ChannelInv, ChannelTypes
<1>2. FreedIsLeft' /\ ClosedIsReleased'
  BY Alive, Zenon DEF Kept, Resumes
<1>3. stack' \in Seq(Frames) /\ WellFormed(stack') /\ OneCallback'
  BY <1>1, Zenon DEF Resumes, OneCallback
<1>4. SpaceIsThere'
  BY Zenon DEF Resumes, SpaceIsThere, Kept
<1>5. EndsForAReason' /\ InOrder'
  BY <1>1, Zenon DEF EndsForAReason, InOrder, Kept
<1>6. ChannelTypes'
  BY <1>1, <1>3, Zenon DEF ChannelTypes, Kept
<1> QED BY <1>2, <1>3, <1>4, <1>5, <1>6, Zenon DEF ChannelInv

\* A step that finishes a buffer, with its callback.
LEMMA FinishPreserves ==
    ASSUME ChannelInv, stack # <<>>, stack[1].f \in {"poll", "recv", "abort"}, Kept,
           NEW below, Resumes(below), NEW aio, NEW why \in {"whole", "cut", "failed"},
           why = "cut" => requeued, Finish(aio, why, below)
    PROVE  ChannelInv'
<1>1. /\ ChannelTypes /\ OneCallback /\ SpaceIsThere /\ EndsForAReason
      /\ report \in Seq(Endings) /\ freed \in Nat
  BY Zenon DEF ChannelInv, ChannelTypes
<1> DEFINE x == [f |-> "finish"]
<1>2. x \in Frames /\ x.f = "finish" /\ below \in Seq(Frames)
  BY FrameKinds, Zenon DEF Resumes
<1> HIDE DEF x
<1>3. Finished(why, below)
  BY <1>1, Finishes, Zenon DEF Resumes, OneCallback
<1>4. Puts(stack', x, below) /\ WellFormed(stack') /\ OneCallback' /\ (nested => nested')
      /\ Reported(report', report, why)
  BY <1>3, Zenon DEF Finished, x
<1>5. Has(stack', "accept") => Has(stack, "accept")
  BY <1>2, <1>4, PutsHas, Zenon DEF Resumes
<1>6. FreedIsLeft' /\ ClosedIsReleased'
  BY <1>4, <1>5, Alive, Zenon DEF Kept
<1>7. SpaceIsThere'
  <2>1. Once(below, "poll") => Once(stack', "poll")
    BY <1>2, <1>4, PutsOnce, Zenon
  <2>2. NotCut(below) => NotCut(stack')
    BY <1>2, <1>4, PutsNotCut, Zenon
  <2>3. Room(below, space') => Room(stack', space')
    BY <1>2, <1>4, PutsRoom, Zenon
  <2> QED BY <2>1, <2>2, <2>3, Zenon DEF Resumes, SpaceIsThere, Kept
<1>8. report' \in Seq(Endings) /\ Len(report') = Len(report) /\ EndsForAReason'
  BY <1>1, <1>4, Zenon DEF Reported, EndsForAReason, Kept
<1>9. InOrder'
  BY <1>8, Zenon DEF InOrder, Kept
<1>10. ChannelTypes'
  BY <1>1, <1>4, <1>8, Zenon DEF ChannelTypes, Kept, Puts
<1> QED BY <1>4, <1>6, <1>7, <1>8, <1>9, <1>10, Zenon DEF ChannelInv

\* The caller of the function that is running.
LEMMA NextFrame ==
    ASSUME NEW s \in Seq(Frames), WellFormed(s), s # <<>>, NEW t, Drops(t, s, 1), t # <<>>
    PROVE  MayCall(s[1].f, t[1].f)
<1>1. t[1] = s[2] /\ 1 \in 1 .. Len(s) - 1
  BY DEF Drops
<1> QED BY <1>1 DEF WellFormed

\* The loop of channel_poll or channel_recv ends.
LEMMA ResumesRest ==
    ASSUME ChannelInv, stack # <<>>, stack[1].f \in {"poll", "recv"},
           NEW t, Drops(t, stack, 1),
           requeued \/ aio_send' = <<>> \/ Room(t, space')
    PROVE  Resumes(t)
<1>1. stack \in Seq(Frames) /\ WellFormed(stack) /\ SpaceIsThere /\ 1 \in 0 .. Len(stack)
  BY DEF ChannelInv, ChannelTypes
<1>2. t \in Seq(Frames) /\ WellFormed(t)
  BY <1>1, DropsWell, Zenon DEF Drops
<1>3. t # <<>> => MayCall("finish", t[1].f)
  BY <1>1, NextFrame, Zenon DEF MayCall
<1>4. Has(t, "finish") <=> Has(stack, "finish")
  <2>1. \A j \in 1 .. 1 : stack[j].f # "finish"
    OBVIOUS
  <2> QED BY <1>1, <2>1, DropsHas, DropsKeeps, Zenon
<1>5. Once(stack, "finish") => Once(t, "finish")
  BY <1>1, DropsOnce, Zenon
<1>6. Has(t, "accept") => Has(stack, "accept")
  BY <1>1, DropsHas, Zenon
<1>7. requeued \/ (Once(t, "poll") /\ NotCut(t))
  BY <1>1, DropsOnce, DropsPlain, Zenon DEF SpaceIsThere
<1> QED BY <1>2, <1>3, <1>4, <1>5, <1>6, <1>7, Zenon DEF Resumes

\* A frame over what is left of the stack.
LEMMA ResumesOver ==
    ASSUME ChannelInv, NEW k \in 0 .. Len(stack), NEW t, Drops(t, stack, k),
           \A i \in 1 .. k : stack[i].f # "finish",
           NEW x \in Frames, x.f \in {"plain", "poll", "recv", "abort"}, NEW below, Puts(below, x, t),
           t = <<>> => x.f # "abort", t # <<>> => MayCall(x.f, t[1].f),
           requeued \/ /\ x.f = "poll" => ~Has(t, "poll")
                       /\ x.f = "abort" => x.why # "cut"
                       /\ aio_send' = <<>> \/ (Room(t, space') /\ (x.f = "poll" => x.len <= space'))
    PROVE  Resumes(below)
<1>1. stack \in Seq(Frames) /\ WellFormed(stack) /\ SpaceIsThere
  BY Zenon DEF ChannelInv, ChannelTypes
<1>2. t \in Seq(Frames) /\ WellFormed(t)
  BY <1>1, DropsWell, Zenon DEF Drops
<1>3. below \in Seq(Frames) /\ WellFormed(below)
  BY <1>2, PutsWell, Zenon DEF Puts
<1>4. MayCall("finish", below[1].f)
  BY Zenon DEF Puts, MayCall
<1>5. Has(below, "finish") <=> Has(stack, "finish")
  <2>1. Has(t, "finish") <=> Has(stack, "finish")
    BY <1>1, DropsHas, DropsKeeps, Zenon
  <2> QED BY <1>2, <2>1, PutsHas, Zenon
<1>6. Once(stack, "finish") => Once(below, "finish")
  <2>1. Once(stack, "finish") => Once(t, "finish")
    BY <1>1, DropsOnce, Zenon
  <2> QED BY <1>2, <2>1, PutsOnce, Zenon
<1>7. Has(below, "accept") => Has(stack, "accept")
  <2>1. Has(t, "accept") => Has(stack, "accept")
    BY <1>1, DropsHas, Zenon
  <2> QED BY <1>2, <2>1, PutsHas, Zenon
<1>8. ASSUME ~requeued
      PROVE  Once(below, "poll") /\ NotCut(below) /\ (aio_send' = <<>> \/ Room(below, space'))
  <2>1. Once(t, "poll") /\ NotCut(t)
    BY <1>1, <1>8, DropsOnce, DropsPlain, Zenon DEF SpaceIsThere
  <2>2. Once(below, "poll")
    BY <1>2, <1>8, <2>1, PutsOnce, Zenon
  <2>3. NotCut(below)
    BY <1>2, <1>8, <2>1, PutsNotCut, Zenon
  <2>4. aio_send' = <<>> \/ Room(below, space')
    BY <1>2, <1>8, PutsRoom, Zenon
  <2> QED BY <2>2, <2>3, <2>4, Zenon
<1> QED BY <1>3, <1>4, <1>5, <1>6, <1>7, <1>8, Zenon DEF Resumes

\* Nothing is taken off.
LEMMA DropsNone ==
    ASSUME NEW s \in Seq(Frames)
    PROVE  Drops(s, s, 0)
BY DEF Drops

\* A step that leaves the buffers to send alone.
LEMMA KeptSame ==
    ASSUME ChannelInv, UNCHANGED <<open, freed, released, used, requeued, closedInAccept>>,
           UNCHANGED <<space, last, aio_send>>, aio_receive' \in Seq(Buffers)
    PROVE  Kept
BY Zenon DEF ChannelInv, ChannelTypes, InOrder, Kept

\* channel_poll or channel_recv calls aio_abort.
LEMMA AbortFrame ==
    ASSUME ChannelInv, stack # <<>>, stack[1].f \in {"poll", "recv"}, NEW why \in {"cut", "failed"},
           Calls(Abort(why)), why = "cut" => requeued,
           requeued \/ aio_send' = <<>> \/ Room(stack, space')
    PROVE  Resumes(stack')
<1>1. stack \in Seq(Frames) /\ WellFormed(stack)
  BY Zenon DEF ChannelInv, ChannelTypes
<1> DEFINE x == Abort(why)
<1>2. x \in Frames /\ x.f = "abort" /\ x.why = why
  BY FrameKinds, Zenon DEF Abort
<1> HIDE DEF x
<1>3. Puts(stack', x, stack)
  BY <1>1, <1>2, PutsOne, Zenon DEF Calls, x
<1>4. Drops(stack, stack, 0) /\ 0 \in 0 .. Len(stack)
  BY <1>1, DropsNone
<1>5. MayCall(x.f, stack[1].f)
  BY <1>2, Zenon DEF MayCall
<1>6. requeued \/ /\ x.f = "poll" => ~Has(stack, "poll")
                  /\ x.f = "abort" => x.why # "cut"
                  /\ aio_send' = <<>> \/ (Room(stack, space') /\ (x.f = "poll" => x.len <= space'))
  BY <1>2, Zenon
<1> QED BY <1>2, <1>3, <1>4, <1>5, <1>6, ResumesOver

\* channel_poll or channel_recv ends with the callback of the application.
LEMMA EndFrame ==
    ASSUME ChannelInv, stack # <<>>, NEW k \in 1 .. Len(stack),
           \A i \in 1 .. k : stack[i].f \in {"poll", "recv", "abort"},
           stack[k].f \in {"poll", "recv"}, NEW t, Drops(t, stack, k),
           stack' = <<[f |-> "plain"]>> \o t, UNCHANGED <<aio_send, space>>
    PROVE  Resumes(stack')
<1>1. stack \in Seq(Frames) /\ WellFormed(stack) /\ SpaceIsThere /\ t \in Seq(Frames)
  BY Zenon DEF ChannelInv, ChannelTypes, Drops
<1> DEFINE x == [f |-> "plain"]
<1>2. x \in Frames /\ x.f = "plain"
  BY FrameKinds, Zenon
<1>3. stack' = <<x>> \o t
  BY Zenon
<1> HIDE DEF x
<1>4. Puts(stack', x, t)
  BY <1>1, <1>2, <1>3, PutsOne, Zenon
<1>5. t # <<>> => MayCall(x.f, t[1].f)
  <2>1. t # <<>> => t[1] = stack[k + 1] /\ MayCall(stack[k].f, stack[k + 1].f)
    BY <1>1 DEF Drops, WellFormed
  <2> QED BY <1>2, <2>1, Zenon DEF MayCall
<1>6. requeued \/ aio_send' = <<>> \/ Room(t, space')
  <2>1. Room(stack, space) => Room(t, space)
    BY <1>1, DropsRoom
  <2> QED BY <1>1, <2>1, Zenon DEF SpaceIsThere
<1>7. \A j \in 1 .. k : stack[j].f # "finish"
  BY Zenon
<1>8. k \in 0 .. Len(stack)
  OBVIOUS
<1> QED BY <1>2, <1>4, <1>5, <1>6, <1>7, <1>8, ResumesOver, Zenon

\* channel_poll or channel_recv is told of an error and aborts the buffers.
LEMMA PollAbortsPreserves ==
    ASSUME ChannelInv, PollAborts \/ RecvAborts
    PROVE  ChannelInv'
<1>1. stack \in Seq(Frames) /\ aio_receive \in Seq(Buffers) /\ SpaceIsThere
  BY Zenon DEF ChannelInv, ChannelTypes
<1>2. /\ stack # <<>> /\ stack[1].f \in {"poll", "recv"} /\ Calls(Abort("failed"))
      /\ UNCHANGED <<heap, alive, space, aio_send, aio_receive, report, last, received>>
  BY <1>1 DEF PollAborts, RecvAborts, Runs, Top
<1>3. UNCHANGED <<open, freed, in_callback, released, used, nested, requeued, closedInAccept>>
  BY <1>2, Zenon DEF heap
<1>4. Kept
  BY <1>1, <1>2, <1>3, KeptSame, Zenon
<1>5. Resumes(stack')
  BY <1>1, <1>2, AbortFrame, Zenon DEF SpaceIsThere
<1> QED BY <1>2, <1>3, <1>4, <1>5, ResumePreserves, Zenon

\* channel_poll or channel_recv finds no buffer.
LEMMA PollEndsPreserves ==
    ASSUME ChannelInv, PollEnds \/ RecvEnds
    PROVE  ChannelInv'
<1>1. stack \in Seq(Frames) /\ aio_receive \in Seq(Buffers)
  BY Zenon DEF ChannelInv, ChannelTypes
<1>2. /\ stack # <<>> /\ stack[1].f \in {"poll", "recv"}
      /\ stack' = <<[f |-> "plain"]>> \o Tail(stack)
      /\ UNCHANGED <<heap, alive, space, aio_send, aio_receive, report, last, received>>
  BY <1>1 DEF PollEnds, RecvEnds, Runs, Top
<1>3. UNCHANGED <<open, freed, in_callback, released, used, nested, requeued, closedInAccept>>
  BY <1>2, Zenon DEF heap
<1>4. Kept
  BY <1>1, <1>2, <1>3, KeptSame, Zenon
<1>5. Resumes(stack')
  <2>1. Drops(Tail(stack), stack, 1) /\ 1 \in 1 .. Len(stack)
    BY <1>1, <1>2, DropsOne
  <2>2. \A j \in 1 .. 1 : stack[j].f \in {"poll", "recv", "abort"}
    BY <1>2
  <2> QED BY <1>2, <2>1, <2>2, EndFrame, Zenon
<1> QED BY <1>2, <1>3, <1>4, <1>5, ResumePreserves, Zenon

\* The function that is running goes on after the callback.
LEMMA ResumesSame ==
    ASSUME ChannelInv, stack # <<>>, stack[1].f \in {"poll", "recv", "abort"},
           requeued \/ aio_send' = <<>> \/ Room(stack, space')
    PROVE  Resumes(stack)
<1>1. stack \in Seq(Frames) /\ WellFormed(stack) /\ SpaceIsThere
  BY Zenon DEF ChannelInv, ChannelTypes
<1>2. MayCall("finish", stack[1].f)
  BY Zenon DEF MayCall
<1> QED BY <1>1, <1>2, Zenon DEF Resumes, SpaceIsThere

\* A file cannot be read in channel_poll.
LEMMA ReadFailsPreserves ==
    ASSUME ChannelInv, PollReadFails
    PROVE  ChannelInv'
<1>1. /\ stack \in Seq(Frames) /\ aio_receive \in Seq(Buffers) /\ aio_send \in Seq(Buffers)
      /\ SpaceIsThere /\ InOrder /\ space \in Nat /\ last \in Nat /\ report \in Seq(Endings)
  BY Zenon DEF ChannelInv, ChannelTypes
<1>2. /\ stack # <<>> /\ stack[1].f = "poll" /\ aio_send # <<>> /\ aio_send' = Tail(aio_send)
      /\ Finish(Head(aio_send), "failed", stack)
      /\ UNCHANGED <<open, freed, released, used, requeued, closedInAccept, alive, space, aio_receive,
                     last, received>>
  BY <1>1 DEF PollReadFails, Runs, Top
<1>3. Kept
  <2>1. aio_send' \in Seq(Buffers) /\ Ordered(aio_send', last, Len(report))
    BY <1>1, <1>2, QueueShrinks DEF InOrder
  <2> QED BY <1>1, <1>2, <2>1, Zenon DEF Kept, InOrder
<1>4. Resumes(stack)
  BY <1>1, <1>2, ResumesSame, Zenon DEF SpaceIsThere
<1> QED BY <1>2, <1>3, <1>4, FinishPreserves, Zenon

\* A file cannot be written in channel_recv.
LEMMA WriteFailsPreserves ==
    ASSUME ChannelInv, RecvWriteFails
    PROVE  ChannelInv'
<1>1. /\ stack \in Seq(Frames) /\ aio_receive \in Seq(Buffers) /\ SpaceIsThere
  BY Zenon DEF ChannelInv, ChannelTypes
<1>2. /\ stack # <<>> /\ stack[1].f = "recv" /\ aio_receive # <<>>
      /\ aio_receive' = Tail(aio_receive)
      /\ Finish(Head(aio_receive), "failed", stack)
      /\ UNCHANGED <<open, freed, released, used, requeued, closedInAccept, alive, space, aio_send,
                     last, received>>
  BY <1>1 DEF RecvWriteFails, Runs, Top
<1>3. aio_receive' \in Seq(Buffers)
  BY <1>1, <1>2
<1>4. Kept
  BY <1>2, <1>3, KeptSame, Zenon
<1>5. Resumes(stack)
  BY <1>1, <1>2, ResumesSame, Zenon DEF SpaceIsThere
<1> QED BY <1>2, <1>4, <1>5, FinishPreserves, Zenon

\* aio_abort finishes a buffer, or returns.
LEMMA AbortPreserves ==
    ASSUME ChannelInv, aio_abort
    PROVE  ChannelInv'
<1>1. /\ stack \in Seq(Frames) /\ aio_receive \in Seq(Buffers) /\ aio_send \in Seq(Buffers)
      /\ SpaceIsThere /\ InOrder /\ space \in Nat /\ last \in Nat /\ report \in Seq(Endings)
      /\ WellFormed(stack)
  BY Zenon DEF ChannelInv, ChannelTypes
<1>2. /\ stack # <<>> /\ stack[1].f = "abort" /\ Top = stack[1]
      /\ UNCHANGED <<open, freed, released, used, requeued, closedInAccept, alive, space, last, received>>
  BY <1>1 DEF aio_abort, Runs, Top
<1>3. Len(stack) >= 2 /\ stack[2].f \in {"poll", "recv"}
  <2>1. Len(stack) # 1 /\ Len(stack) # 0
    BY <1>1, <1>2 DEF WellFormed
  <2>2. Len(stack) >= 2
    <3>1. \A n \in Nat : n # 1 /\ n # 0 => n >= 2
      OBVIOUS
    <3>2. Len(stack) \in Nat
      BY <1>1
    <3> QED BY <2>1, <3>1, <3>2, Zenon
  <2>3. MayCall(stack[1].f, stack[2].f)
    BY <1>1, <2>2 DEF WellFormed
  <2> QED BY <1>2, <2>2, <2>3, Zenon DEF MayCall
<1> DEFINE q == IF stack[2].f = "poll" THEN aio_send ELSE aio_receive
<1>4. CASE q # <<>>
  <2>1. Finish(Head(q), stack[1].why, stack)
    BY <1>2, <1>4, Zenon DEF aio_abort
  <2>2. \/ aio_send # <<>> /\ aio_send' = Tail(aio_send) /\ UNCHANGED aio_receive
        \/ aio_receive # <<>> /\ aio_receive' = Tail(aio_receive) /\ UNCHANGED aio_send
    BY <1>4, Zenon DEF aio_abort
  <2>3. aio_send' \in Seq(Buffers) /\ aio_receive' \in Seq(Buffers)
        /\ Ordered(aio_send', last, Len(report))
    <3>1. CASE aio_send # <<>> /\ aio_send' = Tail(aio_send) /\ UNCHANGED aio_receive
      BY <1>1, <3>1, QueueShrinks DEF InOrder
    <3>2. CASE aio_receive # <<>> /\ aio_receive' = Tail(aio_receive) /\ UNCHANGED aio_send
      BY <1>1, <3>2 DEF InOrder
    <3> QED BY <2>2, <3>1, <3>2, Zenon
  <2>4. Kept
    BY <1>1, <1>2, <2>3, Zenon DEF Kept, InOrder
  <2>5. aio_send = <<>> => aio_send' = <<>>
    BY <2>2, Zenon
  <2>6. Resumes(stack)
    BY <1>1, <1>2, <2>5, ResumesSame, Zenon DEF SpaceIsThere
  <2>7. stack[1].why \in {"cut", "failed"} /\ (stack[1].why = "cut" => requeued)
    BY <1>1, <1>2, FrameFields DEF SpaceIsThere, NotCut
  <2> QED BY <1>2, <2>1, <2>4, <2>6, <2>7, FinishPreserves, Zenon
<1>5. CASE q = <<>>
  <2>1. /\ stack' = <<[f |-> "plain"]>> \o SubSeq(stack, 3, Len(stack))
        /\ UNCHANGED <<aio_send, aio_receive, report, in_callback, nested>>
    BY <1>5, Zenon DEF aio_abort
  <2>2. Kept
    BY <1>1, <1>2, <2>1, KeptSame, Zenon
  <2>3. Drops(SubSeq(stack, 3, Len(stack)), stack, 2) /\ 2 \in 1 .. Len(stack)
    <3>1. 2 \in 1 .. Len(stack) /\ 2 + 1 = 3
      BY <1>1, <1>3
    <3> QED BY <1>1, <3>1, DropsMany, Zenon
  <2>4. \A j \in 1 .. 2 : stack[j].f \in {"poll", "recv", "abort"}
    BY <1>2, <1>3
  <2>5. Resumes(stack')
    BY <1>2, <1>3, <2>1, <2>3, <2>4, EndFrame, Zenon
  <2> QED BY <1>2, <2>1, <2>2, <2>5, ResumePreserves, Zenon
<1> QED BY <1>4, <1>5, Zenon

\* A buffer is sent from or filled.
LEMMA BufferFilled ==
    ASSUME NEW aio \in Buffers, NEW n \in Nat
    PROVE  [aio EXCEPT !.done = @ + n] \in Buffers /\ [aio EXCEPT !.done = @ + n].id = aio.id
BY DEF Buffers

\* One pass handles no more than there is space or data for.
LEMMA TodoBound ==
    ASSUME NEW aio \in Buffers, NEW len \in Nat, NEW todo \in Todo(aio, len)
    PROVE  todo \in Nat /\ todo <= len
<1>1. aio.len \in Nat /\ aio.done \in Nat
  BY Zenon DEF Buffers
<1>2. todo \in 1 .. Least(aio.len - aio.done, len)
  BY Zenon DEF Todo
<1> QED BY <1>1, <1>2 DEF Least

\* The loop goes on after a buffer, unless all of the space or data is used.
LEMMA ResumesLoop ==
    ASSUME ChannelInv, stack # <<>>, stack[1].f \in {"poll", "recv"}, NEW n \in Nat,
           NEW x, x = [stack[1] EXCEPT !.len = n], NEW below,
           below = IF n = 0 THEN Tail(stack) ELSE <<x>> \o Tail(stack),
           requeued \/ aio_send' = <<>> \/
              (Room(Tail(stack), space') /\ (stack[1].f = "poll" => n <= space'))
    PROVE  Resumes(below)
<1>1. stack \in Seq(Frames) /\ WellFormed(stack) /\ SpaceIsThere /\ 1 \in 1 .. Len(stack)
  BY DEF ChannelInv, ChannelTypes
<1> DEFINE t == Tail(stack)
<1>2. Drops(t, stack, 1) /\ t \in Seq(Frames)
  BY <1>1, DropsOne
<1> HIDE DEF t
<1>3. CASE n = 0
  BY <1>2, <1>3, ResumesRest, Zenon DEF t
<1>4. CASE n # 0
  <2>1. stack[1] \in Frames
    BY <1>1
  <2>2. x \in Frames /\ x.f = stack[1].f /\ x.len = n
    BY <2>1, FrameShrinks, Zenon
  <2>3. Puts(below, x, t)
    BY <1>2, <1>4, <2>2, PutsOne, Zenon DEF t
  <2>4. t # <<>> => MayCall(x.f, t[1].f)
    BY <1>1, <1>2, <2>2, NextFrame, Zenon
  <2>5. requeued \/ /\ x.f = "poll" => ~Has(t, "poll")
                    /\ x.f = "abort" => x.why # "cut"
                    /\ aio_send' = <<>> \/ (Room(t, space') /\ (x.f = "poll" => x.len <= space'))
    <3>1. requeued \/ (x.f = "poll" => ~Has(t, "poll"))
      <4>1. 1 \in 0 .. Len(stack) /\ 1 > 0
        BY <1>1
      <4> QED BY <1>1, <1>2, <2>2, <4>1, DropsOnce, Zenon DEF SpaceIsThere
    <3> QED BY <2>2, <3>1, Zenon DEF t
  <2>6. \A j \in 1 .. 1 : stack[j].f # "finish"
    OBVIOUS
  <2>7. 1 \in 0 .. Len(stack) /\ x.f \in {"plain", "poll", "recv", "abort"} /\ x.f # "abort"
    BY <1>1, <2>2
  <2> QED BY <1>2, <2>2, <2>3, <2>4, <2>5, <2>6, <2>7, ResumesOver, Zenon
<1> QED BY <1>3, <1>4, Zenon

\* channel_recv fills a buffer.
LEMMA RecvFillsPreserves ==
    ASSUME ChannelInv, RecvFills
    PROVE  ChannelInv'
<1>1. /\ stack \in Seq(Frames) /\ aio_receive \in Seq(Buffers) /\ SpaceIsThere
  BY Zenon DEF ChannelInv, ChannelTypes
<1>2. /\ stack # <<>> /\ stack[1].f = "recv" /\ aio_receive # <<>> /\ Top = stack[1]
      /\ UNCHANGED <<open, freed, released, used, requeued, closedInAccept, alive, space, aio_send,
                     last, received>>
  BY <1>1 DEF RecvFills, Runs, Top
<1>3. stack[1] \in Frames /\ stack[1].len \in Nat
  BY <1>1, <1>2, FrameFields
<1> DEFINE aio == Head(aio_receive)
<1>4. aio \in Buffers
  BY <1>1, <1>2
<1>5. PICK todo \in Todo(aio, stack[1].len) :
        LET now  == [aio EXCEPT !.done = @ + todo]
            left == [stack[1] EXCEPT !.len = @ - todo]
            below == IF left.len = 0 THEN Tail(stack) ELSE <<left>> \o Tail(stack)
        IN  IF now.done < now.len
            THEN /\ aio_receive' = <<now>> \o Tail(aio_receive)
                 /\ stack' = below
                 /\ UNCHANGED <<report, in_callback, nested>>
            ELSE /\ aio_receive' = Tail(aio_receive)
                 /\ Finish(now, "whole", below)
  BY <1>2, Zenon DEF RecvFills
<1>6. todo \in Nat /\ todo <= stack[1].len
  BY <1>3, <1>4, TodoBound, Zenon
<1> DEFINE n == stack[1].len - todo
           now == [aio EXCEPT !.done = @ + todo]
           left == [stack[1] EXCEPT !.len = n]
           below == IF n = 0 THEN Tail(stack) ELSE <<left>> \o Tail(stack)
<1>7. n \in Nat
  BY <1>3, <1>6
<1>8. left.len = n /\ left = [stack[1] EXCEPT !.len = @ - todo]
  BY <1>2, <1>3, <1>7, FrameShrinks, Zenon
<1>9. now \in Buffers
  BY <1>4, <1>6, BufferFilled, Zenon
<1>10. IF now.done < now.len
       THEN /\ aio_receive' = <<now>> \o Tail(aio_receive)
            /\ stack' = below
            /\ UNCHANGED <<report, in_callback, nested>>
       ELSE /\ aio_receive' = Tail(aio_receive)
            /\ Finish(now, "whole", below)
  BY <1>5, <1>8, Zenon
<1> HIDE DEF n, now, left
<1>11. Resumes(below)
  <2>1. Room(stack, space) => Room(Tail(stack), space)
    <3>1. Drops(Tail(stack), stack, 1) /\ 1 \in 0 .. Len(stack)
      BY <1>1, <1>2, DropsOne
    <3> QED BY <1>1, <3>1, DropsRoom, Zenon
  <2>2. requeued \/ aio_send' = <<>> \/
              (Room(Tail(stack), space') /\ (stack[1].f = "poll" => n <= space'))
    BY <1>1, <1>2, <2>1, Zenon DEF SpaceIsThere
  <2> QED BY <1>2, <1>7, <2>2, ResumesLoop, Zenon DEF left
<1> HIDE DEF below
<1>12. CASE now.done < now.len
  <2>1. aio_receive' \in Seq(Buffers)
    BY <1>1, <1>2, <1>9, <1>10, <1>12
  <2>2. Kept
    BY <1>2, <2>1, KeptSame, Zenon
  <2>3. Resumes(stack') /\ UNCHANGED <<report, in_callback, nested>>
    BY <1>10, <1>11, <1>12, Zenon
  <2> QED BY <1>2, <2>2, <2>3, ResumePreserves, Zenon
<1>13. CASE ~(now.done < now.len)
  <2>1. aio_receive' \in Seq(Buffers)
    <3>1. aio_receive' = Tail(aio_receive)
      BY <1>10, <1>13, Zenon
    <3> QED BY <1>1, <1>2, <3>1
  <2>2. Kept
    BY <1>2, <2>1, KeptSame, Zenon
  <2>3. Finish(now, "whole", below)
    BY <1>10, <1>13, Zenon
  <2> QED BY <1>2, <1>11, <2>2, <2>3, FinishPreserves, Zenon
<1> QED BY <1>12, <1>13, Zenon

\* channel_poll sends from the first buffer: it has the space it was told of unless
\* a callback queued a buffer.
LEMMA PollSendsPreserves ==
    ASSUME ChannelInv, PollSends
    PROVE  ChannelInv' /\ last' >= last
<1>1. /\ stack \in Seq(Frames) /\ aio_send \in Seq(Buffers) /\ aio_receive \in Seq(Buffers)
      /\ SpaceIsThere /\ InOrder /\ space \in Nat /\ last \in Nat /\ report \in Seq(Endings)
  BY Zenon DEF ChannelInv, ChannelTypes
<1>2. /\ stack # <<>> /\ stack[1].f = "poll" /\ aio_send # <<>> /\ Top = stack[1]
      /\ UNCHANGED <<open, freed, released, used, requeued, closedInAccept, alive, aio_receive, received>>
  BY <1>1 DEF PollSends, Runs, Top
<1>3. stack[1] \in Frames /\ stack[1].len \in Nat
  BY <1>1, <1>2, FrameFields
<1> DEFINE aio == Head(aio_send)
<1>4. aio \in Buffers /\ aio.id \in Nat /\ last <= aio.id /\ aio.id <= Len(report)
  <2>1. aio = aio_send[1] /\ 1 \in 1 .. Len(aio_send) /\ aio \in Buffers
    BY <1>1, <1>2
  <2> QED BY <1>1, <2>1, BufferIds, Zenon DEF InOrder, Ordered
<1>5. PICK todo \in Todo(aio, stack[1].len) :
        LET sent == Least(todo, space)
            now  == [aio EXCEPT !.done = @ + sent]
            left == [stack[1] EXCEPT !.len = Remaining(@, sent)]
        IN  /\ space' = space - sent
            /\ last' = IF sent > 0 THEN aio.id ELSE last
            /\ IF sent # todo
               THEN /\ Calls(Abort("cut"))
                    /\ UNCHANGED <<aio_send, report, in_callback, nested>>
               ELSE IF now.done < now.len
               THEN /\ aio_send' = <<now>> \o Tail(aio_send)
                    /\ stack' = Tail(stack)
                    /\ UNCHANGED <<report, in_callback, nested>>
               ELSE /\ aio_send' = Tail(aio_send)
                    /\ Finish(now, "whole", IF left.len = 0 THEN Tail(stack)
                                            ELSE <<left>> \o Tail(stack))
  BY <1>2, Zenon DEF PollSends
<1>6. todo \in Nat /\ todo <= stack[1].len
  BY <1>3, <1>4, TodoBound, Zenon
<1> DEFINE sent == Least(todo, space)
           n == stack[1].len - sent
           now == [aio EXCEPT !.done = @ + sent]
           left == [stack[1] EXCEPT !.len = n]
           below == IF n = 0 THEN Tail(stack) ELSE <<left>> \o Tail(stack)
<1>7. sent \in Nat /\ sent <= space /\ sent <= todo /\ (sent # todo => space < todo)
  BY <1>1, <1>6 DEF Least
<1>8. space' = space - sent /\ last' = (IF sent > 0 THEN aio.id ELSE last)
  BY <1>5, Zenon
<1> HIDE DEF sent
<1>9. n \in Nat
  BY <1>3, <1>6, <1>7
<1>10. left.len = n /\ left = [stack[1] EXCEPT !.len = Remaining(@, sent)]
  BY <1>2, <1>3, <1>9, FrameShrinks, Zenon DEF Remaining
<1>11. now \in Buffers /\ now.id = aio.id
  BY <1>4, <1>7, BufferFilled, Zenon
<1>12. IF sent # todo
       THEN /\ Calls(Abort("cut"))
            /\ UNCHANGED <<aio_send, report, in_callback, nested>>
       ELSE IF now.done < now.len
       THEN /\ aio_send' = <<now>> \o Tail(aio_send)
            /\ stack' = Tail(stack)
            /\ UNCHANGED <<report, in_callback, nested>>
       ELSE /\ aio_send' = Tail(aio_send)
            /\ Finish(now, "whole", below)
  BY <1>5, <1>10, Zenon DEF sent
<1> HIDE DEF aio, n, now, left
<1>13. space' \in Nat /\ last' \in Nat /\ last <= last' /\ last' <= aio.id
       /\ last' <= Len(report) + 1
  BY <1>1, <1>4, <1>7, <1>8
<1>14. requeued \/ (Room(Tail(stack), space') /\ n <= space' /\ sent = todo)
  <2>1. Drops(Tail(stack), stack, 1) /\ 1 \in 0 .. Len(stack)
    BY <1>1, <1>2, DropsOne
  <2>2. requeued \/ (~Has(Tail(stack), "poll") /\ stack[1].len <= space)
    <3>1. requeued \/ Room(stack, space)
      BY <1>1, <1>2, Zenon DEF SpaceIsThere
    <3>2. Room(stack, space) => stack[1].len <= space
      BY <1>1, <1>2 DEF Room
    <3>3. requeued \/ ~Has(Tail(stack), "poll")
      BY <1>1, <1>2, <2>1, DropsOnce DEF SpaceIsThere
    <3> QED BY <3>1, <3>2, <3>3, Zenon
  <2>3. requeued \/ Room(Tail(stack), space')
    BY <2>2, NoPollRoom, Zenon
  <2>4. requeued \/ (n <= space' /\ sent = todo)
    BY <1>1, <1>3, <1>6, <1>7, <1>8, <2>2 DEF n
  <2> QED BY <2>3, <2>4, Zenon
<1>15. CASE sent # todo
  <2>1. requeued /\ Calls(Abort("cut")) /\ UNCHANGED <<aio_send, report, in_callback, nested>>
    BY <1>12, <1>14, <1>15, Zenon
  <2>2. Ordered(aio_send, last', Len(report))
    <3>1. ASSUME NEW j \in 1 .. Len(aio_send) PROVE last' <= aio_send[j].id
      <4>1. aio_send[j].id \in Nat /\ aio.id <= aio_send[j].id
        BY <1>1, <1>2, BufferIds DEF InOrder, Ordered, aio
      <4> QED BY <1>4, <1>13, <4>1
    <3> QED BY <1>1, <3>1, Zenon DEF InOrder, Ordered
  <2>3. Kept
    BY <1>1, <1>2, <1>13, <2>1, <2>2, Zenon DEF Kept
  <2>4. Resumes(stack')
    BY <1>2, <2>1, AbortFrame, Zenon
  <2> QED BY <1>2, <1>13, <2>1, <2>3, <2>4, ResumePreserves, Zenon
<1>16. CASE sent = todo /\ now.done < now.len
  <2>1. /\ aio_send' = <<now>> \o Tail(aio_send) /\ stack' = Tail(stack)
        /\ UNCHANGED <<report, in_callback, nested>>
    BY <1>12, <1>16, Zenon
  <2>2. aio_send' \in Seq(Buffers) /\ Ordered(aio_send', last', Len(report))
    BY <1>1, <1>2, <1>11, <1>13, <2>1, QueueHeadChanges DEF InOrder, aio
  <2>3. Kept
    BY <1>1, <1>2, <1>13, <2>2, Zenon DEF Kept
  <2>4. Resumes(stack')
    BY <1>1, <1>2, <1>14, <2>1, DropsOne, ResumesRest, Zenon
  <2> QED BY <1>2, <1>13, <2>1, <2>3, <2>4, ResumePreserves, Zenon
<1>17. CASE sent = todo /\ ~(now.done < now.len)
  <2>1. aio_send' = Tail(aio_send) /\ Finish(now, "whole", below)
    BY <1>12, <1>17, Zenon
  <2>2. aio_send' \in Seq(Buffers) /\ Ordered(aio_send', last', Len(report))
    BY <1>1, <1>2, <1>13, <2>1, QueueShrinks DEF InOrder, aio
  <2>3. Kept
    BY <1>1, <1>2, <1>13, <2>2, Zenon DEF Kept
  <2>4. Resumes(below)
    BY <1>2, <1>9, <1>14, ResumesLoop, Zenon DEF left
  <2> HIDE DEF below
  <2> QED BY <1>2, <1>13, <2>1, <2>3, <2>4, FinishPreserves, Zenon
<1> QED BY <1>15, <1>16, <1>17, Zenon

\* UTCP calls channel_poll or channel_recv.
LEMMA UtcpCallsPreserves ==
    ASSUME ChannelInv, UtcpPolls \/ UtcpReceives
    PROVE  ChannelInv'
<1>1. /\ ChannelTypes /\ OneCallback /\ ClosedIsReleased /\ SpaceIsThere /\ EndsForAReason /\ InOrder
      /\ space \in Nat
  BY Zenon DEF ChannelInv, ChannelTypes
<1>2. /\ stack = <<>> /\ open
      /\ UNCHANGED <<heap, alive, space, aio_send, aio_receive, report, last>>
  BY Zenon DEF UtcpPolls, UtcpReceives
<1>3. UNCHANGED <<open, freed, in_callback, released, used, nested, requeued, closedInAccept>>
  BY <1>2, Zenon DEF heap
<1>4. PICK x \in Frames : /\ stack' = <<x>> \o stack /\ x.f \in {"poll", "recv"}
                          /\ x.f = "poll" => x.len <= space
  <2>1. CASE UtcpPolls
    <3>1. PICK n \in {0, space} : stack' = <<Poll(n)>> \o stack
      BY <2>1, Zenon DEF UtcpPolls, Calls
    <3>2. Poll(n) \in Frames /\ Poll(n).f = "poll" /\ Poll(n).len <= space
      BY <1>1, FrameKinds DEF Poll
    <3> QED BY <3>1, <3>2, Zenon
  <2>2. CASE UtcpReceives
    <3>1. PICK n \in Lens \cup {0} : stack' = <<Recv(n)>> \o stack
      BY <2>2, Zenon DEF UtcpReceives, Calls
    <3>2. Recv(n) \in Frames /\ Recv(n).f = "recv"
      BY SizesAssumption, FrameKinds, Zenon DEF Recv
    <3> QED BY <3>1, <3>2, Zenon
  <2> QED BY <2>1, <2>2, Zenon
<1>5. FreedIsLeft' /\ ClosedIsReleased'
  <2>1. ~released
    BY <1>1, <1>2, Zenon DEF ClosedIsReleased
  <2> QED BY <1>3, <2>1, NotReleased, Zenon
<1>6. stack' \in Seq(Frames) /\ Len(stack') = 1 /\ stack'[1] = x /\ DOMAIN stack' = {1}
  BY <1>2, <1>4
<1>7. /\ WellFormed(stack') /\ ~Has(stack', "finish") /\ Once(stack', "finish")
      /\ Once(stack', "poll") /\ NotCut(stack') /\ Room(stack', space)
  BY <1>4, <1>6 DEF WellFormed, Has, Once, NotCut, Room
<1>8. ~Has(stack, "finish")
  BY <1>2 DEF Has
<1>9. OneCallback' /\ SpaceIsThere'
  BY <1>1, <1>2, <1>3, <1>7, <1>8, Zenon DEF OneCallback, SpaceIsThere
<1>10. EndsForAReason' /\ InOrder'
  BY <1>1, <1>2, <1>3, Zenon DEF EndsForAReason, InOrder
<1>11. ChannelTypes'
  BY <1>1, <1>2, <1>3, <1>6, Zenon DEF ChannelTypes
<1> QED BY <1>5, <1>7, <1>9, <1>10, <1>11, Zenon DEF ChannelInv

\* Data is acknowledged or the connection fails, between callbacks.
LEMMA UtcpAckedPreserves ==
    ASSUME ChannelInv, UtcpAcked \/ UtcpFails
    PROVE  ChannelInv'
<1>1. ChannelTypes /\ SpaceIsThere /\ EndsForAReason /\ InOrder
  BY Zenon DEF ChannelInv
<1>2. /\ stack = <<>> /\ space' \in {space, Capacity}
      /\ UNCHANGED <<heap, aio_send, aio_receive, stack, report, last, received>>
  BY Zenon DEF UtcpAcked, UtcpFails
<1>3. WellFormed(stack') /\ OneCallback' /\ FreedIsLeft' /\ ClosedIsReleased'
  BY <1>2, SameStack, Zenon
<1>4. requeued' = requeued /\ freed' = freed
  BY <1>2, Zenon DEF heap
<1>5. Once(stack', "poll") /\ NotCut(stack') /\ Room(stack', space')
  BY <1>2 DEF Once, NotCut, Room
<1>6. SpaceIsThere' /\ EndsForAReason' /\ InOrder'
  BY <1>1, <1>2, <1>4, <1>5, Zenon DEF SpaceIsThere, EndsForAReason, InOrder
<1>7. ChannelTypes'
  BY <1>1, <1>2, <1>4, SizesAssumption, Zenon DEF ChannelTypes
<1> QED BY <1>3, <1>6, <1>7, Zenon DEF ChannelInv

\* The invariant holds when the channel is made.
LEMMA InitChannel == ChannelInit => ChannelInv
<1> SUFFICES ASSUME ChannelInit PROVE ChannelInv
  BY Zenon
<1>1. stack \in Seq(Frames) /\ Len(stack) <= 1 /\ (stack # <<>> => stack[1].f = "accept")
      /\ \A j \in DOMAIN stack : stack[j].f = "accept" /\ j = 1
  <2>1. CASE stack = <<>>
    BY <2>1
  <2>2. CASE stack = <<[f |-> "accept"]>>
    <3>1. [f |-> "accept"] \in Frames
      BY Zenon DEF Frames
    <3> QED BY <2>2, <3>1
  <2> QED BY <2>1, <2>2, Zenon DEF ChannelInit
<1>2. /\ WellFormed(stack) /\ ~Has(stack, "finish") /\ Once(stack, "finish")
      /\ Once(stack, "poll") /\ NotCut(stack) /\ Room(stack, space)
  BY <1>1 DEF WellFormed, Has, Once, NotCut, Room
<1>3. OneCallback /\ FreedIsLeft /\ ClosedIsReleased /\ SpaceIsThere
  BY <1>2 DEF ChannelInit, OneCallback, FreedIsLeft, ClosedIsReleased, SpaceIsThere
<1>4. EndsForAReason /\ InOrder
  BY DEF ChannelInit, EndsForAReason, InOrder, Ordered
<1>5. ChannelTypes
  BY <1>1, SizesAssumption DEF ChannelInit, ChannelTypes
<1> QED BY <1>2, <1>3, <1>4, <1>5, Zenon DEF ChannelInv

\* A step of something else.
LEMMA StutterPreserves ==
    ASSUME ChannelInv, UNCHANGED channelvars
    PROVE  ChannelInv'
<1>1. UNCHANGED <<heap, stack>>
      /\ UNCHANGED <<space, aio_send, aio_receive, report, last, requeued, freed>>
  BY Zenon DEF channelvars, heap
<1>2. WellFormed(stack') /\ OneCallback' /\ FreedIsLeft' /\ ClosedIsReleased'
  BY <1>1, SameStack, Zenon
<1>3. ChannelTypes' /\ SpaceIsThere' /\ EndsForAReason' /\ InOrder'
  BY <1>1, Zenon DEF ChannelInv, ChannelTypes, SpaceIsThere, EndsForAReason, InOrder
<1> QED BY <1>2, <1>3, Zenon DEF ChannelInv

\* Every step preserves the invariant.
LEMMA NextChannel == ChannelInv /\ [ChannelNext]_channelvars => ChannelInv'
<1> SUFFICES ASSUME ChannelInv, [ChannelNext]_channelvars PROVE ChannelInv'
  BY Zenon
<1>1. ASSUME NEW len \in Lens, aio_send_call(len) PROVE ChannelInv'
  BY <1>1, SendCallPreserves, Zenon
<1>2. ASSUME NEW len \in Lens, aio_receive_call(len) PROVE ChannelInv'
  BY <1>2, ReceiveCallPreserves, Zenon
<1>3. ASSUME NEW len \in Lens, meshlink_channel_send(len) PROVE ChannelInv'
  BY <1>3, SendPreserves, Zenon
<1>4. CASE meshlink_channel_close
  BY <1>4, ClosePreserves, Zenon
<1>5. CASE CallbackReturns
  BY <1>5, CallbackReturnsPreserves, Zenon
<1>6. CASE channel_accept
  BY <1>6, AcceptPreserves, Zenon
<1>7. CASE PlainReturns
  BY <1>7, PlainReturnsPreserves, Zenon
<1>8. CASE aio_abort
  BY <1>8, AbortPreserves, Zenon
<1>9. CASE PollSends
  BY <1>9, PollSendsPreserves, Zenon
<1>10. CASE PollReadFails
  BY <1>10, ReadFailsPreserves, Zenon
<1>11. CASE PollAborts \/ RecvAborts
  BY <1>11, PollAbortsPreserves, Zenon
<1>12. CASE PollEnds \/ RecvEnds
  BY <1>12, PollEndsPreserves, Zenon
<1>13. CASE RecvFills
  BY <1>13, RecvFillsPreserves, Zenon
<1>14. CASE RecvWriteFails
  BY <1>14, WriteFailsPreserves, Zenon
<1>15. CASE UtcpPolls \/ UtcpReceives
  BY <1>15, UtcpCallsPreserves, Zenon
<1>16. CASE UtcpAcked \/ UtcpFails
  BY <1>16, UtcpAckedPreserves, Zenon
<1>17. CASE UNCHANGED channelvars
  BY <1>17, StutterPreserves, Zenon
<1> QED BY <1>1, <1>2, <1>3, <1>4, <1>5, <1>6, <1>7, <1>8, <1>9, <1>10, <1>11, <1>12, <1>13,
           <1>14, <1>15, <1>16, <1>17, Zenon DEF ChannelNext

\* No step sends from a buffer that is earlier than one already sent from.
LEMMA LastAdvances == ChannelInv /\ ChannelNext => last' >= last
<1> SUFFICES ASSUME ChannelInv, ChannelNext PROVE last' >= last
  BY Zenon
<1>1. last \in Nat
  BY Zenon DEF ChannelInv, ChannelTypes
<1>2. ASSUME NEW len \in Lens, meshlink_channel_send(len) PROVE last' >= last
  BY <1>2, SendPreserves, Zenon
<1>3. CASE PollSends
  BY <1>3, PollSendsPreserves, Zenon
<1>4. CASE last' = last
  BY <1>1, <1>4
<1>5. (\E len \in Lens : meshlink_channel_send(len)) \/ PollSends \/ last' = last
  BY Zenon
     DEF ChannelNext, aio_send_call, aio_receive_call, meshlink_channel_close, CallbackReturns,
         channel_accept, PlainReturns, aio_abort, PollReadFails, PollAborts, PollEnds, RecvFills,
         RecvWriteFails, RecvAborts, RecvEnds, UtcpPolls, UtcpReceives, UtcpAcked, UtcpFails
<1> QED BY <1>2, <1>3, <1>4, <1>5, Zenon

\* ChannelInv holds in every reachable state.
THEOREM ChannelInvariant == ChannelSpec => []ChannelInv
BY InitChannel, NextChannel, PTL DEF ChannelSpec

\* The channel may be closed at any time, in any callback except accept:
\* aio_finish_one and meshlink_channel_close free it once and no function uses it
\* afterwards, unless one callback of a buffer is called inside another.
THEOREM ClosingIsSafe == ChannelSpec => []CloseAllowedOnce
<1>1. ChannelInv => CloseAllowedOnce
  BY Zenon DEF ChannelInv, FreedIsLeft, CloseAllowedOnce, CloseAllowed
<1> QED BY <1>1, ChannelInvariant, PTL

\* channel_poll cuts a buffer short only if a callback it made queued another
\* buffer; otherwise buffers end whole, or because the connection or a file failed
\* or the channel was closed.
THEOREM EndsHaveReasons == ChannelSpec => []EndsForAReason
<1>1. ChannelInv => EndsForAReason
  BY Zenon DEF ChannelInv
<1> QED BY <1>1, ChannelInvariant, PTL

\* Data leaves in the order in which it was given to the channel, with
\* meshlink_channel_aio_send and meshlink_channel_send mixed in any way.
THEOREM DataGoesInOrder == ChannelSpec => SentInOrder
<1>1. ChannelInv /\ [ChannelNext]_channelvars => [last' >= last]_channelvars
  BY LastAdvances, Zenon
<1> QED BY <1>1, ChannelInvariant, PTL DEF ChannelSpec, SentInOrder
=============================================================================
