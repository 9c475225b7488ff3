------------------------------ MODULE ByteStore ------------------------------
(***************************************************************************)
(* What the send and receive buffers of a UTCP connection promise the rest *)
(* of src/utcp.c: a sequence of at most maxsize bytes that can be written  *)
(* at any offset, read without being removed, and shortened at the front.  *)
(***************************************************************************)
EXTENDS Integers, Sequences

CONSTANTS
    Byte,           \* values of a byte
    Chunks,         \* sequences of bytes that are put
    MaxSizes        \* sizes the application may ask for

VARIABLES
    bytes,          \* the bytes stored
    limit,          \* most bytes that may be stored
    answer          \* what the last operation returned

vars == <<bytes, limit, answer>>

Shorter(a, b) == IF a < b THEN a ELSE b
Longer(a, b) == IF a > b THEN a ELSE b

Init ==
    /\ bytes = <<>>
    /\ limit \in MaxSizes
    /\ answer = <<>>

\* As much of a chunk as the limit allows; bytes skipped before it may be
\* anything.
PutAt(offset, chunk) ==
    LET len == Longer(0, Shorter(Len(chunk), limit - offset))
        size == IF offset >= limit THEN Len(bytes) ELSE Longer(Len(bytes), offset + len)
    IN /\ \E skipped \in [Len(bytes) + 1 .. offset -> Byte] :
             bytes' = [i \in 1 .. size |->
                          IF i > offset /\ i <= offset + len THEN chunk[i - offset]
                          ELSE IF i <= Len(bytes) THEN bytes[i] ELSE skipped[i]]
       /\ answer' = SubSeq(chunk, 1, len)
       /\ UNCHANGED limit

\* There was no memory.
PutFails == answer' = <<>> /\ UNCHANGED <<bytes, limit>>

\* Some of the bytes stored are handed out.
Read(offset, len) ==
    /\ answer' = SubSeq(bytes, offset + 1, offset + len)
    /\ UNCHANGED <<bytes, limit>>

Discard(len) ==
    /\ bytes' = SubSeq(bytes, len + 1, Len(bytes))
    /\ answer' = <<>>
    /\ UNCHANGED limit

SetLimit(size) == limit' = size /\ answer' = <<>> /\ UNCHANGED bytes

Next ==
    \/ \E chunk \in Chunks, offset \in 0 .. Len(bytes) + 1 : PutAt(offset, chunk)
    \/ PutFails
    \/ \E offset \in 0 .. Len(bytes) : \E len \in 0 .. Len(bytes) - offset : Read(offset, len)
    \/ \E len \in 0 .. Len(bytes) : Discard(len)
    \/ \E size \in MaxSizes : SetLimit(size)

Spec == Init /\ [][Next]_vars
=============================================================================
