----------------------------- MODULE UtcpBuffer -----------------------------
(***************************************************************************)
(* struct buffer of src/utcp.c: a ring buffer that grows up to a maximum   *)
(* size, and whose storage may be replaced by the application's and back,  *)
(* while it holds data.                                                    *)
(***************************************************************************)
EXTENDS Integers, Sequences

CONSTANTS
    Byte,           \* values of a byte
    Chunks,         \* sequences of bytes that are put
    MaxSizes,       \* sizes the application may ask for
    Unit            \* half of the first allocation; 4096 in the code

VARIABLES
    buf,            \* struct buffer
    answer          \* the bytes the last operation stored or handed out

vars == <<buf, answer>>

Smaller(a, b) == IF a < b THEN a ELSE b

buffer_wraps(b) == b.size - b.offset < b.used

\* The n bytes from an offset on, around the end of the storage.
At(b, offset, n) == [i \in 1 .. n |-> b.data[(b.offset + offset + i - 1) % b.size]]
Content(b) == IF b.used = 0 THEN <<>> ELSE At(b, 0, b.used)

\* Mutant of Moved: the tail moves by what the buffer grew, but not the offset.
Moved_OffsetKept(b, data, newsize) ==
    LET newoffset == newsize - (b.size - b.offset) IN
    [b EXCEPT !.data = [i \in 0 .. newsize - 1 |->
                            IF i >= newoffset THEN data[i - newoffset + b.offset] ELSE data[i]]]

\* The right part of the buffer is shifted until it hits the end of the new one.
Moved(b, data, newsize) ==
    LET newoffset == newsize - (b.size - b.offset) IN
    [b EXCEPT !.offset = newoffset,
              !.data = [i \in 0 .. newsize - 1 |->
                            IF i >= newoffset THEN data[i - newoffset + b.offset] ELSE data[i]]]

\* realloc: the bytes gained may be anything; one value stands for them.
Grown(b, newsize) ==
    [i \in 0 .. newsize - 1 |-> IF i < b.size THEN b.data[i] ELSE CHOOSE x \in Byte : TRUE]

buffer_resize(b, newsize) ==
    IF newsize = 0 THEN [b EXCEPT !.data = [i \in {} |-> 0], !.size = 0, !.offset = 0]
    ELSE LET data == Grown(b, newsize)
             m == IF buffer_wraps(b) THEN Moved(b, data, newsize) ELSE [b EXCEPT !.data = data]
         IN [m EXCEPT !.size = newsize]

\* The size is doubled until it is enough.
Doubled(size, required) ==
    LET first == IF size = 0 THEN Unit ELSE size
    IN first * 2 ^ (CHOOSE k \in 1 .. 8 : first * 2 ^ k >= required
                        /\ \A j \in 1 .. k - 1 : first * 2 ^ j < required)

\* The bytes a put may store: none beyond maxsize.
Fits(b, offset, chunk) ==
    IF offset + Len(chunk) <= b.maxsize THEN chunk
    ELSE IF offset >= b.maxsize THEN <<>> ELSE SubSeq(chunk, 1, b.maxsize - offset)

Refused(b, offset, chunk) == offset + Len(chunk) > b.maxsize /\ offset >= b.maxsize

NeedsMemory(b, offset, chunk) ==
    ~Refused(b, offset, chunk) /\ offset + Len(Fits(b, offset, chunk)) > b.size

\* Stored at its place, the part past the end of the storage at the front.
buffer_put_at(b, offset, chunk) ==
    LET part == Fits(b, offset, chunk)
        required == offset + Len(part)
        g == IF NeedsMemory(b, offset, chunk)
             THEN buffer_resize(b, Smaller(Doubled(b.size, required), b.maxsize)) ELSE b
        realoffset == IF g.size - g.offset <= offset THEN g.offset + offset - g.size
                      ELSE g.offset + offset
    IN IF Refused(b, offset, chunk) THEN b
       ELSE [g EXCEPT !.data = [i \in DOMAIN @ |->
                    IF i >= realoffset /\ i < realoffset + Len(part) THEN part[i - realoffset + 1]
                    ELSE IF i + g.size < realoffset + Len(part) THEN part[i + g.size - realoffset + 1]
                    ELSE @[i]],
                      !.used = IF required > @ THEN required ELSE @]

\* buffer_copy and buffer_call read at most what is stored: up to the end of
\* the storage, then from its front.
Readable(b, offset, len) ==
    IF offset >= b.used THEN <<>>
    ELSE LET n == Smaller(len, b.used - offset)
             realoffset == IF b.size - b.offset <= offset THEN b.offset + offset - b.size
                           ELSE b.offset + offset
         IN [i \in 1 .. n |-> IF realoffset + i - 1 < b.size THEN b.data[realoffset + i - 1]
                              ELSE b.data[realoffset + i - 1 - b.size]]

buffer_copy(b, offset, len) == Readable(b, offset, len)

\* The part before the wrap goes to the callback first; if it takes less than
\* that, or closes the channel, the other part is not offered.
buffer_call(b, offset, len, first, second, closes) ==
    LET all == Readable(b, offset, len)
        tail == b.size - (IF b.size - b.offset <= offset THEN b.offset + offset - b.size ELSE b.offset + offset)
        taken == IF all = <<>> \/ tail >= Len(all) THEN Smaller(first, Len(all))
                 ELSE IF first < tail \/ closes THEN Smaller(first, tail)
                 ELSE Smaller(tail + second, Len(all))
    IN SubSeq(all, 1, taken)

buffer_discard(b, n) ==
    LET len == Smaller(n, b.used)
        offset == IF b.size - b.offset <= len THEN b.offset - b.size ELSE b.offset
    IN [b EXCEPT !.offset = IF b.used = len THEN 0 ELSE offset + len, !.used = @ - len]

buffer_clear(b) == [b EXCEPT !.used = 0, !.offset = 0]

\* The content moves to the start of other storage.
buffer_transfer(b, newsize) ==
    [b EXCEPT !.data = [i \in 0 .. newsize - 1 |->
                  IF i < b.used THEN Content(b)[i + 1] ELSE CHOOSE x \in Byte : TRUE],
              !.offset = 0, !.size = newsize]

\* The storage is the application's (external) or the library's.
set_buffer_storage(b, external, size) ==
    LET m == [b EXCEPT !.maxsize = size] IN
    CASE external -> IF size < b.used THEN m ELSE [buffer_transfer(m, size) EXCEPT !.external = TRUE]
      [] ~external /\ b.external ->
            [(IF b.used > 0 THEN buffer_transfer(m, b.used)
              ELSE [m EXCEPT !.data = [i \in {} |-> 0], !.size = 0]) EXCEPT !.external = FALSE]
      [] ~external /\ ~b.external ->
            IF buffer_wraps(b) THEN m
            ELSE [m EXCEPT !.data = [i \in 0 .. b.offset + b.used - 1 |-> b.data[i]],
                           !.size = b.offset + b.used]

buffer_free(b) == IF b.maxsize > b.used THEN b.maxsize - b.used ELSE 0

-----------------------------------------------------------------------------
Init ==
    /\ \E size \in MaxSizes :
          buf = [data |-> [i \in {} |-> 0], offset |-> 0, used |-> 0, size |-> 0, maxsize |-> size,
                 external |-> FALSE]
    /\ answer = <<>>

\* handle_out_of_order puts bytes after a gap; utcp_send at the end.
Put(offset, chunk) ==
    /\ buf' = buffer_put_at(buf, offset, chunk)
    /\ answer' = Fits(buf, offset, chunk)

NoMemory(offset, chunk) ==
    /\ NeedsMemory(buf, offset, chunk)
    /\ answer' = <<>> /\ UNCHANGED buf

Copy(offset, len) == answer' = buffer_copy(buf, offset, len) /\ UNCHANGED buf

Call(offset, len, first, second, closes) ==
    answer' = buffer_call(buf, offset, len, first, second, closes) /\ UNCHANGED buf

Discard(len) == buf' = buffer_discard(buf, len) /\ answer' = <<>>

Clear == buf' = buffer_clear(buf) /\ answer' = <<>>

\* A second external buffer is refused with abort().
Storage(external, size) ==
    /\ ~(external /\ buf.external)
    /\ buf' = set_buffer_storage(buf, external, size) /\ answer' = <<>>

Next ==
    \/ \E chunk \in Chunks, offset \in 0 .. buf.used + 1 : Put(offset, chunk) \/ NoMemory(offset, chunk)
    \/ \E offset \in 0 .. buf.used, len \in 0 .. buf.used + 1 : Copy(offset, len)
    \/ \E offset \in 0 .. buf.used, closes \in BOOLEAN :
          LET len == buf.used - offset IN
          \E first \in 0 .. len, second \in {0, len} : Call(offset, len, first, second, closes)
    \/ \E len \in 0 .. buf.used + 1 : Discard(len)
    \/ Clear
    \/ \E external \in BOOLEAN, size \in MaxSizes : Storage(external, size)

Spec == Init /\ [][Next]_vars

Store == INSTANCE ByteStore WITH bytes <- Content(buf), limit <- buf.maxsize

\* Growing, wrapping, moving to and from the application's storage, discarding
\* and writing past a gap never lose, reorder or invent a byte: the ring buffer
\* is the sequence of bytes that the rest of utcp.c takes it for.
ImplementsStore == Store!Spec
=============================================================================
