------------------------------- MODULE PackMsg -------------------------------
(***************************************************************************)
(* The MessagePack-like encoding of src/packmsg.h, in which every          *)
(* configuration file and invitation is stored: a writer adds elements to  *)
(* a buffer of limited size; what it wrote, or the beginning of it, is     *)
(* read back element by element.                                           *)
(*                                                                         *)
(* A byte is a number, an integer the eight bytes of its two's complement  *)
(* (little-endian, as the code assumes of the host), a float or a double   *)
(* its bytes.  An output iterator has the bytes written and the room left, *)
(* -1 once it is invalid; an input iterator has the bytes left and is      *)
(* valid or not.                                                           *)
(***************************************************************************)
EXTENDS Integers, Sequences

CONSTANTS
    Messages,       \* messages written: sequences of elements [t, v]
    Rooms           \* sizes of the output buffer

VARIABLES
    sent,           \* the message
    added,          \* how many of its elements were added
    out,            \* packmsg_output_t
    in,             \* packmsg_input_t
    pos,            \* how many of the elements were read
    last,           \* the last of them, as it was read
    phase           \* "write", or the input is "whole" or "cut" short

vars == <<sent, added, out, in, pos, last, phase>>

\* The n bytes of a number, and back.
Bytes(x, n) == [i \in 1 .. n |-> (x \div (256 ^ (i - 1))) % 256]
Number(b) == LET upTo[i \in 0 .. Len(b)] == IF i = 0 THEN 0 ELSE upTo[i - 1] + b[i] * 256 ^ (i - 1) IN upTo[Len(b)]

\* The conversions of C between integers of different widths.
SignExtend(b) == [i \in 1 .. 8 |-> IF i <= Len(b) THEN b[i] ELSE IF b[Len(b)] >= 128 THEN 255 ELSE 0]
ZeroExtend(b) == [i \in 1 .. 8 |-> IF i <= Len(b) THEN b[i] ELSE 0]
Low(v, n) == SubSeq(v, 1, n)
Width == [int8 |-> 1, int16 |-> 2, int32 |-> 4, int64 |-> 8,
          uint8 |-> 1, uint16 |-> 2, uint32 |-> 4, uint64 |-> 8]

-----------------------------------------------------------------------------
\* The writer.
packmsg_output_ok(o) == o.len >= 0
packmsg_output_invalidate(o) == [o EXCEPT !.len = -1]

packmsg_write_data_(o, data) ==
    IF o.len >= 0 /\ o.len >= Len(data)
    THEN [bytes |-> o.bytes \o data, len |-> o.len - Len(data)]
    ELSE packmsg_output_invalidate(o)

packmsg_write_hdr_(o, hdr) ==
    IF o.len > 0 THEN [bytes |-> Append(o.bytes, hdr), len |-> o.len - 1]
    ELSE packmsg_output_invalidate(o)

packmsg_write_hdrdata_(o, hdr, data) ==
    IF o.len > 0 /\ o.len > Len(data)
    THEN [bytes |-> o.bytes \o <<hdr>> \o data, len |-> o.len - 1 - Len(data)]
    ELSE packmsg_output_invalidate(o)

packmsg_add_nil(o) == packmsg_write_hdr_(o, 192)
packmsg_add_bool(o, val) == packmsg_write_hdr_(o, IF val THEN 195 ELSE 194)
packmsg_add_float(o, val) == packmsg_write_hdrdata_(o, 202, val)
packmsg_add_double(o, val) == packmsg_write_hdrdata_(o, 203, val)

\* Values from -32 to 127 are their own header.
packmsg_add_int8(o, v) ==
    IF v[1] < 128 \/ v[1] >= 224 THEN packmsg_write_hdr_(o, v[1])
    ELSE packmsg_write_hdrdata_(o, 208, Low(v, 1))

\* packmsg_add_int16, _int32 and _int64 cast to the next narrower type first.
packmsg_add_int(o, v) ==
    IF SignExtend(Low(v, 1)) = v THEN packmsg_add_int8(o, v)
    ELSE IF SignExtend(Low(v, 2)) = v THEN packmsg_write_hdrdata_(o, 209, Low(v, 2))
    ELSE IF SignExtend(Low(v, 4)) = v THEN packmsg_write_hdrdata_(o, 210, Low(v, 4))
    ELSE packmsg_write_hdrdata_(o, 211, v)

packmsg_add_uint8(o, v) ==
    IF v[1] < 128 THEN packmsg_write_hdr_(o, v[1]) ELSE packmsg_write_hdrdata_(o, 204, Low(v, 1))

packmsg_add_uint(o, v) ==
    IF ZeroExtend(Low(v, 1)) = v THEN packmsg_add_uint8(o, v)
    ELSE IF ZeroExtend(Low(v, 2)) = v THEN packmsg_write_hdrdata_(o, 205, Low(v, 2))
    ELSE IF ZeroExtend(Low(v, 4)) = v THEN packmsg_write_hdrdata_(o, 206, Low(v, 4))
    ELSE packmsg_write_hdrdata_(o, 207, v)

\* A header with a length of one, two or four bytes.
LengthHeader(o, len, hdr1, hdr2, hdr4) ==
    CASE len <= 255 /\ hdr1 # 0 -> packmsg_write_hdrdata_(o, hdr1, Bytes(len, 1))
      [] len <= 65535 /\ (len > 255 \/ hdr1 = 0) -> packmsg_write_hdrdata_(o, hdr2, Bytes(len, 2))
      [] OTHER -> packmsg_write_hdrdata_(o, hdr4, Bytes(len, 4))

\* The headers of strings, data and extensions.
StrHeader(o, len) ==
    IF len < 32 THEN packmsg_write_hdr_(o, 160 + len) ELSE LengthHeader(o, len, 217, 218, 219)

BinHeader(o, len) == LengthHeader(o, len, 196, 197, 198)

ExtHeader(o, type, len) ==
    IF len \in {1, 2, 4, 8, 16}
    THEN packmsg_write_hdrdata_(o, CHOOSE h \in 212 .. 216 : 2 ^ (h - 212) = len, <<type>>)
    ELSE packmsg_write_data_(LengthHeader(o, len, 199, 200, 201), <<type>>)

packmsg_add_str_raw(o, str) == packmsg_write_data_(StrHeader(o, Len(str)), str)
packmsg_add_bin(o, data) == packmsg_write_data_(BinHeader(o, Len(data)), data)
packmsg_add_ext(o, type, data) == packmsg_write_data_(ExtHeader(o, type, Len(data)), data)

\* No string is longer than the 2^32 - 1 bytes that can be announced.
packmsg_add_str(o, str) == packmsg_add_str_raw(o, str)

\* Room for len bytes, which hold anything, and where it is (0: NULL).
packmsg_reserve_(o, len) ==
    IF o.len >= 0 /\ o.len >= len
    THEN [out |-> [bytes |-> o.bytes \o [i \in 1 .. len |-> 0], len |-> o.len - len], ptr |-> Len(o.bytes) + 1]
    ELSE [out |-> packmsg_output_invalidate(o), ptr |-> 0]

packmsg_add_str_reserve(o, len) == packmsg_reserve_(StrHeader(o, len), len)
packmsg_add_bin_reserve(o, len) == packmsg_reserve_(BinHeader(o, len), len)
packmsg_add_ext_reserve(o, type, len) == packmsg_reserve_(ExtHeader(o, type, len), len)

\* The caller fills in the room it was given.
FillIn(r, data) ==
    IF r.ptr = 0 THEN r.out
    ELSE [r.out EXCEPT !.bytes = SubSeq(@, 1, r.ptr - 1) \o data]

packmsg_add_map(o, count) ==
    IF count <= 15 THEN packmsg_write_hdr_(o, 128 + count) ELSE LengthHeader(o, count, 0, 222, 223)

packmsg_add_array(o, count) ==
    IF count <= 15 THEN packmsg_write_hdr_(o, 144 + count) ELSE LengthHeader(o, count, 0, 220, 221)

-----------------------------------------------------------------------------
\* The reader: every operation yields the iterator after it and a value.
packmsg_input_invalidate(i) == [i EXCEPT !.ok = FALSE]
Result(i, val) == [in |-> i, val |-> val]
Failed(i) == Result(packmsg_input_invalidate(i), 0)
packmsg_done(i) == i.ok /\ i.rest = <<>>

Has(i, n) == i.ok /\ Len(i.rest) >= n
Drop(i, n) == [i EXCEPT !.rest = SubSeq(@, n + 1, Len(@))]

packmsg_peek_hdr_(i) == IF Has(i, 1) THEN i.rest[1] ELSE 193

packmsg_read_hdr_(i) ==
    IF Has(i, 1) THEN Result(Drop(i, 1), i.rest[1]) ELSE Result(packmsg_input_invalidate(i), 193)

packmsg_read_data_(i, n) ==
    IF Has(i, n) THEN Result(Drop(i, n), SubSeq(i.rest, 1, n)) ELSE Failed(i)

packmsg_get_nil(i) ==
    LET h == packmsg_read_hdr_(i) IN IF h.val = 192 THEN h ELSE Failed(h.in)

packmsg_get_bool(i) ==
    LET h == packmsg_read_hdr_(i) IN
    IF h.val \in {194, 195} THEN Result(h.in, h.val = 195) ELSE Failed(h.in)

\* A value of n bytes after the header, widened.
Extended(i, n, Extend(_)) ==
    LET d == packmsg_read_data_(i, n) IN IF d.in.ok THEN Result(d.in, Extend(d.val)) ELSE d

\* packmsg_get_int8 to packmsg_get_int64: each also reads the narrower types.
packmsg_get_int(i, width) ==
    LET h == packmsg_read_hdr_(i) IN
    IF h.val < 128 \/ h.val >= 224 THEN Result(h.in, SignExtend(<<h.val>>))
    ELSE IF h.val \in 208 .. 211 /\ 2 ^ (h.val - 208) <= width
    THEN Extended(h.in, 2 ^ (h.val - 208), SignExtend)
    ELSE Failed(h.in)

packmsg_get_uint(i, width) ==
    LET h == packmsg_read_hdr_(i) IN
    IF h.val < 128 THEN Result(h.in, ZeroExtend(<<h.val>>))
    ELSE IF h.val \in 204 .. 207 /\ 2 ^ (h.val - 204) <= width
    THEN Extended(h.in, 2 ^ (h.val - 204), ZeroExtend)
    ELSE Failed(h.in)

packmsg_get_float(i) ==
    LET h == packmsg_read_hdr_(i) IN
    IF h.val = 202 THEN packmsg_read_data_(h.in, 4) ELSE Failed(h.in)

\* A float is widened to a double of the same value.
packmsg_get_double(i) ==
    LET h == packmsg_read_hdr_(i) IN
    IF h.val \in {202, 203} THEN packmsg_read_data_(h.in, IF h.val = 203 THEN 8 ELSE 4) ELSE Failed(h.in)

\* A length of n bytes.
Length(i, n) == Extended(i, n, Number)

packmsg_get_str_raw(i) ==
    LET h == packmsg_read_hdr_(i)
        slen == CASE h.val \in 160 .. 191 -> Result(h.in, h.val % 32)
                  [] h.val \in 217 .. 219 -> Length(h.in, 2 ^ (h.val - 217))
                  [] OTHER -> Failed(h.in)
    IN packmsg_read_data_(slen.in, slen.val)

packmsg_get_bin_raw(i) ==
    LET h == packmsg_read_hdr_(i)
        dlen == IF h.val \in 196 .. 198 THEN Length(h.in, 2 ^ (h.val - 196)) ELSE Failed(h.in)
    IN packmsg_read_data_(dlen.in, dlen.val)

packmsg_get_ext_raw(i) ==
    LET h == packmsg_read_hdr_(i)
        dlen == CASE h.val \in 199 .. 201 -> Length(h.in, 2 ^ (h.val - 199))
                  [] h.val \in 212 .. 216 -> Result(h.in, 2 ^ (h.val - 212))
                  [] OTHER -> Failed(h.in)
        type == packmsg_read_hdr_(dlen.in)
        data == packmsg_read_data_(type.in, dlen.val)
    IN Result(data.in, IF data.in.ok THEN <<type.val, data.val>> ELSE 0)

\* A copy in new memory, which there may not be.
Dup(r, memory) == IF r.in.ok /\ ~memory THEN Failed(r.in) ELSE r
packmsg_get_str_dup(i, memory) == Dup(packmsg_get_str_raw(i), memory)
packmsg_get_bin_dup(i, memory) == Dup(packmsg_get_bin_raw(i), memory)
packmsg_get_ext_dup(i, memory) == Dup(packmsg_get_ext_raw(i), memory)

\* A copy in the caller's memory, which has to be large enough: for a string
\* and the NUL byte after it.
packmsg_get_str_copy(i, room) ==
    LET r == packmsg_get_str_raw(i) IN IF r.in.ok /\ Len(r.val) >= room THEN Failed(r.in) ELSE r
packmsg_get_bin_copy(i, room) ==
    LET r == packmsg_get_bin_raw(i) IN IF r.in.ok /\ Len(r.val) > room THEN Failed(r.in) ELSE r
packmsg_get_ext_copy(i, room) ==
    LET r == packmsg_get_ext_raw(i) IN IF r.in.ok /\ Len(r.val[2]) > room THEN Failed(r.in) ELSE r

\* The count of a map or of an array.
Count(i, fix, hdr2) ==
    LET h == packmsg_read_hdr_(i) IN
    CASE h.val \in fix .. fix + 15 -> Result(h.in, h.val % 16)
      [] h.val \in {hdr2, hdr2 + 1} -> Length(h.in, IF h.val = hdr2 THEN 2 ELSE 4)
      [] OTHER -> Failed(h.in)

packmsg_get_map(i) == Count(i, 128, 222)
packmsg_get_array(i) == Count(i, 144, 220)

packmsg_is_map(i) == packmsg_peek_hdr_(i) \in 128 .. 143 \cup {222, 223}
packmsg_is_array(i) == packmsg_peek_hdr_(i) \in 144 .. 159 \cup {220, 221}

\* The readers a header is said to be for.
packmsg_get_type(i) ==
    LET h == packmsg_peek_hdr_(i) IN
    CASE packmsg_done(i) -> "done"
      [] h = 193 -> "error"
      [] h < 128 -> "fixint"
      [] h \in 128 .. 143 \cup {222, 223} -> "map"
      [] h \in 144 .. 159 \cup {220, 221} -> "array"
      [] h \in 160 .. 191 \cup 217 .. 219 -> "str"
      [] h = 192 -> "nil"
      [] h \in {194, 195} -> "bool"
      [] h \in 196 .. 198 -> "bin"
      [] h \in 199 .. 201 \cup 212 .. 216 -> "ext"
      [] h = 202 -> "float"
      [] h = 203 -> "double"
      [] h \in 204 .. 207 -> <<"uint8", "uint16", "uint32", "uint64">>[h - 203]
      [] h \in 208 .. 211 -> <<"int8", "int16", "int32", "int64">>[h - 207]
      [] h >= 224 -> "int8"

\* What packmsg_is_int8 to _int64, packmsg_is_uint8 to _uint64 and the others say
\* of a header.
packmsg_is_nil(i) == packmsg_peek_hdr_(i) = 192
packmsg_is_bool(i) == packmsg_peek_hdr_(i) \in {194, 195}
packmsg_is_int(i, width) ==
    LET h == packmsg_peek_hdr_(i) IN h < 128 \/ (h \in 208 .. 211 /\ 2 ^ (h - 208) <= width)
packmsg_is_uint(i, width) ==
    LET h == packmsg_peek_hdr_(i) IN h < 128 \/ (h \in 204 .. 207 /\ 2 ^ (h - 204) <= width)
packmsg_is_float(i) == packmsg_peek_hdr_(i) = 202
packmsg_is_double(i) == packmsg_peek_hdr_(i) \in {202, 203}
packmsg_is_str(i) == packmsg_peek_hdr_(i) \in 160 .. 191 \cup 217 .. 219
packmsg_is_bin(i) == packmsg_peek_hdr_(i) \in 196 .. 199
packmsg_is_ext(i) == packmsg_peek_hdr_(i) \in 199 .. 201 \cup 212 .. 216

packmsg_is(i, t) ==
    CASE t \in {"int8", "int16", "int32", "int64"} -> packmsg_is_int(i, Width[t])
      [] t \in {"uint8", "uint16", "uint32", "uint64"} -> packmsg_is_uint(i, Width[t])
      [] t = "float" -> packmsg_is_float(i)
      [] t = "double" -> packmsg_is_double(i)
      [] t = "str" -> packmsg_is_str(i)
      [] t = "bin" -> packmsg_is_bin(i)
      [] t = "ext" -> packmsg_is_ext(i)
      [] t = "nil" -> packmsg_is_nil(i)
      [] t = "bool" -> packmsg_is_bool(i)
      [] t = "map" -> packmsg_is_map(i)
      [] t = "array" -> packmsg_is_array(i)

-----------------------------------------------------------------------------
\* The bytes after a header, and those of the length where there is one.
Fixed(h) ==
    CASE h \in 160 .. 191 -> h % 32
      [] h \in 202 .. 203 -> IF h = 202 THEN 4 ELSE 8
      [] h \in 204 .. 207 -> 2 ^ (h - 204)
      [] h \in 208 .. 211 -> 2 ^ (h - 208)
      [] h \in 212 .. 216 -> 2 ^ (h - 212) + 1
      [] h \in 220 .. 223 -> IF h % 2 = 0 THEN 2 ELSE 4
      [] OTHER -> 0

LengthBytes(h) ==
    CASE h \in 196 .. 198 -> 2 ^ (h - 196)
      [] h \in 199 .. 201 -> 2 ^ (h - 199)
      [] h \in 217 .. 219 -> 2 ^ (h - 217)
      [] OTHER -> 0

\* Mutant of packmsg_skip_element: the type of an extension is not counted.
packmsg_skip_element_NoType(i) ==
    LET h == packmsg_read_hdr_(i)
        n == IF LengthBytes(h.val) > 0 THEN Length(h.in, LengthBytes(h.val)) ELSE Result(h.in, Fixed(h.val))
    IN packmsg_read_data_(n.in, n.val).in

packmsg_skip_element(i) ==
    LET h == packmsg_read_hdr_(i)
        n == IF LengthBytes(h.val) > 0 THEN Length(h.in, LengthBytes(h.val)) ELSE Result(h.in, Fixed(h.val))
    IN packmsg_read_data_(n.in, n.val + (IF h.val \in 199 .. 201 THEN 1 ELSE 0)).in

\* The objects an array or a map promises, a map two for every count.
RECURSIVE packmsg_skip_objects(_, _)
packmsg_skip_objects(i, n) ==
    IF n = 0 \/ ~i.ok THEN i
    ELSE LET count == IF packmsg_is_array(i) THEN packmsg_get_array(i) ELSE packmsg_get_map(i)
             each == IF packmsg_is_array(i) THEN 1 ELSE 2
         IN packmsg_skip_objects(
                IF packmsg_is_array(i) \/ packmsg_is_map(i)
                THEN packmsg_skip_objects(count.in, count.val * each)
                ELSE packmsg_skip_element(i), n - 1)

packmsg_skip_object(i) == packmsg_skip_objects(i, 1)

-----------------------------------------------------------------------------
\* An element is written with the function of its type.
Add(o, e) ==
    CASE e.t = "nil" -> packmsg_add_nil(o)
      [] e.t = "bool" -> packmsg_add_bool(o, e.v)
      [] e.t \in {"int8", "int16", "int32", "int64"} -> packmsg_add_int(o, e.v)
      [] e.t \in {"uint8", "uint16", "uint32", "uint64"} -> packmsg_add_uint(o, e.v)
      [] e.t = "float" -> packmsg_add_float(o, e.v)
      [] e.t = "double" -> packmsg_add_double(o, e.v)
      [] e.t = "str" -> packmsg_add_str(o, e.v)
      [] e.t = "bin" -> packmsg_add_bin(o, e.v)
      [] e.t = "ext" -> packmsg_add_ext(o, e.v[1], e.v[2])
      [] e.t = "map" -> packmsg_add_map(o, e.v)
      [] e.t = "array" -> packmsg_add_array(o, e.v)

\* An element is read with a function of its type.
Get(i, t) ==
    CASE t = "nil" -> packmsg_get_nil(i)
      [] t = "bool" -> packmsg_get_bool(i)
      [] t \in {"int8", "int16", "int32", "int64"} -> packmsg_get_int(i, Width[t])
      [] t \in {"uint8", "uint16", "uint32", "uint64"} -> packmsg_get_uint(i, Width[t])
      [] t = "float" -> packmsg_get_float(i)
      [] t = "double" -> packmsg_get_double(i)
      [] t = "str" -> packmsg_get_str_raw(i)
      [] t = "bin" -> packmsg_get_bin_raw(i)
      [] t = "ext" -> packmsg_get_ext_raw(i)
      [] t = "map" -> packmsg_get_map(i)
      [] t = "array" -> packmsg_get_array(i)

\* The other types an element can be read as.
Readers(t) ==
    CASE t \in {"int8", "int16", "int32", "int64"} ->
             {r \in {"int8", "int16", "int32", "int64"} : Width[r] >= Width[t]}
      [] t \in {"uint8", "uint16", "uint32", "uint64"} ->
             {r \in {"uint8", "uint16", "uint32", "uint64"} : Width[r] >= Width[t]}
      [] t = "float" -> {"float", "double"}
      [] OTHER -> {t}

\* The position after the n objects that start at p.
RECURSIVE After(_, _)
After(p, n) ==
    IF n = 0 \/ p > Len(sent) THEN p
    ELSE After(CASE sent[p].t = "array" -> After(p + 1, sent[p].v)
                 [] sent[p].t = "map" -> After(p + 1, 2 * sent[p].v)
                 [] OTHER -> p + 1, n - 1)

-----------------------------------------------------------------------------
Init ==
    /\ sent \in Messages
    /\ added = 0
    /\ \E room \in Rooms : out = [bytes |-> <<>>, len |-> room]
    /\ in = [rest |-> <<>>, ok |-> FALSE]
    /\ pos = 0
    /\ last = [t |-> "skipped", v |-> 0]
    /\ phase = "write"

AddNext ==
    /\ phase = "write" /\ added < Len(sent)
    /\ out' = Add(out, sent[added + 1])
    /\ added' = added + 1
    /\ UNCHANGED <<sent, in, pos, last, phase>>

\* Strings, data and extensions can be filled in afterwards.
AddReserved ==
    /\ phase = "write" /\ added < Len(sent)
    /\ LET e == sent[added + 1] IN
          \/ /\ e.t = "str"
             /\ out' = FillIn(packmsg_add_str_reserve(out, Len(e.v)), e.v)
          \/ /\ e.t = "bin"
             /\ out' = FillIn(packmsg_add_bin_reserve(out, Len(e.v)), e.v)
          \/ /\ e.t = "ext"
             /\ out' = FillIn(packmsg_add_ext_reserve(out, e.v[1], Len(e.v[2])), e.v[2])
    /\ added' = added + 1
    /\ UNCHANGED <<sent, in, pos, last, phase>>

\* A message that fitted is stored, and comes back whole or torn.
Store ==
    LET size == Len(out.bytes) IN
    /\ phase = "write" /\ added = Len(sent) /\ packmsg_output_ok(out)
    /\ \E k \in IF size <= 40 THEN 0 .. size ELSE 0 .. 6 \cup size - 1 .. size :
          /\ in' = [rest |-> SubSeq(out.bytes, 1, k), ok |-> TRUE]
          /\ phase' = IF k = size THEN "whole" ELSE "cut"
    /\ UNCHANGED <<sent, added, out, pos, last>>

Reading == phase # "write" /\ pos < Len(sent)

Took(r, t, n) ==
    /\ in' = r.in
    /\ pos' = n
    /\ last' = [t |-> IF r.in.ok THEN t ELSE "error", v |-> r.val]
    /\ UNCHANGED <<sent, added, out, phase>>

GetNext ==
    /\ Reading
    /\ LET e == sent[pos + 1] IN \E r \in Readers(e.t) : Took(Get(in, r), e.t, pos + 1)

\* Strings, data and extensions can be copied, if there is room for the copy.
CopyNext ==
    /\ Reading
    /\ LET e == sent[pos + 1]
           size == IF e.t = "ext" THEN Len(e.v[2]) ELSE Len(e.v)
       IN \/ /\ e.t = "str"
             /\ \/ \E memory \in BOOLEAN : Took(packmsg_get_str_dup(in, memory), e.t, pos + 1)
                \/ \E room \in {size, size + 1} : Took(packmsg_get_str_copy(in, room), e.t, pos + 1)
          \/ /\ e.t = "bin"
             /\ \/ \E memory \in BOOLEAN : Took(packmsg_get_bin_dup(in, memory), e.t, pos + 1)
                \/ \E room \in {size - 1, size} : Took(packmsg_get_bin_copy(in, room), e.t, pos + 1)
          \/ /\ e.t = "ext"
             /\ \/ \E memory \in BOOLEAN : Took(packmsg_get_ext_dup(in, memory), e.t, pos + 1)
                \/ \E room \in {size - 1, size} : Took(packmsg_get_ext_copy(in, room), e.t, pos + 1)

SkipElement ==
    /\ Reading
    /\ Took(Result(packmsg_skip_element(in), 0), "skipped", pos + 1)

SkipObject ==
    /\ Reading
    /\ Took(Result(packmsg_skip_object(in), 0), "skipped", After(pos + 1, 1) - 1)

Next == AddNext \/ AddReserved \/ Store \/ GetNext \/ CopyNext \/ SkipElement \/ SkipObject

Spec == Init /\ [][Next]_vars

-----------------------------------------------------------------------------
AllTypes == {"nil", "bool", "int8", "int16", "int32", "int64", "uint8", "uint16", "uint32",
             "uint64", "float", "double", "str", "bin", "ext", "map", "array"}

\* A message reads back as it was written, whatever functions of its types read
\* it and whatever was skipped on the way; the iterator is at the end exactly
\* after the last element; packmsg_get_type and packmsg_is_* announce what can
\* be read next.  The checks miss two headers: negative fixints, which every
\* signed reader accepts, are announced by no packmsg_is_int*, and
\* packmsg_is_bin takes the 8-bit extension header for binary data.
RoundTrip ==
    LET hdr == packmsg_peek_hdr_(in)
        type == packmsg_get_type(in)
    IN phase = "whole" /\ in.ok =>
        /\ last.t # "skipped" => last = sent[pos]
        /\ packmsg_done(in) <=> pos = Len(sent)
        /\ pos < Len(sent) =>
               /\ \A t \in IF type = "fixint" THEN {"int8", "uint8"} ELSE {type} : Get(in, t).in.ok
               /\ hdr < 224 /\ hdr # 199 =>
                      \A t \in AllTypes : packmsg_is(in, t) <=> Get(in, t).in.ok

\* A message that was cut short never passes for a whole one: what is read before
\* the cut is right, and the reader that gets to its end has an invalid iterator.
CutNoticed ==
    phase = "cut" =>
        /\ last.t \notin {"skipped", "error"} => last = sent[pos]
        /\ in.ok => pos < Len(sent)

\* What packmsg.h wrote to a file reads back, and a torn file is noticed.
ReadsBack == RoundTrip /\ CutNoticed
=============================================================================
