--------------------------- MODULE UtcpConnection ---------------------------
(***************************************************************************)
(* One UTCP connection (utcp.c): the record struct utcp_connection, and    *)
(* one operator per function of the file.  A handler maps a connection to  *)
(* a result record: the connection afterwards (NoConn when it was freed),  *)
(* the packets handed to utcp->send, the bytes given to the receive        *)
(* callback, whole datagrams in unreliable mode, and whether the callback  *)
(* was called with (NULL, 0).                                              *)
(*                                                                         *)
(* Sequence numbers are 32-bit in C; here they live modulo SeqMod.  Clocks *)
(* are abstracted to "the timer is set": a timer that is set may expire.   *)
(* The buffers are sequences; UtcpBuffer shows the ring buffer behind them *)
(* behaves as one.                                                         *)
(***************************************************************************)
EXTENDS Integers, Sequences

CONSTANTS
    NoConn,             \* find_connection() returned NULL
    SeqMod,             \* 2^32 in the code
    Mss,                \* utcp->mss
    SndMax, RcvMax,     \* sndbuf.maxsize, rcvbuf.maxsize
    MaxUnreliable,      \* MAX_UNRELIABLE_SIZE
    NSACKS,             \* number of SACK entries
    InitSegments        \* initial congestion window, in segments

ASSUME UtcpConstants ==
    /\ SeqMod \in Nat /\ Mss \in Nat \ {0} /\ NSACKS \in Nat \ {0}
    /\ {SndMax, RcvMax, MaxUnreliable, InitSegments} \subseteq Nat \ {0}
    /\ SeqMod > 2 * (SndMax + RcvMax + 4)

Junk == 0                           \* a byte of memory nobody wrote
NoSsthresh == SeqMod                \* ~0

Min2(a, b) == IF a < b THEN a ELSE b
Max2(a, b) == IF a > b THEN a ELSE b

Plus(a, n) == (a + n) % SeqMod
seqdiff(a, b) == LET d == (a - b) % SeqMod
                 IN  IF d >= SeqMod \div 2 THEN d - SeqMod ELSE d

(***************************************************************************)
(* Buffers.                                                                *)
(***************************************************************************)

buffer_put_at(buf, max, offset, data) ==
    LET n == Max2(0, Min2(Len(data), max - offset))
    IN  [i \in 1 .. (IF n = 0 THEN Len(buf) ELSE Max2(Len(buf), offset + n)) |->
            CASE i > offset /\ i <= offset + n -> data[i - offset]
              [] i <= Len(buf)                 -> buf[i]
              [] OTHER                         -> Junk]

buffer_copy(buf, offset, len) ==
    [i \in 1 .. len |-> IF offset + i <= Len(buf) THEN buf[offset + i] ELSE Junk]

buffer_discard(buf, len) == SubSeq(buf, Min2(len, Len(buf)) + 1, Len(buf))

buffer_free(buf) == Max2(0, SndMax - Len(buf))

(***************************************************************************)
(* Connections.                                                            *)
(***************************************************************************)

NoSacks == [i \in 1 .. NSACKS |-> [offset |-> 0, len |-> 0]]

allocate_connection(iss, reliable) ==
    [state |-> "LISTEN", reliable |-> reliable, nopartial |-> FALSE, iss |-> iss,
     recv |-> FALSE, reapable |-> FALSE, shut_wr |-> FALSE, do_poll |-> FALSE,
     una |-> iss, nxt |-> Plus(iss, 1), last |-> Plus(iss, 1),
     wnd |-> 0, cwnd |-> InitSegments * Mss, ssthresh |-> NoSsthresh, dupack |-> 0,
     rcvnxt |-> 0, sndbuf |-> <<>>, rcvbuf |-> <<>>, sacks |-> NoSacks,
     rtrx |-> FALSE, conn |-> FALSE]

set_state(c, state) ==
    [c EXCEPT !.state = state, !.conn = IF state = "ESTABLISHED" THEN FALSE ELSE @]

fin_wanted(c, seq) == seq = c.last /\ c.state \in {"FIN_WAIT_1", "CLOSING", "LAST_ACK"}

\* What a handler returns.
Result(c) == [c |-> c, out |-> <<>>, data |-> <<>>, frame |-> <<>>, eof |-> "open"]
Sending(c, pkts) == [Result(c) EXCEPT !.out = pkts]
\* recv(c, NULL, 0), if the callback is still there
Notify(r, why) == [r EXCEPT !.eof = IF r.c.recv THEN why ELSE @]

Packet(seq, ack, wnd, ctl, data, reliable) ==
    [seq |-> seq, ack |-> ack, wnd |-> wnd, ctl |-> ctl, data |-> data,
     reliable |-> reliable]

\* The loop of ack(): segments of at most Mss bytes, the last one with the FIN.
Segments(c, left, atleastone) ==
    LET n == Max2((left + Mss - 1) \div Mss, IF atleastone THEN 1 ELSE 0)
    IN  [i \in 1 .. n |->
            LET done == (i - 1) * Mss
                len  == Min2(Mss, left - done)
                fin  == len > 0 /\ fin_wanted(c, Plus(c.nxt, done + len))
                more == ~c.reliable /\ i < n
            IN  Packet(Plus(c.nxt, done), c.rcvnxt,
                       IF c.reliable THEN RcvMax ELSE done,
                       {"ACK"} \cup (IF fin THEN {"FIN"} ELSE {})
                               \cup (IF more THEN {"MF"} ELSE {}),
                       buffer_copy(c.sndbuf, seqdiff(c.nxt, c.una) + done,
                                   IF fin THEN len - 1 ELSE len),
                       c.reliable)]

ack(c, atleastone) ==
    LET all  == seqdiff(c.last, c.nxt)
        room == IF c.reliable THEN Min2(c.cwnd, c.wnd) - seqdiff(c.nxt, c.una)
                              ELSE MaxUnreliable
        left == CASE room <= 0  -> 0
                  [] room < all /\ room > 0 ->
                       IF ~atleastone \/ room > Mss THEN room - (room % Mss) ELSE room
                  [] OTHER      -> all
    IN  Sending([c EXCEPT !.nxt = Plus(@, left)], Segments(c, left, atleastone))

utcp_connect_ex(iss, reliable, nopartial) ==
    LET c == allocate_connection(iss, reliable)
    IN  Sending([c EXCEPT !.state = "SYN_SENT", !.nopartial = nopartial, !.recv = TRUE,
                          !.conn = TRUE, !.rtrx = TRUE],
                <<Packet(iss, 0, RcvMax, {"SYN"}, <<>>, reliable)>>)

\* utcp_send() returned without sending, and what it returned.
Refused(c) == [r |-> Result(c), n |-> 0]

utcp_send(c, data) ==
    LET n  == Min2(Len(data), buffer_free(c.sndbuf))
        c1 == [c EXCEPT !.sndbuf = @ \o SubSeq(data, 1, n), !.last = Plus(@, n)]
        a  == ack(c1, FALSE)
        c2 == IF c.reliable
              THEN [a.c EXCEPT !.rtrx = TRUE, !.conn = TRUE]
              ELSE [a.c EXCEPT !.una = c1.last, !.nxt = c1.last, !.sndbuf = <<>>]
        early == c.state \in {"SYN_SENT", "SYN_RECEIVED"}
    IN  CASE c.reapable \/ c.state \notin {"SYN_SENT", "SYN_RECEIVED", "ESTABLISHED"}
               -> Refused(c)
          [] c.nopartial /\ n < Len(data) -> Refused(c)
          [] ~c.reliable /\ (early \/ n < Len(data) \/ Len(data) > MaxUnreliable)
               -> Refused(IF early \/ Len(data) > MaxUnreliable THEN c
                          ELSE [c EXCEPT !.sndbuf = @ \o SubSeq(data, 1, n)])
          [] n = 0 -> Refused(c)
          [] early -> [r |-> Result(c1), n |-> n]
          [] OTHER -> [r |-> [a EXCEPT !.c = c2], n |-> n]

(***************************************************************************)
(* Retransmission.                                                         *)
(***************************************************************************)

DataStates == {"ESTABLISHED", "FIN_WAIT_1", "CLOSE_WAIT", "CLOSING", "LAST_ACK"}

\* The bytes from snd.una again: at most one segment, with the FIN if it fits.
UnackedLen(c) == LET len == Min2(seqdiff(c.last, c.una), Mss)
                 IN  IF fin_wanted(c, Plus(c.una, len)) THEN len - 1 ELSE len
Unacked(c) ==
    Packet(c.una, c.rcvnxt, RcvMax,
           {"ACK"} \cup (IF fin_wanted(c, Plus(c.una, Min2(seqdiff(c.last, c.una), Mss)))
                         THEN {"FIN"} ELSE {}),
           buffer_copy(c.sndbuf, 0, UnackedLen(c)), c.reliable)

fast_retransmit(c) == IF c.state \in DataStates /\ c.last # c.una THEN <<Unacked(c)>> ELSE <<>>

retransmit(c) ==
    LET again == [c EXCEPT !.rtrx = TRUE, !.dupack = 0]
    IN  CASE c.state = "CLOSED" \/ c.last = c.una -> Result([c EXCEPT !.rtrx = FALSE])
          [] c.state = "SYN_SENT" ->
               Sending(again, <<Packet(c.iss, 0, RcvMax, {"SYN"}, <<>>, c.reliable)>>)
          [] c.state = "SYN_RECEIVED" /\ c.last # c.una ->
               Sending(again, <<Packet(c.nxt, c.rcvnxt, RcvMax, {"SYN", "ACK"}, <<>>,
                                       c.reliable)>>)
          [] c.state \in DataStates /\ c.last # c.una ->
               Sending([again EXCEPT
                          !.ssthresh = Max2(seqdiff(c.nxt, c.una) \div 2, Mss * 2),
                          !.cwnd = Mss,
                          !.nxt = Plus(c.una, UnackedLen(c))],
                       <<Unacked(c)>>)
          [] OTHER -> Result([c EXCEPT !.rtrx = FALSE])

(***************************************************************************)
(* Incoming data.  A SACK entry says which bytes of rcvbuf, at an offset   *)
(* beyond rcv.nxt, have arrived; the entries before the first empty one    *)
(* are live.                                                               *)
(***************************************************************************)

Live(sacks) == CHOOSE k \in 0 .. NSACKS :
                 /\ \A i \in 1 .. k : sacks[i].len > 0
                 /\ k < NSACKS => sacks[k + 1].len = 0

\* One SACK entry after len bytes were taken from the front of the buffer.
Shifted(s, len) ==
    IF len < s.offset THEN [s EXCEPT !.offset = @ - len]
                      ELSE [offset |-> 0, len |-> s.len - (len - s.offset)]

sack_consume(c, len) ==
    IF len > Len(c.rcvbuf)
    THEN [c EXCEPT !.sacks[1].len = 0]
    ELSE LET k    == Live(c.sacks)
             Stays(s) == len < s.offset + s.len
             kept == SelectSeq(SubSeq(c.sacks, 1, k), Stays)
             all  == [i \in 1 .. Len(kept) |-> Shifted(kept[i], len)]
                       \o SubSeq(c.sacks, k + 1, NSACKS)
                       \o NoSacks
         IN  [c EXCEPT !.rcvbuf = buffer_discard(@, len),
                       !.sacks = SubSeq(all, 1, NSACKS)]

\* The first SACK entry that ends the loop of handle_out_of_order(), or NSACKS + 1.
SackSlot(sacks, offset) ==
    CHOOSE i \in 1 .. NSACKS + 1 :
        LET Ends(j) == sacks[j].len = 0 \/ offset <= sacks[j].offset + sacks[j].len
        IN  /\ \A j \in 1 .. i - 1 : ~Ends(j)
            /\ i <= NSACKS => Ends(i)

handle_out_of_order(c, offset, data) ==
    LET rxd == Max2(0, Min2(Len(data), RcvMax - offset))
        i   == SackSlot(c.sacks, offset)
        new == [offset |-> offset, len |-> rxd]
        s   == c.sacks[i]
        sacks ==
          CASE i > NSACKS -> c.sacks
            [] i <= NSACKS /\ s.len = 0 -> [c.sacks EXCEPT ![i] = new]
            [] i <= NSACKS /\ s.len > 0 /\ offset < s.offset ->
                 IF offset + rxd >= s.offset THEN [c.sacks EXCEPT ![i].offset = offset]
                 ELSE IF c.sacks[NSACKS].len = 0
                      THEN SubSeq(c.sacks, 1, i - 1) \o <<new>> \o SubSeq(c.sacks, i, NSACKS - 1)
                      ELSE c.sacks
            [] OTHER -> [c.sacks EXCEPT ![i].len = Max2(@, offset + rxd - s.offset)]
    IN  IF rxd = 0 THEN c
        ELSE [c EXCEPT !.rcvbuf = buffer_put_at(@, RcvMax, offset, data), !.sacks = sacks]

handle_in_order(c, data) ==
    LET s     == c.sacks[1]
        joins == s.len > 0 /\ Len(data) >= s.offset /\ Len(data) < s.offset + s.len
        len   == IF joins THEN s.offset + s.len ELSE Len(data)
        more  == buffer_copy(c.rcvbuf, Len(data), len - Len(data))
        c1    == IF c.rcvbuf # <<>> THEN sack_consume(c, len) ELSE c
    IN  [Result([c1 EXCEPT !.rcvnxt = Plus(@, len)])
           EXCEPT !.data = IF c.recv THEN data \o more ELSE <<>>]

handle_unreliable(c, h) ==
    LET len   == Len(h.data)
        last  == "MF" \notin h.ctl
        buf   == buffer_put_at(IF h.wnd = 0 THEN <<>> ELSE c.rcvbuf, RcvMax, h.wnd, h.data)
        next  == [c EXCEPT !.rcvnxt = Plus(h.seq, len)]
    IN  CASE h.wnd = 0 /\ last ->
               [Result(next) EXCEPT !.frame = IF c.recv THEN h.data ELSE <<>>]
          [] (h.wnd > 0 \/ ~last) /\ (\/ h.wnd + len > MaxUnreliable
                                      \/ h.wnd > 0 /\ h.seq # c.rcvnxt) -> Result(c)
          [] OTHER ->
               IF h.wnd + len > RcvMax THEN Result([c EXCEPT !.rcvbuf = buf])
               ELSE [Result([next EXCEPT !.rcvbuf = buf]) EXCEPT
                       !.frame = IF last /\ c.recv THEN SubSeq(buf, 1, h.wnd + len) ELSE <<>>]

handle_incoming_data(c, h) ==
    LET offset == seqdiff(h.seq, c.rcvnxt)
    IN  CASE ~c.reliable               -> handle_unreliable(c, h)
          [] c.reliable /\ offset # 0  -> Result(handle_out_of_order(c, offset, h.data))
          [] OTHER                     -> handle_in_order(c, h.data)

(***************************************************************************)
(* utcp_recv(), in the order of its numbered sections.  A section returns  *)
(* a result with a field stop: TRUE when the code returned or jumped to    *)
(* the label reset.                                                        *)
(***************************************************************************)

\* The label reset: the answer to a packet h whose payload counts as len.
Reset(h, len) ==
    IF "ACK" \in h.ctl
    THEN Packet(h.ack, h.ack, 0, {"RST"}, <<>>, h.reliable)
    ELSE Packet(0, Plus(h.seq, len), 0, {"RST", "ACK"}, <<>>, h.reliable)

Go(r)   == [r |-> r, stop |-> FALSE]
Stop(r) == [r |-> r, stop |-> TRUE]
GoReset(r, h, len) == Stop([r EXCEPT !.out = Append(@, Reset(h, len))])

\* The label synack.
synack(c, h) ==
    Sending([c EXCEPT !.wnd = h.wnd, !.rcvnxt = Plus(h.seq, 1), !.state = "SYN_RECEIVED",
                      !.rtrx = TRUE],
            <<Packet(c.iss, Plus(h.seq, 1), RcvMax, {"SYN", "ACK"}, <<>>, c.reliable)>>)

\* A packet that matches no connection; listening says the listen callback agreed.
NewConnection(h, iss, listening) ==
    CASE "RST" \in h.ctl -> Result(NoConn)
      [] "RST" \notin h.ctl /\ "SYN" \in h.ctl /\ "ACK" \notin h.ctl /\ listening ->
           synack(allocate_connection(iss, h.reliable), h)
      [] OTHER -> Sending(NoConn, <<Reset(h, 1)>>)

\* 1b. Discard data that is not in our receive window.
Acceptable(c, h) ==
    LET offset == seqdiff(h.seq, c.rcvnxt)
    IN  \/ ~c.reliable \/ c.state = "SYN_SENT"
        \/ IF Len(h.data) = 0 THEN offset >= 0
           ELSE IF offset < 0 THEN Len(h.data) > -offset
           ELSE offset + Len(h.data) <= RcvMax

\* The packet as the rest of the function sees it: an overlap with what was
\* already accepted is cut off, data that is not acceptable is dropped.
Trimmed(c, h) ==
    LET offset == seqdiff(h.seq, c.rcvnxt)
        cut    == c.reliable /\ c.state # "SYN_SENT" /\ offset < 0 /\ Len(h.data) > -offset
        h1     == IF cut THEN [h EXCEPT !.seq = c.rcvnxt,
                                        !.data = SubSeq(@, 1 - offset, Len(@))]
                  ELSE IF Acceptable(c, h) THEN h ELSE [h EXCEPT !.data = <<>>]
        stale  == ~c.reliable /\ h.ack # c.last /\ c.state \notin {"SYN_SENT", "SYN_RECEIVED"}
    IN  IF stale THEN [h1 EXCEPT !.ack = c.una] ELSE h1

\* 2. Handle RST packets.
HandleRst(c, h) ==
    LET gone == [c EXCEPT !.state = "CLOSED"]
    IN  IF ("ACK" \in h.ctl) # (c.state = "SYN_SENT") THEN Result(c)
        ELSE CASE c.state = "SYN_SENT" -> Notify(Result(gone), "error")
               [] c.state = "SYN_RECEIVED" -> Result(NoConn)
               [] c.state \in {"ESTABLISHED", "FIN_WAIT_1", "FIN_WAIT_2", "CLOSE_WAIT"} ->
                    Notify(Result([gone EXCEPT !.sndbuf = <<>>, !.rcvbuf = <<>>]), "error")
               [] OTHER -> Result(IF c.reapable THEN NoConn ELSE gone)

\* The bytes of data among what is newly acknowledged: a SYN is not one.
Acked(c, adv) == IF c.state \in {"SYN_SENT", "SYN_RECEIVED"} THEN adv - 1 ELSE adv

\* Mutant of TimerAfter: any progress stops the timer.
TimerAfter_Stops(c, timer, done) == FALSE

\* 4. Is the timer set after an ACK that acknowledged everything, or not yet?
TimerAfter(c, timer, done) == ~done /\ (c.reliable \/ timer)

\* 3. and 4. An acceptable ACK that acknowledges something new.
Advance(c, h) ==
    LET adv    == seqdiff(h.ack, c.una)
        acked  == Acked(c, adv)
        done   == h.ack = c.last
        cwnd   == IF c.dupack >= 3 THEN c.ssthresh ELSE c.cwnd
        grown  == IF cwnd < c.ssthresh THEN cwnd + Min2(adv, Mss)
                  ELSE cwnd + Max2(1, (Mss * Mss) \div cwnd)
        state  == CASE c.state = "FIN_WAIT_1" /\ done -> "FIN_WAIT_2"
                    [] c.state = "CLOSING" /\ done    -> "TIME_WAIT"
                    [] OTHER                          -> c.state
    IN  [c EXCEPT !.sndbuf = buffer_discard(@, acked),
                  !.do_poll = @ \/ (acked > 0 /\ c.reliable),
                  !.nxt = IF seqdiff(@, h.ack) < 0 THEN h.ack ELSE @,
                  !.una = h.ack, !.dupack = 0, !.cwnd = Min2(grown, SndMax),
                  !.state = state,
                  !.rtrx = TimerAfter(c, @, done),
                  !.conn = TimerAfter(c, @, done)]

\* 3. An ACK that acknowledges nothing new, while something is unacknowledged.
Duplicate(c) ==
    LET n   == c.dupack + 1
        thr == Max2(seqdiff(c.nxt, c.una) \div 2, Mss * 2)
        c1  == [c EXCEPT !.dupack = n, !.rtrx = TRUE]
    IN  CASE n = 3 -> LET c2 == [c1 EXCEPT !.ssthresh = thr,
                                          !.cwnd = Min2(thr + 3 * Mss, SndMax)]
                      IN  Sending(c2, fast_retransmit(c2))
          [] n > 3 -> Result([c1 EXCEPT !.cwnd = Min2(@ + Mss, SndMax)])
          [] OTHER -> Result(c1)

\* Mutant of Unknown: an ACK of what was sent before a retransmission is refused.
Unknown_BeyondNxt(c, ackno) == seqdiff(ackno, c.nxt) > 0 \/ seqdiff(ackno, c.una) < 0

\* 3. The acknowledgement is of something that was never sent.
Unknown(c, ackno) == seqdiff(ackno, c.last) > 0 \/ seqdiff(ackno, c.una) < 0

HandleAck(c, h) ==
    CASE "ACK" \notin h.ctl -> Go(Result(c))
      [] "ACK" \in h.ctl /\ Unknown(c, h.ack) ->
           GoReset(Result(c), h, Len(h.data))
      [] OTHER -> Go(IF h.ack # c.una THEN Result(Advance(c, h))
                     ELSE IF h.data = <<>> /\ c.reliable /\ c.una # c.last THEN Duplicate(c)
                     ELSE Result(c))

\* 5. Process SYN stuff.
HandleSyn(r, h, advanced) ==
    CASE "SYN" \notin h.ctl -> Go(r)
      [] "SYN" \in h.ctl /\ r.c.state = "SYN_SENT" ->
           IF ~advanced THEN GoReset(r, h, Len(h.data))
           ELSE LET c == [r.c EXCEPT !.rcvnxt = Plus(h.seq, 1)]
                IN  Go([r EXCEPT !.c = IF c.shut_wr
                          THEN [c EXCEPT !.last = Plus(@, 1), !.state = "FIN_WAIT_1"]
                          ELSE set_state([c EXCEPT !.do_poll = TRUE], "ESTABLISHED")])
      [] "SYN" \in h.ctl /\ r.c.state = "SYN_RECEIVED" ->
           Stop([synack(r.c, h) EXCEPT !.out = r.out \o @])
      [] OTHER -> Go(r)

utcp_accept(c) ==
    IF c.reapable \/ c.state # "SYN_RECEIVED" THEN c
    ELSE set_state([c EXCEPT !.recv = TRUE, !.do_poll = TRUE], "ESTABLISHED")

\* 6. The ACK after the SYNACK; accepts says whether the accept callback
\* takes the connection.
HandleAccept(r, h, advanced, accepts) ==
    CASE r.c.state # "SYN_RECEIVED" -> Go(r)
      [] r.c.state = "SYN_RECEIVED" /\ ~advanced -> GoReset(r, h, Len(h.data))
      [] OTHER -> IF accepts THEN Go([r EXCEPT !.c = utcp_accept(@)])
                  ELSE GoReset([r EXCEPT !.c.state = "CLOSED", !.c.reapable = TRUE],
                               h, Len(h.data))

\* 6. Process new data.
HandleData(r, h) ==
    CASE h.data = <<>> -> Go(r)
      [] h.data # <<>> /\ r.c.state \in {"SYN_SENT", "SYN_RECEIVED"} -> Stop(r)
      [] h.data # <<>> /\ (\/ r.c.state \in {"FIN_WAIT_1", "FIN_WAIT_2"} /\ r.c.reapable
                           \/ r.c.state \in {"CLOSE_WAIT", "CLOSING", "LAST_ACK", "TIME_WAIT"}) ->
           GoReset(r, h, Len(h.data))
      [] OTHER -> Go([handle_incoming_data(r.c, h) EXCEPT !.out = r.out])

\* 7. Process FIN stuff.
AfterFin == [ESTABLISHED |-> "CLOSE_WAIT", FIN_WAIT_1 |-> "CLOSING", FIN_WAIT_2 |-> "TIME_WAIT"]

\* Mutant of FinNext: a FIN counts although bytes before it are missing.
FinNext_Always(c, h) == TRUE

\* Everything before the FIN has arrived.
FinNext(c, h) == ~c.reliable \/ Plus(h.seq, Len(h.data)) = c.rcvnxt

HandleFin(r, h) ==
    CASE "FIN" \notin h.ctl \/ ~FinNext(r.c, h) -> Go(r)
      [] "FIN" \in h.ctl /\ FinNext(r.c, h)
           /\ r.c.state \in {"CLOSE_WAIT", "CLOSING", "LAST_ACK", "TIME_WAIT"} ->
           GoReset(r, h, Len(h.data))
      [] OTHER ->
           Go(Notify([r EXCEPT
                !.c.rcvnxt = Plus(@, 1),
                !.c.state = IF @ \in DOMAIN AfterFin THEN AfterFin[@] ELSE @,
                !.c.conn = @ \/ r.c.state = "FIN_WAIT_2"], "fin"))

Then(g, F(_)) == IF g.stop THEN g ELSE F(g.r)

utcp_recv(c, h, iss, listening, accepts) ==
    IF c = NoConn THEN NewConnection(h, iss, listening)
    ELSE IF c.state = "CLOSED" THEN Sending(c, <<Reset(h, Len(h.data))>>)
    ELSE IF ~Acceptable(c, h) /\ "RST" \in h.ctl THEN Result(c)
    ELSE LET t    == Trimmed(c, h)
             c1   == [c EXCEPT !.wnd = h.wnd]
             adv  == "ACK" \in h.ctl /\ t.ack # c.una
             Syn(r)    == HandleSyn(r, t, adv)
             Accept(r) == HandleAccept(r, t, adv, accepts)
             Data(r)   == HandleData(r, t)
             Fin(r)    == HandleFin(r, t)
             \* an ACK back if something arrived, and more data if the window allows
             Answer(r) ==
               IF r.c.reliable \/ h.ctl \cap {"SYN", "FIN"} # {}
               THEN LET a == ack(r.c, h.data # <<>> \/ h.ctl \cap {"SYN", "FIN"} # {})
                    IN  Go([r EXCEPT !.c = a.c, !.out = @ \o a.out])
               ELSE Go(r)
         IN  IF "RST" \in h.ctl THEN HandleRst(c1, t)
             ELSE Then(Then(Then(Then(Then(HandleAck(c1, t), Syn), Accept), Data), Fin), Answer).r

(***************************************************************************)
(* Closing, aborting and timing out.                                       *)
(***************************************************************************)

\* utcp_shutdown(): dir is "RD", "WR" or "RDWR".
utcp_shutdown(c, dir) ==
    LET c1 == [c EXCEPT !.recv = @ /\ dir = "WR"]
        c2 == [c1 EXCEPT !.shut_wr = TRUE]
        To(state) == LET a == ack([c2 EXCEPT !.state = state, !.last = Plus(@, 1)], FALSE)
                     IN  [a EXCEPT !.c.rtrx = TRUE]
    IN  CASE c.reapable -> Result(c)
          [] ~c.reapable /\ (dir = "RD" \/ c.shut_wr) -> Result(c1)
          [] ~c.reapable /\ dir # "RD" /\ ~c.shut_wr
               /\ c.state \in {"SYN_RECEIVED", "ESTABLISHED"} -> To("FIN_WAIT_1")
          [] ~c.reapable /\ dir # "RD" /\ ~c.shut_wr /\ c.state = "CLOSE_WAIT" -> To("CLOSING")
          [] OTHER -> Result(c2)

reset_connection(c) ==
    Sending([c EXCEPT !.sndbuf = <<>>, !.rcvbuf = <<>>, !.state = "CLOSED"],
            IF c.state \in {"SYN_RECEIVED", "ESTABLISHED", "FIN_WAIT_1", "FIN_WAIT_2", "CLOSE_WAIT"}
            THEN <<Packet(c.nxt, c.rcvnxt, 0, {"RST"}, <<>>, c.reliable)>> ELSE <<>>)

set_reapable(r) == [r EXCEPT !.c.recv = FALSE, !.c.reapable = TRUE]

utcp_close(c) == set_reapable(utcp_shutdown(c, "RDWR"))
utcp_abort(c) == set_reapable(reset_connection(c))

\* One connection of utcp_reset_all_connections(): the callback is called with
\* errno = 0, as it is for a FIN.
utcp_reset(c) == IF c.reapable \/ c.state = "CLOSED" THEN Result(c) ELSE Notify(reset_connection(c), "fin")

\* One connection of utcp_timeout(), when the timers that expired are given.
utcp_timeout(c, connDue, rtrxDue) ==
    LET r == IF rtrxDue THEN retransmit(c) ELSE Result(c)
        polls == r.c.state \in {"ESTABLISHED", "CLOSE_WAIT"} /\ ~r.c.reapable
    IN  CASE c.state = "CLOSED" -> Result(IF c.reapable THEN NoConn ELSE c)
          [] c.state # "CLOSED" /\ connDue ->
               Notify(Result([c EXCEPT !.state = "CLOSED", !.sndbuf = <<>>, !.rcvbuf = <<>>]), "error")
          [] OTHER -> [r EXCEPT !.c.do_poll = @ /\ ~polls]

utcp_expect_data(c, expect) ==
    IF c.reapable \/ c.state \notin {"ESTABLISHED", "FIN_WAIT_1", "FIN_WAIT_2"} THEN c
    ELSE [c EXCEPT !.conn = expect \/ (@ /\ c.una # c.last)]
=============================================================================
