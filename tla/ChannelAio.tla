----------------------------- MODULE ChannelAio -----------------------------
(***************************************************************************)
(* A reliable channel and its asynchronous I/O (meshlink.c): the buffers   *)
(* queued with meshlink_channel_aio_send, _aio_receive and their fd forms, *)
(* the callbacks of UTCP (channel_poll, channel_recv), and the             *)
(* application, which may call back into the channel, and close it, from   *)
(* inside any callback.                                                    *)
(*                                                                         *)
(* The C call stack is the variable stack, its top frame first: a frame of *)
(* "poll" or "recv" is one of those functions at the head of its loop,     *)
(* "abort" is aio_abort, "finish" is aio_finish_one during the callback,   *)
(* "accept" is channel_accept during the accept callback, and "plain" is a *)
(* poll or receive callback, after which the functions of the channel do   *)
(* nothing.  The application runs when the stack is empty and in           *)
(* "finish", "accept" and "plain".  A program that has called abort() is   *)
(* in "dead".                                                              *)
(***************************************************************************)
EXTENDS Naturals, Sequences

CONSTANTS
    Capacity,   \* the size of the send buffer
    Lens,       \* the sizes of buffers
    MaxAios,    \* bound: buffers queued
    MaxData     \* bound: receive callbacks with data

ASSUME SizesAssumption == Capacity \in Nat /\ Lens \subseteq Nat

VARIABLES
    open,       \* channel->c is set
    freed,      \* how often the channel was freed
    in_callback,
    alive,      \* the connection takes data (it is established)
    space,      \* what is free in the send buffer
    aio_send, aio_receive,
    stack,
    released,   \* the application has closed the channel
    used,       \* the channel was used after it was freed
    nested,     \* a callback of aio_finish_one was called inside another
    closedInAccept, \* the channel was closed during the accept callback
    requeued,   \* a callback made by channel_poll queued a buffer to send
    report,     \* how each buffer ended
    last,       \* the last buffer from which data was sent
    received    \* receive callbacks so far

channelvars == <<open, freed, in_callback, alive, space, aio_send, aio_receive, stack,
          released, used, nested, requeued, closedInAccept, report, last, received>>

heap == <<open, freed, in_callback, released, used, nested, requeued, closedInAccept>>

Least(a, b) == IF a < b THEN a ELSE b

Top  == Head(stack)
Runs(f) == stack # <<>> /\ Top.f = f /\ ~used
InApp == ~used /\ (stack = <<>> \/ Runs("finish") \/ Runs("accept") \/ Runs("plain"))

\* A frame of function f is on a stack.
Has(s, f) == \E i \in DOMAIN s : s[i].f = f

Accepting == Has(stack, "accept")

Calls(frame) == stack' = <<frame>> \o stack
Poll(len)    == [f |-> "poll", len |-> len]
Recv(left)   == [f |-> "recv", len |-> left]
Abort(why)   == [f |-> "abort", why |-> why]

\* The frames that are left when aio_finish_one returns false: each of its
\* callers returns, up to the callback they were called from.
Unwound(s) ==
    LET keep == {i \in 1 .. Len(s) + 1 : /\ i > 1
                                         /\ i <= Len(s) => s[i].f \in {"finish", "accept", "plain"}}
        from == CHOOSE i \in keep : \A j \in keep : i <= j
    IN  SubSeq(s, from, Len(s))

-----------------------------------------------------------------------------
(* The application.                                                         *)

\* A connection that takes no data has no space.
utcp_get_sndbuf_free == IF alive THEN space ELSE 0

Buffer(len, fd) == [id |-> Len(report) + 1, len |-> len, done |-> 0, fd |-> fd]

\* meshlink_channel_aio_send and meshlink_channel_aio_fd_send: the buffer goes to
\* the end of the chain, and channel_poll is called with what can be sent of it
\* (with all the space there is, for an fd).  It finds no channel and ends the
\* program while the connection is not accepted yet.
aio_send_call(len) ==
    /\ InApp /\ ~released /\ Len(report) < MaxAios
    /\ report' = Append(report, "queued")
    /\ \E fd \in BOOLEAN :
         LET todo == IF fd THEN utcp_get_sndbuf_free ELSE Least(len, utcp_get_sndbuf_free)
         IN  /\ aio_send' = Append(aio_send, Buffer(len, fd))
             /\ stack' = IF todo = 0 THEN stack
                         ELSE IF Accepting THEN <<[f |-> "dead"]>>
                         ELSE <<Poll(todo)>> \o stack
    /\ requeued' = (requeued \/ Has(stack, "poll"))
    /\ UNCHANGED <<open, freed, in_callback, released, used, nested, closedInAccept, alive, space, aio_receive, last,
                   received>>

\* meshlink_channel_aio_receive and meshlink_channel_aio_fd_receive
aio_receive_call(len) ==
    /\ InApp /\ ~released /\ Len(report) < MaxAios
    /\ \E fd \in BOOLEAN : aio_receive' = Append(aio_receive, Buffer(len, fd))
    /\ report' = Append(report, "queued")
    /\ UNCHANGED <<heap, alive, space, aio_send, stack, last, received>>

\* meshlink_channel_send: refused while buffers are queued.
SendAllowed_Always == TRUE
SendAllowed == aio_send = <<>>

meshlink_channel_send(len) ==
    /\ InApp /\ ~released /\ SendAllowed /\ alive
    /\ space > 0
    /\ space' = space - Least(len, space)
    /\ last' = Len(report) + 1
    /\ UNCHANGED <<heap, alive, aio_send, aio_receive, stack, report, received>>

\* meshlink_channel_close and meshlink_channel_abort: what is queued is dropped
\* without a callback, and the channel freed unless a callback is running.
\* channel_recv calls it as well, outside of callbacks, when free_node has marked
\* the node.
meshlink_channel_close ==
    /\ InApp /\ ~released
    /\ released' = TRUE /\ open' = FALSE
    /\ aio_send' = <<>> /\ aio_receive' = <<>>
    /\ report' = [i \in DOMAIN report |->
                    IF \E q \in {aio_send, aio_receive} : \E k \in DOMAIN q : q[k].id = i
                    THEN "dropped" ELSE report[i]]
    /\ freed' = IF in_callback THEN freed ELSE freed + 1
    /\ closedInAccept' = Accepting
    /\ UNCHANGED <<in_callback, alive, space, stack, used, nested, requeued, last, received>>

-----------------------------------------------------------------------------
(* aio_finish_one.                                                          *)

\* The buffer is unlinked and the callback is called; below is the stack to
\* return to.
EnterCallback_NotMarked == in_callback
EnterCallback == TRUE

Finish(aio, why, below) ==
    /\ report' = [report EXCEPT ![aio.id] = IF aio.done = aio.len THEN "whole" ELSE why]
    /\ in_callback' = EnterCallback
    /\ nested' = (nested \/ Has(below, "finish"))
    /\ stack' = <<[f |-> "finish"]>> \o below

\* The callback returns: the channel is looked at again, and freed if the
\* callback has closed it.
CallbackReturns ==
    /\ Runs("finish")
    /\ in_callback' = FALSE
    /\ IF freed > 0
       THEN used' = TRUE /\ UNCHANGED <<freed, stack>>
       ELSE /\ IF open
               THEN stack' = Tail(stack) /\ UNCHANGED freed
               ELSE stack' = Unwound(stack) /\ freed' = freed + 1
            /\ UNCHANGED used
    /\ UNCHANGED <<open, alive, space, aio_send, aio_receive, released, nested, requeued, closedInAccept, report, last, received>>

\* channel_accept: a channel that is refused is freed.  utcp_accept does nothing
\* for a connection that was closed meanwhile.
channel_accept ==
    /\ Runs("accept")
    /\ stack' = <<>>
    /\ \/ UNCHANGED <<open, freed, released>>
       \/ freed' = freed + 1 /\ released' = TRUE /\ open' = FALSE
    /\ UNCHANGED <<in_callback, used, nested, requeued, closedInAccept, alive, space, aio_send, aio_receive,
                   report, last, received>>

PlainReturns ==
    /\ Runs("plain")
    /\ stack' = Tail(stack)
    /\ UNCHANGED <<heap, alive, space, aio_send, aio_receive, report, last, received>>

\* aio_abort, one buffer at a time; at the end its caller goes on after the loop.
aio_abort ==
    /\ Runs("abort")
    /\ LET caller == stack[2]
           q      == IF caller.f = "poll" THEN aio_send ELSE aio_receive
       IN  IF q # <<>>
           THEN /\ Finish(Head(q), Top.why, stack)
                /\ IF caller.f = "poll"
                   THEN aio_send' = Tail(q) /\ UNCHANGED aio_receive
                   ELSE aio_receive' = Tail(q) /\ UNCHANGED aio_send
           ELSE /\ stack' = <<[f |-> "plain"]>> \o SubSeq(stack, 3, Len(stack))
                /\ UNCHANGED <<aio_send, aio_receive, report, in_callback, nested>>
    /\ UNCHANGED <<open, freed, released, used, requeued, closedInAccept, alive, space, last, received>>

-----------------------------------------------------------------------------
(* channel_poll.                                                            *)

\* What is left of the space once data was sent.
Remaining_Stale(len, sent) == len
Remaining(len, sent) == len - sent

\* How much of a buffer one pass may handle: a file may have or take less.
Todo(aio, len) ==
    LET most == Least(aio.len - aio.done, len)
    IN  {n \in 1 .. most : aio.fd \/ n = most}

\* A buffer is sent from, in one pass of the loop.
PollSends ==
    /\ Runs("poll") /\ aio_send # <<>> /\ Top.len > 0 /\ alive
    /\ \E todo \in Todo(Head(aio_send), Top.len) :
       LET aio  == Head(aio_send)
           sent == Least(todo, space)
           now  == [aio EXCEPT !.done = @ + sent]
           left == [Top EXCEPT !.len = Remaining(@, sent)]
       IN  /\ space' = space - sent
           /\ last' = IF sent > 0 THEN aio.id ELSE last
           /\ IF sent # todo
              THEN \* the send failed: all buffers are aborted
                   /\ Calls(Abort("cut"))
                   /\ UNCHANGED <<aio_send, report, in_callback, nested>>
              ELSE IF now.done < now.len
              THEN /\ aio_send' = <<now>> \o Tail(aio_send)
                   /\ stack' = Tail(stack)
                   /\ UNCHANGED <<report, in_callback, nested>>
              ELSE /\ aio_send' = Tail(aio_send)
                   /\ Finish(now, "whole", IF left.len = 0 THEN Tail(stack)
                                           ELSE <<left>> \o Tail(stack))
    /\ UNCHANGED <<open, freed, released, used, requeued, closedInAccept, alive, aio_receive, received>>

\* The file descriptor of a buffer cannot be read: just this one is finished.
PollReadFails ==
    /\ Runs("poll") /\ aio_send # <<>> /\ Top.len > 0 /\ Head(aio_send).fd
    /\ aio_send' = Tail(aio_send)
    /\ Finish(Head(aio_send), "failed", stack)
    /\ UNCHANGED <<open, freed, released, used, requeued, closedInAccept, alive, space, aio_receive, last, received>>

\* utcp_send returns an error, or the callback signals one.
PollAborts ==
    /\ Runs("poll") /\ aio_send # <<>> /\ (Top.len = 0 \/ ~alive)
    /\ Calls(Abort("failed"))
    /\ UNCHANGED <<heap, alive, space, aio_send, aio_receive, report, last, received>>

\* No buffer is left: the poll callback of the application, if there is one.
PollEnds ==
    /\ Runs("poll") /\ aio_send = <<>>
    /\ stack' = <<[f |-> "plain"]>> \o Tail(stack)
    /\ UNCHANGED <<heap, alive, space, aio_send, aio_receive, report, last, received>>

-----------------------------------------------------------------------------
(* channel_recv.                                                            *)

RecvFills ==
    /\ Runs("recv") /\ aio_receive # <<>> /\ Top.len > 0
    /\ \E todo \in Todo(Head(aio_receive), Top.len) :
       LET aio  == Head(aio_receive)
           now  == [aio EXCEPT !.done = @ + todo]
           left == [Top EXCEPT !.len = @ - todo]
           below == IF left.len = 0 THEN Tail(stack) ELSE <<left>> \o Tail(stack)
       IN  IF now.done < now.len
           THEN /\ aio_receive' = <<now>> \o Tail(aio_receive)
                /\ stack' = below
                /\ UNCHANGED <<report, in_callback, nested>>
           ELSE /\ aio_receive' = Tail(aio_receive)
                /\ Finish(now, "whole", below)
    /\ UNCHANGED <<open, freed, released, used, requeued, closedInAccept, alive, space, aio_send, last, received>>

RecvWriteFails ==
    /\ Runs("recv") /\ aio_receive # <<>> /\ Top.len > 0 /\ Head(aio_receive).fd
    /\ aio_receive' = Tail(aio_receive)
    /\ Finish(Head(aio_receive), "failed", stack)
    /\ UNCHANGED <<open, freed, released, used, requeued, closedInAccept, alive, space, aio_send, last, received>>

RecvAborts ==
    /\ Runs("recv") /\ aio_receive # <<>> /\ Top.len = 0
    /\ Calls(Abort("failed"))
    /\ UNCHANGED <<heap, alive, space, aio_send, aio_receive, report, last, received>>

RecvEnds ==
    /\ Runs("recv") /\ aio_receive = <<>>
    /\ stack' = <<[f |-> "plain"]>> \o Tail(stack)
    /\ UNCHANGED <<heap, alive, space, aio_send, aio_receive, report, last, received>>

-----------------------------------------------------------------------------
(* UTCP, as the channel sees it.                                            *)

\* It polls with the free space, or with 0 when the connection has failed.
UtcpPolls ==
    /\ stack = <<>> /\ open
    /\ IF alive THEN space > 0 /\ Calls(Poll(space)) ELSE Calls(Poll(0))
    /\ UNCHANGED <<heap, alive, space, aio_send, aio_receive, report, last, received>>

UtcpReceives ==
    /\ stack = <<>> /\ open /\ received < MaxData
    /\ received' = received + 1
    /\ \E len \in Lens \cup {0} : Calls(Recv(len))
    /\ UNCHANGED <<heap, alive, space, aio_send, aio_receive, report, last>>

\* Data is acknowledged; the connection fails.
UtcpAcked ==
    /\ stack = <<>> /\ space < Capacity
    /\ space' = Capacity
    /\ UNCHANGED <<heap, alive, aio_send, aio_receive, stack, report, last, received>>

UtcpFails ==
    /\ stack = <<>> /\ alive
    /\ alive' = FALSE
    /\ UNCHANGED <<heap, space, aio_send, aio_receive, stack, report, last, received>>

ChannelInit ==
    /\ open = TRUE /\ freed = 0 /\ in_callback = FALSE /\ released = FALSE
    /\ used = FALSE /\ nested = FALSE /\ requeued = FALSE /\ closedInAccept = FALSE
    /\ alive = TRUE /\ space = Capacity
    /\ aio_send = <<>> /\ aio_receive = <<>>
    /\ stack \in {<<>>, <<[f |-> "accept"]>>}       \* opened here, or by the peer
    /\ report = <<>> /\ last = 0 /\ received = 0

ChannelNext ==
    \/ \E len \in Lens : aio_send_call(len) \/ aio_receive_call(len) \/ meshlink_channel_send(len)
    \/ meshlink_channel_close \/ CallbackReturns \/ channel_accept \/ PlainReturns \/ aio_abort
    \/ PollSends \/ PollReadFails \/ PollAborts \/ PollEnds
    \/ RecvFills \/ RecvWriteFails \/ RecvAborts \/ RecvEnds
    \/ UtcpPolls \/ UtcpReceives \/ UtcpAcked \/ UtcpFails

ChannelSpec == ChannelInit /\ [][ChannelNext]_channelvars

-----------------------------------------------------------------------------
\* Closing the channel is allowed at any time, even inside a callback: it is freed
\* once and not used afterwards (in_callback in aio_finish_one and
\* meshlink_channel_close).  The accept callback is left out: before it returns
\* true the application has no channel to close.
CloseAllowed == closedInAccept \/ (~used /\ freed <= 1)

\* The same unless a callback of a buffer is called inside another one.
CloseAllowedOnce == nested \/ CloseAllowed

\* "Sending failed, abort all outstanding AIO buffers": a buffer that channel_poll
\* aborts was one that could not be sent, and not just for want of space.
NeverCut == \A i \in DOMAIN report : report[i] # "cut"

\* A buffer ends early only for a reason: the connection or a file failed, or the
\* channel was closed.  The exception: when a callback made by channel_poll
\* queues another buffer, data is sent at once, and channel_poll then goes on with
\* the space it was called with, of which less is left, and takes that for a failure.
EndsForAReason == \A i \in DOMAIN report : report[i] = "cut" => requeued

\* Data is sent in the order in which it was given to the channel: from the
\* buffers one after the other, and directly only when none is left.
SentInOrder == [][last' >= last]_channelvars

-----------------------------------------------------------------------------
(* What makes these properties inductive (module ChannelAioProofs).         *)

Frames ==
    [f : {"poll", "recv"}, len : Nat] \cup [f : {"abort"}, why : {"cut", "failed"}]
    \cup [f : {"finish", "accept", "plain", "dead"}]

Buffers == [id : Nat, len : Nat, done : Nat, fd : BOOLEAN]

Endings == {"queued", "dropped", "whole", "cut", "failed"}

\* The contents of the variables.
ChannelTypes ==
    /\ space \in Nat /\ last \in Nat /\ freed \in Nat
    /\ aio_send \in Seq(Buffers) /\ aio_receive \in Seq(Buffers)
    /\ stack \in Seq(Frames) /\ report \in Seq(Endings)

\* Which function calls which: channel_poll and channel_recv call aio_abort, all
\* three call aio_finish_one, and the application calls from its callbacks.
MayCall(callee, caller) ==
    \/ callee = "abort" /\ caller \in {"poll", "recv"}
    \/ callee \in {"poll", "recv", "plain"} /\ caller \in {"finish", "plain"}
    \/ callee = "finish" /\ caller \in {"finish", "plain", "poll", "recv", "abort"}

WellFormed(s) ==
    /\ \A i \in 1 .. Len(s) - 1 : MayCall(s[i].f, s[i + 1].f)
    /\ s # <<>> => s[Len(s)].f # "abort"

Once(s, f) == \A i, j \in DOMAIN s : s[i].f = f /\ s[j].f = f => i = j

AllPlain(s) == \A i \in DOMAIN s : s[i].f = "plain"

\* Unless callbacks are nested, in_callback says whether aio_finish_one is running.
OneCallback ==
    ~nested => Once(stack, "finish") /\ (in_callback <=> Has(stack, "finish"))

\* Once the channel is freed, nothing of its code is left on the stack.
FreedIsLeft ==
    nested \/ closedInAccept \/
        (~used /\ freed <= 1 /\ (freed = 1 => released /\ AllPlain(stack)))

ClosedIsReleased ==
    /\ open <=> ~released
    /\ closedInAccept => released /\ (stack = <<>> \/ Accepting)
    /\ released /\ Accepting => closedInAccept

Room(s, n) == \A i \in DOMAIN s : s[i].f = "poll" => s[i].len <= n

NotCut(s) == \A i \in DOMAIN s : s[i].f = "abort" => s[i].why # "cut"

\* Unless a callback queued a buffer, channel_poll has the space it was told of.
SpaceIsThere ==
    requeued \/ /\ Once(stack, "poll") /\ NotCut(stack)
                /\ aio_send = <<>> \/ Room(stack, space)

\* The buffers of a queue are in the order of the calls, from buffer low to high.
Ordered(q, low, high) ==
    /\ \A i \in 1 .. Len(q) : low <= q[i].id /\ q[i].id <= high
    /\ \A i, j \in 1 .. Len(q) : i < j => q[i].id < q[j].id

InOrder == last <= Len(report) + 1 /\ Ordered(aio_send, last, Len(report))

ChannelInv ==
    /\ ChannelTypes /\ WellFormed(stack) /\ OneCallback /\ FreedIsLeft /\ ClosedIsReleased
    /\ SpaceIsThere /\ EndsForAReason /\ InOrder
=============================================================================
