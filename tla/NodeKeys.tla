------------------------------ MODULE NodeKeys ------------------------------
(***************************************************************************)
(* The key two nodes share for the packets between them: send_req_key and  *)
(* the REQ_KEY/ANS_KEY handlers of src/protocol_key.c, the SPTPS callbacks *)
(* of src/net_packet.c, the timers of src/net.c that restart or renew a    *)
(* key exchange and the resets of src/graph.c.  Each node keeps one        *)
(* datagram SPTPS session with the other (node_t.sptps, module             *)
(* SptpsSession); its handshake records travel over the meta connections   *)
(* (queue net), its data over UDP (at most one packet in flight).          *)
(*                                                                         *)
(* The two nodes are 1 and 2, and their names compare like the numbers.    *)
(* The path between them is one direct meta connection or goes through     *)
(* relays: the latter lose messages when they lose a connection of their   *)
(* own, without the two ends noticing.                                     *)
(***************************************************************************)
EXTENDS SptpsSession

CONSTANTS
    Win,        \* s->replaywin * 8, the numbers in the replay window
    Scenarios   \* what a behaviour may contain, see NodeKeysConstants

\* A scenario: the kind of path; who knows the other's public key at first; how
\* many KEX messages a node may send, and how many UDP packets each; how far its
\* clock runs after a request; how many faults there are, and of which kinds.
ASSUME NodeKeysConstants ==
    /\ Win \in Nat \ {0}
    /\ Scenarios \subseteq [path : {"direct", "relay"}, pub : [{1, 2} -> BOOLEAN],
                            kex : Nat, data : [{1, 2} -> Nat], age : 0 .. 3,
                            faults : Nat, kinds : SUBSET {"lose", "break", "restart"}]

Nodes == {1, 2}

Peer(p) == 3 - p

VARIABLES
    k,        \* what each node keeps about the other (node_t)
    net,      \* net[p]: the requests on their way from p to its peer
    udp,      \* udp[p]: the UDP packet on its way from p, or None
    plan,     \* the scenario of this behaviour
    dialler,  \* who made the direct connection and has yet to handle its ACK
    link,     \* is there a path of meta connections between the nodes?
    renewed,  \* renewed[p]: the peer was restarted since p last reached it
    used,     \* used[p]: KEX messages p has sent
    past      \* history: UDP packets sent and faults so far, was a record of a
              \* renewal lost or refused as late, did a program abort()

vars == <<k, net, udp, plan, dialler, link, renewed, used, past>>

\* last_req_key, in the four spans the code tells apart: less than
\* req_key_timeout (2 s) ago, 2 to 10 s, more than 10 s, more than 3600 s.
Fresh == 0
Late == 1
Old == 2
Hour == 3

NewNode(pub) ==
    [pub |-> pub, s |-> Stopped(FALSE), late |-> {}, valid |-> FALSE, waiting |-> FALSE,
     age |-> Old, reach |-> FALSE]

\* Nodes with a direct connection know each other's public key (id_h).
Diallers == IF plan.path = "direct" THEN Nodes ELSE {None}

Init ==
    /\ plan \in Scenarios
    /\ plan.path = "direct" => \A p \in Nodes : plan.pub[p]
    /\ dialler \in Diallers
    /\ k = [p \in Nodes |-> NewNode(plan.pub[p])]
    /\ net = [p \in Nodes |-> <<>>]
    /\ udp = [p \in Nodes |-> None]
    /\ link = TRUE
    /\ renewed = [p \in Nodes |-> FALSE]
    /\ used = [p \in Nodes |-> 0]
    /\ past = [data |-> [p \in Nodes |-> 0], faults |-> 0, lost |-> FALSE, aborted |-> FALSE]

-----------------------------------------------------------------------------
\* Datagram sessions.

\* The replay window, as the set of the numbers in it that have not been received
\* (the bits of s->late; SptpsReplay models the circular bitmap itself).
Refused(s, late, seqno) == s.instate /\ seqno < s.inseqno /\ seqno \notin late

Window(s, late, seqno) ==
    LET next == IF seqno >= s.inseqno THEN seqno + 1 ELSE s.inseqno
    IN IF s.instate THEN {i \in (late \cup s.inseqno .. seqno - 1) \ {seqno} : i + Win >= next} ELSE {}

\* sptps_receive_data_datagram.  A ciphertext read as plaintext fails at its
\* sequence number or, that one being right, at its type.
sptps_receive_data_datagram(s, late, rec, nonce) ==
    LET t == [s EXCEPT !.inseqno = IF rec.seqno >= @ THEN rec.seqno + 1 ELSE @]
        readable == IF s.instate THEN rec.key = s.incipher ELSE rec.key = None
    IN CASE s.state = "ZERO" \/ (~s.instate /\ rec.seqno # s.inseqno) -> Fail(s)
         [] s.instate /\ (~readable \/ Refused(s, late, rec.seqno)) -> Fail(s)
         [] ~s.instate /\ rec.seqno = s.inseqno /\ s.state # "ZERO" /\ ~readable -> Fail(t)
         [] OTHER -> IF IsHandshake(rec.msg) THEN receive_handshake(t, rec.msg, nonce)
                                             ELSE Ok(t, <<>>)

\* Is a record decrypted, and with that marked in the window if it is not refused?
Opened(s, rec) == s.instate /\ rec.key = s.incipher

LateAfter(n, rec) ==
    IF Opened(n.s, rec) /\ ~Refused(n.s, n.late, rec.seqno) THEN Window(n.s, n.late, rec.seqno) ELSE n.late

\* receive_sptps_record with SPTPS_HANDSHAKE: the key exchange is complete.
Completed(s, r) == r.ok /\ s.state \in {"SIG", "ACK"} /\ r.s.state = "SECONDARY_KEX"

Received(n, rec, r) ==
    IF Completed(n.s, r)
    THEN [n EXCEPT !.s = r.s, !.late = LateAfter(n, rec), !.valid = TRUE, !.waiting = @ /\ n.valid]
    ELSE [n EXCEPT !.s = r.s, !.late = LateAfter(n, rec)]

\* send_sptps_data for a handshake record: always over the meta connection.
send_sptps_data(n, recs) ==
    [i \in DOMAIN recs |-> [kind |-> IF n.valid THEN "REQ_SPTPS" ELSE "ANS_KEY",
                            rec |-> recs[i]]]

Post(p, msgs) == net' = [net EXCEPT ![p] = @ \o msgs]

\* The same while taking the first request of the peer's queue.
Answer(p, msgs) ==
    net' = [net EXCEPT ![p] = @ \o msgs, ![Peer(p)] = Tail(@)]

Nonce(p) == <<p, used[p]>>

Draw(p) == used[p] < plan.kex /\ used' = [used EXCEPT ![p] = @ + 1]

Pubkey(with) == [kind |-> "REQ_PUBKEY", key |-> with]

\* Mutant of Asking: validkey is left alone.
Asking_KeepsValid(n, session) == [n EXCEPT !.s = session, !.late = {}, !.waiting = TRUE, !.age = Fresh]

\* A new session replaces the old one: sptps_stop, the flags, sptps_start.
Asking(n, session) ==
    [n EXCEPT !.s = session, !.late = {}, !.valid = FALSE, !.waiting = TRUE, !.age = Fresh]

\* send_req_key: ask for the public key first if it is not known.
send_req_key(p) ==
    LET start == sptps_start(TRUE, Nonce(p)) IN
    IF k[p].pub
    THEN /\ Draw(p)
         /\ k' = [k EXCEPT ![p] = Asking(@, start.s)]
         /\ Post(p, <<[kind |-> "REQ_KEY", rec |-> start.out[1]]>>)
    ELSE /\ Post(p, <<Pubkey(TRUE)>>)
         /\ UNCHANGED <<k, used>>

-----------------------------------------------------------------------------
\* What a node does on its own.

\* Bound: public keys are asked for again only when nothing is under way.
Quiet == \A p \in Nodes : net[p] = <<>>

\* Mutant of Restarts: an exchange under way is never started again.
Restarts_NoRetry(n) == ~n.waiting

\* send_sptps_packet without a key: ask, or ask again after 10 seconds.
Restarts(n) == ~n.waiting \/ n.age >= Old

\* send_sptps_packet: a packet for the peer, from send_packet.
SendPacket(p) ==
    LET r == sptps_send_record(k[p].s, 0) IN
    /\ k[p].reach
    /\ \/ /\ k[p].valid /\ udp[p] = None /\ past.data[p] < plan.data[p]
          /\ k' = [k EXCEPT ![p].s = r.s]
          /\ udp' = [udp EXCEPT ![p] = IF r.ok THEN r.out[1] ELSE @]
          /\ past' = [past EXCEPT !.data[p] = @ + 1]
          /\ UNCHANGED <<net, used>>
       \/ /\ ~k[p].valid /\ (k[p].pub \/ Quiet)
          /\ Restarts(k[p])
          /\ send_req_key(p)
          /\ UNCHANGED <<udp, past>>
    /\ UNCHANGED <<plan, dialler, link, renewed>>

\* timeout_handler: the exchange on the node of a connection has timed out.
Timeout(p) ==
    /\ plan.path = "direct" /\ k[p].reach
    /\ k[p].waiting /\ k[p].age >= Late
    /\ send_req_key(p)
    /\ UNCHANGED <<udp, plan, dialler, link, renewed, past>>

\* periodic_handler: the key is an hour old.
Renew(p) ==
    LET r == sptps_force_kex(k[p].s, Nonce(p)) IN
    /\ k[p].reach /\ k[p].valid /\ k[p].age = Hour
    /\ IF r.ok
       THEN /\ k' = [k EXCEPT ![p].s = r.s, ![p].age = Fresh]
            /\ IF r.out = <<>> THEN UNCHANGED used ELSE Draw(p)
            /\ Post(p, send_sptps_data(k[p], r.out))
       ELSE /\ k' = [k EXCEPT ![p] = [NewNode(@.pub) EXCEPT !.reach = TRUE]]
            /\ UNCHANGED <<net, used>>
    /\ UNCHANGED <<udp, plan, dialler, link, renewed, past>>

\* Time passes for the timer of p.
Age(p) ==
    /\ k[p].age < plan.age
    /\ k' = [k EXCEPT ![p].age = @ + 1]
    /\ UNCHANGED <<net, udp, plan, dialler, link, renewed, used, past>>

-----------------------------------------------------------------------------
\* The handlers of req_key_ext_h and ans_key_h, for a request of the peer.

Arrived(p, kind) == link /\ k[p].reach /\ net[Peer(p)] # <<>> /\ Head(net[Peer(p)]).kind = kind

ReqPubkey(p) ==
    /\ Arrived(p, "REQ_PUBKEY")
    /\ k' = [k EXCEPT ![p].pub = @ \/ Head(net[Peer(p)]).key]
    /\ Answer(p, <<[kind |-> "ANS_PUBKEY"]>>)
    /\ UNCHANGED <<udp, plan, dialler, link, renewed, used, past>>

AnsPubkey(p) ==
    /\ Arrived(p, "ANS_PUBKEY")
    /\ k' = [k EXCEPT ![p].pub = TRUE]
    /\ Answer(p, <<>>)
    /\ UNCHANGED <<udp, plan, dialler, link, renewed, used, past>>

\* Both ends asked at the same time: the smaller name carries on.
Ignored(p) == k[p].s.state # "ZERO" /\ k[p].age = Fresh /\ p < Peer(p)

ReqKey(p) ==
    LET start == sptps_start(FALSE, Nonce(p))
        n == Asking(k[p], start.s)
        rec == Head(net[Peer(p)]).rec
    IN /\ Arrived(p, "REQ_KEY")
       /\ CASE ~k[p].pub -> Answer(p, <<Pubkey(FALSE)>>) /\ UNCHANGED <<k, used>>
            [] k[p].pub /\ Ignored(p) -> Answer(p, <<>>) /\ UNCHANGED <<k, used>>
            [] OTHER -> \E r \in {sptps_receive_data_datagram(n.s, n.late, rec, None)} :
                            /\ Draw(p)
                            /\ k' = [k EXCEPT ![p] = Received(n, rec, r)]
                            /\ Answer(p, send_sptps_data(n, start.out \o r.out))
       /\ UNCHANGED <<udp, plan, dialler, link, renewed, past>>

\* sptps_receive_data on a record of the peer, for a node in state n; a
\* session aborts the program if an authentic handshake record is refused.
ReceiveRecord(p, n, rec) ==
    \E r \in {sptps_receive_data_datagram(n.s, n.late, rec, Nonce(p))} :
        LET refused == Opened(n.s, rec) /\ Refused(n.s, n.late, rec.seqno)
            fatal == Opened(n.s, rec) /\ ~refused /\ ~r.ok
        IN /\ IF r.s.mykex = Nonce(p) THEN Draw(p) ELSE UNCHANGED used
           /\ k' = [k EXCEPT ![p] = Received(n, rec, r)]
           /\ Answer(p, send_sptps_data(n, r.out))
           /\ past' = [past EXCEPT !.aborted = @ \/ fatal, !.lost = @ \/ refused]

\* ans_key_h: "don't use key material until every check has passed".
AnsKey(p) ==
    /\ Arrived(p, "ANS_KEY")
    /\ ReceiveRecord(p, [k[p] EXCEPT !.valid = FALSE], Head(net[Peer(p)]).rec)
    /\ UNCHANGED <<udp, plan, dialler, link, renewed>>

ReqSptps(p) ==
    /\ Arrived(p, "REQ_SPTPS")
    /\ IF k[p].valid
       THEN ReceiveRecord(p, k[p], Head(net[Peer(p)]).rec)
       ELSE /\ Answer(p, <<>>)
            /\ past' = [past EXCEPT !.lost = TRUE]
            /\ UNCHANGED <<k, used>>
    /\ UNCHANGED <<udp, plan, dialler, link, renewed>>

\* receive_udppacket
ReceiveUdp(p) ==
    /\ udp[Peer(p)] # None
    /\ udp' = [udp EXCEPT ![Peer(p)] = None]
    /\ IF k[p].reach /\ k[p].s.state = "ZERO" /\ ~k[p].waiting
       THEN send_req_key(p)
       ELSE /\ k' = [k EXCEPT ![p] =
                        IF k[p].reach
                        THEN [@ EXCEPT !.s = sptps_receive_data_datagram(@, k[p].late, udp[Peer(p)], None).s,
                                       !.late = LateAfter(k[p], udp[Peer(p)])]
                        ELSE @]
            /\ UNCHANGED <<net, used>>
    /\ UNCHANGED <<plan, dialler, link, renewed, past>>

-----------------------------------------------------------------------------
\* Connections that come and go.

Fault(kind) == kind \in plan.kinds /\ past.faults < plan.faults

\* The history after the loss of these requests.
Lost(msgs, faults) ==
    past' = [past EXCEPT !.faults = @ + faults,
                         !.lost = @ \/ \E m \in msgs : m.kind = "REQ_SPTPS"]

InFlight(p) == {net[p][i] : i \in DOMAIN net[p]}

\* A relay loses a connection and what it had queued for it.
Lose(p) ==
    /\ plan.path = "relay" /\ net[p] # <<>> /\ Fault("lose")
    /\ Lost({Head(net[p])}, 1)
    /\ net' = [net EXCEPT ![p] = Tail(@)]
    /\ UNCHANGED <<k, udp, plan, dialler, link, renewed, used>>

Break ==
    /\ link /\ Fault("break")
    /\ Lost({}, 1)
    /\ link' = FALSE
    /\ UNCHANGED <<k, net, udp, plan, dialler, renewed, used>>

\* The program of p is stopped and started again.
Restart(p) ==
    /\ k[p].reach /\ Fault("restart")
    /\ Lost({}, 1)
    /\ k' = [k EXCEPT ![p] = NewNode(@.pub)]
    /\ renewed' = [renewed EXCEPT ![p] = FALSE, ![Peer(p)] = TRUE]
    /\ link' = FALSE
    /\ UNCHANGED <<net, udp, plan, dialler, used>>

\* check_reachability: the peer became unreachable; the key is kept.
Unreachable(p) ==
    /\ ~link /\ k[p].reach
    /\ k' = [k EXCEPT ![p].reach = FALSE]
    /\ UNCHANGED <<net, udp, plan, dialler, link, renewed, used, past>>

\* The nodes are connected again; what the old connection had not delivered
\* is gone.
Join ==
    /\ ~link /\ \A p \in Nodes : ~k[p].reach
    /\ link' = TRUE
    /\ dialler' \in Diallers
    /\ Lost(InFlight(1) \cup InFlight(2), 0)
    /\ net' = [p \in Nodes |-> <<>>]
    /\ UNCHANGED <<k, udp, plan, renewed, used>>

\* check_reachability: the peer became reachable, perhaps with a new session.
Known(p) ==
    IF renewed[p] THEN [NewNode(k[p].pub) EXCEPT !.reach = TRUE]
                  ELSE [k[p] EXCEPT !.reach = TRUE]

\* The end of ack_h at the node that made the connection: it asks for a key.
ack_h(p) ==
    LET start == sptps_start(TRUE, Nonce(p)) IN
    /\ link /\ dialler = p
    /\ Draw(p)
    /\ dialler' = None
    /\ k' = [k EXCEPT ![p] = Asking(@, start.s)]
    /\ Post(p, <<[kind |-> "REQ_KEY", rec |-> start.out[1]]>>)
    /\ UNCHANGED <<udp, plan, link, renewed, past>>

\* graph(), when the edges of both directions are known: those of a direct
\* connection are announced by ack_h.
Reachable(p) ==
    /\ link /\ dialler = None /\ ~k[p].reach
    /\ renewed' = [renewed EXCEPT ![p] = FALSE]
    /\ k' = [k EXCEPT ![p] = Known(p)]
    /\ UNCHANGED <<net, udp, plan, dialler, link, used, past>>

Deliver(p) ==
    ReqPubkey(p) \/ AnsPubkey(p) \/ ReqKey(p) \/ AnsKey(p) \/ ReqSptps(p)

Next ==
    \/ ~past.aborted /\ \E p \in Nodes :
        \/ SendPacket(p) \/ Timeout(p) \/ Renew(p) \/ Age(p)
        \/ ReqPubkey(p) \/ AnsPubkey(p) \/ ReqKey(p) \/ AnsKey(p) \/ ReqSptps(p)
        \/ ReceiveUdp(p) \/ Lose(p) \/ Restart(p) \/ Unreachable(p) \/ ack_h(p) \/ Reachable(p)
    \/ ~past.aborted /\ (Break \/ Join)

Spec == Init /\ [][Next]_vars

\* The event loop runs what is due: requests that arrived, timers, and the
\* packets the application keeps sending; connections are made again, and both
\* ends notice.
Fairness ==
    /\ \A p \in Nodes : WF_vars(~past.aborted /\ Deliver(p)) /\ WF_vars(~past.aborted /\ SendPacket(p))
    /\ WF_vars(~past.aborted /\ \E p \in Nodes : Age(p))
    /\ WF_vars(~past.aborted /\ (Join \/ \E p \in Nodes : Unreachable(p) \/ ack_h(p) \/ Reachable(p)))

FairSpec == Spec /\ Fairness

-----------------------------------------------------------------------------
Agree(p, q) == k[p].s.outcipher = k[q].s.incipher

Keyed == \A p \in Nodes : k[p].reach /\ k[p].valid /\ ~renewed[p]

\* When all requests have arrived and each node believes it has a valid key,
\* each decrypts what the other sends, whatever exchanges crossed, were
\* repeated or were cut off before (req_key_ext_h, ans_key_h).  The exception
\* is a renewal of which a record was lost, or was refused because more UDP
\* packets than the replay window holds were faster: neither side repeats it.
KeysAgree == link /\ Quiet /\ Keyed /\ ~past.lost => Agree(1, 2) /\ Agree(2, 1)

\* The abort() of sptps_receive_data_datagram is never reached, unless a record
\* of a renewal was lost or refused as late: an authentic handshake record always
\* fits the state of the session, also when both ends renew the key at once and
\* when UDP packets that were sent after a record arrive before it.
AbortHasCause == past.aborted => past.lost

\* ans_key_h clears validkey before it looks at the record, and no late or
\* left-over answer ever takes away a key that is in use that way.
AnswerKeepsKey == [][\A p \in Nodes : k[p].valid /\ ~k'[p].valid => ~AnsKey(p)]_vars

\* Bound reached: a node may not start another exchange in this scenario.
Exhausted == \E p \in Nodes : used[p] = plan.kex

\* Crossing requests, an unknown public key, a lost request, a broken connection
\* and a restart all end with a valid key at both nodes, as long as both have
\* packets to send: the 2 and 10 second timeouts resolve every stand-off.  A
\* renewal of which a record was lost or refused is excepted, as in KeysAgree.
KeyedInTheEnd == <>[](Keyed \/ Exhausted \/ past.lost)

\* Keys are found and are not taken away by late answers.
KeysSettle == KeyedInTheEnd /\ AnswerKeepsKey
=============================================================================
