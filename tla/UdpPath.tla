------------------------------- MODULE UdpPath -------------------------------
(***************************************************************************)
(* How a node finds out which packets it can send to another over UDP: the *)
(* MTU probes, the choice of address and the choice between UDP and the    *)
(* meta connections of src/net_packet.c, with the resets of src/graph.c.   *)
(* The keys come and go as in NodeKeys; here a boolean says whether there  *)
(* is one.  Sizes are counted in units: a probe overshoots by one unit (8  *)
(* bytes in the code), the smallest probe is one unit (64 bytes), and the  *)
(* SPTPS overhead, which the EMSGSIZE code adds to a size, is one unit     *)
(* (21 bytes).                                                             *)
(***************************************************************************)
EXTENDS Integers, FiniteSets

CONSTANTS
    MTU,            \* largest packet there is
    Addresses,      \* addresses the peer may have
    Few, Many,      \* bursts before giving up on a silent peer, before the size
                    \* is fixed; 10 and 30 in the code
    MaxChanges,     \* bound: changes of the path, the keys and the reachability
    MaxEchoes       \* bound: probe replies in flight

VARIABLES
    n,              \* what the node keeps about its peer (node_t)
    path,           \* the network: the peer's address, the largest packet it
                    \* carries to the peer (0: none) and lets out of the host
    echoes,         \* probe replies on their way back, [len, addr]
    choice,         \* mesh->udp_choice
    past            \* history: changes so far; was the timer dropped with the
                    \* key kept

vars == <<n, path, echoes, choice, past>>

New == [reach |-> FALSE, valid |-> FALSE, confirmed |-> FALSE, address |-> 0,
        minmtu |-> 0, maxmtu |-> MTU, probes |-> 0,
        want |-> FALSE, timer |-> FALSE]

Path == [addr : Addresses, carries : 0 .. MTU, out : {MTU}]

Init ==
    /\ path \in {p \in Path : p.carries \in {0, MTU - 1, MTU}}
    /\ \E a \in Addresses : n = [New EXCEPT !.address = a]
    /\ echoes = {}
    /\ choice = 0
    /\ past = [changes |-> 0, flap |-> FALSE]

-----------------------------------------------------------------------------
\* choose_udp_address: the address when it is confirmed and at every third
\* packet; else an address the peer announced, or that of one of its edges.
choose_udp_address(m, turn) ==
    IF m.confirmed \/ turn + 1 >= 3 THEN {m.address} ELSE Addresses

Turn(m, turn) == IF m.confirmed THEN turn ELSE (turn + 1) % 3

\* sendto(): EMSGSIZE lowers the upper bound, and with it n->mtu, which is left
\* out: only the channels read it.
Sent(m, len) ==
    IF len <= path.out THEN m
    ELSE [m EXCEPT !.maxmtu = IF @ >= len + 1 THEN len ELSE @]

\* The state at the end of send_mtu_probe_handler: no key, or sleep until the
\* next ping, or a burst of probes.
NoKey(m) == [m EXCEPT !.probes = 0, !.timer = FALSE]

\* No reply to the last pings: start again.
Restarted(m) ==
    IF m.probes > Many + 2 /\ m.minmtu > 0
    THEN [m EXCEPT !.confirmed = FALSE, !.probes = 1, !.minmtu = 0, !.maxmtu = MTU]
    ELSE m

GivenUp(m) == IF m.probes \in Few .. Many + 1 /\ m.minmtu = 0 THEN [m EXCEPT !.probes = Many + 1] ELSE m

Fixed(m) ==
    IF m.probes = Many \/ (m.probes < Many /\ m.minmtu >= m.maxmtu)
    THEN LET size == IF m.minmtu > m.maxmtu THEN m.maxmtu ELSE m.minmtu
         IN [m EXCEPT !.minmtu = size, !.maxmtu = size, !.probes = Many + 1]
    ELSE m

\* The sizes of the probes of a burst.
ProbeSizes(m) ==
    (IF m.probes >= Many /\ m.maxmtu + 1 < MTU THEN {m.maxmtu + 1} ELSE {})
        \cup (IF m.maxmtu <= m.minmtu THEN {m.maxmtu} ELSE m.minmtu + 1 .. m.maxmtu)

\* One probe of the burst gets through at most; which one is up to the network.
Burst(m) ==
    \E len \in ProbeSizes(m), a \in choose_udp_address(m, choice) :
        /\ n' = [Sent(m, len) EXCEPT !.timer = TRUE]
        /\ choice' = Turn(m, choice)
        /\ echoes' = IF len <= path.out /\ len <= path.carries /\ a = path.addr
                        /\ Cardinality(echoes) < MaxEchoes
                     THEN echoes \cup {[len |-> len, addr |-> a]} ELSE echoes

\* Mutant of Sleep: the timer is not set again.
Sleep_NoTimer(m) == n' = [m EXCEPT !.timer = FALSE] /\ UNCHANGED <<choice, echoes>>

Sleep(m) == n' = [m EXCEPT !.timer = TRUE] /\ UNCHANGED <<choice, echoes>>

send_mtu_probe_handler(m0) ==
    LET m1 == [m0 EXCEPT !.probes = @ + 1]
        m == Fixed(GivenUp(Restarted(m1)))
    IN CASE ~m0.reach \/ ~m0.valid -> n' = NoKey(m0) /\ UNCHANGED <<choice, echoes>>
         [] m0.reach /\ m0.valid /\ m1.probes > Many + 2 /\ m1.minmtu = 0 ->
                Sleep([m1 EXCEPT !.probes = Many + 1])
         [] m0.reach /\ m0.valid /\ ~(m1.probes > Many + 2 /\ m1.minmtu = 0) /\ m.probes = Many + 1 ->
                Sleep([m EXCEPT !.want = @ /\ m.minmtu > 0])
         [] OTHER -> Burst(m)

-----------------------------------------------------------------------------
\* The timer expires.
Probe == n.timer /\ send_mtu_probe_handler(n) /\ UNCHANGED <<path, past>>

\* handle_incoming_vpn_data and mtu_probe_h, for a reply: the address is the one
\* the reply came from.
Reply(e) ==
    LET m == [n EXCEPT !.confirmed = TRUE, !.address = e.addr]
        probes == CASE m.probes > Many /\ m.minmtu > 0 -> Many
                    [] m.probes > Many /\ m.minmtu = 0 -> 1
                    [] OTHER -> m.probes
        len == IF e.len > m.maxmtu THEN m.maxmtu ELSE e.len
    IN /\ echoes' = echoes \ {e}
       /\ IF n.reach /\ n.valid
          THEN n' = IF m.probes > Many /\ e.len = m.maxmtu + 1
                    THEN [m EXCEPT !.maxmtu = MTU, !.probes = Few]
                    ELSE [m EXCEPT !.probes = probes,
                                   !.minmtu = IF @ < len THEN len ELSE @]
          ELSE n' = n
       /\ UNCHANGED <<path, choice, past>>

\* handle_incoming_vpn_data: a packet of the peer from where it is now.
Heard ==
    /\ n.reach /\ n.valid /\ path.carries > 0 /\ n.address # path.addr
    /\ n' = [n EXCEPT !.address = path.addr]
    /\ UNCHANGED <<path, echoes, choice, past>>

\* send_packet and send_sptps_data: small packets go over UDP.
Data(len) ==
    LET overUdp == len <= n.minmtu IN
    /\ n.reach /\ n.valid
    /\ n' = [(IF overUdp THEN Sent(n, len) ELSE n) EXCEPT !.want = TRUE]
    /\ choice' = IF overUdp THEN Turn(n, choice) ELSE choice
    /\ UNCHANGED <<path, echoes, past>>

\* A change of the world, as often as the bound allows.
Change == past.changes < MaxChanges

\* send_req_key, or a REQ_KEY of the peer: no key for a while.
Rekey ==
    /\ Change /\ n.valid
    /\ n' = [n EXCEPT !.valid = FALSE]
    /\ past' = [past EXCEPT !.changes = @ + 1]
    /\ UNCHANGED <<path, echoes, choice>>

\* ans_key_h at the end of a key exchange: an address perhaps, and probes.
AnsKey(a) ==
    /\ n.reach /\ ~n.valid
    /\ send_mtu_probe_handler([n EXCEPT !.valid = TRUE, !.address = a])
    /\ UNCHANGED <<path, past>>

\* check_reachability: the key is kept, the timer is not.
Unreachable ==
    /\ Change /\ n.reach
    /\ n' = [n EXCEPT !.reach = FALSE, !.confirmed = FALSE, !.maxmtu = MTU,
                      !.minmtu = 0, !.probes = 0, !.timer = FALSE]
    /\ past' = [past EXCEPT !.changes = @ + 1, !.flap = @ \/ n.valid]
    /\ UNCHANGED <<path, echoes, choice>>

\* check_reachability; with a new session ID the key is dropped as well.
Reachable(new) ==
    /\ ~n.reach
    /\ n' = [n EXCEPT !.reach = TRUE, !.confirmed = FALSE, !.maxmtu = MTU,
                      !.minmtu = 0, !.probes = 0, !.timer = FALSE,
                      !.valid = @ /\ ~new]
    /\ past' = [past EXCEPT !.flap = @ /\ ~new]
    /\ UNCHANGED <<path, echoes, choice>>

\* The network changes under the nodes.
PathChanges ==
    /\ Change
    /\ \E carries \in 0 .. MTU, addr \in Addresses, out \in {MTU, MTU - 2} :
          path' = [addr |-> addr, carries |-> carries, out |-> out]
    /\ past' = [past EXCEPT !.changes = @ + 1]
    /\ UNCHANGED <<n, echoes, choice>>

Lost(e) == echoes' = echoes \ {e} /\ UNCHANGED <<n, path, choice, past>>

Next ==
    \/ Probe \/ Heard \/ Rekey \/ Unreachable \/ PathChanges
    \/ \E e \in echoes : Reply(e) \/ Lost(e)
    \/ \E len \in 1 .. MTU : Data(len)
    \/ \E a \in Addresses : AnsKey(a)
    \/ \E new \in BOOLEAN : Reachable(new)

Spec == Init /\ [][Next]_vars

\* The timer fires; a burst does not miss the peer's address forever, since it
\* is picked at random, and not all probes and replies are lost.
Fairness ==
    /\ WF_vars(Probe)
    /\ SF_vars(Probe /\ echoes' # echoes)
    /\ SF_vars(\E e \in echoes : Reply(e))

FairSpec == Spec /\ Fairness

-----------------------------------------------------------------------------
\* There is a key for a peer that is reachable, and the network carries packets.
\* Not so for a peer that was unreachable for a while and kept its key:
\* check_reachability drops the timer, and nothing but a new key exchange sets it.
Usable == n.reach /\ n.valid /\ ~past.flap /\ path.carries > 0 /\ path.out = MTU

\* As long as the network carries packets at all, UDP comes into use and comes
\* back after every loss of probes, move of the peer and change of the MTU.  There
\* is one trap: a reply that comes so late that the peer was given up, and that
\* looks like an increase of the MTU, confirms its address without a minimum MTU,
\* and send_mtu_probe_handler takes back a confirmation only if there is a minimum.
\* If the peer has moved, all later probes miss it.
UdpFound == <>[]Usable => \/ []<>(n.confirmed /\ n.minmtu > 0)
                          \/ <>[](n.confirmed /\ n.minmtu = 0 /\ n.address # path.addr)
=============================================================================
