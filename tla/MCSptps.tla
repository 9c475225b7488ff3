------------------------------- MODULE MCSptps ------------------------------
(***************************************************************************)
(* The session of two nodes and the path its datagrams take.  Sptps: three *)
(* key exchanges by each peer, two records.  UdpPath: packets of up to     *)
(* three units, a peer with two addresses, two changes of the path, the    *)
(* key or the reachability, and the thresholds 10 and 30 of the code       *)
(* reduced to 2 and 3.  A behaviour exercises one of the two.              *)
(***************************************************************************)
EXTENDS Sptps

CONSTANTS MTU, Addresses, Few, Many, MaxChanges, MaxEchoes

VARIABLES part, n, path, echoes, choice, past

U == INSTANCE UdpPath

pathvars == <<n, path, echoes, choice, past>>

MCInit ==
    /\ Init /\ U!Init /\ path.addr = 1     \* the addresses are alike
    /\ \/ part = "path"
       \/ part = "session" /\ n.address = 1 /\ path.carries = 0

Session(A) == part = "session" /\ A /\ UNCHANGED <<part, pathvars>>

MCNext ==
    \/ Session(Next)
    \/ part = "path" /\ U!Next /\ UNCHANGED <<part, vars>>

MCSpec ==
    /\ MCInit /\ [][MCNext]_<<vars, part, pathvars>>
    /\ \A p \in Peers : WF_vars(Session(Start(p))) /\ WF_vars(Session(Receive(p)))
    /\ U!Fairness

-----------------------------------------------------------------------------
\* Sptps: key exchanges end, and records arrive.
SessionProgress == part = "session" => Progress

\* UdpPath: as long as the network carries packets, UDP comes into use.
UdpFound == U!UdpFound
=============================================================================
