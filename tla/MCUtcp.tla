------------------------------- MODULE MCUtcp -------------------------------
(***************************************************************************)
(* Small instance of Utcp: segments of at most two bytes, initial sequence *)
(* numbers just below the wrap, and a few scenarios that each stress one   *)
(* thing.                                                                  *)
(***************************************************************************)
EXTENDS Utcp

MCIss == [A |-> <<62, 20>>, B |-> <<7, 27, 47>>]

OtherEvents == {"timeout", "abort", "reset", "offline", "refuse", "shut_rd"}

Tcp == [reliable |-> TRUE, nopartial |-> FALSE, A |-> 1, B |-> 0,
        events |-> 1, may |-> OtherEvents, net |-> 2]

MCScenarios ==
    {Tcp,                                                        \* one byte, any other event
     [Tcp EXCEPT !.A = 2, !.may = {"rtrx"}],                     \* loss and retransmission
     [Tcp EXCEPT !.B = 1, !.events = 0],                         \* data both ways
     [Tcp EXCEPT !.A = 0, !.events = 2, !.may = {"rtrx"}],       \* handshake and close
     [Tcp EXCEPT !.A = 3, !.events = 0, !.nopartial = TRUE],     \* reordering, full window
     [Tcp EXCEPT !.A = 4, !.events = 0, !.reliable = FALSE]}     \* datagrams, in fragments
=============================================================================
