----------------------------- MODULE MCThreads ------------------------------
(***************************************************************************)
(* The threads of a mesh, and the event loop that one of them runs.        *)
(* MeshThreads: two starts, two packets, two requests to the resolver and  *)
(* one other call, enough for what one session leaves to meet the next     *)
(* one.  EventLoop: two descriptors, of which a callback of one can delete *)
(* and replace the other, a timer, and a single error of select() that is  *)
(* put up with.  A behaviour exercises one of the two.                     *)
(***************************************************************************)
EXTENDS MeshThreads

CONSTANTS Fds, Timers, Delays, Acts, MaxErrors

ASSUME FdsAssumption == Fds \subseteq Nat \ {0}

VARIABLES part, io, timer, deletion, pc, each, ready, act, turn, errors, used

L == INSTANCE EventLoop

loopvars == <<io, timer, deletion, pc, each, ready, act, turn, errors, used>>

MCInit ==
    /\ Init /\ L!Init
    /\ \/ part = "threads"
       \/ part = "loop" /\ listening /\ ~setnsFails

MCNext ==
    \/ part = "threads" /\ Next /\ UNCHANGED <<part, loopvars>>
    \/ part = "loop" /\ L!Next /\ UNCHANGED <<part, vars>>

MCSpec == MCInit /\ [][MCNext]_<<vars, part, loopvars>> /\ Fairness

-----------------------------------------------------------------------------
\* EventLoop: freed records are not used, and callbacks that are due are made.
LoopServes == L!LoopServes
=============================================================================
