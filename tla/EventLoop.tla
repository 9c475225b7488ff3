------------------------------ MODULE EventLoop ------------------------------
(***************************************************************************)
(* The event loop of src/event.c: timers and file descriptors with their   *)
(* callbacks, which add, change and delete timers and descriptors, their   *)
(* own and others', while the loop is going through them.  Whoever deletes *)
(* an io_t frees it.  While the loop waits in select() the mutex is        *)
(* released, and the calls of the application do the same.                 *)
(*                                                                         *)
(* The time of a timer is relative to loop->now.  What callbacks do        *)
(* besides, and event_loop_stop, are the business of module MeshThreads.   *)
(***************************************************************************)
EXTENDS Integers, FiniteSets

CONSTANTS
    Fds,            \* file descriptors, 1..n
    Timers,         \* timeout_t records
    Delays,         \* delays that timers are set to
    Acts,           \* bound: changes by one callback
    MaxErrors       \* errors of select() in a row that are put up with, 10 in the code

VARIABLES
    io,             \* Fds -> is there an io_t in loop->ios, and its flags
    timer,          \* Timers -> its callback is set; when it is due, or Off
    deletion,       \* loop->deletion
    pc,             \* where the loop is
    each,           \* the loop through the io_t records: which one of the three,
                    \* which of the two flags is next, current record and
                    \* splay_next, and which of these are freed
    ready,          \* the fd_sets readable and writable
    act,            \* changes by this callback
    turn,           \* history: the callbacks due in this turn of the loop, and
                    \* has one of those made deleted something
    errors,         \* errors of select() in a row
    used            \* a freed io_t has been used: anything may happen

loopvars == <<io, timer, deletion, pc, each, ready, act, turn, errors, used>>

Off == 100
Overdue == -1
None == 0
Flags == {{}, {"R"}, {"R", "W"}}

Least(set) == IF set = {} THEN None ELSE CHOOSE f \in set : \A g \in set : f <= g

\* loop->ios, in the order of the descriptors.
head == Least({f \in Fds : io[f].on})
next(f) == Least({g \in Fds : io[g].on /\ g > f})

NoLoop == [loop |-> "none", step |-> 1, cur |-> None, next |-> None, gone |-> {}]
NoneReady == [m \in {"R", "W"} |-> {}]
NoTurn == [due |-> {}, deletes |-> FALSE]

-----------------------------------------------------------------------------
(* What callbacks and, during select(), other threads do.                   *)

io_add(f, flags) ==
    /\ ~io[f].on
    /\ io' = [io EXCEPT ![f] = [on |-> TRUE, flags |-> flags]]
    /\ UNCHANGED <<timer, deletion, each>>

io_set(f, flags) ==
    /\ io[f].on
    /\ io' = [io EXCEPT ![f].flags = flags]
    /\ UNCHANGED <<timer, deletion, each>>

\* The pointers that the loop holds to the record are no good any more.
Freed(f) == {p \in {"cur", "next"} : each[p] = f}

io_del(f) ==
    /\ io[f].on
    /\ io' = [io EXCEPT ![f] = [on |-> FALSE, flags |-> {}]]
    /\ deletion' = TRUE
    /\ each' = [each EXCEPT !.gone = @ \cup Freed(f)]
    /\ UNCHANGED timer

timeout_set(t, delay) ==
    /\ timer[t].cb
    /\ timer' = [timer EXCEPT ![t].due = delay]
    /\ deletion' = TRUE
    /\ UNCHANGED <<io, each>>

timeout_add(t, delay) ==
    /\ timer' = [timer EXCEPT ![t] = [cb |-> TRUE, due |-> delay]]
    /\ deletion' = TRUE
    /\ UNCHANGED <<io, each>>

timeout_del(t) ==
    /\ timer[t].cb
    /\ timer' = [timer EXCEPT ![t] = [cb |-> FALSE, due |-> Off]]
    /\ deletion' = TRUE
    /\ UNCHANGED <<io, each>>

Additions == \E f \in Fds, flags \in Flags : io_add(f, flags) \/ io_set(f, flags)

\* These set loop->deletion.
Deletions ==
    \/ \E f \in Fds : io_del(f)
    \/ \E t \in Timers, delay \in Delays : timeout_set(t, delay) \/ timeout_add(t, delay)
    \/ \E t \in Timers : timeout_del(t)

\* A callback does something, and in the end returns to where it was called.
Callback ==
    /\ pc \in {"timeout cb", "idle cb", "io cb"} /\ act < Acts
    /\ \/ Additions /\ UNCHANGED turn
       \/ Deletions /\ turn' = [turn EXCEPT !.deletes = each.loop = "ready"]
    /\ act' = act + 1
    /\ UNCHANGED <<pc, ready, errors, used>>

Return ==
    /\ \/ pc = "timeout cb" /\ pc' = "timers"
       \/ pc = "idle cb" /\ pc' = "copy"
       \/ pc = "io cb" /\ pc' = "after"
    /\ act' = 0
    /\ UNCHANGED <<io, timer, deletion, each, ready, turn, errors, used>>

OtherThread ==
    /\ pc = "select"
    /\ Additions \/ Deletions
    /\ UNCHANGED <<pc, ready, act, turn, errors, used>>

-----------------------------------------------------------------------------
(* event_loop_run                                                           *)

\* clock_gettime: the timers are due sooner.
Later(ticks) ==
    timer' = [t \in Timers |->
        IF timer[t].due = Off THEN timer[t]
        ELSE [timer[t] EXCEPT !.due = IF @ - ticks < Overdue THEN Overdue ELSE @ - ticks]]

Top ==
    /\ pc = "top"
    /\ \E ticks \in {0, 1} : Later(ticks)
    /\ pc' = "timers"
    /\ UNCHANGED <<io, deletion, each, ready, act, turn, errors, used>>

\* timeout_disable, then the callback of a timer that is due; then idle_cb.
RunTimers ==
    /\ pc = "timers"
    /\ IF \E t \in Timers : timer[t].due = Overdue
       THEN \E t \in Timers :
               /\ timer[t].due = Overdue
               /\ timer' = [timer EXCEPT ![t].due = Off]
               /\ pc' = "timeout cb"
       ELSE pc' = "idle cb" /\ UNCHANGED timer
    /\ UNCHANGED <<io, deletion, each, ready, act, turn, errors, used>>

\* readable and writable are copied, the mutex is unlocked.
EnterSelect ==
    /\ pc = "copy"
    /\ ready' = [m \in {"R", "W"} |-> {f \in Fds : m \in io[f].flags}]
    /\ pc' = "select"
    /\ UNCHANGED <<io, timer, deletion, each, act, turn, errors, used>>

\* Mutant of Cleared: the flag of an earlier deletion is kept.
Cleared_Kept == deletion
Cleared == FALSE

\* A loop through the records begins.
Begin(loop) ==
    /\ pc' = "each"
    /\ each' = [loop |-> loop, step |-> 1, cur |-> head, next |-> next(head), gone |-> {}]
    /\ deletion' = IF loop = "rebuild" THEN deletion ELSE Cleared

SelectReturns ==
    /\ pc = "select"
    /\ \E readable \in SUBSET ready["R"], writable \in SUBSET ready["W"] :
          ready' = [R |-> readable, W |-> writable]
    /\ \E ticks \in {0, 1} : Later(ticks)
    /\ errors' = 0
    /\ IF ready'["R"] = {} /\ ready'["W"] = {}
       THEN pc' = "top" /\ UNCHANGED <<each, deletion>>
       ELSE Begin("ready")
    /\ turn' = [due |-> {x \in Fds \X {"R", "W"} : io[x[1]].on /\ x[1] \in ready'[x[2]]},
                deletes |-> FALSE]
    /\ UNCHANGED <<io, act, used>>

\* EINTR; or another error, and after too many of them event_loop_run returns.
SelectFails ==
    /\ pc = "select"
    /\ \/ pc' = "top" /\ UNCHANGED <<each, deletion, errors>>
       \/ /\ errors' = errors + 1
          /\ IF errors' > MaxErrors THEN pc' = "failed" /\ UNCHANGED <<each, deletion>>
             ELSE Begin("bad")
    /\ \E ticks \in {0, 1} : Later(ticks)
    /\ ready' = NoneReady
    /\ UNCHANGED <<io, act, turn, used>>

\* The flag that is looked at: in the last loop of check_bad_fds reading comes
\* first.
Flag == IF (each.step = 1) = (each.loop = "rebuild") THEN "R" ELSE "W"

\* event_loop_run calls back those that are ready, check_bad_fds all of them.
Called == IF each.loop = "ready" THEN each.cur \in ready[Flag] ELSE Flag \in io[each.cur].flags

\* The end of a loop: check_bad_fds starts again after a deletion, and then
\* rebuilds the fd_sets.
LoopEnds(broken) ==
    /\ IF each.loop = "bad" THEN Begin(IF broken THEN "bad" ELSE "rebuild")
       ELSE pc' = "top" /\ each' = NoLoop /\ UNCHANGED deletion
    /\ ready' = NoneReady /\ turn' = NoTurn

\* The record is looked at for one of the flags.
LookAt ==
    /\ pc = "each"
    /\ \/ /\ each.cur = None
          /\ LoopEnds(FALSE) /\ UNCHANGED used
       \/ /\ each.cur # None /\ "cur" \in each.gone
          /\ used' = TRUE /\ pc' = "broken" /\ UNCHANGED <<each, deletion, ready, turn>>
       \/ /\ each.cur # None /\ "cur" \notin each.gone /\ Called
          /\ pc' = "io cb"
          /\ turn' = [turn EXCEPT !.due = @ \ {<<each.cur, Flag>>}]
          /\ UNCHANGED <<each, deletion, ready, used>>
       \/ /\ each.cur # None /\ "cur" \notin each.gone /\ ~Called
          /\ pc' = "after" /\ UNCHANGED <<each, deletion, ready, turn, used>>
    /\ UNCHANGED <<io, timer, act, errors>>

\* A deletion ends the loop, but for the last one of check_bad_fds; else the
\* other flag or the next record is next.
GoOn ==
    LET stops == deletion /\ each.loop # "rebuild" IN
    /\ pc = "after"
    /\ \/ /\ stops
          /\ LoopEnds(TRUE) /\ UNCHANGED used
       \/ /\ ~stops /\ each.step = 1
          /\ each' = [each EXCEPT !.step = 2]
          /\ pc' = "each" /\ UNCHANGED <<deletion, ready, turn, used>>
       \/ /\ ~stops /\ each.step = 2 /\ "next" \in each.gone
          /\ used' = TRUE /\ pc' = "broken" /\ UNCHANGED <<each, deletion, ready, turn>>
       \/ /\ ~stops /\ each.step = 2 /\ "next" \notin each.gone
          /\ each' = [each EXCEPT !.step = 1, !.cur = each.next, !.gone = {},
                                  !.next = IF each.next = None THEN None ELSE next(each.next)]
          /\ pc' = "each" /\ UNCHANGED <<deletion, ready, turn, used>>
    /\ UNCHANGED <<io, timer, act, errors>>

-----------------------------------------------------------------------------
Init ==
    /\ io = [f \in Fds |-> [on |-> TRUE, flags |-> {"R"}]]
    /\ timer = [t \in Timers |-> [cb |-> TRUE, due |-> 0]]
    /\ deletion = FALSE /\ pc = "top" /\ each = NoLoop
    /\ ready = NoneReady /\ turn = NoTurn
    /\ act = 0 /\ errors = 0 /\ used = FALSE

Next ==
    \/ Top \/ RunTimers \/ EnterSelect \/ SelectReturns \/ SelectFails \/ LookAt \/ GoOn
    \/ Callback \/ Return \/ OtherThread

Spec == Init /\ [][Next]_loopvars

-----------------------------------------------------------------------------
\* The loop survives what callbacks and other threads do, and serves its
\* descriptors.  An io_t that was deleted, by its own callback, another one or
\* another thread, is not used any more; the exception is the last loop of
\* check_bad_fds, which does not look at the deletion flag.  Every callback that is
\* due when select() returns is made in this turn, unless one of the callbacks
\* before it in this turn sets a timer or deletes something: what happened earlier
\* does not cut the turn short.
LoopServes ==
    /\ used => each.loop = "rebuild"
    /\ pc = "after" /\ deletion /\ each.loop = "ready" => turn.deletes
    /\ pc = "each" /\ each.cur = None /\ each.loop = "ready" => turn.due = {}

-----------------------------------------------------------------------------
(* What makes LoopServes inductive (module ThreadProofs).                   *)

Loops ==
    [loop : {"none", "ready", "bad", "rebuild"}, step : {1, 2}, cur : Fds \cup {None},
     next : Fds \cup {None}, gone : SUBSET {"cur", "next"}]

TypeOK ==
    /\ io \in [Fds -> [on : BOOLEAN, flags : SUBSET {"R", "W"}]]
    /\ deletion \in BOOLEAN /\ used \in BOOLEAN
    /\ each \in Loops
    /\ ready \in [{"R", "W"} -> SUBSET Fds]
    /\ turn \in [due : SUBSET (Fds \X {"R", "W"}), deletes : BOOLEAN]

\* The loop goes through the records only in some places.
InLoop == pc \in {"each", "io cb", "after", "broken"}

\* The callback x still has to be made: its record is the current one and its flag
\* has not been looked at, or its record comes later.
Ahead(x) ==
    /\ x[1] \in ready[x[2]] /\ io[x[1]].on
    /\ \/ x[1] = each.cur /\ pc = "each" /\ (each.step = 1 \/ x[2] = "R")
       \/ x[1] = each.cur /\ pc # "each" /\ each.step = 1 /\ x[2] = "R"
       \/ each.next # None /\ each.next <= x[1]

LoopInv ==
    /\ TypeOK
    /\ each.loop # "none" <=> InLoop
    /\ used => pc = "broken" /\ each.loop = "rebuild"
    /\ pc = "broken" => each.loop = "rebuild"
    /\ each.loop \in {"ready", "bad"} =>
          /\ pc = "each" => ~deletion
          /\ each.gone # {} => deletion
    /\ each.loop = "ready" =>
          /\ deletion => turn.deletes
          /\ each.cur = None => turn.due = {}
          /\ ~deletion => \A x \in turn.due : Ahead(x)
=============================================================================
