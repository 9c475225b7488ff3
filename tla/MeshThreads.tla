----------------------------- MODULE MeshThreads ----------------------------
(***************************************************************************)
(* The threads of one mesh handle and what they share: the thread that     *)
(* starts, stops and closes the mesh (app), a thread that calls            *)
(* meshlink_send (sender), one that makes any other call (user), the       *)
(* thread of the event loop (main) and the resolver (adns).  They share    *)
(* the mesh mutex, the packet queue, the two resolver queues and the       *)
(* signal pipe of the event loop, over which the other threads wake it.    *)
(*                                                                         *)
(* meshlink_send and the resolver do not take the mesh mutex; each step of *)
(* theirs is an action, and so is each pop of a queue by the event loop.   *)
(***************************************************************************)
EXTENDS Naturals, Sequences, FiniteSets

CONSTANTS
    MaxStarts,      \* bound: calls of meshlink_start
    MaxSends,       \* bound: calls of meshlink_send
    MaxRequests,    \* bound: names given to the resolver
    MaxCalls        \* bound: other calls

VARIABLES
    mutex,          \* the thread that has mesh->mutex, or "none"
    listening,      \* the listening sockets are open
    setnsFails,     \* the network namespace given cannot be entered
    running,        \* loop->running
    threadstarted,  \* mesh->threadstarted
    app, sender, user, main, adns,  \* where each thread is
    closing,        \* app is in meshlink_close
    signals,        \* the signals registered: "data" from app, "dns"
    flags,          \* the signals whose "set" flag is set
    open, pipe,     \* the signal pipe is open, and what is in it
    outq,           \* packets in mesh->outpacketqueue
    stranded,       \* some of them were queued when nobody listened
    adnsq, doneq,   \* the resolver queues
    item,           \* the request the resolver has taken
    session,        \* meshlink_start calls that made a resolver so far
    stale,          \* a callback was called for a request of an old session
    leaked,         \* some call returned with the mutex locked
    failed,         \* pthread_create failed
    starts, sends, requests, calls

env    == <<listening, setnsFails>>
loop   == <<signals, flags, open, pipe>>
queues == <<outq, stranded, adnsq, doneq, item, session, stale>>
bounds == <<starts, sends, requests, calls>>
vars == <<mutex, env, running, threadstarted, app, closing, sender, user, main,
          adns, loop, queues, leaked, failed, bounds>>

Null == 0               \* also the item that tells the resolver to stop

-----------------------------------------------------------------------------
(* Signals of the event loop (event.c).  A call changes signals, flags and  *)
(* pipe.                                                                    *)

pipe_init == open' = TRUE /\ pipe' = <<>>
pipe_exit == open' = FALSE /\ pipe' = <<>>

\* signal_add: the flag is cleared, the pipe is opened for the first signal.
signal_add(sig) ==
    /\ signals' = signals \cup {sig}
    /\ flags' = flags \ {sig}
    /\ IF open THEN UNCHANGED <<open, pipe>> ELSE pipe_init

\* signal_del: the pipe is closed with the last one.
signal_del(sig) ==
    /\ signals' = signals \ {sig}
    /\ IF signals' = {} THEN pipe_exit ELSE UNCHANGED <<open, pipe>>
    /\ UNCHANGED flags

\* signal_trigger, second half: a write to a closed pipe fails unnoticed.
Written(sig) == IF open THEN Append(pipe, sig) ELSE pipe

\* signalio_handler clears the flag before the callback, so that a trigger
\* during the callback writes again.
FlagsInCallback_Kept(sig) == flags
FlagsInCallback(sig) == flags \ {sig}

Packet == 1             \* a meshlink_packethdr_t; which one it is does not matter

-----------------------------------------------------------------------------
(* Queues (meshlink_queue.h); each has a mutex of its own.                  *)

meshlink_queue_push(queue, data) == Append(queue, data)

\* The data is NULL when the queue is empty.
meshlink_queue_pop(queue) ==
    IF queue = <<>> THEN [data |-> Null, queue |-> queue]
    ELSE [data |-> Head(queue), queue |-> Tail(queue)]

\* Waits until there is something in the queue: what may be popped, if anything.
meshlink_queue_pop_cond(queue) == {meshlink_queue_pop(q) : q \in {queue} \ {<<>>}}

-----------------------------------------------------------------------------
(* meshlink_start, meshlink_stop, meshlink_close and meshlink_import: app.  *)

\* The mutex is recursive: after a call that did not unlock it, app keeps it.
Unlocked == IF leaked THEN "app" ELSE "none"

\* init_adns makes both queues anew.
DoneAtStart == <<>>

\* The pthread_create of init_adns is taken to succeed (its result is not used),
\* that of the library thread may fail.
Start ==
    /\ app = "idle" /\ mutex \in {"none", "app"} /\ starts < MaxStarts
    /\ starts' = starts + 1
    /\ \/ \* the thread was already running
          threadstarted /\ UNCHANGED <<mutex, running, app, main, adns, loop, adnsq, doneq, session, leaked, failed>>
       \/ \* returns without unlocking
          /\ ~threadstarted /\ ~listening
          /\ mutex' = "app" /\ leaked' = TRUE
          /\ UNCHANGED <<running, app, main, adns, loop, adnsq, doneq, session, failed>>
       \/ \* the resolver of a start that failed is still there: signal_add asserts
          /\ ~threadstarted /\ listening /\ "dns" \in signals
          /\ app' = "aborted"
          /\ UNCHANGED <<mutex, running, main, adns, loop, adnsq, doneq, session, leaked, failed>>
       \/ /\ ~threadstarted /\ listening /\ "dns" \notin signals
          /\ adnsq' = <<>> /\ doneq' = DoneAtStart /\ session' = session + 1
          /\ signal_add("dns") /\ adns' = "pop"
          /\ \/ /\ mutex' = "app" /\ running' = TRUE /\ main' = "new" /\ app' = "created"
                /\ UNCHANGED failed
             \/ /\ failed' = TRUE /\ running' = FALSE /\ UNCHANGED <<mutex, main, app>>
          /\ UNCHANGED leaked
    /\ UNCHANGED <<env, threadstarted, closing, sender, user, outq, stranded, item, stale, sends, requests, calls>>

\* pthread_cond_wait unlocks the mutex, waits, and locks it again.
StartWaits ==
    /\ app = "created"
    /\ app' = "waiting" /\ mutex' = Unlocked
    /\ UNCHANGED <<env, running, threadstarted, closing, sender, user, main, adns, loop, queues, leaked, failed, bounds>>

Spurious ==
    /\ app = "waiting"
    /\ app' = "woken"
    /\ UNCHANGED <<mutex, env, running, threadstarted, closing, sender, user, main, adns, loop, queues, leaked, failed, bounds>>

Started ==
    /\ app = "woken" /\ mutex \in {"none", "app"}
    /\ app' = "idle" /\ threadstarted' = TRUE
    /\ UNCHANGED <<mutex, env, running, closing, sender, user, main, adns, loop, queues, leaked, failed, bounds>>

\* meshlink_stop up to pthread_join.  The mutex is given up for the join.
JoinsWith_Locked == "app"
JoinsWith == Unlocked

Stop ==
    /\ app = "idle" /\ mutex \in {"none", "app"}
    /\ closing' \in BOOLEAN
    /\ closing' => sender = "idle" /\ user = "idle"
    /\ running' = FALSE
    /\ IF threadstarted
       THEN app' = "join" /\ mutex' = JoinsWith
       ELSE app' = "exit_adns" /\ mutex' = "app"
    /\ UNCHANGED <<env, threadstarted, sender, user, main, adns, loop, queues, leaked, failed, bounds>>

Joined ==
    /\ app = "join" /\ main = "exited" /\ mutex \in {"none", "app"}
    /\ mutex' = "app" /\ threadstarted' = FALSE /\ main' = "none"
    /\ app' = "exit_adns"
    /\ UNCHANGED <<env, running, closing, sender, user, adns, loop, queues, leaked, failed, bounds>>

\* exit_adns: the pending requests are dropped and the resolver is told to stop.
exit_adns ==
    /\ app = "exit_adns"
    /\ IF "dns" \in signals
       THEN adnsq' = meshlink_queue_push(<<>>, Null) /\ app' = "join_adns"
       ELSE app' = "end" /\ UNCHANGED adnsq
    /\ UNCHANGED <<mutex, env, running, threadstarted, closing, sender, user, main, adns, loop, outq,
                   stranded, doneq, item, session, stale, leaked, failed, bounds>>

\* Mutant of AdnsJoined: the signal stays registered.
AdnsJoined_SignalKept ==
    /\ app = "join_adns" /\ adns = "exited"
    /\ adns' = "none" /\ UNCHANGED loop
    /\ app' = "end"
    /\ UNCHANGED <<mutex, env, running, threadstarted, closing, sender, user, main, queues, leaked,
                   failed, bounds>>

\* The end of exit_adns: pthread_join returns.
AdnsJoined ==
    /\ app = "join_adns" /\ adns = "exited"
    /\ adns' = "none" /\ signal_del("dns")
    /\ app' = "end"
    /\ UNCHANGED <<mutex, env, running, threadstarted, closing, sender, user, main, queues, leaked,
                   failed, bounds>>

\* The rest of meshlink_stop, and of meshlink_close, which frees the packets.
StopEnds ==
    /\ app = "end"
    /\ app' = IF closing THEN "closed" ELSE "idle"
    /\ mutex' = Unlocked
    /\ IF closing THEN outq' = <<>> /\ stranded' = FALSE ELSE UNCHANGED <<outq, stranded>>
    /\ UNCHANGED <<env, running, threadstarted, closing, sender, user, main, adns, loop, adnsq, doneq, item,
                   session, stale, leaked, failed, bounds>>

\* meshlink_import returns without unlocking when a host file cannot be written.
ImportFails ==
    /\ app = "idle" /\ mutex = "none" /\ calls < MaxCalls
    /\ calls' = calls + 1
    /\ mutex' = "app" /\ leaked' = TRUE
    /\ UNCHANGED <<env, running, threadstarted, app, closing, sender, user, main, adns, loop, queues, failed,
                   starts, sends, requests>>

-----------------------------------------------------------------------------
(* Other threads of the application.                                        *)

\* A call that locks the mutex and unlocks it before it returns.
Calls ==
    /\ user = "idle" /\ ~closing /\ calls < MaxCalls
    /\ user' = "wants" /\ calls' = calls + 1
    /\ UNCHANGED <<mutex, env, running, threadstarted, app, closing, sender, main, adns, loop, queues, leaked,
                   failed, starts, sends, requests>>

Returns ==
    /\ user = "wants" /\ mutex = "none"
    /\ user' = "idle"
    /\ UNCHANGED <<mutex, env, running, threadstarted, app, closing, sender, main, adns, loop, queues, leaked,
                   failed, bounds>>

\* meshlink_send: meshlink_queue_push, then signal_trigger in two steps.
Push ==
    /\ sender = "idle" /\ ~closing /\ sends < MaxSends
    /\ sends' = sends + 1
    /\ outq' = meshlink_queue_push(outq, Packet)
    /\ stranded' = (stranded \/ "data" \notin signals)
    /\ sender' = "trigger"
    /\ UNCHANGED <<mutex, env, running, threadstarted, app, closing, user, main, adns, loop, adnsq, doneq, item, session,
                   stale, leaked, failed, starts, requests, calls>>

signal_trigger ==
    /\ sender = "trigger"
    /\ sender' = IF "data" \in flags THEN "idle" ELSE "write"
    /\ flags' = flags \cup {"data"}
    /\ UNCHANGED <<mutex, env, running, threadstarted, app, closing, user, main, adns, signals, open, pipe, queues, leaked,
                   failed, bounds>>

Write ==
    /\ sender = "write"
    /\ sender' = "idle"
    /\ pipe' = Written("data")
    /\ UNCHANGED <<mutex, env, running, threadstarted, app, closing, user, main, adns, signals, open, flags, queues, leaked,
                   failed, bounds>>

-----------------------------------------------------------------------------
(* The resolver (adns_loop).                                                *)

adns_loop ==
    /\ \/ /\ adns = "pop"
          /\ \E popped \in meshlink_queue_pop_cond(adnsq) :
                item' = popped.data /\ adnsq' = popped.queue
          /\ adns' = IF item' = Null THEN "exited" ELSE "resolve"
          /\ UNCHANGED <<doneq, flags, pipe>>
       \/ /\ adns = "resolve"
          /\ doneq' = meshlink_queue_push(doneq, item) /\ item' = Null
          /\ adns' = "trigger"
          /\ UNCHANGED <<adnsq, flags, pipe>>
       \/ /\ adns = "trigger"
          /\ adns' = IF "dns" \in flags THEN "pop" ELSE "write"
          /\ flags' = flags \cup {"dns"}
          /\ UNCHANGED <<adnsq, doneq, item, pipe>>
       \/ /\ adns = "write"
          /\ adns' = "pop" /\ pipe' = Written("dns")
          /\ UNCHANGED <<adnsq, doneq, item, flags>>
    /\ UNCHANGED <<mutex, env, running, threadstarted, app, closing, sender, user, main, signals, open, outq, stranded,
                   session, stale, leaked, failed, bounds>>

-----------------------------------------------------------------------------
(* The thread of the event loop (meshlink_main_loop, main_loop,             *)
(* event_loop_run).                                                         *)

SetnsFails ==
    /\ main = "new" /\ setnsFails
    /\ main' = "exited"
    \* pthread_cond_signal, without the mutex
    /\ app' = IF app = "waiting" THEN "woken" ELSE app
    /\ UNCHANGED <<mutex, env, running, threadstarted, closing, sender, user, adns, loop, queues, leaked, failed, bounds>>

EnterLoop ==
    /\ main = "new" /\ ~setnsFails /\ mutex = "none"
    /\ mutex' = "main" /\ main' = "top"
    /\ app' = IF app = "waiting" THEN "woken" ELSE app
    /\ signal_add("data")
    /\ UNCHANGED <<env, running, threadstarted, closing, sender, user, adns, queues, leaked, failed, bounds>>

\* One pass up to select.  The timers may ask the resolver for a name
\* (adns_queue, in setup_outgoing_connection).
Select ==
    /\ main = "top" /\ running
    /\ main' = "select" /\ mutex' = "none"
    /\ \/ UNCHANGED <<adnsq, requests>>
       \/ /\ requests < MaxRequests /\ requests' = requests + 1
          /\ adnsq' = meshlink_queue_push(adnsq, session)
    /\ UNCHANGED <<env, running, threadstarted, app, closing, sender, user, adns, loop, outq, stranded, doneq, item,
                   session, stale, leaked, failed, starts, sends, calls>>

\* main_loop returns: the loop was stopped, or select failed too often.
LeaveLoop ==
    /\ \/ main = "top" /\ ~running /\ mutex' = "none"
       \/ main = "select" /\ mutex = "none" /\ UNCHANGED mutex
    /\ main' = "exited"
    /\ signal_del("data")
    /\ stranded' = (outq # <<>>)
    /\ UNCHANGED <<env, running, threadstarted, app, closing, sender, user, adns, outq, adnsq, doneq, item, session,
                   stale, leaked, failed, bounds>>

\* select returns and no callback of the pipe is made: a timeout, other
\* descriptors, or a callback before it that set loop->deletion.
WakeOther ==
    /\ main = "select" /\ mutex = "none"
    /\ mutex' = "main" /\ main' = "top"
    /\ UNCHANGED <<env, running, threadstarted, app, closing, sender, user, adns, loop, queues, leaked, failed, bounds>>

\* signalio_handler reads one number; both signals are registered while the loop
\* runs.
signalio_handler ==
    /\ main = "select" /\ mutex = "none" /\ pipe # <<>>
    /\ mutex' = "main"
    /\ pipe' = Tail(pipe)
    /\ Head(pipe) \in signals
    /\ main' = Head(pipe) /\ flags' = FlagsInCallback(Head(pipe))
    /\ UNCHANGED <<env, running, threadstarted, app, closing, sender, user, adns, signals, open, queues,
                   leaked, failed, bounds>>

\* The callbacks, one pop at a time: meshlink_send_from_queue routes a packet,
\* adns_cb_handler calls the callback of a request.
Pop ==
    /\ \/ /\ main = "data" /\ meshlink_queue_pop(outq).data # Null
          /\ outq' = meshlink_queue_pop(outq).queue
          /\ UNCHANGED <<main, stranded, doneq, stale>>
       \/ /\ main = "dns" /\ meshlink_queue_pop(doneq).data # Null
          /\ doneq' = meshlink_queue_pop(doneq).queue
          /\ stale' = (stale \/ meshlink_queue_pop(doneq).data # session)
          /\ UNCHANGED <<main, outq, stranded>>
       \/ /\ main = "data" /\ meshlink_queue_pop(outq).data = Null
          /\ main' = "top" /\ stranded' = FALSE
          /\ UNCHANGED <<outq, doneq, stale>>
       \/ /\ main = "dns" /\ meshlink_queue_pop(doneq).data = Null
          /\ main' = "top"
          /\ UNCHANGED <<outq, stranded, doneq, stale>>
    /\ UNCHANGED <<mutex, env, running, threadstarted, app, closing, sender, user, adns, loop, adnsq, item,
                   session, leaked, failed, bounds>>

-----------------------------------------------------------------------------
Init ==
    /\ mutex = "none" /\ leaked = FALSE /\ failed = FALSE
    /\ listening \in BOOLEAN /\ setnsFails \in BOOLEAN
    /\ running = FALSE /\ threadstarted = FALSE /\ closing = FALSE
    /\ app = "idle" /\ sender = "idle" /\ user = "idle" /\ main = "none" /\ adns = "none"
    /\ signals = {} /\ flags = {} /\ open = FALSE /\ pipe = <<>>
    /\ outq = <<>> /\ stranded = FALSE /\ adnsq = <<>> /\ doneq = <<>> /\ item = Null
    /\ session = 0 /\ stale = FALSE
    /\ starts = 0 /\ sends = 0 /\ requests = 0 /\ calls = 0

App == StartWaits \/ Started \/ Joined \/ exit_adns \/ AdnsJoined \/ StopEnds
Sender == signal_trigger \/ Write
Main == SetnsFails \/ EnterLoop \/ Select \/ WakeOther \/ signalio_handler \/ Pop

Next ==
    \/ Start \/ Stop \/ ImportFails \/ Spurious \/ App
    \/ Calls \/ Returns \/ Push \/ Sender
    \/ adns_loop \/ Main \/ LeaveLoop

\* Every thread goes on, select returns (the ping timer runs out every second),
\* and a thread that waits for the mutex gets it when the event loop, which
\* gives it up during select, has done so often enough.
Fairness ==
    /\ SF_vars(App) /\ SF_vars(Returns) /\ WF_vars(Sender)
    /\ WF_vars(adns_loop) /\ SF_vars(Main) /\ WF_vars(main = "top" /\ LeaveLoop)

Spec == Init /\ [][Next]_vars /\ Fairness

-----------------------------------------------------------------------------
\* No wakeup is lost: when a packet is in the queue, or the answer of the resolver,
\* and the thread that put it there is done with signal_trigger, the number of the
\* signal is in the pipe or its callback is running.  (A packet queued while the
\* event loop does not listen waits until the next one that is queued.)
WakeupPending ==
    /\ outq # <<>> /\ sender = "idle" /\ ~stranded /\ "data" \in signals =>
          main = "data" \/ \E i \in DOMAIN pipe : pipe[i] = "data"
    /\ doneq # <<>> /\ adns \notin {"trigger", "write"} /\ "dns" \in signals =>
          main = "dns" \/ \E i \in DOMAIN pipe : pipe[i] = "dns"

\* When no start has succeeded since the last stop, no thread of the mesh is left,
\* no signal is registered and the pipe is closed, as event_loop_exit asserts when
\* the mesh is closed.  (meshlink_start that fails to create its thread leaves the
\* resolver and its signal behind until meshlink_stop.)  Nor does a stop leave
\* answers of the resolver to the next session: a callback is called only in the
\* session that made the request, since meshlink_stop frees the outgoing_t it was
\* made for (exit_outgoings).
StoppedIsClean ==
    /\ app \in {"idle", "closed"} /\ ~threadstarted =>
          /\ main = "none"
          /\ \/ adns = "none" /\ signals = {} /\ ~open
             \/ failed /\ app = "idle"
    /\ ~stale

\* A call returns: none waits for ever for the mutex, for the event loop or for the
\* resolver.  Exceptions: two calls return with the mutex locked (meshlink_start
\* without a listening socket, meshlink_import when it cannot write), and
\* meshlink_start misses the signal of a thread that cannot enter its namespace.
CallsReturn ==
    /\ user = "wants" ~> user = "idle" \/ leaked
    /\ app \notin {"idle", "closed", "aborted"} ~>
          app \in {"idle", "closed", "aborted"} \/ leaked \/ setnsFails

-----------------------------------------------------------------------------
(* What makes the invariants above inductive (module ThreadProofs).         *)

TypeOK ==
    /\ signals \subseteq {"data", "dns"} /\ pipe \in Seq({"data", "dns"})
    /\ outq \in Seq({Packet}) /\ adnsq \in Seq(Nat) /\ doneq \in Seq(Nat) /\ session \in Nat

\* Where the threads can be.
Places ==
    /\ app \in {"idle", "created", "waiting", "woken", "join", "exit_adns", "join_adns", "end",
                "closed", "aborted"}
    /\ main \in {"none", "new", "top", "select", "data", "dns", "exited"}
    /\ adns \in {"none", "pop", "resolve", "trigger", "write", "exited"}

InPipe(sig) == \E i \in DOMAIN pipe : pipe[i] = sig

\* A signal is registered as long as the thread that handles it, or triggers it,
\* is there, and the pipe is open as long as a signal is registered.
Registered ==
    /\ open <=> signals # {}
    /\ "data" \in signals <=> main \in {"top", "select", "data", "dns"}
    /\ "dns" \in signals <=> adns # "none"

\* A flag that is set keeps the next trigger from writing; it is set only when the
\* number is in the pipe or about to be written.
FlagMeansWritten ==
    /\ {"data"} \subseteq signals \cap flags => sender = "write" \/ InPipe("data")
    /\ {"dns"} \subseteq signals \cap flags => adns = "write" \/ InPipe("dns")

\* The event loop's thread exists from its creation until it is joined, and a stop
\* that is over has joined the resolver, too.
ThreadsJoined ==
    /\ main = "none" <=> ~threadstarted /\ app \notin {"created", "waiting", "woken"}
    /\ threadstarted => app \in {"idle", "join"}
    /\ app \in {"end", "closed"} => adns = "none"
    /\ app = "idle" /\ ~threadstarted /\ ~failed => adns = "none"

\* What the resolver's queues hold was asked for in this session.
OwnRequests ==
    /\ main # "none" => session > 0
    /\ \A i \in DOMAIN adnsq : adnsq[i] \in {Null, session}
    /\ \A i \in DOMAIN doneq : doneq[i] = session
    /\ item = IF adns = "resolve" THEN session ELSE Null

ThreadInv ==
    /\ TypeOK /\ Places /\ Registered /\ FlagMeansWritten /\ ThreadsJoined /\ OwnRequests
    /\ outq # <<>> /\ "data" \notin signals => stranded
    /\ WakeupPending /\ ~stale
=============================================================================
