---------------------------- MODULE ThreadProofs ----------------------------
(***************************************************************************)
(* Proofs about the threads of a mesh (MeshThreads), for any number of     *)
(* starts, packets, requests and calls, and about the event loop they run  *)
(* (EventLoop, instantiated as L in MCThreads), for any descriptors,       *)
(* timers and callbacks. ThreadInv and LoopInv are the two invariants; each *)
(* step of the threads and of the loop has a lemma or a case of its own.   *)
(***************************************************************************)
EXTENDS MCThreads, TLAPS, WellFoundedInduction

\* The provers get 30 seconds for a leaf, however busy the machine is.
USE SMTT(30), ZenonT(30)

-----------------------------------------------------------------------------
(* Queues and the pipe are sequences.                                       *)

\* What is appended is in the sequence, and all else stays where it was.
LEMMA AppendElements ==
    ASSUME NEW S, NEW q \in Seq(S), NEW x \in S
    PROVE  /\ Append(q, x) \in Seq(S) /\ Append(q, x) # <<>>
           /\ \E i \in DOMAIN Append(q, x) : Append(q, x)[i] = x
           /\ \A i \in DOMAIN q : i \in DOMAIN Append(q, x) /\ Append(q, x)[i] = q[i]
           /\ \A i \in DOMAIN Append(q, x) : 
                 Append(q, x)[i] = x \/ (i \in DOMAIN q /\ Append(q, x)[i] = q[i])
<1>1. Append(q, x) \in Seq(S) /\ Len(Append(q, x)) = Len(q) + 1 /\ Len(q) \in Nat
  OBVIOUS
<1>2. Append(q, x)[Len(q) + 1] = x /\ Len(q) + 1 \in DOMAIN Append(q, x)
  BY <1>1
<1> QED
  BY <1>1, <1>2

\* Tail drops nothing but the head.
LEMMA TailElements ==
    ASSUME NEW S, NEW q \in Seq(S), q # <<>>
    PROVE  /\ Tail(q) \in Seq(S) /\ Head(q) \in S /\ 1 \in DOMAIN q /\ Head(q) = q[1]
           /\ \A i \in DOMAIN Tail(q) : i + 1 \in DOMAIN q /\ Tail(q)[i] = q[i + 1]
           /\ \A y : y # Head(q) /\ (\E i \in DOMAIN q : q[i] = y) =>
                        \E i \in DOMAIN Tail(q) : Tail(q)[i] = y
<1>1. Tail(q) \in Seq(S) /\ Len(Tail(q)) = Len(q) - 1 /\ Len(q) \in Nat /\ Len(q) > 0
  OBVIOUS
<1>2. \A i \in DOMAIN Tail(q) : i + 1 \in DOMAIN q /\ Tail(q)[i] = q[i + 1]
  BY <1>1
<1>3. ASSUME NEW y, y # Head(q), NEW i \in DOMAIN q, q[i] = y
      PROVE  \E j \in DOMAIN Tail(q) : Tail(q)[j] = y
  <2>1. i # 1 /\ i \in 1 .. Len(q)
    BY <1>1, <1>3
  <2>2. i - 1 \in DOMAIN Tail(q) /\ Tail(q)[i - 1] = q[i]
    BY <2>1, <1>1
  <2> QED
    BY <2>2, <1>3, Zenon
<1> QED
  BY <1>1, <1>2, <1>3

\* The same for the queues of the resolver.
LEMMA PushElements ==
    ASSUME NEW q \in Seq(Nat), NEW x \in Nat
    PROVE  /\ Append(q, x) \in Seq(Nat)
           /\ \A i \in DOMAIN Append(q, x) :
                 Append(q, x)[i] = x \/ (i \in DOMAIN q /\ Append(q, x)[i] = q[i])
OBVIOUS

\* What is left in a queue once its first item is taken.
LEMMA PopElements ==
    ASSUME NEW q \in Seq(Nat), q # <<>>
    PROVE  /\ Tail(q) \in Seq(Nat) /\ Head(q) \in Nat /\ 1 \in DOMAIN q /\ Head(q) = q[1]
           /\ \A i \in DOMAIN Tail(q) : i + 1 \in DOMAIN q /\ Tail(q)[i] = q[i + 1]
OBVIOUS

-----------------------------------------------------------------------------
(* MeshThreads                                                              *)

\* A number that is written is in the pipe, and so is what was there before.
LEMMA PipeWritten ==
    ASSUME pipe \in Seq({"data", "dns"}), NEW sig \in {"data", "dns"}, pipe' = Append(pipe, sig)
    PROVE  /\ pipe' \in Seq({"data", "dns"})
           /\ InPipe(sig)'
           /\ \A other : InPipe(other) => InPipe(other)'
BY AppendElements DEF InPipe

\* A number that is read is a signal's, and the others stay in the pipe.
LEMMA PipeRead ==
    ASSUME pipe \in Seq({"data", "dns"}), pipe # <<>>, pipe' = Tail(pipe)
    PROVE  /\ pipe' \in Seq({"data", "dns"}) /\ Head(pipe) \in {"data", "dns"}
           /\ \A other : other # Head(pipe) /\ InPipe(other) => InPipe(other)'
<1>1. /\ Tail(pipe) \in Seq({"data", "dns"}) /\ Head(pipe) \in {"data", "dns"}
      /\ \A y : y # Head(pipe) /\ (\E i \in DOMAIN pipe : pipe[i] = y) =>
                   \E i \in DOMAIN Tail(pipe) : Tail(pipe)[i] = y
  BY TailElements, Zenon
<1> QED
  BY <1>1, Zenon DEF InPipe

\* Before the first meshlink_start there are no threads, signals or requests.
LEMMA ThreadInvInit ==
    Init => ThreadInv
<1> SUFFICES ASSUME Init PROVE ThreadInv
  BY Zenon
<1>1. TypeOK
  BY DEF Init, TypeOK
<1> QED
  BY <1>1
     DEF Init, ThreadInv, Places, Registered, FlagMeansWritten, ThreadsJoined, OwnRequests,
         WakeupPending, InPipe, Null

\* What the variables hold, as the steps below use it.
LEMMA ContentTypes ==
    ASSUME ThreadInv
    PROVE  /\ signals \subseteq {"data", "dns"} /\ pipe \in Seq({"data", "dns"})
           /\ outq \in Seq({Packet}) /\ adnsq \in Seq(Nat) /\ doneq \in Seq(Nat) /\ session \in Nat
BY Zenon DEF ThreadInv, TypeOK

\* meshlink_start: the resolver and its signal come first, then the thread.
LEMMA Start_Keeps ==
    ASSUME ThreadInv, Start
    PROVE  ThreadInv'
<1> USE DEF env, loop, queues, bounds
<1>1. CASE ~(~threadstarted /\ listening /\ "dns" \notin signals)
  <2>1. UNCHANGED <<threadstarted, main, adns, loop, queues, failed, sender>>
        /\ app' \in {app, "aborted"}
    BY <1>1, Zenon DEF Start
  <2>2. TypeOK'
    BY ContentTypes, <2>1, Zenon DEF TypeOK
  <2> QED
    BY <1>1, <2>1, <2>2
       DEF Start, ThreadInv, Places, Registered, FlagMeansWritten, ThreadsJoined, OwnRequests,
           WakeupPending, InPipe
<1>2. CASE ~threadstarted /\ listening /\ "dns" \notin signals
  <2>1. signals = {} /\ ~open /\ main = "none" /\ adns = "none" /\ item = Null
    BY <1>2, ContentTypes, Zenon DEF Start, ThreadInv, Registered, ThreadsJoined, OwnRequests
  <2>2. /\ signals' = {"dns"} /\ flags' = flags \ {"dns"} /\ open' /\ pipe' = <<>>
        /\ adns' = "pop" /\ adnsq' = <<>> /\ doneq' = <<>> /\ session' = session + 1
        /\ UNCHANGED <<threadstarted, outq, stranded, item, stale, sender>>
        /\ \/ main' = "new" /\ app' = "created"
           \/ failed' /\ UNCHANGED <<main, app>>
    BY <1>2, <2>1, Zenon DEF Start, signal_add, pipe_init, DoneAtStart
  <2>3. TypeOK'
    BY ContentTypes, <2>2 DEF TypeOK
  <2> QED
    BY ContentTypes, <1>2, <2>1, <2>2, <2>3
       DEF Null, Start, ThreadInv, Places, Registered, FlagMeansWritten, ThreadsJoined, OwnRequests,
           WakeupPending, InPipe
<1> QED
  BY <1>1, <1>2, Zenon

\* exit_adns drops the pending requests.
LEMMA exit_adns_Keeps ==
    ASSUME ThreadInv, exit_adns
    PROVE  ThreadInv'
<1> USE DEF env, loop, queues, bounds
<1>1. TypeOK' /\ \A i \in DOMAIN adnsq' : adnsq'[i] \in {Null, session}
  <2>1. CASE "dns" \in signals
    <3>1. adnsq' = <<Null>>
      BY <2>1 DEF exit_adns, meshlink_queue_push
    <3> QED
      BY ContentTypes, <2>1, <3>1 DEF exit_adns, Null, TypeOK
  <2>2. CASE "dns" \notin signals
    BY <2>2, Zenon DEF exit_adns, TypeOK, ThreadInv, OwnRequests
  <2> QED
    BY <2>1, <2>2, Zenon
<1> QED
  BY <1>1
     DEF exit_adns, ThreadInv, Places, Registered, FlagMeansWritten, ThreadsJoined, OwnRequests,
         WakeupPending, InPipe

\* The resolver's signal goes with it; it is the last one.
LEMMA AdnsJoined_Keeps ==
    ASSUME ThreadInv, AdnsJoined
    PROVE  ThreadInv'
<1> USE DEF env, loop, queues, bounds
<1>1. main = "none" /\ signals' = {} /\ ~open' /\ pipe' = <<>> /\ UNCHANGED flags
  BY ContentTypes, Zenon DEF AdnsJoined, signal_del, pipe_exit, ThreadInv, Registered, ThreadsJoined
<1>2. TypeOK'
  BY <1>1, ContentTypes DEF AdnsJoined, TypeOK
<1> QED
  BY <1>1, <1>2
     DEF AdnsJoined, ThreadInv, Places, Registered, FlagMeansWritten, ThreadsJoined, OwnRequests,
         WakeupPending, InPipe

\* The end of meshlink_stop and of meshlink_close.
LEMMA StopEnds_Keeps ==
    ASSUME ThreadInv, StopEnds
    PROVE  ThreadInv'
<1> USE DEF env, loop, queues, bounds
<1>1. TypeOK'
  <2>1. CASE closing
    BY ContentTypes, <2>1 DEF StopEnds, TypeOK
  <2>2. CASE ~closing
    BY ContentTypes, <2>2, Zenon DEF StopEnds, TypeOK
  <2> QED
    BY <2>1, <2>2, Zenon
<1> QED
  BY <1>1, Zenon
     DEF StopEnds, ThreadInv, Places, Registered, FlagMeansWritten, ThreadsJoined, OwnRequests,
         WakeupPending, InPipe

\* meshlink_send queues a packet before it triggers the signal.
LEMMA Push_Keeps ==
    ASSUME ThreadInv, Push
    PROVE  ThreadInv'
<1> USE DEF env, loop, queues, bounds
<1>1. outq' \in Seq({Packet}) /\ outq' # <<>>
  BY ContentTypes, AppendElements, ZenonT(30) DEF Push, meshlink_queue_push
<1>2. TypeOK'
  BY ContentTypes, <1>1, Zenon DEF TypeOK, Push
<1>3. "data" \notin signals => stranded'
  BY Zenon DEF Push
<1> QED
  BY <1>1, <1>2, <1>3
     DEF Push, ThreadInv, Places, Registered, FlagMeansWritten, ThreadsJoined, OwnRequests,
         WakeupPending, InPipe

\* A signal that is registered has an open pipe: the write succeeds.
LEMMA Write_Keeps ==
    ASSUME ThreadInv, Write
    PROVE  ThreadInv'
<1> USE DEF env, loop, queues, bounds
<1>1. CASE open
  <2>1. /\ pipe' \in Seq({"data", "dns"})
        /\ InPipe("data")'
        /\ InPipe("dns") => InPipe("dns")'
    BY ContentTypes, <1>1, PipeWritten, Zenon DEF Write, Written
  <2>2. TypeOK'
    BY ContentTypes, <2>1, Zenon DEF TypeOK, Write
  <2> QED
    BY <1>1, <2>1, <2>2
       DEF Write, ThreadInv, Places, Registered, FlagMeansWritten, ThreadsJoined, OwnRequests,
           WakeupPending, InPipe
<1>2. CASE ~open
  BY <1>2
     DEF Write, Written, TypeOK, ThreadInv, Places, Registered, FlagMeansWritten, ThreadsJoined,
         OwnRequests, WakeupPending, InPipe
<1> QED
  BY <1>1, <1>2, Zenon

\* Each step of the resolver.
LEMMA adns_loop_Keeps ==
    ASSUME ThreadInv, adns_loop
    PROVE  ThreadInv'
<1> USE DEF env, loop, queues, bounds
<1>1. CASE adns = "pop"
  <2>1. /\ adnsq # <<>> /\ item' = Head(adnsq) /\ adnsq' = Tail(adnsq)
        /\ adns' = IF item' = Null THEN "exited" ELSE "resolve"
        /\ UNCHANGED <<doneq, flags, pipe>>
    BY <1>1 DEF adns_loop, meshlink_queue_pop_cond, meshlink_queue_pop
  <2>2. /\ adnsq' \in Seq(Nat) /\ item' \in {Null, session}
        /\ \A i \in DOMAIN adnsq' : adnsq'[i] \in {Null, session}
    BY ContentTypes, <2>1, PopElements DEF ThreadInv, OwnRequests
  <2>3. TypeOK'
    BY ContentTypes, <2>1, <2>2, Zenon DEF adns_loop, TypeOK
  <2> QED
    BY <1>1, <2>1, <2>2, <2>3
       DEF adns_loop, ThreadInv, Places, Registered, FlagMeansWritten, ThreadsJoined, OwnRequests,
           WakeupPending, InPipe
<1>2. CASE adns = "resolve"
  <2>1. doneq' = Append(doneq, session) /\ item' = Null /\ adns' = "trigger"
        /\ UNCHANGED <<adnsq, flags, pipe>>
    BY <1>2, Zenon DEF adns_loop, meshlink_queue_push, ThreadInv, OwnRequests
  <2>2. doneq' \in Seq(Nat) /\ \A i \in DOMAIN doneq' : doneq'[i] = session
    <3>1. \A i \in DOMAIN doneq : doneq[i] = session
      BY Zenon DEF ThreadInv, OwnRequests
    <3> QED
      BY ContentTypes, <2>1, <3>1, PushElements
  <2>3. TypeOK'
    BY ContentTypes, <2>1, <2>2, Zenon DEF adns_loop, TypeOK
  <2> QED
    BY <1>2, <2>1, <2>2, <2>3
       DEF adns_loop, ThreadInv, Places, Registered, FlagMeansWritten, ThreadsJoined, OwnRequests,
           WakeupPending, InPipe
<1>3. CASE adns = "trigger"
  <2>1. TypeOK'
    BY ContentTypes, <1>3, Zenon DEF adns_loop, TypeOK
  <2> QED
    BY <1>3, <2>1
       DEF adns_loop, ThreadInv, Places, Registered, FlagMeansWritten, ThreadsJoined, OwnRequests,
           WakeupPending, InPipe
<1>4. CASE adns = "write"
  <2>1. open /\ pipe' = Append(pipe, "dns")
    BY <1>4, Zenon DEF adns_loop, Written, ThreadInv, Registered
  <2>2. /\ pipe' \in Seq({"data", "dns"})
        /\ InPipe("dns")'
        /\ InPipe("data") => InPipe("data")'
    BY ContentTypes, <2>1, PipeWritten, Zenon
  <2>3. TypeOK'
    BY ContentTypes, <1>4, <2>2 DEF adns_loop, TypeOK
  <2> QED
    BY <1>4, <2>1, <2>2, <2>3
       DEF adns_loop, ThreadInv, Places, Registered, FlagMeansWritten, ThreadsJoined, OwnRequests,
           WakeupPending, InPipe
<1> QED
  BY <1>1, <1>2, <1>3, <1>4 DEF adns_loop, ThreadInv

\* The event loop registers the signal of the packet queue.
LEMMA EnterLoop_Keeps ==
    ASSUME ThreadInv, EnterLoop
    PROVE  ThreadInv'
<1> USE DEF env, loop, queues, bounds
<1>1. /\ signals' = signals \cup {"data"} /\ flags' = flags \ {"data"} /\ open'
      /\ open => UNCHANGED pipe
      /\ ~open => pipe' = <<>> /\ adns = "none"
  BY Zenon DEF EnterLoop, signal_add, pipe_init, ThreadInv, Registered
<1>2. TypeOK'
  <2>1. CASE open
    BY ContentTypes, <1>1, <2>1, Zenon DEF EnterLoop, TypeOK
  <2>2. CASE ~open
    BY ContentTypes, <1>1, <2>2 DEF EnterLoop, TypeOK
  <2> QED
    BY <2>1, <2>2, Zenon
<1>3. FlagMeansWritten' /\ WakeupPending'
  BY <1>1, Zenon DEF EnterLoop, ThreadInv, FlagMeansWritten, WakeupPending, InPipe, Registered
<1> QED
  BY <1>1, <1>2, <1>3
     DEF EnterLoop, ThreadInv, Places, Registered, FlagMeansWritten, ThreadsJoined, OwnRequests,
         WakeupPending, InPipe

\* The timers ask the resolver for a name, in this session.
LEMMA Select_Keeps ==
    ASSUME ThreadInv, Select
    PROVE  ThreadInv'
<1> USE DEF env, loop, queues, bounds
<1>1. /\ adnsq' \in Seq(Nat)
      /\ \A i \in DOMAIN adnsq' : adnsq'[i] \in {Null, session}
  <2>1. \A i \in DOMAIN adnsq : adnsq[i] \in {Null, session}
    BY Zenon DEF ThreadInv, OwnRequests
  <2>2. adnsq' = adnsq \/ adnsq' = Append(adnsq, session)
    BY Zenon DEF Select, meshlink_queue_push
  <2>3. CASE adnsq' = adnsq
    BY ContentTypes, <2>1, <2>3, Zenon
  <2>4. CASE adnsq' = Append(adnsq, session)
    BY ContentTypes, <2>1, <2>4, PushElements, Zenon
  <2> QED
    BY <2>2, <2>3, <2>4, Zenon
<1>2. TypeOK'
  BY ContentTypes, <1>1, Zenon DEF Select, TypeOK
<1> QED
  BY <1>1, <1>2
     DEF Select, ThreadInv, Places, Registered, FlagMeansWritten, ThreadsJoined, OwnRequests,
         WakeupPending, InPipe

\* A number read from the pipe leads to its callback.
LEMMA signalio_handler_Keeps ==
    ASSUME ThreadInv, signalio_handler
    PROVE  ThreadInv'
<1> USE DEF env, loop, queues, bounds
<1>1. /\ pipe' \in Seq({"data", "dns"}) /\ main' \in {"data", "dns"} /\ main' \in signals
      /\ flags' = flags \ {main'}
      /\ \A sig \in {"data", "dns"} : sig # main' /\ InPipe(sig) => InPipe(sig)'
  BY ContentTypes, PipeRead, Zenon DEF signalio_handler, FlagsInCallback
<1>2. TypeOK'
  BY ContentTypes, <1>1, Zenon DEF signalio_handler, TypeOK
<1>3. Places' /\ Registered' /\ ThreadsJoined' /\ OwnRequests'
  BY <1>1 DEF signalio_handler, ThreadInv, Places, Registered, ThreadsJoined, OwnRequests
<1>4. FlagMeansWritten' /\ WakeupPending'
  <2>1. CASE main' = "data"
    BY <1>1, <2>1
       DEF signalio_handler, ThreadInv, Registered, FlagMeansWritten, WakeupPending, InPipe
  <2>2. CASE main' = "dns"
    BY <1>1, <2>2
       DEF signalio_handler, ThreadInv, Registered, FlagMeansWritten, WakeupPending, InPipe
  <2> QED
    BY <1>1, <2>1, <2>2, Zenon
<1> QED
  BY <1>2, <1>3, <1>4, Zenon DEF signalio_handler, ThreadInv

\* The callbacks empty their queues.
LEMMA Pop_Keeps ==
    ASSUME ThreadInv, Pop
    PROVE  ThreadInv'
<1> USE DEF env, loop, queues, bounds
<1>1. CASE main = "data" /\ outq # <<>>
  <2>1. Head(outq) # Null /\ Tail(outq) \in Seq({Packet})
    <3>1. Head(outq) \in {Packet} /\ Tail(outq) \in Seq({Packet})
      BY ContentTypes, <1>1
    <3> QED
      BY <3>1 DEF Packet, Null
  <2>2. outq' = Tail(outq) /\ UNCHANGED <<main, stranded, doneq, stale>>
    BY <1>1, <2>1, Zenon DEF Pop, meshlink_queue_pop
  <2>3. TypeOK'
    BY ContentTypes, <2>1, <2>2, Zenon DEF Pop, TypeOK
  <2> QED
    BY <1>1, <2>2, <2>3
       DEF Pop, ThreadInv, Places, Registered, FlagMeansWritten, ThreadsJoined, OwnRequests,
           WakeupPending, InPipe
<1>2. CASE main = "data" /\ outq = <<>>
  <2>1. main' = "top" /\ UNCHANGED <<outq, doneq, stale>>
    BY <1>2, Zenon DEF Pop, meshlink_queue_pop
  <2>2. TypeOK'
    BY ContentTypes, <2>1, Zenon DEF Pop, TypeOK
  <2> QED
    BY <1>2, <2>1, <2>2
       DEF Pop, ThreadInv, Places, Registered, FlagMeansWritten, ThreadsJoined, OwnRequests,
           WakeupPending, InPipe
<1>3. CASE main = "dns" /\ doneq # <<>>
  <2>1. /\ Head(doneq) = session /\ session # Null /\ Tail(doneq) \in Seq(Nat)
        /\ \A i \in DOMAIN Tail(doneq) : Tail(doneq)[i] = session
    <3>1. session > 0
      BY <1>3, Zenon DEF ThreadInv, OwnRequests
    <3>2. \A i \in DOMAIN doneq : doneq[i] = session
      BY Zenon DEF ThreadInv, OwnRequests
    <3> QED
      BY ContentTypes, <1>3, <3>1, <3>2, PopElements DEF Null
  <2>2. doneq' = Tail(doneq) /\ UNCHANGED <<main, outq, stranded>> /\ ~stale'
    BY <1>3, <2>1, Zenon DEF Pop, meshlink_queue_pop, ThreadInv
  <2>3. TypeOK'
    BY ContentTypes, <2>1, <2>2, Zenon DEF Pop, TypeOK
  <2> QED
    BY <1>3, <2>1, <2>2, <2>3
       DEF Pop, ThreadInv, Places, Registered, FlagMeansWritten, ThreadsJoined, OwnRequests,
           WakeupPending, InPipe
<1>4. CASE main = "dns" /\ doneq = <<>>
  <2>1. /\ main' = "top"
        /\ UNCHANGED <<threadstarted, app, sender, adns, loop, queues, failed>>
    BY <1>4, Zenon DEF Pop, meshlink_queue_pop
  <2>2. TypeOK'
    BY ContentTypes, <2>1, Zenon DEF TypeOK
  <2> QED
    BY <1>4, <2>1, <2>2
       DEF ThreadInv, Places, Registered, FlagMeansWritten, ThreadsJoined, OwnRequests,
           WakeupPending, InPipe
<1> QED
  BY <1>1, <1>2, <1>3, <1>4, Zenon DEF Pop, ThreadInv

\* The event loop ends, and its signal goes.
LEMMA LeaveLoop_Keeps ==
    ASSUME ThreadInv, LeaveLoop
    PROVE  ThreadInv'
<1> USE DEF env, loop, queues, bounds
<1>1. /\ signals' = signals \ {"data"} /\ UNCHANGED flags
      /\ signals' = {} => ~open' /\ pipe' = <<>>
      /\ signals' # {} => UNCHANGED <<open, pipe>>
  BY Zenon DEF LeaveLoop, signal_del, pipe_exit
<1>2. TypeOK'
  <2>1. CASE signals' = {}
    <3>1. pipe' = <<>> /\ UNCHANGED <<outq, adnsq, doneq, session>>
      BY <1>1, <2>1, Zenon DEF LeaveLoop
    <3> QED
      BY ContentTypes, <2>1, <3>1 DEF TypeOK
  <2>2. CASE signals' # {}
    BY ContentTypes, <1>1, <2>2, Zenon DEF LeaveLoop, TypeOK
  <2> QED
    BY <2>1, <2>2, Zenon
<1>3. CASE adns = "none"
  <2>1. signals' = {}
    BY ContentTypes, <1>1, <1>3, Zenon DEF ThreadInv, Registered
  <2> QED
    BY <1>1, <1>2, <1>3, <2>1, Zenon
       DEF LeaveLoop, ThreadInv, Places, Registered, FlagMeansWritten, ThreadsJoined, OwnRequests,
           WakeupPending, InPipe
<1>4. CASE adns # "none"
  <2>1. signals' = {"dns"}
    BY ContentTypes, <1>1, <1>4, Zenon DEF ThreadInv, Registered
  <2>2. /\ main' = "exited" /\ (outq # <<>> => stranded')
        /\ UNCHANGED <<threadstarted, app, sender, adns, flags, open, pipe, outq, adnsq, doneq, item, session,
                       stale, failed>>
    BY <1>1, <2>1, Zenon DEF LeaveLoop
  <2> QED
    BY <1>2, <1>4, <2>1, <2>2
       DEF LeaveLoop, ThreadInv, Places, Registered, FlagMeansWritten, ThreadsJoined, OwnRequests,
           WakeupPending, InPipe
<1> QED
  BY <1>3, <1>4, Zenon

\* Every step of every thread keeps ThreadInv.
LEMMA ThreadInvNext ==
    ThreadInv /\ [Next]_vars => ThreadInv'
<1> SUFFICES ASSUME ThreadInv, [Next]_vars
             PROVE  ThreadInv'
  BY Zenon
<1> USE DEF env, loop, queues, bounds
<1>1. CASE Start
  BY <1>1, Start_Keeps
<1>2. CASE Stop
  BY <1>2
     DEF Stop, TypeOK, ThreadInv, Places, Registered, FlagMeansWritten, ThreadsJoined, OwnRequests,
         WakeupPending, InPipe
<1>3. CASE ImportFails
  BY <1>3
     DEF ImportFails, TypeOK, ThreadInv, Places, Registered, FlagMeansWritten, ThreadsJoined,
         OwnRequests, WakeupPending, InPipe
<1>4. CASE Spurious
  BY <1>4
     DEF Spurious, TypeOK, ThreadInv, Places, Registered, FlagMeansWritten, ThreadsJoined,
         OwnRequests, WakeupPending, InPipe
<1>5. CASE StartWaits
  BY <1>5
     DEF StartWaits, TypeOK, ThreadInv, Places, Registered, FlagMeansWritten, ThreadsJoined,
         OwnRequests, WakeupPending, InPipe
<1>6. CASE Started
  BY <1>6
     DEF Started, TypeOK, ThreadInv, Places, Registered, FlagMeansWritten, ThreadsJoined,
         OwnRequests, WakeupPending, InPipe
<1>7. CASE Joined
  BY <1>7
     DEF Joined, TypeOK, ThreadInv, Places, Registered, FlagMeansWritten, ThreadsJoined,
         OwnRequests, WakeupPending, InPipe
<1>8. CASE exit_adns
  BY <1>8, exit_adns_Keeps, Zenon
<1>9. CASE AdnsJoined
  BY <1>9, AdnsJoined_Keeps, Zenon
<1>10. CASE StopEnds
  BY <1>10, StopEnds_Keeps, Zenon
<1>11. CASE Calls
  BY <1>11
     DEF Calls, TypeOK, ThreadInv, Places, Registered, FlagMeansWritten, ThreadsJoined, OwnRequests,
         WakeupPending, InPipe
<1>12. CASE Returns
  BY <1>12
     DEF Returns, TypeOK, ThreadInv, Places, Registered, FlagMeansWritten, ThreadsJoined,
         OwnRequests, WakeupPending, InPipe
<1>13. CASE Push
  BY <1>13, Push_Keeps, Zenon
<1>14. CASE signal_trigger
  BY <1>14
     DEF signal_trigger, TypeOK, ThreadInv, Places, Registered, FlagMeansWritten, ThreadsJoined,
         OwnRequests, WakeupPending, InPipe
<1>15. CASE Write
  BY <1>15, Write_Keeps, Zenon
<1>16. CASE adns_loop
  BY <1>16, adns_loop_Keeps, Zenon
<1>17. CASE SetnsFails
  BY <1>17
     DEF SetnsFails, TypeOK, ThreadInv, Places, Registered, FlagMeansWritten, ThreadsJoined,
         OwnRequests, WakeupPending, InPipe
<1>18. CASE EnterLoop
  BY <1>18, EnterLoop_Keeps, Zenon
<1>19. CASE Select
  BY <1>19, Select_Keeps, Zenon
<1>20. CASE WakeOther
  BY <1>20
     DEF WakeOther, TypeOK, ThreadInv, Places, Registered, FlagMeansWritten, ThreadsJoined,
         OwnRequests, WakeupPending, InPipe
<1>21. CASE signalio_handler
  BY <1>21, signalio_handler_Keeps, Zenon
<1>22. CASE Pop
  BY <1>22, Pop_Keeps, Zenon
<1>23. CASE LeaveLoop
  BY <1>23, LeaveLoop_Keeps, Zenon
<1>24. CASE UNCHANGED vars
  BY <1>24
     DEF vars, TypeOK, ThreadInv, Places, Registered, FlagMeansWritten, ThreadsJoined, OwnRequests,
         WakeupPending, InPipe
<1> QED
  BY <1>1, <1>2, <1>3, <1>4, <1>5, <1>6, <1>7, <1>8, <1>9, <1>10, <1>11, <1>12, <1>13, <1>14, <1>15,
     <1>16, <1>17, <1>18, <1>19, <1>20, <1>21, <1>22, <1>23, <1>24
     DEF Next, App, Sender, Main

\* meshlink_send and the resolver wake the event loop: a packet or an answer that
\* is queued is never left without a number in the signal pipe, or the callback
\* that takes it, however the steps of the threads interleave.
THEOREM WakeupNeverLost ==
    Spec => []WakeupPending
<1>1. ThreadInv => WakeupPending
  BY DEF ThreadInv
<1> QED
  BY <1>1, ThreadInvInit, ThreadInvNext, PTL DEF Spec

\* meshlink_stop leaves no thread, signal or pipe behind, and no answer of the
\* resolver outlives the session that asked for it.
THEOREM StopLeavesNothing ==
    Spec => []StoppedIsClean
<1>1. ThreadInv => StoppedIsClean
  <2> SUFFICES ASSUME ThreadInv PROVE StoppedIsClean
    BY Zenon
  <2>1. ~stale
    BY Zenon DEF ThreadInv
  <2>2. ASSUME app \in {"idle", "closed"}, ~threadstarted
        PROVE  main = "none" /\ (adns = "none" \/ (failed /\ app = "idle"))
    BY <2>2, Zenon DEF ThreadInv, ThreadsJoined
  <2>3. main = "none" /\ adns = "none" => signals = {} /\ ~open
    BY Zenon DEF ThreadInv, Registered, TypeOK
  <2> QED
    BY <2>1, <2>2, <2>3, Zenon DEF StoppedIsClean
<1> QED
  BY <1>1, ThreadInvInit, ThreadInvNext, PTL DEF Spec

-----------------------------------------------------------------------------
(* The event loop.                                                          *)

\* A set of numbers that is not empty has a least one.
LEMMA LeastNatural ==
    ASSUME NEW S \in SUBSET Nat, S # {}
    PROVE  \E m \in S : \A k \in S : m <= k
<1> DEFINE Less == OpToRel(<, Nat)
<1>1. IsWellFoundedOn(Less, Nat)
  BY NatLessThanWellFounded, Zenon
<1>2. \A x, y \in Nat : <<y, x>> \in Less <=> y < x
  BY Zenon DEF OpToRel
<1> HIDE DEF Less
<1>3. PICK m \in S : \A k \in S : ~(<<k, m>> \in Less)
  BY <1>1, WFMin, Zenon
<1>4. \A k \in S : ~(k < m)
  BY <1>2, <1>3, Zenon
<1>5. \A k \in S : k \in Nat /\ m \in Nat
  BY <1>3, Zenon
<1>6. \A k \in S : m <= k
  BY <1>4, <1>5
<1> QED
  BY <1>6, Zenon

\* Least is the least element, or None.
LEMMA LeastElement ==
    ASSUME NEW S \in SUBSET Fds
    PROVE  /\ S = {} => L!Least(S) = L!None
           /\ S # {} => L!Least(S) \in S /\ \A g \in S : L!Least(S) <= g
           /\ L!Least(S) \in Fds \cup {L!None}
<1>1. CASE S = {}
  BY <1>1, Zenon DEF L!Least
<1>2. CASE S # {}
  <2>1. S \in SUBSET Nat
    BY FdsAssumption, Zenon
  <2>2. \E m \in S : \A k \in S : m <= k
    BY <1>2, <2>1, LeastNatural, Zenon
  <2> QED
    BY <1>2, <2>2, Zenon DEF L!Least
<1> QED
  BY <1>1, <1>2, Zenon

\* loop->ios is sorted: the first record, and the one after f.
LEMMA HeadAndNext ==
    ASSUME L!TypeOK
    PROVE  /\ L!head \in Fds \cup {L!None}
           /\ \A g \in Fds : io[g].on => L!head # L!None /\ L!head <= g
           /\ \A f : L!next(f) \in Fds \cup {L!None}
           /\ \A f, g \in Fds : io[g].on /\ g > f => L!next(f) # L!None /\ L!next(f) <= g
<1> DEFINE on == {f \in Fds : io[f].on}
           after(f) == {g \in Fds : io[g].on /\ g > f}
<1>0. L!None \notin Fds
  BY FdsAssumption, Zenon DEF L!None
<1>1. L!head = L!Least(on) /\ on \in SUBSET Fds
  BY Zenon DEF L!head
<1>2. \A f : L!next(f) = L!Least(after(f)) /\ after(f) \in SUBSET Fds
  BY Zenon DEF L!next
<1>3. \A g \in Fds : io[g].on => g \in on
  BY Zenon
<1>4. \A f, g \in Fds : io[g].on /\ g > f => g \in after(f)
  BY Zenon
<1> HIDE DEF on, after
<1>5. ASSUME NEW g \in Fds, io[g].on PROVE L!head # L!None /\ L!head <= g
  BY <1>0, <1>1, <1>3, <1>5, LeastElement, Zenon
<1>6. ASSUME NEW f \in Fds, NEW g \in Fds, io[g].on, g > f PROVE L!next(f) # L!None /\ L!next(f) <= g
  BY <1>0, <1>2, <1>4, <1>6, LeastElement
<1>7. L!head \in Fds \cup {L!None} /\ \A f : L!next(f) \in Fds \cup {L!None}
  BY <1>1, <1>2, LeastElement, Zenon
<1> QED
  BY <1>5, <1>6, <1>7, Zenon

\* The loop starts outside of any pass through the records.
LEMMA LoopInvInit ==
    L!Init => L!LoopInv
<1> SUFFICES ASSUME L!Init PROVE L!LoopInv
  BY Zenon
<1>1. L!TypeOK
  <2>1. io \in [Fds -> [on : BOOLEAN, flags : SUBSET {"R", "W"}]]
    BY Zenon DEF L!Init
  <2>2. each \in L!Loops
    BY Zenon DEF L!Init, L!NoLoop, L!Loops
  <2>3. ready \in [{"R", "W"} -> SUBSET Fds]
    BY Zenon DEF L!Init, L!NoneReady
  <2>4. turn \in [due : SUBSET (Fds \X {"R", "W"}), deletes : BOOLEAN]
    BY Zenon DEF L!Init, L!NoTurn
  <2> QED
    BY <2>1, <2>2, <2>3, <2>4, Zenon DEF L!Init, L!TypeOK
<1> QED
  BY <1>1, Zenon DEF L!Init, L!LoopInv, L!NoLoop, L!InLoop

\* A loop through the records begins with nothing freed; but for the last one of
\* check_bad_fds, the deletion flag is cleared.
LEMMA BeginLoop ==
    ASSUME L!TypeOK, NEW l \in {"ready", "bad", "rebuild"}, L!Begin(l)
    PROVE  /\ pc' = "each" /\ each' \in L!Loops
           /\ each'.loop = l /\ each'.step = 1 /\ each'.gone = {}
           /\ each'.cur = L!head /\ each'.next = L!next(L!head)
           /\ deletion' \in BOOLEAN /\ (l # "rebuild" => ~deletion')
BY HeadAndNext, Zenon DEF L!Begin, L!Cleared, L!Loops, L!TypeOK

\* Adding and changing records deletes none of them.
LEMMA AdditionsKeep ==
    ASSUME L!TypeOK, L!Additions
    PROVE  /\ io' \in [Fds -> [on : BOOLEAN, flags : SUBSET {"R", "W"}]]
           /\ \A f \in Fds : io[f].on => io'[f].on
           /\ UNCHANGED <<deletion, each>>
<1>1. PICK f \in Fds, flags1 \in L!Flags : L!io_add(f, flags1) \/ L!io_set(f, flags1)
  BY Zenon DEF L!Additions
<1>2. flags1 \subseteq {"R", "W"}
  BY Zenon DEF L!Flags
<1>3. io \in [Fds -> [on : BOOLEAN, flags : SUBSET {"R", "W"}]]
  BY Zenon DEF L!TypeOK
<1>4. CASE L!io_add(f, flags1)
  BY <1>2, <1>3, <1>4, Zenon DEF L!io_add
<1>5. CASE L!io_set(f, flags1)
  BY <1>2, <1>3, <1>5, Zenon DEF L!io_set
<1> QED
  BY <1>1, <1>4, <1>5, Zenon

\* What can free a record, or take a timer out of its tree, sets the deletion flag.
LEMMA DeletionsFlag ==
    ASSUME L!TypeOK, L!Deletions
    PROVE  /\ io' \in [Fds -> [on : BOOLEAN, flags : SUBSET {"R", "W"}]]
           /\ deletion' = TRUE /\ each' \in L!Loops
           /\ each'.loop = each.loop /\ each'.step = each.step
           /\ each'.cur = each.cur /\ each'.next = each.next
<1>1. io \in [Fds -> [on : BOOLEAN, flags : SUBSET {"R", "W"}]] /\ each \in L!Loops
  BY Zenon DEF L!TypeOK
<1>2. ASSUME NEW f \in Fds, L!io_del(f) PROVE /\ io' \in [Fds -> [on : BOOLEAN, flags : SUBSET {"R", "W"}]]
           /\ deletion' = TRUE /\ each' \in L!Loops
           /\ each'.loop = each.loop /\ each'.step = each.step
           /\ each'.cur = each.cur /\ each'.next = each.next
  <2>1. L!Freed(f) \subseteq {"cur", "next"}
    BY Zenon DEF L!Freed
  <2> QED
    BY <1>1, <1>2, <2>1, Zenon DEF L!io_del, L!Loops
<1>3. CASE deletion' = TRUE /\ UNCHANGED <<io, each>>
  BY <1>1, <1>3, Zenon
<1> QED
  BY <1>2, <1>3, Zenon DEF L!Deletions, L!timeout_set, L!timeout_add, L!timeout_del

\* Every step of the loop, of its callbacks and of the other threads keeps LoopInv.
LEMMA LoopInvNext ==
    L!LoopInv /\ [L!Next]_(L!loopvars) => L!LoopInv'
<1> SUFFICES ASSUME L!LoopInv, [L!Next]_(L!loopvars)
             PROVE  L!LoopInv'
  BY Zenon
<1>t. /\ L!TypeOK
      /\ io \in [Fds -> [on : BOOLEAN, flags : SUBSET {"R", "W"}]]
      /\ deletion \in BOOLEAN /\ used \in BOOLEAN
      /\ each \in L!Loops
      /\ ready \in [{"R", "W"} -> SUBSET Fds]
      /\ turn \in [due : SUBSET (Fds \X {"R", "W"}), deletes : BOOLEAN]
  BY Zenon DEF L!LoopInv, L!TypeOK
<1>n. L!None \notin Fds
  BY FdsAssumption, Zenon DEF L!None
<1>o. pc \notin {"each", "io cb", "after", "broken"} => each.loop = "none" /\ ~used
  BY Zenon DEF L!LoopInv, L!InLoop
<1>1. CASE L!Top \/ L!RunTimers \/ L!EnterSelect
  <2>1. /\ each.loop = "none" /\ ~used
        /\ UNCHANGED <<io, deletion, each, turn, used>>
    BY <1>1, <1>o, Zenon DEF L!Top, L!RunTimers, L!EnterSelect
  <2>2. ready' \in [{"R", "W"} -> SUBSET Fds]
    <3>1. CASE L!Top \/ L!RunTimers
      BY <1>t, <3>1, Zenon DEF L!Top, L!RunTimers
    <3>2. CASE L!EnterSelect
      BY <3>2, Zenon DEF L!EnterSelect
    <3> QED
      BY <1>1, <3>1, <3>2, Zenon
  <2>3. L!TypeOK'
    BY <1>t, <2>1, <2>2, Zenon DEF L!TypeOK
  <2>4. ~L!InLoop'
    BY <1>1, Zenon DEF L!Top, L!RunTimers, L!EnterSelect, L!InLoop
  <2> QED
    BY <2>1, <2>3, <2>4, Zenon DEF L!LoopInv, L!InLoop
<1>2. CASE L!SelectReturns
  <2>0. each.loop = "none" /\ ~used /\ UNCHANGED <<io, used>>
    BY <1>2, <1>o, Zenon DEF L!SelectReturns
  <2>1. ready' \in [{"R", "W"} -> SUBSET Fds]
    BY <1>2, <1>t DEF L!SelectReturns
  <2>2. /\ turn' \in [due : SUBSET (Fds \X {"R", "W"}), deletes : BOOLEAN]
        /\ \A x \in turn'.due : x \in Fds \X {"R", "W"} /\ io[x[1]].on /\ x[1] \in ready'[x[2]]
    BY <1>2, Zenon DEF L!SelectReturns
  <2>3. CASE pc' = "top" /\ UNCHANGED <<each, deletion>>
    <3>1. L!TypeOK'
      BY <1>t, <2>0, <2>1, <2>2, <2>3, Zenon DEF L!TypeOK
    <3> QED
      BY <2>0, <2>3, <3>1, Zenon DEF L!LoopInv, L!InLoop
  <2>4. CASE L!Begin("ready")
    <3>1. /\ pc' = "each" /\ each' \in L!Loops
          /\ each'.loop = "ready" /\ each'.step = 1 /\ each'.gone = {}
          /\ each'.cur = L!head /\ each'.next = L!next(L!head)
          /\ deletion' \in BOOLEAN /\ ~deletion'
      BY <1>t, <2>4, BeginLoop, Zenon
    <3>2. L!TypeOK'
      BY <1>t, <2>0, <2>1, <2>2, <3>1, Zenon DEF L!TypeOK
    <3>3. ASSUME NEW x \in turn'.due PROVE L!Ahead(x)' /\ each'.cur # L!None
      <4>1. x[1] \in Fds /\ io[x[1]].on /\ x[1] \in ready'[x[2]]
        BY <2>2, <3>3, Zenon
      <4>2. L!head \in Fds /\ L!head <= x[1] /\ L!head # L!None
        BY <1>t, <4>1, HeadAndNext, Zenon
      <4>3. L!head = x[1] \/ x[1] > L!head
        <5>1. L!head \in Nat /\ x[1] \in Nat
          BY <4>1, <4>2, FdsAssumption, Zenon
        <5> QED
          BY <4>2, <5>1
      <4>4. x[1] > L!head => L!next(L!head) # L!None /\ L!next(L!head) <= x[1]
        BY <1>t, <4>1, <4>2, HeadAndNext, Zenon
      <4> QED
        BY <2>0, <3>1, <4>1, <4>2, <4>3, <4>4, Zenon DEF L!Ahead, L!None
    <3> QED
      BY <2>0, <3>1, <3>2, <3>3, Zenon DEF L!LoopInv, L!InLoop
  <2> QED
    BY <1>2, <2>3, <2>4, Zenon DEF L!SelectReturns
<1>3. CASE L!SelectFails
  <2>0. each.loop = "none" /\ ~used /\ UNCHANGED <<io, turn, used>>
    BY <1>3, <1>o, Zenon DEF L!SelectFails
  <2>1. ready' \in [{"R", "W"} -> SUBSET Fds]
    BY <1>3, Zenon DEF L!SelectFails, L!NoneReady
  <2>2. CASE pc' \in {"top", "failed"} /\ UNCHANGED <<each, deletion>>
    <3>1. L!TypeOK'
      BY <1>t, <2>0, <2>1, <2>2, Zenon DEF L!TypeOK
    <3> QED
      BY <2>0, <2>2, <3>1, Zenon DEF L!LoopInv, L!InLoop
  <2>3. CASE L!Begin("bad")
    <3>1. /\ pc' = "each" /\ each' \in L!Loops /\ each'.loop = "bad" /\ each'.gone = {}
          /\ deletion' \in BOOLEAN /\ ~deletion'
      BY <1>t, <2>3, BeginLoop, Zenon
    <3>2. L!TypeOK'
      BY <1>t, <2>0, <2>1, <3>1, Zenon DEF L!TypeOK
    <3> QED
      BY <2>0, <3>1, <3>2, Zenon DEF L!LoopInv, L!InLoop
  <2> QED
    BY <1>3, <2>2, <2>3, Zenon DEF L!SelectFails
<1>4. ASSUME pc \in {"each", "after"}, NEW broken \in BOOLEAN, L!LoopEnds(broken),
             UNCHANGED <<io, used>>
      PROVE  L!LoopInv'
  <2>0. /\ ready' \in [{"R", "W"} -> SUBSET Fds]
        /\ turn' \in [due : SUBSET (Fds \X {"R", "W"}), deletes : BOOLEAN] /\ turn'.due = {}
    BY <1>4, Zenon DEF L!LoopEnds, L!NoneReady, L!NoTurn
  <2>1. ~used
    BY <1>4, Zenon DEF L!LoopInv
  <2>2. CASE each.loop = "bad"
    <3>1. PICK l \in {"bad", "rebuild"} : L!Begin(l)
      BY <1>4, <2>2, Zenon DEF L!LoopEnds
    <3>2. /\ pc' = "each" /\ each' \in L!Loops /\ each'.loop = l /\ each'.gone = {}
          /\ deletion' \in BOOLEAN /\ (l # "rebuild" => ~deletion')
      BY <1>t, <3>1, BeginLoop, Zenon
    <3>3. L!TypeOK'
      BY <1>t, <1>4, <2>0, <3>2, Zenon DEF L!TypeOK
    <3> QED
      BY <1>4, <2>1, <3>1, <3>2, <3>3, Zenon DEF L!LoopInv, L!InLoop
  <2>3. CASE each.loop # "bad"
    <3>1. pc' = "top" /\ each' = L!NoLoop /\ UNCHANGED deletion
      BY <1>4, <2>3, Zenon DEF L!LoopEnds
    <3>2. each' \in L!Loops /\ each'.loop = "none"
      BY <3>1, Zenon DEF L!NoLoop, L!Loops
    <3>3. L!TypeOK'
      BY <1>t, <1>4, <2>0, <3>1, <3>2, Zenon DEF L!TypeOK
    <3> QED
      BY <1>4, <2>1, <3>1, <3>2, <3>3, Zenon DEF L!LoopInv, L!InLoop
  <2> QED
    BY <2>2, <2>3, Zenon
<1>5. CASE L!LookAt
  <2>0. pc = "each" /\ UNCHANGED io /\ ~used /\ each.loop # "none"
    BY <1>5, Zenon DEF L!LookAt, L!LoopInv, L!InLoop
  <2>1. CASE each.cur = L!None /\ L!LoopEnds(FALSE) /\ UNCHANGED used
    BY <1>4, <2>0, <2>1, Zenon
  <2>2. CASE "cur" \in each.gone /\ used' = TRUE /\ pc' = "broken" /\ UNCHANGED <<each, deletion, ready, turn>>
    <3>1. each.loop = "rebuild"
      BY <1>t, <2>0, <2>2, Zenon DEF L!LoopInv, L!Loops
    <3>2. L!TypeOK'
      BY <1>t, <2>0, <2>2, Zenon DEF L!TypeOK
    <3> QED
      BY <2>0, <2>2, <3>1, <3>2, Zenon DEF L!LoopInv, L!InLoop
  <2>3. ASSUME each.cur # L!None, UNCHANGED <<each, deletion, ready, used>>, pc' \in {"io cb", "after"},
               turn' \in [due : SUBSET (Fds \X {"R", "W"}), deletes : BOOLEAN],
               turn'.deletes = turn.deletes,
               turn'.due \subseteq turn.due,
               each.loop = "ready" => \A x \in turn'.due : ~(x[1] = each.cur /\ x[2] = L!Flag)
        PROVE  L!LoopInv'
    <3>1. L!TypeOK'
      BY <1>t, <2>0, <2>3, Zenon DEF L!TypeOK
    <3>2. ASSUME each.loop = "ready", ~deletion, NEW x \in turn'.due
          PROVE  L!Ahead(x)'
      <4>1. L!Ahead(x) /\ x[2] \in {"R", "W"}
        BY <1>t, <2>3, <3>2, Zenon DEF L!LoopInv
      <4>2. each.step \in {1, 2}
        BY <1>t, Zenon DEF L!Loops
      <4>3. L!Flag = IF each.step = 1 THEN "W" ELSE "R"
        BY <3>2, <4>2, Zenon DEF L!Flag
      <4> QED
        BY <2>0, <2>3, <3>2, <4>1, <4>2, <4>3, Zenon DEF L!Ahead
    <3> QED
      BY <2>0, <2>3, <3>1, <3>2, Zenon DEF L!LoopInv, L!InLoop
  <2>4. CASE /\ each.cur # L!None /\ L!Called /\ pc' = "io cb"
             /\ turn' = [turn EXCEPT !.due = @ \ {<<each.cur, L!Flag>>}]
             /\ UNCHANGED <<each, deletion, ready, used>>
    <3>1. /\ turn' \in [due : SUBSET (Fds \X {"R", "W"}), deletes : BOOLEAN]
          /\ turn'.deletes = turn.deletes /\ turn'.due = turn.due \ {<<each.cur, L!Flag>>}
      BY <1>t, <2>4, Zenon
    <3>2. \A x \in turn'.due : ~(x[1] = each.cur /\ x[2] = L!Flag)
      <4>1. \A x \in turn'.due : x = <<x[1], x[2]>>
        BY <3>1
      <4> QED
        BY <3>1, <4>1, Zenon
    <3> QED
      BY <2>3, <2>4, <3>1, <3>2, Zenon
  <2>5. CASE each.cur # L!None /\ ~L!Called /\ pc' = "after" /\ UNCHANGED <<each, deletion, ready, turn, used>>
    <3>1. ASSUME each.loop = "ready", NEW x \in turn.due
          PROVE  ~(x[1] = each.cur /\ x[2] = L!Flag)
      <4>1. L!Ahead(x)
        BY <2>0, <3>1, Zenon DEF L!LoopInv
      <4> QED
        BY <2>5, <3>1, <4>1, Zenon DEF L!Ahead, L!Called
    <3> QED
      BY <1>t, <2>3, <2>5, <3>1, Zenon
  <2> QED
    BY <1>5, <2>1, <2>2, <2>4, <2>5, Zenon DEF L!LookAt
<1>6. CASE L!GoOn
  <2>0. pc = "after" /\ UNCHANGED io /\ ~used /\ each.loop # "none"
    BY <1>6, Zenon DEF L!GoOn, L!LoopInv, L!InLoop
  <2>1. CASE L!LoopEnds(TRUE) /\ UNCHANGED used
    BY <1>4, <2>0, <2>1, Zenon
  <2> DEFINE goes == ~(deletion /\ each.loop # "rebuild") /\ pc' = "each" /\ UNCHANGED <<deletion, ready, turn, used>>
  <2>2. CASE goes /\ each.step = 1 /\ each' = [each EXCEPT !.step = 2]
    <3>1. /\ each' \in L!Loops /\ each'.loop = each.loop /\ each'.step = 2 /\ each'.cur = each.cur
          /\ each'.next = each.next /\ each'.gone = each.gone
      BY <1>t, <2>2, Zenon DEF L!Loops
    <3>2. L!TypeOK'
      BY <1>t, <2>0, <2>2, <3>1, Zenon DEF L!TypeOK
    <3>3. ASSUME each.loop = "ready", NEW x \in turn.due
          PROVE  L!Ahead(x)'
      <4>1. L!Ahead(x)
        BY <2>2, <3>3, Zenon DEF L!LoopInv
      <4> QED
        BY <2>0, <2>2, <3>1, <4>1, Zenon DEF L!Ahead
    <3> QED
      BY <2>0, <2>2, <3>1, <3>2, <3>3, Zenon DEF L!LoopInv, L!InLoop
  <2>3. CASE /\ ~(deletion /\ each.loop # "rebuild") /\ "next" \in each.gone
             /\ used' = TRUE /\ pc' = "broken" /\ UNCHANGED <<each, deletion, ready, turn>>
    <3>1. each.loop = "rebuild"
      BY <1>t, <2>0, <2>3, Zenon DEF L!LoopInv, L!Loops
    <3>2. L!TypeOK'
      BY <1>t, <2>0, <2>3, Zenon DEF L!TypeOK
    <3> QED
      BY <2>0, <2>3, <3>1, <3>2, Zenon DEF L!LoopInv, L!InLoop
  <2>4. CASE /\ goes /\ each.step = 2
             /\ each' = [each EXCEPT !.step = 1, !.cur = each.next, !.gone = {},
                                     !.next = IF each.next = L!None THEN L!None ELSE L!next(each.next)]
    <3>1. /\ each' \in L!Loops /\ each'.loop = each.loop /\ each'.step = 1 /\ each'.cur = each.next
          /\ each'.next = (IF each.next = L!None THEN L!None ELSE L!next(each.next))
          /\ each'.gone = {}
      BY <1>t, <2>4, HeadAndNext, Zenon DEF L!Loops
    <3>2. L!TypeOK'
      BY <1>t, <2>0, <2>4, <3>1, Zenon DEF L!TypeOK
    <3>3. ASSUME each.loop = "ready", NEW x \in turn.due
          PROVE  L!Ahead(x)' /\ each'.cur # L!None
      <4>1. L!Ahead(x)
        BY <2>4, <3>3, Zenon DEF L!LoopInv
      <4>2. each.next # L!None /\ each.next <= x[1] /\ io[x[1]].on
        BY <2>0, <2>4, <4>1 DEF L!Ahead
      <4>3. each.next \in Fds /\ x[1] \in Fds
        BY <1>t, <3>3, <4>2, Zenon DEF L!Loops
      <4>4. x[1] = each.next \/ x[1] > each.next
        <5>1. each.next \in Nat /\ x[1] \in Nat
          BY <4>3, FdsAssumption, Zenon
        <5> QED
          BY <4>2, <5>1
      <4>5. x[1] > each.next => L!next(each.next) # L!None /\ L!next(each.next) <= x[1]
        BY <1>t, <4>2, <4>3, HeadAndNext, Zenon
      <4> QED
        BY <2>0, <2>4, <3>1, <4>1, <4>2, <4>4, <4>5, Zenon DEF L!Ahead
    <3> QED
      BY <2>0, <2>4, <3>1, <3>2, <3>3, Zenon DEF L!LoopInv, L!InLoop
  <2> QED
    BY <1>6, <2>1, <2>2, <2>3, <2>4, Zenon DEF L!GoOn
<1>7. CASE L!Callback
  <2>0. UNCHANGED <<pc, ready, used>> /\ pc \in {"timeout cb", "idle cb", "io cb"} /\ ~used
    BY <1>7, Zenon DEF L!Callback, L!LoopInv
  <2>1. CASE L!Additions /\ UNCHANGED turn
    <3>1. /\ io' \in [Fds -> [on : BOOLEAN, flags : SUBSET {"R", "W"}]]
          /\ \A f \in Fds : io[f].on => io'[f].on
          /\ UNCHANGED <<deletion, each>>
      BY <1>t, <2>1, AdditionsKeep, Zenon
    <3>2. L!TypeOK'
      BY <1>t, <2>0, <2>1, <3>1, Zenon DEF L!TypeOK
    <3>3. ASSUME each.loop = "ready", ~deletion, NEW x \in turn.due
          PROVE  L!Ahead(x)'
      <4>1. L!Ahead(x) /\ x[1] \in Fds
        BY <1>t, <3>3, Zenon DEF L!LoopInv
      <4> QED
        BY <2>0, <3>1, <4>1, Zenon DEF L!Ahead
    <3> QED
      BY <2>0, <2>1, <3>1, <3>2, <3>3, Zenon DEF L!LoopInv, L!InLoop
  <2>2. CASE L!Deletions /\ turn' = [turn EXCEPT !.deletes = (each.loop = "ready")]
    <3>1. /\ io' \in [Fds -> [on : BOOLEAN, flags : SUBSET {"R", "W"}]]
          /\ deletion' = TRUE /\ each' \in L!Loops
          /\ each'.loop = each.loop /\ each'.cur = each.cur
      BY <1>t, <2>2, DeletionsFlag, Zenon
    <3>2. /\ turn' \in [due : SUBSET (Fds \X {"R", "W"}), deletes : BOOLEAN]
          /\ turn'.due = turn.due /\ (each.loop = "ready" => turn'.deletes)
      BY <1>t, <2>2, Zenon
    <3>3. L!TypeOK'
      BY <1>t, <2>0, <3>1, <3>2, Zenon DEF L!TypeOK
    <3> QED
      BY <2>0, <3>1, <3>2, <3>3, Zenon DEF L!LoopInv, L!InLoop
  <2> QED
    BY <1>7, <2>1, <2>2, Zenon DEF L!Callback
<1>8. CASE L!Return
  <2>0. UNCHANGED <<io, deletion, each, ready, turn, used>> /\ ~used
    BY <1>8, Zenon DEF L!Return, L!LoopInv
  <2>1. L!TypeOK'
    BY <1>t, <2>0, Zenon DEF L!TypeOK
  <2>2. \/ pc = "io cb" /\ pc' = "after"
        \/ ~L!InLoop /\ ~L!InLoop'
    BY <1>8, Zenon DEF L!Return, L!InLoop
  <2>3. ASSUME each.loop = "ready", ~deletion, NEW x \in turn.due
        PROVE  L!Ahead(x)'
    <3>1. L!Ahead(x)
      BY <2>3, Zenon DEF L!LoopInv
    <3> QED
      BY <2>0, <2>2, <2>3, <3>1, Zenon DEF L!Ahead, L!LoopInv
  <2> QED
    BY <2>0, <2>1, <2>2, <2>3, Zenon DEF L!LoopInv, L!InLoop
<1>9. CASE L!OtherThread
  <2>0. UNCHANGED <<pc, ready, turn, used>> /\ pc = "select" /\ ~used /\ each.loop = "none"
    BY <1>9, <1>o, Zenon DEF L!OtherThread
  <2>1. /\ io' \in [Fds -> [on : BOOLEAN, flags : SUBSET {"R", "W"}]]
        /\ deletion' \in BOOLEAN /\ each' \in L!Loops /\ each'.loop = each.loop
    BY <1>9, <1>t, AdditionsKeep, DeletionsFlag, Zenon DEF L!OtherThread
  <2>2. L!TypeOK'
    BY <1>t, <2>0, <2>1, Zenon DEF L!TypeOK
  <2> QED
    BY <2>0, <2>1, <2>2, Zenon DEF L!LoopInv, L!InLoop
<1>10. CASE UNCHANGED L!loopvars
  BY <1>10, Zenon DEF L!loopvars, L!LoopInv, L!TypeOK, L!InLoop, L!Ahead
<1> QED
  BY <1>1, <1>2, <1>3, <1>5, <1>6, <1>7, <1>8, <1>9, <1>10 DEF L!Next

\* The event loop survives its callbacks: no record is used after io_del freed it
\* (but for the last loop of check_bad_fds), and every descriptor found ready by
\* select() is served unless a callback of this turn deletes something, however
\* many descriptors and timers there are and whatever the callbacks do to them.
THEOREM LoopServesAll ==
    L!Spec => []LoopServes
<1>1. L!LoopInv => LoopServes
  BY Zenon DEF L!LoopInv, LoopServes, L!LoopServes
<1> QED
  BY <1>1, LoopInvInit, LoopInvNext, PTL DEF L!Spec
=============================================================================
