# MeshLink in TLA+

TLA+ models of the MeshLink library (`src/`), TLC configurations that check them
on small instances, and TLAPS proofs of most of the safety properties for every
value of the constants. `PROJECT.json` lists components, runs, the source
lines behind each definition, findings, hazards and theorems.

## 1. The system

MeshLink is a library for decentralised mesh networks, in C. Every instance (a
`meshlink_handle_t`, one *node*) has one library thread that runs an event loop
under the mutex of the handle; the application calls the API from its own
threads.

| part | source | modules |
|---|---|---|
| SPTPS: handshake, keys, records, replay window | `sptps.c` | `SptpsSession`, `Sptps`, `SptpsReplay` |
| key exchange between nodes | `protocol_key.c`, `net_packet.c` | `NodeKeys` |
| UDP path: probes, MTU, address | `net_packet.c` | `UdpPath` |
| UDP address cache | `node.c`, `hash.c` | `UdpCache` |
| configuration store, key rotation | `conf.c`, `net_setup.c`, `meshlink.c` | `ConfStore` |
| host files, blacklist, whitelist, forget | `net_setup.c`, `meshlink.c`, `conf.c` | `NodeConfig` |
| encoding of files | `packmsg.h` | `PackMsg` |
| invitations and join | `protocol_auth.c`, `meshlink.c`, `conf.c` | `Invitation` |
| edges, graph, meta protocol | `edge.c`, `graph.c`, `protocol*.c`, `net.c` | `MeshNode`, `Mesh`, `GraphSearch` |
| outgoing connections, autoconnect | `net_socket.c`, `net.c`, `connection.c` | `Outgoing` |
| UTCP | `utcp.c` | `UtcpConnection`, `Utcp`, `UtcpReceive`, `UtcpBuffer`, `UtcpService`, `ByteStore` |
| channels and asynchronous I/O | `meshlink.c` | `ChannelAio` |
| threads, start and stop, signals, queues | `meshlink.c`, `event.c`, `adns.c`, `meshlink_queue.h` | `MeshThreads` |
| event loop | `event.c` | `EventLoop` |
| splay trees | `splay_tree.c` | `SplayTree` |

How they interact: a meta connection is a TCP stream that carries an SPTPS
session, which carries the requests of the meta protocol. Requests change the
edges; every change runs `graph()`, which sets who is reachable and how. Packets
between two nodes are datagrams of another SPTPS session, whose handshake
travels as REQ_KEY/ANS_KEY requests over the mesh; UTCP runs over those packets
and channels over UTCP. Keys, host files and settings are kept in the
configuration store, which the library thread and the API calls write.

What is hard about it: two ends that rekey at the same time; datagrams and
records that are lost and reordered; processes killed between two disk
operations; requests that overtake each other on different paths while
connections break and nodes restart; records that several lists, timers and
threads point to; callbacks that destroy what called them. "hazards" in
`PROJECT.json` has them line by line, with the properties that would catch them
going wrong, or the reason why there is none.

## 2. Modules

Two shapes recur. `SptpsSession`, `MeshNode` and `UtcpConnection` are operators on
one C structure, named after the C functions, that return the structure
afterwards and what was sent; `Sptps`, `NodeKeys`, `Mesh`, `Utcp` and `UtcpReceive`
are the state machines that put two or more of them, and a network, together. The
other modules are state machines of their own, one action per function or per
step of it that others can get in between. `ByteStore` and `UtcpService` are
abstract specifications. Definitions named `X_Y`, under the comment "Mutant of X",
are X with a plausible mistake: each property is known to fail with one of them.

**SPTPS.** `sess[p]` is the `sptps_t` of an end. Cryptography is symbolic: a KEX
message is its nonce, a cipher key the two KEX messages and the half of the PRF
output, a signature what was signed; decryption works exactly with the key and
number of the encryption. A `false` from `sptps_receive_data` ends the connection
and sets `failed`. `pos`, the place of a record in its sender's handshake, is a
history field used only by the invariant. In `SptpsReplay` the bitmap and the
counters have the arithmetic of the code modulo `SeqMod` (2^32 in the program).

**NodeKeys.** Two nodes with a datagram session each, whose handshake records
travel as requests over a queue that loses its contents when a meta connection
breaks, on a direct path or through relays. Times are ages: 10 seconds, an hour. A
scenario says what may go wrong, so that each run of the model stresses one thing. The
replay window is the set of the missing numbers among the last `Win`: UDP packets that
overtake a handshake record can make it late or have it refused. `past` remembers a
record of a renewal that was lost or refused, and an `abort()`.

**UdpPath.** Sizes are counted in units, and the 10 and 30 bursts of the code are
the constants `Few` and `Many`. Of a burst at most one probe gets through. The
network changes its MTU and the peer its address. `n->mtu`, which the probing only writes,
is left out.

**UdpCache.** The hash table with its slots shared by addresses, and all that
writes to it; for the nodes in `Followed` also the list of recent addresses and all that
adds to it (UDP, connections, discovery, hints, the host file). Node records are freed
when forgotten.

**ConfStore.** A call is a program of disk operations (`todo`), in the order of the
code: `main_config_write` renames the temporary file *before* it closes it, while
`config_write` closes it first. What was given to the kernel survives a crash; what
is in a stdio buffer does not. `fsync` may fail. After a crash the application
tries the keys it may have, in the order `newFirst` gives.

**NodeConfig.** A peer in memory, its host file as a sequence of typed elements, the
dirty flag, the three storage policies, and every call and request that changes a
field. `unsaved` is a history variable: the fields changed without the dirty flag.

**Invitation.** One inviter, devices that join, two invitations for one name. The
steps of `process_invitation`, `invitation_read`, `commit_invitation` and
`finalize_join` are separate, and either side may crash or lose the connection
between them. Whether the inviter commits before it sends is a setting.

**PackMsg, SplayTree, UtcpBuffer, GraphSearch** are algorithms on data: the encoding
byte by byte; the tree as a heap of nodes with child, parent and neighbour links, from
which nodes are unlinked wherever they are; the ring buffer with its offset; the loops
of `sssp_bfs`. Each is compared with what it should compute: what is read is what was
written, a set and its order, a sequence of bytes (`ByteStore`), shortest distances.

**Mesh.** Nodes are numbers in the order of their names. A view has the edge trees,
the active connections and the fields `graph()` computes. `Receive` handles all that
a peer has sent so far; the interleaving is between such reads. `seen_request` is
modelled by nonces, reused only when no request in flight has them, so that
forgetting after 60 s is left out. The mesh starts settled, on a line. Left out:
addresses, submeshes, the contradiction counters and the back-off they cause, and
ID/SPTPS before the ACK (`Sptps` and `Outgoing` have those). Two nodes make one
connection at a time (crossing ones are in `Outgoing`), and nobody is blacklisted, which
`send_ack` asks about (`NodeConfig` and `Outgoing` have that).

**Outgoing.** The `outgoing_t` and `connection_t` records of one node, by identity, and
everything that holds a pointer to them: the list, the retry timer, a name being
resolved, an attempt, an active connection. Autoconnect uses the device classes
and the order of the code.

**Utcp.** Both ends of a connection, packets in flight as a set from which any may
arrive or get lost; a set timer may expire. A segment has up to two bytes, so that one
can be cut, and a datagram can be in fragments. The history variable `past` knows
whether an error has a cause, and at which end `utcp_reset_all_connections` cut the
stream (`cut`). `UtcpReceive` is the receiving side alone, with more and longer
segments than `Utcp` can afford.

**ChannelAio.** The C call stack is a variable, since what matters is which callback
runs inside which. The channel is reliable and takes partial writes, so that
`utcp_send` takes what there is room for; the returns of 0 and -1 of the other kinds
are left out. UTCP below is a stream with some free space; that a node is being
destroyed shows as a `meshlink_channel_close` that `channel_recv` makes.

**MeshThreads.** Five threads with their program counters, the mutex, the signal
pipe, the queues. There may be no listening socket, the `pthread_create` of the library
thread may fail, and the namespace may be one that cannot be entered. The
`pthread_create` of `init_adns`, whose result nobody looks at, is taken to succeed.

**EventLoop.** Timers and descriptors with the calls that change them, made by
callbacks and, during `select()`, by other threads; `each` is where `splay_each`
stands, `turn` (history) which callbacks are due.

## 3. What TLC checks

| run | instance | states |
|---|---|---|
| `sptps` | `Sptps`: 3 key exchanges and 2 records per end. `UdpPath`: MTU 3, 2 addresses, 2 changes | 47,882 |
| `keys` | `NodeKeys`: 6 scenarios with up to 3 exchanges per node, a window of 2 | 69,590 |
| `algorithms` | window 4 and 10 datagrams; all graphs over a diamond of 4 nodes; every element type and cut; 3 addresses, 2 peers; buffers of up to 4 bytes; trees of 5 keys | 429,498 |
| `node` | 2 keys, 2 updates, 2 rotations, 2 crashes, 1 failing `fsync`; 2 invitations, 2 devices; 4 events on a peer, 1 failing write; a channel with 3 buffers, 2 bytes of space, 1 block of received data | 1,104,925 |
| `mesh` | 3 nodes, 1 new connection, 2 faults | 217,603 |
| `outgoing` | 2 peers, 3 connections, 1 address each | 681,269 |
| `utcp` | 6 scenarios of up to 4 bytes, segments of 2, sequence numbers that wrap | 1,044,651 |
| `threads` | 2 starts, 2 packets, 2 names, 1 other call; 2 descriptors, 1 timer, 2 changes per callback | 257,505 |
| `utcp_sack` | 9 bytes, 1 retransmission | **violation** |
| `channel_close` | a channel as in `node`, with 2 blocks of received data | **violation** |
| `mesh_reach` | as `mesh`, 1 fault | **violation** |
| `rotation_new_key` | the configuration of `node` | **violation** |

What they show:

- `sptps`: no record is refused (`NoFailure`), keys agree when idle (`KeyAgreement`),
  data arrive in order (`InOrderDelivery`) and completely, exchanges end
  (`SessionProgress`). UDP comes into use whenever the network allows (`UdpFound`).
- `keys`: nodes that both think they have a key have the same one (`KeysAgree`), an
  authentic record reaches `abort()` only after a renewal of which a record was lost or
  refused as late, also when UDP packets overtake records (`AbortHasCause`), and
  crossing, broken and repeated exchanges end with a key that late answers do not
  take away (`KeysSettle`).
- `algorithms`: `NoReplay` and `LateAccepted` (window), `SearchRight` and `SearchEnds`
  (`sssp_bfs`), `ReadsBack` (packmsg), `CacheCurrent` (addresses: the table and, for
  one peer, the recent ones), `ImplementsStore`
  (ring buffer, a refinement), `OperationsRight` (splay tree).
- `node`: `ConfigIntact` and `RotationRecovers` (store), `OneUse`, `JoinedIsKnown` and
  `OneIdentity` (invitations), `NodeRemembered` (host files). A channel is freed once and
  not used afterwards (`CloseAllowedOnce`), buffers end early only if the connection does
  (`EndsForAReason`), bytes go out in the order given (`SentInOrder`).
- `mesh`: `OwnEdgesKept`, `RoutesUsable` in every state; `NoGhosts` and `SessionKnown` at
  rest; `CorrectionsEnd`.
- `outgoing`: a record is held in exactly one place, so that it is going to be tried
  again or is active (`OneAttempt`), a peer has one active connection (`OneActive`),
  and no freed record is pointed at or used (`OutgoingLives`).
- `utcp`: what the applications see implements `UtcpService` (`DeliversStream`: a prefix
  of what was written, and an end only after all of it or after
  `utcp_reset_all_connections` at this end); timers, buffers and numbers agree
  (`NothingForgotten`); errors have a cause (`ErrorHasCause`).
- `threads`: no wakeup is lost (`WakeupPending`), a stop leaves nothing behind and no
  callback of an old session runs (`StoppedIsClean`), calls return (`CallsReturn`);
  the event loop touches no freed record and makes the callbacks that are due
  (`LoopServes`).

Runs that hold several modules choose one of them in the initial state (`part`) and
leave the others at rest: the modules share nothing there, and the instance is the
sum of theirs.

Why the bounds are enough for the cases that matter. Three key exchanges have the
first round (plaintext, no ACK), a later round, and one that starts while records of
the round before are in flight. A window of 4 and 10 datagrams have gaps, jumps
beyond the window, late datagrams at both edges, and every bit used more than once.
Two rotations and two crashes reach a crash during the recovery from a crash. The
diamond is the smallest graph in which a node gets a better last hop after nodes
behind it were found. Three nodes with a new connection have a cycle, so that
requests overtake each other; with two faults a node can be cut off, come back and be
replaced. Three connections to two peers have an attempt, an incoming connection and
a duplicate at once. UTCP scenarios give one event to each kind of trouble with the
sequence numbers at their wrap; three bytes fill the window and are two segments, and
two writes of one byte are retransmitted as one segment. A retransmission over
two gaps, which takes segments of five bytes, does not fit: `UtcpReceive` is for that
(run `utcp_sack`). A replay window of 2 is the smallest that accepts something late and
refuses something later. Three buffers are a
buffer queued by the callback of a buffer queued by a callback. Two starts let what
one session leaves meet the next. Two descriptors are the current and the next
record of the loop (three were tried as well).

The runs have `CHECK_DEADLOCK FALSE`: with every bound used up and nothing in flight
the system is at rest. That nothing stops too early is what the liveness
properties say.

Fairness. `Sptps`: both ends start, and an end with data to read reads it (weak
fairness): the event loop selects on every socket. Nothing is assumed of `SendData`
and `ForceKex`. `UdpPath`: the probing timer fires (weak); addresses are picked at
random, so that a burst does not miss the right one for ever, and not all replies
are lost (strong). `NodeKeys`: requests are delivered, time passes, the application
keeps sending, broken connections are noticed and made again (weak); nothing is
assumed of the two second timeout, of renewals and of UDP packets. `MeshThreads`:
threads go on; strong fairness for those that wait for the mutex, which the event loop
gives up at every `select()`. The other modules assume none.

### Findings

1. `utcp_sack`: `sack_consume()` deletes only the first SACK entry when a
   retransmission covers all of the receive buffer, while its comment says all
   entries before that point are deleted; stale bytes are delivered later.
2. `channel_close`: closing "at any time [...] even inside callback functions" frees a
   channel in use when the callback runs inside another one of the channel.
3. `mesh_reach`: an ADD_EDGE that was handled and then undone is dropped as a
   duplicate when it arrives from the node itself: the mesh comes to rest with a
   node that is connected and taken for unreachable.
4. `rotation_new_key`: a test says that a rotation killed "at any stage should give atomic
   result when reopened", with the new key tried first. When the copy has
   `meshlink.conf` but not yet the host file of the node, `meshlink_confbase_exists`
   destroys the complete directory for the sake of the incomplete one, and neither key
   opens the node again.

Four more configurations show what the runs above leave out, each violating one
property: `MCAlgorithmsWrap.cfg` (`NoReplay` when sequence numbers reach the end of
their range: `inseqno + replaywin * 8` wraps), `MCMeshSession.cfg` (`SessionKept`:
`meshlink_stop` with two connections sets the node's own session id to 0),
`MCOutgoingWorst.cfg` (`DisconnectsWorst`: the comment "devclass desc" and
`node_compare_devclass_desc` disagree, and autoconnect drops the better connection) and
`MCChannelAioCut.cfg`, for module `ChannelAio` (`NeverCut`: `channel_poll` goes on with the
free space from before a callback that queued a buffer itself, takes the short write for
a failure, and aborts the buffers of a healthy connection).

### What the models do that one may not expect

All of this is what the code does. The properties name these cases as exceptions,
or they concern no property.

- SPTPS and keys: a record of an hourly renewal that was lost, or refused because more
  UDP packets than the replay window holds were faster, is not repeated, and the next
  renewal can meet the `abort()` of `sptps_receive_data_datagram`.
- UDP: a peer that is unreachable for a moment and keeps its key is not probed any
  more until a new key exchange. A reply so late that the peer was given up can
  confirm an address for good although the peer has moved (`UdpFound`). A late ANS_KEY
  for an unreachable node that is then forgotten leaves a freed pointer in the cache.
- Configuration: with the new key tried first after an interrupted rotation, an
  incomplete copy replaces the store: without the node's own host file it does not
  open (finding 4), without that of a peer the peer is forgotten. A recovery whose
  `fsync` fails is taken for a missing configuration, and the node gets a new
  identity. `load_node` unlinks the path of the directory instead of a temporary file.
  One unreadable host file ends the scan, and other nodes are made anew. A call whose
  write fails does not mark the node dirty. The device class of an ADD_EDGE and the
  canonical address of a REQ_CANONICAL are not marked either.
- Invitations: `meshlink_join` may return false although the configuration is
  stored. A used invitation that a crash left behind is never purged.
- Packed messages: the `packmsg_is_int*` functions do not recognise negative small
  integers, `packmsg_is_bin` accepts one byte too many.
- Outgoing: with a canonical address the others are never tried. Forgetting a node
  during an attempt leaves a pointer to the freed record. Blacklisting leaves the
  record in place.
- UTCP: a retransmitted SYNACK has another sequence number than the first one. A FIN
  after a shutdown in SYN_SENT has no timer. The timeout of TIME_WAIT after CLOSING
  is cleared again. `utcp_reset_all_connections` calls the receive callback with no data
  and `errno` 0, which to the application is the normal end of the stream.
- Channels: closing in the accept callback and refusing frees twice.
- Threads: `meshlink_start` without a listening socket and a failing `meshlink_import`
  return with the mutex locked. A thread that cannot enter its namespace may signal
  before anybody waits. Packets queued while stopped wait for the next packet.
- Event loop: the last loop of `check_bad_fds` does not look at the deletion flag. A
  callback that sets a timer cuts the turn short for the descriptors behind it.

## 4. What is proved

TLAPS checks the theorems below for every value of the constants: any number of
peers, devices, keys, buffers, descriptors, key exchanges, crashes, and so on. They
are stated for the specifications that the runs check, with the same definitions.

| theorems | module | property |
|---|---|---|
| `HandshakeInvariant`, `TypeCorrect`, `ReceiveNeverFails`, `KeysAgree`, `DeliveredInOrder` | `SptpsProofs` | `NoFailure`, `KeyAgreement`, `InOrderDelivery` |
| `WindowInvariant`, `NeverReplayed`, `LateNeverDropped`, `InseqnoAdvances` | `SptpsReplayProofs` | `NoReplay`, `LateAccepted` |
| `StoreInvariant`, `NodeStaysIntact`, `RotationCanBeRepeated` | `ConfStoreProofs`, after `ConfStoreSteps` | `ConfigIntact`, `RotationRecovers` |
| `InvitationInvariant`, `UsedOnce`, `JoinedStaysKnown`, `NamesDiffer`, `NodeIsRemembered` | `StorageProofs` | `OneUse`, `JoinedIsKnown`, `OneIdentity`, `NodeRemembered` |
| `ChannelInvariant`, `ClosingIsSafe`, `EndsHaveReasons`, `DataGoesInOrder` | `ChannelAioProofs` | `CloseAllowedOnce`, `EndsForAReason`, `SentInOrder` |
| `WakeupNeverLost`, `StopLeavesNothing`, `LoopServesAll` | `ThreadProofs` | `WakeupPending`, `StoppedIsClean`, `LoopServes` |
| `OutgoingInvariant`, `RecordsCarriedOn`, `OneConnectionPerPeer`, `FreedOnlyByForgetting` | `OutgoingProofs` | `OneAttempt`, `OneActive`, `OutgoingLives` |

The proofs use the named assumptions of the modules and nothing else. Most give the
constants their types (`BoundsAssumption`, `WinAssumption`, `MaxSentAssumption`,
`SizesAssumption`, `PeersAssumption`: peers are numbers, and the connections at the
start fit in the table), or say that a value that stands for "none" is not one of the
others (`PeersDiffer`, `FilesAssumption`, `DevicesAssumption`, `NodeAssumption`).
`SeqModAssumption` says that the window is smaller than the range of the sequence
numbers, `FdsAssumption` that descriptors are positive: 0 stands for the end of the
tree. No theorem is about liveness.

The invariants are written next to the properties, at the end of the modules, and each
of them was checked by TLC on the instance of the run as well (without the conjunct of
`NodeTypes` that says which host files there are: it quantifies over an infinite set).
None of the properties is inductive as it stands; what follows says what had to be
added.

**Sptps.** Whether the next record is accepted depends on the state of the receiver
*and* on what is in flight. `HandshakeInv` has two parts. `SessionInv`: the session is
the function `SessionAt` of its handshake state and the number k of key exchanges:
which nonces it holds, which keys it reads and writes with (those of round k or
k - 1). `WireInv`: number the handshake records of a sender KEX 1, SIG 1, KEX 2, SIG 2,
ACK 2, KEX 3, ...; the records in flight are a *chain* (`Chain`, `Link`) that leads
from the position the reader has reached to the one the writer has reached, each under
the key of its round, with consecutive sequence numbers, data anywhere after the first
round. Sending appends to a chain, receiving takes its head, and the head decides
which of the five handler cases applies. For the order of the data there is `DataInv`:
the application records in flight are those sent and not yet received, each once and in
order. It needs that no record is refused, that is, `HandshakeInv`.

**SptpsReplay**, under `NoWrap == MaxSent + Win < SeqMod`: numbers stay away from the
end of their range (without it the claim is false, see `MCAlgorithmsWrap.cfg`).
`WindowInv` says that nothing from `inseqno` on was accepted and that in the window a
bit is set exactly for what is missing. The core is that two numbers in one window that
share a bit are equal.

**ConfStore.** `RotationCanBeRepeated` has hypotheses: no `fsync` has failed; the old
key is tried first, for the part that says that the node opens (with the new key first
it is false: finding 4); and no interrupted write left `meshlink.conf` empty, or, for
the part that says that the next rotation goes through, any file. `NodeStaysIntact`
has the first of them, and the second for the host files of peers. A crash may come
between any two disk operations, so the invariant has to say what is on disk after
each of them. What a call has still to do is the end of its program, and the number of
operations left (`Left`) tells which: `StoreInv` has a case for each thing a process
can be doing (`IsDown`, `IsSetup`, `IsRecover`, `IsFinish`, `IsUp`, `IsWrite`,
`IsRotate`, ...), with the contents of the three directories as a function of `Left`.
A crash leads to `IsDown`, which says that one of the directories can be opened with a
key of the application (`Recoverable`), unless the main file was torn.
`ConfStoreSteps` has the operations and the shorter programs, `ConfStoreProofs` the
rotation and the theorems.

**Invitation.** `UsedUp` (contents are sent only after the deletion has been synced),
`KnownStored` (whom the inviter knows is on disk), and `Agreed(d)`: what the inviter
knows of d by the step that d's join has reached. `Agreed` relates the two sides, which
the properties do only for a join that has returned.

**NodeConfig.** `CleanIsSaved` and `KeyIsSaved` say for each field whether memory and the
host file agree, and `KeyMarked` that a key is never changed without being written or
marked. The proof reads the file back element by element: `load_node` after
`node_write_config` is the node, up to what the conversion does to it.

**ChannelAio.** Whether a callback may free the channel depends on what is further down
the C stack. `WellFormed` says which function calls which, `OneCallback` that
`in_callback` is right as long as callbacks are not nested, `FreedIsLeft` that nothing
of the channel's code is on the stack once it is freed, `SpaceIsThere` that
`channel_poll` has the space it was told of, `InOrder` that the buffers of a queue are
in the order of the calls. `SentInOrder` is an action property.

**MeshThreads, EventLoop.** `FlagMeansWritten`: a flag that keeps the next trigger from
writing is set only when the number is in the pipe or about to be written.
`Registered` and `ThreadsJoined` say which threads there are by the place of the
application in start and stop, `OwnRequests` that the queues of the resolver belong to
this session. For the loop, `LoopInv` says that a callback which is due is still ahead
of `splay_each` (`Ahead`), unless the deletion flag is set.

**Outgoing.** `OneAttempt` does not say whose record a connection points at. `Pointers`
does: that of its own peer, and no two at the same; a pointer to a freed record belongs
to a peer that was forgotten, which gets no record again while the connection lasts.
`Linked` ties `n->connection` to the active connections, `Served` says what carries each
record on. The functions hand a state on to each other, so these are predicates of such
a state; between `ack_h` or a disconnect and `do_outgoing_connection` the record in
question is carried on by nothing, and the lemmas for the latter start from there.

### Only model-checked

- Liveness under fairness, which is out of the prover's reach: `SessionProgress`,
  `UdpFound`, `KeysSettle`, `CallsReturn`.
- What loops and recursive definitions compute, which needs induction over data:
  `SearchRight`, `SearchEnds` (whose variant is a sum over the nodes), `ReadsBack` and
  `OperationsRight` (`PackMsg` and `SplayTree` use `RECURSIVE` operators), and
  `OwnEdgesKept`, `RoutesUsable`, `NoGhosts`, `SessionKnown` and `CorrectionsEnd`, since a
  step of `Mesh` folds over all requests of a read and runs the search of `graph()`.
- `KeysAgree` and `AbortHasCause` of `NodeKeys`, `DeliversStream`, `NothingForgotten` and
  `ErrorHasCause` of `Utcp`, `CacheCurrent`, and the refinement of `ByteStore`: the
  invariants that would make them inductive have not been found or written down. For
  `Utcp` it would have to tie buffers, SACK entries, timers and all packets in flight
  together.

## 5. Not modelled

- Submeshes: a filter on who is told what, which would multiply the state of `Mesh`.
- Discovery and mDNS: packet formats and netlink sockets; `Outgoing` has what they
  result in, an address.
- UTCP's clocks, round-trip estimation and framed mode: the timers are free to expire,
  which covers every estimate.
- Import and export beyond the locking of `meshlink_import`; the lock file.
- Ageing of remembered requests, contradiction counters.
- `list.c`, `buffer.c`: sets and sequences stand for them.
- Cryptographic primitives, taken as perfect; sockets, logging, formatting, the C++
  interface.
