# Verification of the Nabto Edge FreeRTOS simulator

TLA+ models of this repository's concurrent parts, TLC runs that check them on
small instances, and TLAPS proofs that hold for every size.

## The system

One process hosts a FreeRTOS simulation. Inside it run

* **Nabto threads** (priority `configMAX_PRIORITIES-1`), created through
  `src/nabto_device_threads_freertos.c`. The SDK's event queue is one of them;
* **the lwIP thread** (priority 1), which runs every protocol callback;
* **the input task of the TAP interface** (priority 1), which posts received
  packets to the lwIP thread;
* **two pthreads** outside FreeRTOS, which read and write the TAP device.

Time slicing is off. A Nabto thread preempts the lwIP thread between any two
instructions and is itself interrupted by it only where it blocks.

| Part | State | Operations | What is hard |
|---|---|---|---|
| mutex, condition | mutex count, semaphore, `waiting_threads` | lock, unlock, wait, timed wait, signal | compare-and-swap loops, a timeout racing a signal |
| threads | task, `join_barrier`, `join_mutex` | create, run, join, free | racing joins, a join racing the end of the task |
| core lock | recursive mutex, `lwip_core_lock_count`, holder | lock, unlock, check | the three disagree for a moment in every lock and unlock |
| lwIP thread | mailbox, two message pools, a loopback list per interface | fetch, handle, post, poll | pool limits, stale polls, starvation |
| UDP socket | one packet slot, one waiting event | create, bind, send, recv_wait, recv_from, abort, destroy, callback | the callback is preempted between assignments |
| DNS | `dns_table`, `dns_requests`, pcbs, the SDK's events | resolve, callback, timer, reply | shared queries, eviction, late replies, retries and a backup server |
| TCP socket | pcb, read and connect events, pbuf chain | connect, read, write, shutdown, abort, destroy, three callbacks | callbacks against SDK calls, a pcb lwIP has freed |
| mDNS server | pcb, interface list, groups | init, deinit, add, remove, publish, receive | partial failure, who frees a packet |
| TAP interface | two packet lists | in, out and FreeRTOS thread | lists shared without a lock |

How they interact: the SDK threads enter the sockets; sockets enter lwIP under
the core lock; lwIP calls back from its own thread with the lock held; callbacks
resolve completion events, which signal the condition the event queue waits on.

## Modules

Every proof module extends the module it is about.

| Module | Models |
|---|---|
| `CondSpec` | what a condition variable promises, with no counter and no semaphore |
| `NabtoCond` | mutex and condition: one load, increment, compare-and-swap or FreeRTOS call is one step |
| `NabtoCondProofs` | its theorems, and that it implements `CondSpec` |
| `CoreLock` | `sys_lock_tcpip_core`, `sys_unlock_tcpip_core`, `sys_check_core_locking`, one assignment per step |
| `CoreLockProofs` | its theorems |
| `TcpipThread` | composes `CoreLock` with the mailbox, the pools, the input task and the loopback lists |
| `TcpipThreadProofs` | it refines `CoreLock`, its mailbox is large enough, no message is lost, and what strands a loopback list |
| `ThreadLife` | `create_thread`, `run`, `join`, `free_thread`, `NabtoThreadTask` |
| `ThreadLifeProofs` | its safety theorems |
| `UdpSocket` | the UDP functions and `nm_lwip_udp_callback`, statement by statement |
| `UdpSocketProofs` | its theorems: callback, packets, pbufs and events |
| `ResolverSpec` | what the SDK expects of name resolution: one answer to each request, for its own question |
| `DnsResolver` | `nm_lwip_async_resolve` and its callback over the client of `dns.c` |
| `DnsResolverProofs` | its invariants, and that it implements the safety part of `ResolverSpec` |
| `TcpPcb` | the connection block of lwIP as this port uses it: a record, and what each lwIP function makes of it |
| `TcpSocket` | the TCP functions and callbacks on a `TcpPcb` |
| `TcpSocketProofs` | its safety theorems |
| `TapIf` | `list_push` and `list_pop` between a pthread and a FreeRTOS task, one access to a shared field per step |
| `TapIfProofs` | the list is intact, packets come in order, and what it takes to use freed memory, for every size |
| `Mdns` | the mDNS server and the part of platform init and deinit that concerns it |
| `MC*` | instances for TLC |

State follows the code's fields, and `PROJECT.json` gives the lines of each
definition. Operators whose comment begins with "Mutant of" are plausible bugs;
no specification uses them. Each one breaks a property when it takes the place
of the definition it names.

### Modelling decisions

* `xSemaphoreTakeFromISR` does not block and its result is ignored, so
  `nabto_device_threads_mutex_lock` always goes ahead. The model does the same:
  it does not claim mutual exclusion.
* `Atomic_Increment_u32` returns the value before the increment.
* A timed Take reports a timeout only after it has seen the semaphore empty.
* Locals are set to 0 once they are dead, which merges equal states.
* `TcpipThread`: a callback message is `netif_poll` of one interface. The other
  caller of `tcpip_try_callback` in lwIP, the reclaim of out-of-sequence segments
  in `pbuf.c`, runs when `PBUF_POOL` is empty; with the TAP interface nothing
  allocates from that pool (`tapif.c` uses `PBUF_RAM`, `SO_REUSE` is off). Dropping a packet for want of a message changes no
  modelled state, so it is not an action. Any core user may send on any interface.
  The lwIP thread sends while it handles a message or runs timers, which may be
  due before it waits for a message (`TimersDue`) or come due while it waits.
  `tcpip_init` is given no callback, so it sends nothing before its first fetch.
* `UdpSocket`: one SDK thread makes the calls, in any order. An SDK function is atomic up to the point where it waits for the
  core lock, because the lwIP thread has lower priority. The SDK hands over
  only an event it is not already waiting for. A packet is named by its sender.
* `ThreadLife`: join is not called on a thread that was already joined, since its
  semaphores are gone.
* `DnsResolver`: all of it runs under the core lock, so a call, a reply and the
  check of one entry are one step each. Any reply may arrive at any time, which
  covers loss, delay and repetition. A reply counts only if id, server and
  question match, as in `dns_recv`. An address is named by its question.
* `TcpSocket`: the SDK's thread has the higher priority, so an SDK call runs up to
  its lock and the lwIP thread can be preempted between resolving the read event
  and clearing it, and between testing `inBuffer` and appending to it
  (`InputData`, `AppendData`). The two core sections of a write are one step: the
  lwIP thread cannot run between them. The SDK connects a socket once and has one
  read outstanding. `connect` is the set of results the connect event was
  resolved with, so it does not tell one resolution from two with the same result.
  Segments have two halves, so that a read can end inside one. Where the code
  uses a freed pcb, a freed or null pbuf, a null socket or a null event, `undefined` says which
  and the model stops there. The branch of `recv_callback` for an error code
  (lines 86-93) is left out: lwIP calls it with `ERR_OK` only.
* `TcpPcb`: sequence numbers, retransmission and congestion control are reduced
  to which kinds of segment a state accepts. `OTHER` stands for every segment that
  only restarts timers: a window that stays closed, a repeated FIN. Active opens only.
* `TapIf`: the two lists share nothing, so the model has one, of either direction.
  Accesses happen in program order; what a weaker memory order would add is not
  modelled. `list->last` may be read once or twice for the link, as a compiler
  likes. A pop of an element that was freed, a failed input and a failed pbuf
  allocation are undefined behaviour.
* `Mdns`: devices share the port, the groups and the heap; one step is one section
  under the core lock. The property it is checked for, `PacketsFreed`, is about the
  packets alone; groups, interface list and port are there because every handler is
  modelled as a whole, and no claim is made about them.
* FreeRTOS and the SDK are submodules without sources in this tree. What is used
  of them is marked external in the map.

## Runs

| Run | Instance | Shows |
|---|---|---|
| `cond` | 2 waiters, 1 signaller, count up to 3 | no lost wakeup, no wrap of the counter; `CondSpec` is implemented with its liveness; the loops are lock-free |
| `cond_quiet` | the same, count up to 2 | **violated**: see Findings |
| `tcpip` | lwIP thread, 2 core users, nesting 2, pools of 2, mailbox of 4, 2 interfaces with lists of 2 | exclusion, exact lock check, message accounting, posts never refused; a loopback list is stranded only by polls of other interfaces; packets received and looped back are not starved |
| `tcpip_stranded` | lwIP thread alone, 2 interfaces, API pool 16, lists of 10, mailbox of 100; no packet arrives | **violated**: see Findings |
| `threads` | 2 threads, 2 joiners | one cleaner, no early kill, nothing left behind, joins return |
| `udp` | 2 senders, 2 events | no callback on a freed socket; sender recorded with its packet except in the window described below; a pending event stays reachable and, on a socket that is not aborted, is resolved once; pbufs accounted for |
| `udp_aborted` | the same | **violated**: see Findings |
| `dns` | 3 requests for 5 questions, table of 2, 2 servers, 2 tries, 2 transaction ids | slots, entries and events agree; pcbs are neither closed early nor left open; `ResolverSpec` is implemented with its liveness |
| `tcp` | 1 socket at a time, window and chain of 2 segments | a freed pcb is known to the socket; success is reported only after the handshake; a read the SDK waits for stays stored; connects and aborted reads are answered; the pcb of a destroyed socket goes back to the pool once the peer stops restarting its timers |
| `tcp_chain` | the same | **violated**: see Findings |
| `tap` | list of 3, 5 packets, either direction | packets are taken in order and once, whatever the race, until `list_pop` meets an element it has freed; without overlap the list is intact; no packet is slept on |
| `mdns_leak` | 2 devices, 2 pcbs, 3 pbufs | **violated**: see Findings |

Why the bounds are enough. Two waiters and a signaller give every pair of
operations on the counter; a count of 3 lets a leaked registration add up with
two waiters. Pools of two let a stale poll be in the mailbox while another one
is handled and the pool is empty, and two interfaces let one use up the pool of
the other. Two senders and two events tell a mixed-up packet or event from the
right one. Three requests over two DNS entries give a shared query, an eviction
and a full table; two transaction ids make them be used again; two tries and two
servers reach every branch of `dns_check_entry`. Ages count modulo 3 instead of
256, so that `dns_seqno` wraps. A chain of two pbufs is the shortest that has a
tail to free. A list of three is the shortest in which a lost update of `elems`
shows: with two, a push or pop that the wrong count lets through is stopped by the
length. Five packets let the list fill again after that.
`ReplyMax` bounds the loopback packets that handling one message sends. It is an
assumption about the traffic that `PacketsHandled` rests on: two peers on one
loopback list that answer each other for ever keep `netif_poll` in its loop, and
without the bound `PacketsHandled` fails.
`PbufMax`, `WaitMax`, `TtlMax`, `ChainMax`, `MaxPackets` and `UseMax` bound counters. Deadlock
is checked except where the system may stop: in `threads` all objects have been
freed in the end, in `tcp` and `tap` undefined behaviour stops the model, `tap` has
a last packet, and `mdns_leak` reaches its bounds.

Fairness. `NabtoCond`: a thread inside an operation is scheduled, and a timed
Take ends. `TcpipThread`: started lock and unlock calls go on; core sections are
straight-line code and end, nested ones included, hence strong fairness of the
outermost unlock and of the end of a handler; the Nabto threads block between
core sections, so the lwIP thread gets a lock that is free again and again; timers
have periods, so that again and again none is due and the thread goes on to its
mailbox.
`ThreadLife`: the thread's function returns. `UdpSocket`: a callback ends, and a
call waiting for the core lock gets it. `DnsResolver`: the lwIP thread runs its
timer, which `PacketsHandled` of `TcpipThread` is the reason for. `TcpSocket`:
callbacks and waiting calls go on. Of the timers of `tcp_slowtmr`, the SYN's
retransmissions and the FIN_WAIT_2 limit of a socket closed for receiving count to
their ends whatever the peer sends (`tcp_in.c`, lines 843-846, does not refresh
`tmr` then), which is strong fairness. All others get weak fairness only, and none in
an open connection, where data may keep being acknowledged in time: a peer that
keeps its window closed resets `persist_probe` (line 848) and one that repeats its
FIN restarts TIME_WAIT (line 765). `PcbReclaimed` therefore assumes that the peer
at some time stops sending such segments; without that premise it fails. Memory
for a FIN is found at some time, without which a pcb would stay in `closepend`. `TapIf`: both threads run. No fairness makes the SDK call anything or
a packet or reply arrive.

## Findings

* `tcpip_stranded`. `netif_loop_output` schedules a poll only when the list was
  empty, and ignores the error when there is no message for it (`netif.c`, line
  1163). Loopback traffic that is answered inside `netif_poll` leaves stale polls
  behind, and all interfaces share the 16 messages of `MEMP_NUM_TCPIP_MSG_API`.
  When they are used up, the first packet of another interface is queued, the
  call returns `ERR_OK`, and no later packet schedules a poll. The comment at
  line 1133 says the list "gets emptied through calling netif_poll()". The trace
  uses the configured pool, list and mailbox sizes. It needs about fifteen
  replies within one `netif_poll` and traffic on both interfaces.
* `cond_quiet`. The comment at line 189 of `nabto_device_threads_freertos.c` says
  "Try to decrement cond->waiting_threads". A waiter that was alone has
  `local_waiting_threads` = 0 and skips the loop, so it stays counted. A later
  signal gives a token to nobody, and the next wait returns at once.
* `udp_aborted`. `async_recv_wait` on an aborted socket resolves its event and
  stores it too. The next call reports "there's already a waiting recv" (line 308
  of `nm_nabto_lwip.c`) though none is.
* `tcp_chain`. `recv_callback` chains unread segments with `pbuf_cat`. `try_read`
  moves `inBuffer` to the second pbuf and calls `pbuf_free` on the first without
  taking it out of the chain (`nm_nabto_lwip_tcp.c`, line 301), which frees the
  second as well. Line 29 says `inBuffer` is a "pbuf or chain of pbufs with
  incoming tcp data"; it then points to memory given back.
* `mdns_leak`. `packet_received` never frees the pbuf it is given
  (`nm_mdns_lwip.c`, line 158). `udp.h`, line 65, says "The callback is responsible
  for freeing the pbuf if it's not used any more." lwIP's heap has 10240 bytes.

### A window in the UDP callback

The stronger property "`recv_from` returns a packet with its own sender" is false
of the model, and no line of the repository states it, so no run checks it. The
callback writes packet, address and port in three statements (lines 152-154). A
Nabto thread that calls `recv_from` between them gets the new packet with the
previous sender's address. A client that calls `recv_from` only after a completed
wait can still do so: a callback that dropped its packet is preempted before it
looks at `socket->ce`, the client fetches the stored packet and waits again, and
the callback then completes that wait with nothing stored. `StoredSenderMatches`
is the weaker statement that senders are right outside those three lines.

### Other behaviours

The models contain these and no property forbids them, because no line of the
repository speaks against them.

* UDP: abort and destroy leave a pending `recv_wait` unresolved (status "lost") and
  a stored packet unfreed.
* Threads: `run` keeps its semaphores when the task cannot be created.
* DNS: the `dns_resolve_event` is leaked except when the answer is immediate. An
  entry whose age has wrapped to 0 cannot be evicted.
* TCP: a read that waits is not completed by the end of the stream. A read made
  between resolve and clear is refused as in progress. `recv_callback` tests
  `inBuffer` (line 95) and appends to it (line 98), and a read in the SDK's thread
  can free it in between, so that `pbuf_cat` gets a freed head or NULL. After lwIP has freed the
  pcb, abort, destroy, write and shutdown use it; `FreedPcbIsKnown` shows that the
  flags would tell. The error callback stays set after destroy and gets a null
  socket when the peer resets a connection that is closing.
* TAP: pushes and pops that overlap can lose packets, leave `elems` wrong and link
  to a freed element. `elems++` in one thread and `elems--` in the other can lose
  the decrement; `list_pop` then goes on with the packet that is still being pushed,
  `list_push` finds `first` empty and puts the taken packet back, and the next
  `list_pop` reads it after it was freed. `ListIntact`, and the theorem
  `DefinedWithoutOverlap` for the out direction, show that nothing but overlap does.
* mDNS: a failed IPv6 join leaves the IPv4 group joined, and the device goes on
  when its socket could not be made or bound.

## Theorems

All hold for every value of the constants that satisfies the named assumptions.

* **Condition** (any finite set of threads, `SemMax` at least their number).
  `NoLostWakeup` says that blocked threads, and timed-out ones that may still
  take their registration back, are no more than the registrations, tokens and
  signallers about to give one. It is inductive together with type correctness
  and `CountNeverUnderflows`. The refinement proof uses it where a signal finds
  the count at 0: the abstract signal may do nothing only if every blocked
  thread has a token.
  `CountIsExactWithoutTimeouts` shows where the finding `cond_quiet` comes from. If
  no wait has a timeout, then threads and what is there for them are equal in
  number (`ExactInv`), so `QuiescentCountIsZero` holds and no token is dropped.
* **Core lock** (any threads, any nesting below 256). The inductive invariant
  `LockInv` relates mutex owner, counter, holder and each thread's place.
* **Composition**. Every step of `TcpipThread` is a step of `CoreLock` or leaves it
  alone, so exclusion and the exact check carry over. `PostNeverRefused` follows
  from `SlotsBalance`, which counts the places an allocated message can be in, and
  from `InpktPool + ApiPool <= MboxSize` (16 + 16 <= 100 in `lwipopts.h`).
  `PoolsBalance` and `StrandedOnlyByOthers` need `WorkInv`: each allocated message
  is in the mailbox, with the input task or with the handler. A few lemmas count
  the messages of one kind in the mailbox (`CountAppend`, `CountTail`, `CountSplit`).
  `SingleInterfaceIsPolled` delimits the finding `tcpip_stranded`: with one interface
  a list that is not empty always has a poll on its way, because the messages that
  emptied the pool are polls of that list.
* **Threads** (any objects and joiners). Holding `join_mutex` pins down the thread;
  the barrier is given only after the function has returned; each stage of the
  object fixes which task and semaphores exist.
* **UDP socket** (any senders and events). `UdpInv` adds what each place of the
  callback says about the packet and address written so far. `MemoryInv` says which
  pbufs are stored and which are in the callback's hands; `PbufsAccounted` follows.
  `WaitInv` adds where an event in each state is stored. It gives
  `PendingIsReachable`, `WaitResolvedOnce`, and for the rest of the socket's life
  `WaitsFailOnlyAtTheEnd`: an event is resolved twice only on an aborted socket
  (the finding `udp_aborted`) and lost only by the destroy of the socket storing it.
* **DNS** (tables, servers and tries of any number). The invariant is
  `RequestsBacked` and `PcbsBalance` with what an entry holds in each state: one
  being asked for has a server, a pcb and time left, a completed one the address
  of its own question. The last makes an answer from the cache the right one, and
  `RequestsBacked` makes `dns_call_found` complete pending requests only; together
  they give the refinement of `ResolverSpec!Safety`.
* **TCP** (any window and chain). The segment being handled stays acceptable while
  the lwIP thread is in the core; a live pcb belongs to an open socket or is closed
  for receiving; the states after the peer's FIN are recorded; the error callback
  runs only on a marked socket. `FreedPcbIsKnown` and `ConnectTruthful` need all of
  it: `ERR_CLSD` after the last ACK sets no flag, and is harmless because the FIN
  was recorded before. `ReadInv` adds that the callback which clears a read event
  is the one that resolved it, so a read the SDK waits for stays stored
  (`PendingReadStaysStored`). From both, `UndefinedIsExplained` says what precedes
  three kinds of undefined behaviour: a freed pcb is used only on a marked socket, a
  null socket is met only after destroy, and a null event is resolved only for a
  read already completed. The fourth kind is the subject of `OneSegmentIsLive`: if a
  second segment never arrives before the first is read (`ChainMax` at most 1), then
  `InBufferLive` holds and no freed or null pbuf is used. So the finding `tcp_chain`
  and the window before `pbuf_cat` both take a second unread segment.
* **TAP list** (any size and number of packets). For `ListIntact` the invariant says
  what the list looks like at each place in `list_push` and `list_pop`. `TakenInOrder`
  has to hold when calls overlap, where little of that is left. `OrderInv` keeps
  only that links lead to later packets, that `first` never falls behind the packet
  taken last, and that this packet is freed when `list_pop` is left. So a packet can
  come a second time only from an element that was freed.

Only model-checked: all liveness (`CasLoopsLockFree`, `LoopbackPolled`,
`PacketsHandled`, `JoinReturns`, `ArrivalCompletesWait`, `ConnectCompletes`,
`AbortCompletesRead`, `PcbReclaimed`, `AcceptedIsTaken`) and the fair parts of
`ImplementsCondSpec` and `ImplementsResolver`, because the prover has no rules for
fairness. Every safety property of a passing run is a theorem. Of the properties
that are violated, `PacketsFreed` has no conditional counterpart: `Mdns` never
frees a packet.

## Not modelled

FreeRTOS and the SDK are libraries outside this tree. lwIP is in it and makes up
most of its lines; its IP layers, TCP data transfer, PPP, SNMP, HTTP, TLS and the
other applications, the netconn and socket interfaces, which the port does not
use or goes through without sharing state with, are left out. The models cover what the port's threads
meet there: the main loop and message pools (`tcpip.c`), loopback (`netif.c`), the
DNS client (`dns.c`), the life of a connection block (`tcp.c`, `tcp_in.c`) and the
use counts of groups (`igmp.c`, `mld6.c`). So the map covers little of the tree as
a whole, and about half of the code that was written for this port and keeps
state: sockets, threads, core lock, mDNS, TAP.

Of the port itself these are left out. Address conversion and the local-address
functions copy fields. Semaphore, sleep and time wrappers in `sys_arch.c`, the
console and the demos keep no state that threads share. `lwip_port_init.c`,
`default_netif.c` and `low_level_init` run once, before the threads they start.
`free_mutex` and `free_cond` run when nothing uses the object any more.
`pcapif.c` is compiled but unused unless `USE_PCAPIF` replaces the TAP interface.
The echo servers of the integration test are fixtures that run in the lwIP
thread alone.
