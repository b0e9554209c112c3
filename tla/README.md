# Verification of CppProgramming

The repository is a collection of C, C++ and kernel programs.  Many of its
directories demonstrate one library call or language feature.  Others carry
logic of their own that is easy to get wrong, and those are the subject here:
the echo and response servers under `network/socket_epoll`, the kernel modules
under `kernel_module` (hash maps behind a proc entry, a TCP tracer, thread and
timer examples, a mapped device) and the producer/consumer programs.

## Inventory

### RingBuffer (`tcp_echo1/common/ring_buffer.h`, copied into each `tcp_echo` server)

*State*: a char array, two 64-bit counters `f` and `p` that only grow.
*Operations*: sizes, `get_blank_iovec`, `get_exist_iovec`, `add_blank`,
`add_exist`.
*Hard*: seven cases of wrapping, each wrong only at certain counter positions;
64-bit differences narrowed to `int`; counters that wrap.
*Correct means*: the iovecs cover exactly the blank or the filled cells, in ring
order, and agree with the sizes.

### Connection of the echo servers (`tcp_echo/server_epoll*_handle*.cpp`, `tcp_echo1/main`)

*State*: a RingBuffer, the registered event mask, the kernel's two socket queues
and, with edge triggering, its ready list.
*Operations*: construction, `handle`, `handle_write`, `handle_read`, `recv_buf`,
`send_buf`, their `_native` forms, `set_epollin`, `set_epollout`, deletion.
*Hard*: the client acts between any two system calls of a handler; reads and
writes are partial; the same mask is switched from two handlers; an edge is
reported once.
*Correct means*: the stream comes back unchanged, the mask follows the two rules
of `tcp_echo/outline.txt`, no client is dropped that is still there, nothing
stalls and nothing spins.

The servers differ in triggering, in flow control, and in the system calls:

| program | triggering | switches | calls |
|---|---|---|---|
| `server_epollout_epollin_handle.cpp`, `server_epoll_lt_recvmsg.cpp` | level | EPOLLOUT, EPOLLIN | recvmsg, sendmsg |
| `server_epollout_epollin_handle_native.cpp` | level | EPOLLOUT, EPOLLIN | recv, send, first segment |
| `server_epollout_handle.cpp` | level | EPOLLOUT | recvmsg; sendmsg or a send per segment |
| `server_epollout_handle_native.cpp` | level | EPOLLOUT | a recv or send per segment |
| `server_epollet_epollout_handle.cpp`, `server_epoll_et_recvmsg.cpp` | edge | nothing | recvmsg, sendmsg |

### Event loop and Acceptor (`tcp_echo1/common`, `EventLoop` and `Acceptor` in `tcp_echo`)

*State*: the epoll interest list with raw pointers, the `events` array, the heap.
*Operations*: `IOContext::run`, `Acceptor::handle`, creation and deletion of
Connections.
*Hard*: entries of one batch delete and create handlers while later entries hold
raw pointers; descriptors and addresses are reused at once; the Acceptor is a
stack object that the loop may `delete`.
*Correct means*: no stale pointer, no leak, everybody accepted, everybody
cleaned up.

The loop calls `Connection::handle` and deletes the handler when it returns -1.
That return value is the whole interface between the two: the Connection modules
say when it is returned, `IoContext` what follows from it.

### RCU hash map (`kernel_module/file/proc_entry_hashmap2`)

*State*: buckets with a spinlock and an hlist, entries of a kmem_cache, pending
RCU callbacks.
*Operations*: `pe_map_insert`, `pe_map_remove`, `pe_map_get`, `pe_map_flush`,
`pe_map_destroy`, through `entry_read`, `entry_write` and module exit.
*Hard*: readers walk lists while entries are replaced and removed under them;
the callbacks race the removal of the module.
*Correct means*: no freed entry is followed, each key is in its bucket at most
once, gets are linearizable, the cache is empty when it is destroyed, memory is
reclaimed and `rmmod` returns.

### Echo servers without buffers of their own (`tcp_echo/server*.cpp`, `ipv6_tcp_echo`)

*State*: descriptor tables, the poll array, per-thread batches of events, the
queue between acceptor and loops of the benchmark server.
*Operations*: accept, the loop, one recv and one send per event, close.
*Hard*: one buffer for all connections of a loop; numbers and indexes in a batch
that are closed and used again meanwhile; fixed tables; SIGPIPE; descriptors
that run out.
*Correct means*: every client gets its own bytes in order, an event stands for
the connection it was reported for, clients are accepted and closed, and what
loses bytes or ends the process is known.

### Request and response servers, coroutine servers (`tcp_echo`)

*State*: a request buffer, a count of responses due, a position in the response,
EPOLLOUT on or off; a coroutine per connection with what it waits for.
*Operations*: `handleRead`, `handleWrite`, `sendRes`, `recv_request`,
`send_response`; `await_recv`, `await_send`, semaphores, `start`, `handle`.
*Hard*: a response larger than the socket buffer, resumed over several events
while requests arrive; edges; loop and coroutine disagreeing on who waits.
*Correct means*: each request is answered once and in full, EPOLLOUT is asked for
exactly when needed, connections are closed.

### Echo clients (`tcp_echo/client*.cpp`, `ipv6_tcp_echo/client.cpp`)

*State*: per connection the sequence numbers sent and expected, `err_cnt`, the ring
of latency samples between the loop and main, `running`.
*Operations*: `send`, `recv`, `handle`, `run`, `report`; `send_full` and `recv_full`.
*Hard*: a receive may return part of a packet; the loop waits without a timeout
for a server that may have lost the words; two threads share the ring without
a lock.
*Correct means*: what a client says about the server is true, and it ends.

### Locked hash map and the maps' test programs (`proc_entry_hashmap1`, `example/main1.cpp`)

*State*: buckets with a spinlock and a count, the cache; per worker a key.
*Hard*: insert allocates before it locks; workers share keys.
*Correct means*: gets are linearizable (`PeMap`), the cache is accounted for, and
a message of a test program has its cause in another worker.

### Loading and unloading (twenty-five kernel modules, three copies of the hook library)

*State*: which hooks are registered and memory is held, which handlers run.
*Operations*: `insmod` with every call of the init function failing or not,
handlers on other CPUs, `rmmod`.
*Hard*: rollback half way; a handler running while its memory is freed.
*Correct means*: nothing is left behind, nothing is used that is gone.

### TCP tracer (`kernel_module/network/tcp_trace`)

*State*: filter parameters, kretprobe instances with private data.
*Operations*: a handler per probed function, on every CPU; entry and return.
*Hard*: instances are recycled; sockets are freed between entry and return.
*Correct means*: what is displayed is a live socket that passes the filter, at a
return the one of the matching entry.

### Kernel threads (`kernel_module/thread_management`)

*State*: threads, flags, a semaphore, a wait queue, a timer.
*Operations*: `insmod` starts and waits, threads work, `rmmod` stops them.
*Hard*: lost wake-ups, threads that end before they are stopped, the timer that
re-arms itself.
*Correct means*: calls return, nobody executes code that is gone.

### Mapped device (`kernel_module/device/char_device_mmap`)

*State*: two areas, open files, mappings.
*Hard*: mappings outlive the descriptor.  *Correct means*: a mapping's memory
exists.

### Producer/consumer programs (`c/process`, `c/thread/pthread`, `cpp/thread`)

*State*: a queue or ring, a mutex, condition variables or semaphores.
*Operations*: put, take, stop; main joins.
*Hard*: lost and spurious wake-ups, ways to stop that leave someone asleep.
*Correct means*: FIFO, capacity, and every program ends.

## Modules

```
RingBuffer  <-  EchoSocket  <-  EchoBuffer  <-  EchoConnection ...refines... EchoService
                                                  |-- LtFlowControl  <-  EpolloutEpollinHandle
                                                  |-- LtWriteControl <-  EpolloutHandle
                                                  `-- EpolletEpolloutHandle
IoContext
PeHashmap2 ...refines... PeMap ...refined by... PeHashmap1
PeWorkers (uses PeMap)
ModuleLifecycle, TcpTrace, Kthreads, PeHashmap1, PeWorkers, CharDeviceMmap <- MCKernelModules
SimpleServers <- MCSocketServers
ResponseServers <- CoroutineServers, EchoClients <- MCResponseServers
BlockingQueues
```

* `RingBuffer`: the class as operators on `f` and `p`.  `U64` and `U32` are the
  moduli of `uint64_t` and of the returned `int`; `ToInt` is the narrowing.
  `scatter` and `gather` are the kernel's walk of an iovec array.
* `EchoSocket` (external): the socket's queues, what `recv*` and `send*` return,
  what level-triggered `epoll_wait` reports, and the client.  A byte is its
  number in the client's stream, so a lost, repeated or displaced byte is
  visible.
* `EchoBuffer`: ring and queues together (`Store` is a recvmsg with its
  `add_exist`, `Drain` a sendmsg with its `add_blank`), and `RingInv`.
* `EchoConnection`: accept, dispatch, deletion, SIGPIPE, and the properties every
  server owes its client.  A step of the thread is one system call that moves
  bytes, with the code up to the next one; `epoll_ctl` is part of such a step
  because only the same thread's next `epoll_wait` sees its effect.  `pc` names
  the function the thread is in.
* `LtFlowControl` and `LtWriteControl` hold what a pair of sibling programs
  shares, `EpolloutEpollinHandle` and `EpolloutHandle` the programs.  The variable
  `native`, chosen once in `Init`, says which program of the pair runs.  Where
  a program loops over segments with one call each, the loop's variables are
  state and each call is a step.
* `EpolletEpolloutHandle` adds the ready list and SOCK_NOSPACE.  The code says it
  "just assume[s] the read buf is enough"; `window` is how much a client has in
  transit, and both clients that respect the assumption and clients that break
  it are run.
* `EchoService`: the promise in three actions and a counter, without rings or
  epoll.  The mapping is `held <- Held`, `open <- Open`.
* `IoContext`: events array, interest list and heap.  Whether a Connection's
  `handle` returns -1 depends on whether its client is gone.  An `accept4` that
  fails (no descriptor, or the uninitialised `addr_len` being negative) makes
  `run` delete the Acceptor; since that frees stack memory the process may abort
  or go on.
* `PeHashmap2`: a writer's critical section is one step, a reader's step is one
  pointer.  `map`, `seen` and `ret` are history: the abstract map, the values a
  running get may return, and what it returned.  `PeMap` is the abstract map.

* `SimpleServers`: eight servers; `srv` is the program.  `cn` has both ends of each
  client's connection, `thr` what each thread does.  A recv and the send that
  follows are two steps.  `nofile` is the number of descriptors the process may
  open, chosen in `Init`; accept takes a descriptor before it looks for a client,
  so without one it fails at once even if nobody is queued.  `Poller` has both
  its limits: `add_fd` refuses a descriptor from `fd_range` on, which the
  constructor does not notice, and writes past `pfds` when `max_fds` slots are used.
* `ResponseServers`: five servers with one connection each, since connections
  meet only in the end of the process and in the descriptors they use up: `rk.fds`
  says whether the others leave one, and changes as they come and go.  Lengths are
  in units.  `rk` is the kernel's and the client's side, `rs` the server's; a close
  with input unread resets the connection, and `rk.lost` is what of the response
  was dropped then.  Each program has its own actions where its code differs.
* `CoroutineServers`: the two ucontext servers over the same kernel and client.
  `co.by` says from where the coroutine was switched to, because `start` and
  `handle` do different things when it comes back.
* `EchoClients`: five clients; `client` is the program.  `net` has the words under
  way and what the server did, `ct` what each thread does.  The server is
  external: it echoes any number of words at a time, may lose what the way back
  has no room for (as the simple servers do), close and reset.  A push is two
  steps, because `data[p++ & mask] = x` stores `p` first.  `cproc` becomes
  "overwritten" when the IPv6 client writes past its packet; what such a process
  does is undefined and not followed.
* `ModuleLifecycle`: init and exit as sequences of steps (get, try, need, put,
  sync), one definition per init and exit function of the code, and a machine
  that runs them against handlers.  `KnownLeftovers` names what modules leave
  behind.
* `TcpTrace`: the probed functions with the handler's way of finding its socket,
  the filter with the narrowing of ports, and instances of return probes.
* `Kthreads`: the six examples as sequences of steps run by the module's task,
  the threads and the timer.  A test and the sleep after it are two steps.
* `PeHashmap1`: what happens under the bucket lock is one step, the allocation
  before it another.  `PeWorkers`: the test programs over `PeMap`.
* `CharDeviceMmap`: files, mappings (in pages) and the reference that a mapping
  keeps on the module.
* `BlockingQueues`: nine programs.  A thread's steps are lock, unlock, wait, post
  and signal; spurious wake-ups are possible.  `bq.life` is the queue's: in
  `std_thread/blocking_queue.cpp` it is destroyed before the threads are joined,
  and a thread that then uses it leaves a process of which nothing more is said.

The MC modules put programs that do not interact side by side, with a variable
chosen once that says which one runs, so that one run asks one question of all of
them.

Operators whose name ends in `_Something` and that are commented "Mutant" are
faulty versions used to test the properties; no specification uses them.

## Runs

| run | cfg | checks | states |
|---|---|---|---|
| `ring` | `RingBuffer.cfg` | IovecsExact: both iovec functions and the sizes at every counter position | 512 |
| `lt_flow` | `EpolloutEpollinHandle.cfg` | RingInv, FlowControl, NeverDropsClient, ServiceSpec, FlowProgress | 15 000 |
| `lt_write` | `EpolloutHandle.cfg` | StreamSafe, WriteControl, ServiceSpec, WriteProgress | 18 000 |
| `et` | `EpolletEpolloutHandle.cfg` | StreamSafe, NoLostEdges, ServiceSpec, EchoedIfEnough | 14 000 |
| `et_shutdown` | `EpolletEpolloutHandleShutdown.cfg` | ReadsUntilUnreadable: violated | - |
| `io_context` | `IoContext.cfg` | EventsLive, InterestIsHeap, ClientsTended | 100 000 |
| `pe_rcu` | `PeHashmap2.cfg` | NoUseAfterFree, MapIntact, MapSpec | 516 000 |
| `pe_rcu_fair` | `PeHashmap2Fair.cfg` | RcuProgress | 10 000 |
| `kernel_modules` | `KernelModules.cfg` | UnloadSafe, ShowsRightSockets, ReturnMatchesEntry, ThreadsAccounted, CallsReturn, HashmapSound, LockedMapSpec, MappingsSound | 71 000 |
| `socket_servers` | `SocketServers.cfg` | EchoIntegrity, EventsKnowConnections, DeathCauses, ClientsServed | 295 000 |
| `response_servers` | `ResponseServers.cfg` | AnswersExact, InterestExact, RespDeathCauses, ClientsJudgeRight, ServedAndEnded | 161 000 |
| `blocking_queues` | `BlockingQueues.cfg` | QueueExact, ProgramsEnd | 257 000 |

A property of a run is often a conjunction of named parts, each with its own
comment: `FlowProgress` for instance is `Quiesces`, `EveryByteEchoed`,
`ShutdownCloses` and `ExhaustsOneSide`.

### What the runs show

* The level-triggered servers meet both rules of `outline.txt`, whichever handler
  ran last.  The `_native` forms, which use one segment per event or stop at the
  first short call, still echo every byte.
* With EPOLLOUT control only, the busy loop that `outline.txt` announces for a
  full ring is the only one.
* The edge-triggered server loses no write.  It loses no read either while the
  client has less in transit than the ring holds; beyond that it gives the
  connection up, with a full ring and never otherwise.
* `et_shutdown` is the one disagreement between text and code: `outline.txt:195`
  asks to read an edge-triggered descriptor until it is unreadable, the code
  reads once.  If data and FIN come with one edge, the FIN is never read and the
  Connection stays for ever.
* No event is ever handled with a stale pointer, because the kernel reports a
  descriptor once per batch and the destructor unregisters it.

* The simple servers never mix up clients, although a loop has one buffer, and no
  event meets another connection, not even in `server_epoll_reuseport.cpp` where
  two loops share the descriptor numbers.  Bytes are lost only to a full window.
  `server_epoll.cpp` does not close on an error, and closes a reset connection on
  a later event.  A connection that `Poller` has refused is neither polled, nor
  served, nor closed.
* The response servers answer each request once and in full.  Their limits are
  named in the properties: the `_ref` servers forget what was read together with
  a request; `server_epollet_ref` answers part of a request when EPOLLOUT
  comes before the rest; `server_epollet_epollout_response` reads once per edge.
  `server_epollet_simple` closes once the response is sent, before it looks at
  EPOLLIN: with input unread the connection is reset, and the tail of the response
  that has not reached the client is dropped.  Answers count as given here when
  the client has read them; that reset is a way for the client to be gone.
  `AbortsHaveCauses` says that no other close resets a client in the middle.
* The coroutine servers lose no byte and no wake-up.  `start` does not look at
  `exited`: a client that has finished before its coroutine first waits is not
  closed until it resets.
* Echo clients: an error count of `client_epoll_verify` that stays where it began
  means that the stream has come back exactly, whatever the server loses.  The
  reverse does not hold: after one short receive every packet of a correct server
  is counted as wrong, because `rx_seq` stands still, and `err_cnt` begins
  uninitialised.  Round trip times are junk after a short receive for the same
  reason, and each one puts another packet under way; still nobody waits for
  ever as long as a packet fits the way back.  The clients hang when a server
  has lost words, and `client_test_epollin`, which sends everything first, when
  it sends more than all buffers hold.  The IPv6 client numbers its requests in
  `send_buf[i]`, and with its defaults (100 requests, 64 bytes) it writes past the
  packet.  Main can report a slot of the latency ring before its sample is stored.
* Loading and unloading: all init and exit functions are clean but for
  `KnownLeftovers`: `hook_func_example` leaves its kprobe planted when the
  kretprobe fails, `sched_display` and `tracepoint_example` leak counters,
  `char_device_mmap` leaks its areas when registration fails, `workqueue0` and
  `tasklet` do not cancel their work, `timer_example` does not wait for a
  callback.
* Kernel threads: `rmmod` can hang when `kthread_stop` falls between the test and
  `set_current_state` in `wait_for_kthread_stop`; `insmod` hangs when
  `kthread_run` fails, because its error pointer is not NULL; the timer of
  `kthread_example4` can be queued again behind `del_timer`.
* The tracer shows only sockets that are alive and asked for, except that its
  timer handlers take a `timer_list` for a socket, and that a port of 65536 is
  narrowed to 0, which filters nothing.
* The first page of the device's queue cannot be mapped: the page offset that
  selects the queue is also the offset into it.
* All producer/consumer programs end, except `pthread/bounded_blocking_queue.cpp`:
  clearing `running` wakes nobody, and consumers at an empty queue or
  producers at a full one sleep on while main joins, and
  `std_thread/blocking_queue.cpp`, whose main destroys the queue (declared after the
  vectors of threads) while producers and consumers that are still to be joined use
  it.  `ProgramsEnd` exempts both.

What ends a server process.  SIGPIPE: after FIN and reset wherever a send follows
and SIGPIPE is not ignored (only the two `_ref` servers ignore it); after any
reset in the coroutine servers, `server_epoll.cpp` and the IPv6 server, which go
on after a failed send (the IPv6 `send_full` tries again itself).  `exit_if` in the `_ref` servers: when a client
resets in the accept queue (getpeername), and when no descriptor is left (accept).
An `accept4` that fails, for want of a descriptor or for its uninitialised
`addr_len`, where the loop then deletes an Acceptor on the stack: free aborts, or the
process goes on without a listener and queued clients are reset.  A table overrun in
`server.cpp` (without a free descriptor every accept fails at once and uses up an
entry, so as many clients as there are descriptors are enough) and in
`server_poll_handle.cpp` (slots are never used again).

Behaviour that the models contain and no property forbids: a FIN that is read
while the ring holds bytes deletes the connection and those bytes are not echoed
(`EveryByteEchoed` exempts a client that shut down); in
`server_epollout_handle_native.cpp` this includes bytes received in the same call.

### Bounds

`max_pkt_size = 4` is the smallest ring in which both iovec functions reach every
case with segments of different lengths.  `U64 = 8` makes the counters wrap
within the `MaxBytes = 9` bytes that are sent.  `RcvCap = 4` exceeds the three
bytes the ring holds, so it can be overrun; `SndCap = 2` is less, so every write
can be partial, and `SndLowat = 2` makes the kernel report EPOLLOUT later than
send would succeed.  `ring` uses larger moduli since its states are only counter
positions.  `Windows = {3, 9}` is one client that respects the ring and one that
does not.  In `IoContext` three descriptors and five clients force reuse of both
descriptors and addresses within a batch.  In `PeHashmap2` two keys share one
bucket, so every get walks over the other key's entry; three threads are the
least with two writers and a reader; three entries let one be linked, one be
retired and one be new.  In `KernelModules.cfg` one handler runs at a time
(`MaxFiring`), enough to have it run during any step of init and exit; two
contexts call probed functions one deep with one instance (`MaxActive`), so that
instances are recycled and missed; `CalledSets` pairs `tcp_close`, which frees,
with every other function; parameters filter by local port, by remote port and
family, and with a port beyond 16 bits; two threads stand for `NR_THREADS = 4`.
In `SocketServers.cfg` two clients send two bytes and one, `BufSize = 2` takes
what `SndCap = 1` does not, two descriptors let numbers be used again, and
`MaxConns = 2` is filled by two clients, or by one and a failed accept.  The server
over poll has a third client, which sends nothing and leaves by a reset, and either
one descriptor or three: `MaxFds = 3` slots are filled by the listener and two
connections so that a third overruns them, and `FdRange = 3` refuses the third
descriptor.  `MaxEntries = 2` bounds the entries that failed accepts make in the
benchmark server's loop; there and over poll the first client sends one byte, and
there the second none.  In `ResponseServers.cfg` a response of three
units does not fit the window of two, and six units are three requests of two,
more than the buffer of five holds.  For the
clients a packet of two words can come back in two pieces, one of five
(`SyncSizes`) is more than both ways hold (`UpCap`, `DownCap`); two connections
have packets of one word (`MaxFirst`) and one report; `MaxPkts = 4` is enough for errors after a
short receive and for the loop to go round a latency ring of two, and the third
of `Requests = 3` is the one that is written past a packet of two words.  In `BlockingQueues.cfg` two producers and two
consumers share a queue of two; one spurious wake-up (`MaxSpurious`) can come at
any wait; `MaxPut` ends the program whose stop is a matter of time.
Deadlock is not checked where a system may come to rest: a
client that sends no more leaves the thread in `epoll_wait`.

### Fairness

The loop thread is weakly fair: it runs whenever it is not blocked in
`epoll_wait`.  The client owes nothing; what it has to do for a byte to be echoed
is a premise of the property (`KeepsReading`), not an assumption on the
specification.  In `IoContext` likewise only the loop is fair.  In `PeHashmap2` a
call that has begun goes on (kernel code with bottom halves or preemption
disabled cannot stop half way), callbacks run after their grace period, and
`rmmod`, once begun, is carried out; nothing obliges a process to make a call.

In the other models, too, weak fairness is for those who are scheduled whatever
happens: init and exit of a module, queued work, and a handler that is waited
for (handlers do not block); kernel threads, the module's task and the timer;
loop and worker threads of the servers; producers, consumers and main.  The
response servers add that a client which has something to read reads it
(`RespFair`); a client need not send, finish or reset.  For the clients both
threads run, the timer goes off, and a server that is there echoes what it can
(`ClientFair`); it need not close or reset.

## Proofs

| module | theorem | states |
|---|---|---|
| `EchoConnectionProofs` | `BlankIovec`, `ExistIovec` | the iovecs are exact for all sizes and positions |
| `EpolloutEpollinHandleProofs` | `RingCorrect` | `Spec => [](TypeOK /\ RingInv)` |
| | `FlowControlled` | `Spec => []FlowControl` |
| | `ClientNeverDropped` | `Spec => []NeverDropsClient` |
| | `ImplementsService` | `Spec => ServiceSpec` |
| `EpolloutHandleProofs` | `StreamIsSafe` | `Spec => []StreamSafe` |
| | `WriteIsControlled` | `Spec => []WriteControl` |
| | `ImplementsService` | `Spec => ServiceSpec` |
| `EpolletEpolloutHandleProofs` | `StreamIsSafe` | `Spec => []StreamSafe` |
| | `EdgesAreNotLost` | `Spec => []NoLostEdges` |
| | `ImplementsService` | `Spec => ServiceSpec` |
| `LoopsAndQueuesProofs` | `NoStaleEvent` | `Spec => []EventsLive` |
| | `NoLeak` | `Spec => []InterestIsHeap` |
| | `QueuesAreExact` | `QueueSpec => []QueueExact` |
| | `AnswersAreExact` | `MCSpec => []AnswersExact` |
| | `InterestIsExact` | `MCSpec => []InterestExact` |
| | `ResponseDeathHasItsCause` | `MCSpec => []RespDeathCauses` |
| `PeHashmap2Proofs` | `NoGetUsesFreedMemory` | `Spec => []NoUseAfterFree` |
| | `MapStaysIntact` | `Spec => []MapIntact` |
| | `ImplementsMap` | `Spec => MapSpec` |
| `KernelModulesProofs` | `MappingsAreSound` | `Spec => []MappingsSound` |
| | `ImplementsLockedMap` | `Spec => LockedMapSpec` |
| | `HashmapIsSound` | `Spec => []HashmapSound` |
| | `ShownSocketsAreRight` | `Spec => []ShowsRightSockets` |
| | `ReturnsMatchEntries` | `Spec => ReturnMatchesEntry` |
| | `ThreadsAreAccounted` | `Spec => []ThreadsAccounted` |
| `SocketServersProofs` | `EchoIsIntact` | `SimpleSpec => []EchoIntegrity` |
| | `EventsAreNeverStale` | `SimpleSpec => []EventsKnowConnections` |
| | `DeathHasItsCause` | `SimpleSpec => []DeathCauses` |

`EchoConnectionProofs` also has the lemmas the three server modules share.
`LoopsAndQueuesProofs` holds three components that share nothing but the shape of
their argument.  `MCSpec` is the specification of `MCResponseServers`, the response
and coroutine servers with the clients beside them.

*Assumptions.*  `RingAssumption`: the ring size is above 1 and divides `U64`; the
int is wide enough for twice the ring; `U32` divides `U64`.  `SocketAssumption`:
queues are not empty-sized and the low-water mark fits the send queue.
`IoAssumption`: finitely many descriptors, at least as many addresses, all
distinct from the Acceptor's.  `PeAssumption` and `Pe1Assumption`: the entries are
finitely many, the hash maps keys to buckets, and NULL is no value.
`DevAssumption`, `WorkersAssumption` and `TraceAssumption`: sizes are natural
numbers, "nothing" is none of the things there are, and only functions with a
return probe are called through one.  `KthAssumption`: there is at least one
thread.  `QueueAssumption`: both sides have threads, producers have items, the queue
has a slot, and the watched count is one that is reached.
`SimpleAssumption`: there is a client and a descriptor, buffers have room, and the fixed
tables have at least one entry (the first of `pfds` is the listener's).
`ResponseAssumption` and `CoAssumption`: requests, responses and buffers have at least
one unit, a buffer is longer than a request, the window admits something.  TLC
evaluates all of them.

*Ring.*  `EchoConnectionProofs` first proves the arithmetic of `%` the provers lack
(unique remainder, remainder of a remainder, at most one wrap for a step below
the modulus), then the sizes, then each case of the iovec functions.
It goes on to prove that `Store` and `Drain` through any initial part of
those iovecs keep `RingInv`; it knows no server.  `RingInv` is inductive only with `Counters` and `Contents` beside the stream
property itself: the k-th byte sent is right because the k-th byte sits in its
cell until then.

*Flow control.*  `FlowControl` speaks of `epoll_wait` only.  `FlowInv` extends it
into the handlers: both rules hold until `recv_buf` has run, between `recv_buf`
and `send_buf` only the one for EPOLLIN.  That is also why `handle_read` has to
call `send_buf`.

*Both programs.*  `BlankParts` and `ExistParts` show that the whole iovec and its
first segment are both initial parts of the blank or filled region, and
`ServerSteps` reduces every step of either program to one receive or transmit
over such a part.  The theorems therefore hold for both values of `native`.

*Write control only.*  `LoopInv` says of every place in the segment loops what the
loop's variables still have to do with the ring (the segment in hand is an
initial part of the blank or filled region at every call); `HandleInv` carries
"EPOLLOUT iff not empty" through `handle_write`; once bytes may have been received
only "on means not empty" is left of it until `send_buf` has run.

*Edges.*  `NoLostEdges` speaks of the sleeping loop: nothing it could write and,
for a client within its window, nothing to read.  `EdgeInv` extends that into the
handlers: one on its way to `recv_buf` has something to read, and past it, or on a
way without it, the queue is empty unless an event came meanwhile.

*RCU map.*  `NoUseAfterFree` follows from an invariant in eight parts, the first
five of which need each other.  `ListsInv`: what a bucket leads to is allocated,
of that bucket, one entry per key, and no entry leads back to itself;
`OwnersInv`: every other allocated entry is one writer's new one or waits for its
grace period, once; `ReadersInv`: whatever a running get can still reach from
where it stands is allocated, and if it was unlinked its callback waits for this
get.  The last holds although unlinked entries keep their next pointer, because
what they point to can be unlinked only later, with a callback that waits for the
same get.  For linearizability `MapInv` ties the lists to the abstract map and
`SeenInv` says what a get may still find among the entries ahead of it: either
its key's entry is ahead, with a value the key had since the call, or the key was
absent at some moment since.  `Walk` is defined as the least set that is closed
under next, so that these facts need no induction: an entry is in it iff it is
in every closed set, and a lemma per list operation names the closed set that
shows what unlinking or replacing does.

*Locked map.*  The same parts without readers inside the lists.  `Pe1Map` holds
only while somebody can look: `pe_map_flush` empties the abstract map at its first
bucket.

*Test programs.*  `WFinds`: as long as nobody else changed its key a worker finds
it, and a get under way has seen nothing but values; in hashmap1's program this
holds for every worker whose insert did not fail.

*Tracer.*  `TraceCalls`: an instance in use holds the socket its own call was
entered with or nothing, what it holds passed the filter, and the socket exists
unless the call is `tcp_close`.  The port arithmetic needs that a number below
2^16 is its own remainder.

*Threads.*  `TaskInv` and `ThreadInv` say what the module's task and every thread
have left to do, as one of a few sequences or, for the loops over `NR_THREADS`, by
their length: init has started as many threads as its sequence has lost
`kthread_run`s, exit has joined as many, and a thread that is past its loop has
been told to stop.  `FlagInv` and `SemInv` are why insmod returns after the work:
the threads past `up()` are as many as the semaphore's units and init's `down()`s
together, so `NR_THREADS` `down()`s mean all of them.  `TimerInv` follows the timer
through exit.

*Blocking queues.*  `TakenInOrder` and `CapacityKept` are not inductive: that a
consumer let in finds an item needs to know who has put one and not posted.
`ItemsAccounted` (items = full + producers before their post + consumers between
their wait and their take) and `SlotsAccounted` (the same for empty, the other way
round) give both, with `QMutex` and `SlotsExact`: p is f plus the size, and the slots
from f hold the items.  A put then writes a slot that holds none, because positions
less than a ring apart have different slots.  `Effect` names the five things a step
of any program can do to the state (wait, post, put, take, or nothing that is
counted); the invariant is shown to survive each of them once, and each operation of
the nine programs to be one of them.

*Simple servers.*  The echoed stream alone is not inductive: bytes are in the thread's
buffer between recv and send, and that buffer belongs to the loop, not to the
connection.  `StreamInv` says of every client that what it got, what the thread
that owns its connection has in hand for it, and what is still to be read are, in
this order, increasing numbers of its own bytes, and all of them while nothing was
lost.  That a thread has something in hand for one connection only, and for an open
one of its own, comes from `ThreadInv`: the thread sends for an event of its batch,
and every event of a batch stands for an open connection of that thread, once
(`EventOK`).  This survives the closing of other connections because an open
descriptor names one connection (`FdOK`), and an accept because its descriptor was
free.  In the benchmark server an event carries an index into `conns` instead;
`BenchInv` says that
an open connection is in the two lists of its loop at most once, so the entry
`rm_conn` clears is not one another event points at.  `PollInv` gives `Poller` one slot and
one handler per open connection whose descriptor is in range (`SlotOK`) and none to a
refused one, and counts the slots: the listener's and one per connection that was
ever taken in (`ListedOnes`).  `TableInv` counts: the
threaded server's index is the number of accepted connections until an accept fails,
which happens only when `nofile` clients have been accepted; both overruns follow.

*Response servers.*  `NoExtraResponses` compares two totals, and neither grows in step
with the other: `RespInv` is the account of what lies between.  `simple`: what the
client got is what was sent, no more than one response.  `server_epollet_ref` and
`server_epollout_ref`: r whole responses and `pos` units of another were sent, each
for something (a unit; a whole request) that has been read from the socket and not
been used before; the response under way has its own, which is why `UnderWay` counts
one more.  The two `_response` servers: q requests were taken from the ring, and what
the client lacks of q responses is exactly `cnt` responses and the rest of the one
being sent, so a partial send changes both sides alike.  `RespInterest` is
"EPOLLOUT iff busy" everywhere but inside `send_response`, which may be late in
switching it off; `ShutSeen` is needed for the deaths: a connection whose error was
reported is not written to again.  A reset by the server's end moves nothing in the
account, since it counts what was sent to the client, not what the client read.

*Coroutine servers.*  The coroutine has bytes in hand exactly while it sends or
waits to send (`CoHands`), so sent = got + in hand + queued until an error
(`CoLossless`).  `CoWaits` gives loop and coroutine the same view: never two
semaphores posted, and nobody waiting before it was started.

*Device.*  `DevInv`: the device is registered while a file is open or something
mapped, and then both areas exist.

*Event loop.*  `EventsLive` is not inductive: handling one entry keeps the others
live because no descriptor occurs twice (`OnePerFd`), because heap and interest
list agree, and because the Acceptor's entry implies a waiting client
(`AcceptPending`).

### Only model-checked

Every liveness property (fairness and ENABLED are beyond the prover);
`ExhaustsOneSide`; `UnloadSafe` of `ModuleLifecycle`, a statement about twenty-five
fixed tables which TLC goes through completely but for the number of handlers that
run at once; and `ClientsJudgeRight` of the clients.  `IovecsExact` of `MCRingBuffer` is the
bounded counterpart of `BlankIovec` and `ExistIovec`.  `TypeOK` of
`EpolloutEpollinHandle` and of `IoContext` is proved and not listed in their runs.

## Not modelled

* The clients' rates, averages and percentiles (`ThroughputTracer`, `get_p99`), and
  `client_test_epollout.cpp`, which sends one request and reads.
* UDP and unix-socket examples, eventfd, timerfd and dup examples, event loop and
  thread loop examples: calls in sequence, or a flag and a join.
* Kernel synchronization examples: one primitive called from one thread.
* What probes and proc entries print; the contents of netlink messages.
* `netlink_test`'s handler between `netlink_kernel_create` and the assignment of its
  result to `nlsk`, and `show_fds` of `server_poll_handle.cpp`, which looks a removed
  slot's handler up at -1 to print it.
* `vmalloc` failing in `pe_map_flush` of `proc_entry_hashmap2.c:259`, which is not
  checked there.
* Language and library demonstrations, `c/demo` (system call interposition among
  them, which forwards each call), and the asio examples, which are third party.

## Plan

What is left is a proof of `ClientsJudgeRight`, for any number of connections and
any sizes of packets.

Sibling programs share a module and a run, with a variable chosen in `Init`, where
they differ in a few functions.
