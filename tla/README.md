# Verification of the CSC469 assignments

TLA+ models of the programs in `src/`, checked with TLC on small instances and,
for the invariants that matter most, proved with TLAPS for every value of the
constants. Paths below are relative to `src/`.

## 1. The system

The repository holds three independent programs.

| part | source | state | operations |
|---|---|---|---|
| A3 chat server: members and rooms | `A3/server_util.c`, `A3/server_main.c` | the member list, the room list and one list per room, of malloc'd nodes; counts; a quiet flag per member, an empty flag per room | register, room list, member list, create room, switch room, quit, keep alive (TCP); chat message (UDP); time-out sweep |
| A3 chat server: connections | `A3/server_main.c` | `fd_table`, `max_fd_idx`, `maxfd`, `allset`, what `select()` returned | accept, read one request per connection, close; exit when `select()` fails |
| A3 chat client | `A3/client_main.c`, `A3/client_util.c` | registered name and id, the suffix tried, the server's address, whether it is in a room | one TCP connection per request with retries, heartbeat, reconnect and return to its room, chat over UDP, shutdown |
| A3 receiver | `A3/client_recv.c` | a forked process, one System V message queue between it and the client | find the queue, bind a port and report it, print messages, quit on a control message |
| A3 location service | external; used by `A3/client_util.c`, `A3/server_util.c` | which server is alive | looked up over HTTP by the client |
| A2 a2alloc | `A2/allocators/a2alloc/a2alloc.c` | one heap per CPU and a global heap of superblocks in fullness bins, large blocks, one lock per heap, one for `mem_sbrk` | `mm_init`, `mm_malloc`, `mm_free` by several threads |
| A2 kheap | `A2/allocators/kheap/kheap.c` | page references in per-size lists, one global lock, big free chunks | `mm_malloc`, `mm_free` |
| A2 libc allocator, memlib | `A2/allocators/libc`, `A2/util` | break pointer | `mem_sbrk` |
| A2 benchmarks | `A2/benchmarks/*` | threads, barriers, a shared block array | larson, threadtest, linux-scalability, cache-* |
| A1 | `A1/*` | none | measure timer interrupts and NUMA distances, plot |

How they interact: a client sends each control request on a TCP connection of
its own, which the server's `select()` loop accepts into `fd_table`, reads in a
later round, answers and closes. Chat messages go by UDP and are relayed to the
members of the sender's room, to the port of the receiver process the client
forked. The server and its handlers share the linked lists; the sweep, which runs
when `select()` times out, walks the lists it unlinks nodes from. In A2, threads
share the heaps under locks; the benchmarks drive the allocators.

What is hard: hand-made linked-list surgery under arbitrary sequences of requests
and sweeps; the sweep freeing nodes while it walks; the bookkeeping of
descriptors; retries of requests that are not idempotent, against a server that
forgets silent members; the order of locks, and blocks freed by another thread
than the one that allocated them. `PROJECT.json` lists each hazard at its line.

## 2. Modules

| module | models | extends / composes |
|---|---|---|
| `LinkedLists` | the pointer surgery the C code repeats: append, unlink, walk, and what a correct chain and list is | – |
| `LinkedListsProofs` | lemmas about them, for lists of any length | `LinkedLists` |
| `ChatDefs` | message types (`A3/defs.h`) and the reply record | – |
| `ChatServer` | A3 server: objects, lists, handlers, sweep | `LinkedLists`, `ChatDefs` |
| `ChatServerProofs` | invariants of `ChatServer`, and that it implements `ChatService`, for every instance | `ChatRefinement`, `LinkedListsProofs` |
| `ChatService` | abstract specification: what the server promises, without lists | `ChatDefs` |
| `ChatRefinement` | the refinement mapping from `ChatServer` to `ChatService` | `ChatServer`, instance of `ChatService` |
| `ControlSessions` | the `select()` loop and `fd_table` | – |
| `ControlSessionsProofs` | its invariants for every instance | `ControlSessions` |
| `ChatClient` | clients, their connections, server crashes | instance of `ChatService` |
| `ChatClientProofs` | invariants of `ChatClient` for every instance | `ChatClient` |
| `Hoard` | a2alloc, small blocks: heaps, bins, locks | `LinkedLists` |
| `HoardProofs` | invariants of `Hoard` for every instance | `Hoard`, `LinkedListsProofs` |
| `SuperblockLayout` | a2alloc: where in a page a block is put, real sizes | instance of `Allocator` |
| `SuperblockLayoutProofs` | no block over another, for every class and number of blocks | `SuperblockLayout` |
| `LargeBlocks` | a2alloc: chunks of pages | `LinkedLists` |
| `Allocator` | abstract specification: what `mm_malloc` and `mm_free` promise the program | – |
| `Kheap` | kheap: page references, blocks, chunks | instance of `Allocator` |
| `KheapProofs` | its invariants, and that it implements `Allocator`, for every instance | `Kheap` |
| `ChatReceiver` | the client's two processes and the queue between them | – |
| `ChatReceiverProofs` | its invariants for every instance | `ChatReceiver` |
| `MCChatServer`, `MCChatRefinement`, `MCControlSessions`, `MCHoard`, `MCChatClient` | symmetry sets and views for the runs | the module of the name |

How they correspond to the code. Variables have the names of the globals and of
the structure fields, a field being a function from the addresses of the objects.
Actions have the names of the functions or of what they do. `PROJECT.json`, `map`,
gives for every definition the lines it stands for.

* `ChatServer`. The server is one process and runs a handler to its end before it
  calls `select()` again, so one action is one handler (`process_*`), with the
  lookup of the sender, the marking of its quiet flag and the reply. The sweep is
  one action per iteration of its two loops, with the cursors `mt` and `rt` as
  variables, because it frees what it walks over. `pc` is where the process is; at
  `"down"` it has died. Fields of a freed object are `NULL`, which is also what
  keeps the number of states small; that nobody reads them is an invariant
  (`NoDanglingRoom`, `CursorsOK`), not an assumption. Random ids are any unused
  id: `generate_unique_id` draws until it finds one. A room name of 24 characters
  (`FullNames`) is let through by `create_room`, but `room_name` has no place for its
  terminator: `strcpy` puts it into the lowest byte of `next_room`. Such a name is
  `Readable` while `next_room` is NULL or an address whose lowest byte is zero
  (`Zeroed`), and garbled otherwise; searches see readable names only and stop at the
  first match (`FirstNamed`).
* `ChatService`. Per id the name and the room, the rooms, who was heard from since
  the last sweep, and which rooms were already empty. A sweep is one step. Rooms are
  handles with a `title`, so that two rooms may have one name. Of a full name less is
  promised than of others: a search may miss its room, so that a second room of that
  name may be created, and the list may show it garbled.
* `ControlSessions`. Requests are opaque here: one is answered, or ends the server
  (`RequestFatal`). `accept()` may fail (`AcceptFails`). `rset`, `num_ready_fds` and
  `tmp_fd_idx` are kept as in the loop; the kernel hands out the lowest free
  descriptor; clients connect, send and hang up between any two steps.
* `ChatClient`. A request is a connection: `Connect`, then the server's `Serve`,
  then what the caller does with the answer. `ReadFails` loses an answer the server
  has already given, `Hangup` is the end of file of a dead server. `Rests` forgets
  the locals of a call that is over. `standing` is a history variable: the id a
  client is registered under as long as nothing but its own answered requests
  changed what the server knows of it. It lets the properties speak about a
  client that has not been swept or forgotten behind its back. `missed` is one too: the
  room of a switch the server made and whose answer was lost, until another switch or
  registration is answered. The empty room name (`Blank`) is a name like others to the
  server; as `last_channel` it stands for no room.
* `Hoard`. One action is what a thread does under the locks it holds; `HID`, read by
  `mm_free` before it locks, is read in an action of its own. `mm_free` gives a superblock
  to the global heap without that heap's lock, so this has two halves between which
  another thread can come: `ShedReads` reads the head of the global bin and the counters,
  `ShedWrites` writes what follows from them. The writes themselves are one step.
* `SuperblockLayout` keeps the real page of 4096 bytes and the nine classes, for
  one superblock. In the classes from 256 on, block 0 lies over the superblock's header
  and `find_block` may return it. Once the program has it (`covered`), the map is what the
  program wrote there: `WildMalloc` then returns any place, in use or not.
  `LargeBlocks` has one action per section under a lock.
* `Allocator` is what both of them, and `Kheap`, are for: a block lies in the
  segment, overlaps no other one, and stays until it is freed. Metadata are not
  part of it; `HeaderIntact`, `FindsBlock` and `covered` say where they are overwritten.
* `Kheap`. `mm_malloc` and `mm_free` hold `malloc_lock` from beginning to end, so each
  is one action. A page reference is its address in units of its size, so the page
  it lies in can be told from it. Lists of references are sequences. `npages` is the
  first word of a chunk, which the code reads wherever it takes an address for a
  chunk. The free list of a page is kept in its order, since a block is found by it.
  A reference keeps the lower 32 bits of its page's address (`PR_PAGEADDR`; `FRAMES` is
  the number of frames these can tell apart). A small block of a page beyond them is not
  recognised when it is freed and goes among the free chunks (`strays`; `ahead` is how
  many true chunks lie before the first). A request for a chunk that is given one of them
  (`FromStray`) may get a place inside other blocks: from then on the state is `wild` and
  nothing is claimed of it.
* `ChatReceiver`. One action is what happens between two system calls that another
  process could notice: `msgget`, `msgsnd`, `msgrcv`, `msgctl`, `unlink`, `waitpid`. So
  `MakeQueue` (`msgget`), `KeepQueue` (its result stored in `ctrl2rcvr_qid`) and `Fork` are
  steps of their own, and `MakeFails` is any other error of `msgget`. Clients
  of one user share the name space of queues, and `ftok` may give two files one key,
  at once or because one file follows the other on the same inode. `Interrupt` is the
  handler of Ctrl-C, which calls `shutdown_clean` wherever the program is, in another
  `shutdown_clean` too; the copy of it that runs in the forked child before `execvp` is left
  out. `Killed` is the window of the receiver closed, or `xterm` not
  started. Registering and the commands are in `ChatClient`; here the client is at
  `"main"`. `maker` and `disturbed` are history variables: the client that made a
  queue, and the clients whose queue another one removed, opened or wrote to. So is
  `unkept`: clients that Ctrl-C took out between `MakeQueue` and `KeepQueue`.

## 3. Runs

| run | instance | what it shows |
|---|---|---|
| `ServerLists` | 3 members, 2 rooms of 2, 3 ids and names; room names: an ordinary one, a full one, one too long | however requests and sweep steps interleave, the lists are what they should be, nothing freed is reached, and every reply, relay and removal is one `ChatService` allows |
| `ServerSweep` | 2 members, 3 rooms of 1, an ordinary and a full room name, one room address with a lowest byte of zero | ids, member names and names that are not full stay unique while full names are lost, found again and duplicated; with fairness, silent members and empty rooms leave |
| `ServerLoops` (violated) | 1 member, 2 rooms | after the sweep removed the last room of the list the next create kills the server |
| `Sessions` | 3 clients, 2 slots | table, descriptor set and kernel agree and, with fairness, every connection is served, until there is one connection too many or a request ends the server; `accept()` may fail; the countdown is exact even after an overflow |
| `Clients` | 1 client, 2 ids, 2 user names (one without room for a suffix), 2 rooms of 1, the room names golf and the empty one, suffix 1, 2 attempts, 1 reconnection | a client acts under its own registration, whatever was lost; the room it shows is the one it is in unless the answer to a switch was lost, and then it is in the room of that switch; it never tries forever; abandoned registrations go |
| `Receiver` | 2 clients whose files share a key, a queue with that key left by an earlier program, 2 ports, 2 polls, queues of 3 | the port told to the server is the one bound; no queue goes before its receiver; an exit leaves neither process nor file, and no queue but one whose identifier Ctrl-C kept from being stored; with fairness, starts and shutdowns end but for the two cases `StartEnds` and `ShutdownEnds` name |
| `HoardSizes` | 1 thread, 2 sizes, 3 superblocks of 8 bytes, K = 1 | all paths of `mm_malloc` and `mm_free`, to exhaustion: maps, bins and counters agree, the emptiness test finds a superblock |
| `HoardThreads` | 2 threads, 2 CPUs, 4 superblocks, K = 4 | blocks freed by the other thread while no superblock leaves its heap: no list breaks |
| `HoardStale` (violated) | 2 threads, 1 CPU, K = 1 | the heap is read before its lock is taken: the wrong heap is charged |
| `Layout` | the nine size classes, 8 blocks, 3 once the header is covered | blocks are found when the search promises one and keep off a reserved header; they do not overlap (`Allocator`), in the classes from 256 on until the block over the header was given out |
| `LargeFree` (violated) | 1 thread on CPU 0, 4 pages | a chunk in use is in the free list |
| `Kheap` | 5 pages of 12 bytes, the last with an address that is cut off, 2 references to a page, sizes 4 and 6, chunks of 1, 2 and 3 pages | to exhaustion: every page has one use, every block is free, held or astray, references are in one list, blocks are apart (`Allocator`), up to the request that is given a stray block |

Why the bounds are enough.

* Lists: three members make a list with a head, a middle and a tail, which are the
  cases of every unlink; two rooms make a switch, and a last room with a
  predecessor. `ServerSweep` has three rooms, so that a full name can be lost, created a
  second time and found again. The theorems below cover every other number.
* `Clients`: one client is enough for several registrations of its own, since an
  answer that was lost leaves a ghost that holds a name, a place in a room and an
  id, and so plays the other members. Two ids allow one ghost beside the client.
  A room of one lets a room be unavailable when it rejoins. Suffixes
  and attempts are cut: one suffix, so that a taken one is reached (from 99); two attempts at
  a request, so that an answer is lost on the last and on one before it (from 10); one
  at reconnecting (from 5), after which a second reconnection may follow as soon as the
  first has registered. The theorems cover any number of clients
  and attempts, and every suffix of one digit.
* `Sessions`: with two slots the table has a first, a last and a hole, and with three
  clients it overflows.
* `Hoard`: a superblock of 8 bytes with a header of 2 has, at sizes 1 and 2, reserved
  blocks and every fullness; 3 superblocks let one be global, one nearly empty and
  one searched. With K = 4, as in `HoardThreads`, no superblock is ever given away,
  because the fault of `HoardStale` would hide everything behind it; four
  superblocks and three live blocks keep that run from running out of memory.
* `Kheap`: five pages are enough for a page of references, pages of either size, a
  chunk that is carved and one that fits, and for a reference that is left without a
  page. Two references to a page let a second page of references be needed; sizes
  4 and 6 cut a page into three and two blocks; a length of 6 is the smallest that is
  given a chunk, 9 the smallest that needs a second page for the first word. `FRAMES` is
  the last frame, whose address is cut off, so that pages on either side of the 32-bit limit
  are used in one run.
* `Layout`: eight blocks fill a superblock of each class from 512 on and pass the header in
  every class. With the header lost nothing is known of places, so three blocks
  (`MAX_WILD`) are enough there.
* `Receiver`: two clients make every race there is about one key. The queue that is left
  over lets a queue be made by one client after the other has removed one and before
  it makes its own; once it is gone, a client that comes later starts on a clean
  machine. Queue identifiers start at 0, as in Linux, where a client's identifier also
  starts. A queue of three
  holds the answer and the two requests to quit that an interrupted `shutdown_clean`
  sends, so that only notices of switches can fill it. Two polls in place of twenty
  make the first and the last.
* Symmetry is used in runs without liveness properties only, over values no
  module orders.
* `ServerLists`, `ServerSweep` and `Clients` have a VIEW without `reply`, the answer the last
  step gave. No guard and no invariant reads it, and what a step does to it (set it or leave
  it) does not depend on what it was, so states that differ in `reply` alone have the same
  steps. `ImplementsService` looks at what a step does to it; the theorem `Refinement` has no
  view. In `Clients` the view also puts names for the handles of rooms, which nothing
  tells apart.

Fairness. The server is not blocked by anything but `select()`, so its own steps
(`StartLoop`, `SweepStep`, `Server` in `ControlSessions`) are weakly fair. So is the
time-out: the interval is passed to `select()` once and Linux counts it down over the
calls in between, so traffic delays a sweep but does not prevent it. `accept()` is strongly fair: it may
fail any number of times, but not for ever. A client that is
not waiting for its user goes on, and a request that arrived is answered or its
connection closed. In `ChatReceiver` either
process goes on unless it waits, since both are ordinary processes that poll; the
receiver may be killed. Nothing is asked of users, of the network or of the operator:
requests may fail for ever and a server that is down may stay down.

`CHECK_DEADLOCK FALSE` is set in `HoardSizes`, since `mm_malloc` returns NULL with its
heap locked when memory is exhausted (see 5), after which the one thread waits for
itself, and in `Receiver`, where all programs end.

## 4. Proofs

`ChatServerProofs`, from `AddressAssumption` and `LimitAssumption` (NULL is no object,
0 no id, the limits are positive), for any number of members, rooms and names:

* `MemberListCorrect`, `RoomMembersCorrect`, `RoomListCorrect`, `RoomTailCorrect`: each list
  is exactly the set it stands for, linked as it should be, its count is exact, and the
  pointer to its end is good or NULL;
* `NoDanglingRoomCorrect`, `CursorsCorrect`: nothing freed is reached;
* `SearchesUnambiguous`: ids, member names and room names of fewer than
  MAX_ROOM_NAME_LEN characters are unique, also while full names lose their terminators
  and are given to a second room;
* `TypeCorrect`: no count passes its limit.

The invariant `IInv` has four parts, each over variables of its own so that an action
that leaves them alone preserves the part by a frame lemma: `MemberInv` (the member
list, and that ids and names are unique), `PlaceInv` (who is in which room, and the
rooms' lists), `RoomInv` (the room list) and `CursorInv` (the cursors). What is to be
shown is not inductive alone. `UnlinkedOK` is needed because append writes only the
pointers it has to: a node that is in no list must already point nowhere, which is
why the order of the assignments in `remove_member` and `process_switch_room_request`
matters. `RoomTailOK` is the weak truth about `room_list_tail`: last or NULL.
`CursorsIdle` says that no request is handled while a cursor is alive. A list is a
sequence that runs through the set (`IsChain`); the lemmas of `LinkedListsProofs` say
what append and unlink do to it.

`Refinement`, in the second half of that module: that every run of `ChatServer` is, through the mapping
of `ChatRefinement`, a run of `ChatService` (`ImplementsService`). Each request maps to the
request of that name; the first step of a sweep maps to the service's sweep and the rest of
it to no step. That needs more than `IInv`: `RInv` adds what the flags say. A room marked as
empty is empty (`EmptyFlagged`), so that the sweep removes the rooms the service says; the
members the cursor has passed are marked as quiet (`QuietBehind`), so that at its end
everybody is. The rooms and members ahead of the cursor are what `Walk` reaches from it, of
which the `Walk` lemmas of `LinkedListsProofs` say how it changes when a node behind the
cursor is unlinked.

`ChatClientProofs`, from `ClientAssumption` (names distinct from NULL, the empty room
name among them, suffixes of one digit, at least one attempt), for any number of clients:

* `ActsAsItselfCorrect`: a client in its main loop uses the id of the registration that
  stands, and not that of one before a reconnect or of one whose answer was lost;
* `RoomAsShownCorrect`: it is in the room it shows or, if the answer to a switch was lost,
  in the room of that switch (`missed`) until another is answered;
* `TypeCorrect`: attempts, retries and suffixes stay within bounds.

Both hold only while the client is in its main loop; the invariant must follow them
through a request. `CallOK` ties the request to the state of the program, so that an
answer of success can be one to that request only (`AnswerOK`). `PlaceOK` says where
the server has put the client before and after the answer is there: in the room asked
for, if the answer says so, in the old one otherwise, the old one being the room shown or
the one missed (`Place`). `PlacesOK` (who is not registered is in no room, and a room
somebody is in exists) and `TitlesKept` (rooms that stay keep their names) are what makes a fresh registration agree with the client, which enters
`rejoin` believing in a room it is not in. `HandlesEffect` splits what the server can
do with a request into three: it changes nothing for those who stay, it registers, or
it moves one member.

`ControlSessionsProofs`, from `SessionsAssumption` (finitely many clients, at least one slot):

* `TableCorrect`, `CountdownCorrect`, `TypeCorrect`: the properties of the run;
* `ScanStaysInTable`: the scan reads no slot behind the table, although `max_fd_idx` points
  there after an overflow. It is the countdown that stops it;
* `LoopEndsByOverflow`, an action property: the loop ends in the handling of a request or by
  an overflow of the table. Of what a request does it says nothing; `ServerLoops` shows one
  that ends the server.

`TableInv` is `TableOK` with what holds after an overflow (the table without the connection
closed); `EnvOK` says that each client is in one place, in the backlog or behind one
descriptor, so that the kernel always has a descriptor to give; `ReadyInv` and `ScanInv` say
that what `select()` returned is still open and that `tmp_fd_idx` is the highest slot in use
the scan has passed, which is why it may be the new bound.

`ChatReceiverProofs`, from `ReceiverAssumption` (a queue holds at least an answer and two
requests to quit), for any number of clients, keys and ports:

* `PortAgreedCorrect`, `QueueOutlivesCorrect`, `LeavesNothingCorrect`, `TypeCorrect`. The third
  excepts a queue whose identifier Ctrl-C kept from being stored (`unkept`).

The invariant follows three things. `ControlOK`: what has been made when the control process
is at a place, wherever Ctrl-C interrupted it. `QueuesOK`: which identifiers are queues, and
that a key names one of them. `ReceiverOK`: the receiver looks into the queue its own client
made and the answers in it are its own. It speaks of a client that is `Attended`: its receiver
is not gone, or the queue is made and the receiver about to be forked. It holds for a client whose queue no other one
removed, opened or wrote to, so the `disturbed` ones are excepted, in the invariant as in
the properties.

`SuperblockLayoutProofs`, from `LayoutAssumption`, for any of the nine classes and any number
of live blocks: `FindsBlockCorrect` and `ImplementsAllocatorCorrect`, the refinement of
`Allocator`, in the classes from 256 on until `covered`. The invariant says that the map is the reserved blocks and one block for each
block the program holds, that the count is the map's, and that a live block lies within its
block number. The numbers are those of the code (`SB_SIZE`, `sizeof(superblock)`), so what
depends on them, the block above the header in the classes that reserve none, is shown class
by class.

`HoardProofs`, from `HoardAssumption`, for any number of threads, CPUs, pages, sizes and any
header, denominator and K. The assumption says of the sizes what the code relies on: a size
class divides a superblock, is less than two headers (the other classes are in
`SuperblockLayout`), and leaves a new superblock in bin 1, where `mm_malloc` puts it.

All theorems are about a program that is `Calm`, that is, has one thread, or no more pages
than the K superblocks a heap may keep. The runs `HoardSizes` and `HoardThreads` are the two
kinds.

* `HeapsFresh`: `HIDFresh`, a superblock whose block is being freed is still in the heap
  `mm_free` read without a lock.
* `TypeCorrect`, `MapCorrect`, `HeaderCorrect`, `BinsCorrect`, `CountersCorrect`,
  `ShedCorrect`: the six properties of the runs.

Of other programs nothing is proved: `HoardStale` shows one in which `HIDFresh` is false, and
`ShedReads` and `ShedWrites` can have another thread's work on the global heap between them.

`IInv` adds to the properties: `ThreadsOK`, what a thread in the middle of a call knows (it
holds the lock of the heap it works on; the superblock it found has space and is in the bin
it remembers; no two calls free the same block); `BlocksOK`, marks stay within the page and
the program never holds a header block; `PagesOK`, no pointer comes from a page that is not
handed out. `NextInvariant` is that a step keeps it if `HIDFresh` holds, and `SeenFresh`: what `ShedReads`
read of the global heap is still so at `ShedWrites`. `CalmInv` adds these two, with one thread
as nobody else takes a step, with few pages since `Unshared`: nothing is ever in the global
heap. The steps
that move a superblock rest on `DoublyMove` of `LinkedListsProofs`: in a family of disjoint
doubly linked lists, taking a node off one and putting it in front of another leaves all of
them linked. `ShedCorrect` is the subtle one. The test compares sums of bytes, and a sum over
a set is out of the prover's reach, since it is a recursion. So the bytes of a heap are a set
of pairs (`UsedBytes`), whose cardinality the counter is; if no superblock were in bin 1, each
would be used to one part in FULLNESS_DENOMINATOR at least, and `ManyBytes` maps all bytes of
the heap into FULLNESS_DENOMINATOR copies of the used ones, one to one, against the test.

`KheapProofs`, from `SizesAssumption` (each block size divides the page and is smaller, so
that a page in use holds at least two blocks, as with the sizes of the code) and
`FrameAssumption` (the data segment is smaller than 4 GB and does not begin at address 0),
for any page size, block sizes, number of pages, lengths asked for and place of the data
segment, below the 32-bit limit, across it or beyond:

* `PagesOnceCorrect`, `BlocksExactCorrect`, `RefsOnceCorrect`: the properties of the run;
* `ImplementsAllocatorCorrect`: `Kheap` is an `Allocator`, until a request for a chunk is
  given a stray block;
* `InvariantHolds`: the invariant below, as long (`KnownInv == wild \/ IInv`);
* `NothingAstray`: in a data segment with 32-bit addresses no block goes astray and `IInv`
  holds for good.

The build is native (no `-m32`), so on a 64-bit machine what holds is the part up to the stray
block; see 5.

The invariant has three parts, and `StrayOK`: a block astray is a block of a page beyond the
32-bit addresses, on its page neither free nor held. `RefsInv`: the lists of references are disjoint, hold every
reference of a page of references, and only one in use or recycled has a page. `PagesInv`: the
pages below the break are divided (`Partition`) among the pages of references, those of blocks
and the chunks, free or held; each way to take a page or a chunk keeps the division (`GainsRefs`,
`GainsPage`, `GainsChunk`, `CutsChunk`). `BlocksInv`: a block of a page is in its free list, in
the program's hands or astray, and a chunk in the program's hands has room for its first word. The three
need one another: a block is found by its address (`OwnersFacts`) since no two references have
one page and no chunk lies over it; a page goes back to the recycled ones only when it is wholly
free, which the code infers from `nfree`. `FullList` is the count behind that: an injective list
of blocks as long as the page has blocks contains them all. Between `allocpageref` and the use of
the reference it returned that reference is in no list; `Taken` says what holds then, and
`NoPageLeft` that a reference put back without a page lies below all others.
The step to `Allocator` needs only that blocks in different pages or chunks are apart (`SpansApart`)
and two in one page are blocks of it, at least their size apart.

Only model-checked:

* liveness (`DormantMembersLeave`, `EmptyRoomsLeave`, `ConnectionsServed`, `Settles`,
  `GhostsLeave`, `StartEnds`, `ShutdownEnds`) and the absence of deadlock, which the prover
  does not do.

The violated properties are false for some instances and so for the program.

## 5. Where the code and its documents disagree

Found by a run:

* `remove_room` sets `room_list_tail` to NULL when it unlinks a last room that has a
  predecessor (`A3/server_util.c:448`). `create_room` looks at `room_list_head` to tell
  an empty list, then executes `room_list_tail->next_room = ...`. In `ChatService` this is
  `CreateDies`, so the clients of `ChatClient` meet it too.
* `mm_free` uses a heap id it read before it locked (`a2alloc.c:494`).
* `malloc_large` stores the CPU number where the heap number, one more, belongs
  (`a2alloc.c:268`).

Seen while modelling, modelled as they are, without a run of their own:

* With `fd_table` full the connection is closed, yet entered in `allset`
  (`A3/server_main.c:283`): the next `select()` fails and `main` exits, though "server
  sits in an infinite loop" (`A3/server_main.c:116`). `Overflowed` in `ControlSessions`
  is this case.
* `create_room` refuses room names longer than 24 characters (`A3/server_util.c:176`) and
  copies one of 24 with `strcpy` (`:188`), 25 bytes, into `room_name[24]`
  (`A3/server.h:72-73`). The terminator lies in the lowest byte of `next_room` and is
  overwritten when the next room is appended: the room's name is then listed with bytes of an
  address behind it, it cannot be entered by its name, and a second room of that name can be
  created. The client lets 24 characters through (`A3/client_main.c:780`). Member names are
  not affected: 24 bytes are copied and zeroed bytes follow.
* On the client's side the same name goes with `strcpy` (`A3/client_main.c:497`) into
  `last_channel[24]` (`:68`), one byte too many. What lies behind it is the compiler's choice and not
  modelled.
* When the answer to a switch is lost, the retry is refused with "Already in this room!"
  (`A3/server_util.c:943`), and the client goes on showing the old room; in `reconnect` it takes
  itself to be in none (`A3/client_main.c:670-678`). It is in the new one. `RoomAsShown` says so.
* "!c " creates a room whose name is empty (`A3/client_main.c:774-780`). A client that enters
  it has an empty `last_channel`, which stands for no room (`:487`, 670, 901): it cannot talk
  there, and a reconnect does not bring it back.
* Ctrl-C after `msgget` has made the queue and before its identifier is in `*qid`
  (`A3/client_main.c:160`) leaves the queue behind. Between `fork` and `execvp` it runs the client's
  handler in the child, which removes file and queue under the parent; this is not modelled.
* `ctrl2rcvr_qid` is 0 until the channel is made, and 0 is a valid queue. Ctrl-C before
  that makes `shutdown_clean` send `CHAT_QUIT` to queue 0 and remove it
  (`A3/client_main.c:61`, 113, 123; "clean up after ourselves", 100): if it belongs to
  another client of the user, that client's receiver quits or is cut off.
* A client whose file has the key of a living client's queue takes the queue for a
  leftover and removes it (`A3/client_main.c:167`). The other client, if it is waiting
  for its receiver, then never stops: an error of `msgrcv` other than ENOMSG is not
  counted (`:253`). Its receiver, if running, looks at the queue for ever.
* A receiver that is later than twenty polls is waited for to end, though it is alive
  (`A3/client_main.c:259-262`); when its window is closed, the client registers with
  port 0.
* `exit(1)` in `init_client`, also when it reconnects, leaves the receiver, the file and
  the queue behind.
* After the receiver has died, notices of switches fill the queue, and `msgsnd` waits
  for ever, in `handle_switch_room_req` or in `shutdown_clean`.
* At end of input `get_user_input` leaves its loop with "Guess we're done."
  (`A3/client_main.c:848`) and with `read_mutex` locked, but the main thread goes on
  sending heartbeats: the client does not end. To `ChatClient` that is a user who gives
  no more commands.
* `PAGE_FRAME` is `0xfffff000` (`kheap.c:102`): of an address of 64 bits the upper half is
  cut off (`MKPAB`, `:74`), `subpage_kfree` recognises no page, and a small block is freed as if it were
  a chunk. The word in front of it, which is another block's, is taken for its number of
  pages, and a later large request may be given a place in the middle of other blocks. The
  Makefiles build natively and memlib's 256 MB come from `malloc`, so on a 64-bit machine this is
  the usual case. `big_kmalloc` takes the length as an `int`.
* `transfer_bins` "assumes global heap is locked" (`a2alloc.c:111`); `mm_free` calls it
  without that lock, also where it gives a superblock to the global heap (`a2alloc.c:557`):
  that changes the lists and counters `mm_malloc` of another thread is working on under
  the lock. `ShedReads` and `ShedWrites` are the two halves in the model; the passing runs and
  the theorems keep clear of it (`HoardThreads` sheds nothing, `HoardSizes` has one thread).
* `mm_malloc` returns NULL with the heaps it locked still locked (`a2alloc.c:408`);
  `test2.c:25` expects NULL on an error.
* `init_client` sets `suffix_len` back to 3 while the name still ends in a suffix of four
  characters (`A3/client_main.c:619-638`, "Overwrite the suffix"): in a second round of names
  "bob (10)" becomes "bob ((1)". The name stays within its array, since the test at 10
  (`:624`) goes by the length it has by then.
* In larson a successor may be past its test of `stopflag` when `runthreads` takes the mark of
  its predecessor for its own (`A2/benchmarks/larson/larson.c:506-509`) and adds up while it works,
  though that is for "when all threads are done" (`:327`). A worker that starts only after
  `stopflag` is set returns without setting `finished` (`:460`); if no thread of its area did so
  before, `runthreads` waits for ever.
* The bin for empty superblocks (`a2alloc.c:34`) is never used: a fullness is at least 1
  (`a2alloc.c:513`).
* For classes above 104 * 2 bytes the first block is "unusable" for requests that do
  not fit behind the header (`a2alloc.c:336-338`), but `find_block` returns it
  (`a2alloc.c:155-170`) and the block lies over the header. What the program writes there
  replaces `block_map`, after which `find_block` may return blocks that are in use. `covered`
  and `WildMalloc` in `SuperblockLayout` are this case, which `ImplementsAllocator` excepts.

## 6. Not modelled

* What a2alloc and kheap do after their own data were overwritten or misread: `WildMalloc` and
  `wild` stand for anything.
* larson's hand-over of threads and the fallback barrier of linux-scalability, which is
  compiled only without `pthread_barrier_t`; the other benchmarks share nothing.
* Suffixes of two digits (`suffix_len`): `ChatClient` has one digit.
* The input thread of the client: it passes one line at a time under `read_mutex`, so a
  command is a choice made while the main thread is ready.
* Look-up of the location server, set-up of sockets, the libc allocator, timers, thread
  pinning: input and output without state afterwards.
* A1, the test drivers and the plotting scripts: straight-line programs.
* Message contents beyond what the handlers look at, logging, and the order of bytes.

## 7. Plan

Done, in this order: lists, server, service and refinement, sessions, a2alloc, client;
proofs about lists, server and client; `Allocator`, `Kheap`, `ChatReceiver`; proofs of the
server's refinement, of the sessions, the receiver, the layout of a superblock, the heaps and
kheap. Next, the most important first:

1. Other programs in which `HIDFresh` holds, as one whose threads free only blocks of heaps
   that never shed.
2. `Larson`: `finished` is set before the successor is started, while `main` may begin
   the next round over the same area.
3. `NameSuffix`: suffixes of two digits and `suffix_len`.
4. A run of `Hoard` that separates the unlocked changes to the global heap (`ShedReads`,
   `ShedWrites`) from the stale heap id, whose counterexample is shorter.
