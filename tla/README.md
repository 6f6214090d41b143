# virtual_socket: specification, checks and proofs

`virtual_socket` joins a client on one network to a service on another through
a public proxy server. Three programs take part, all built from `src/src`:

- **spd**, the proxy server (`server_main.cpp`, `server.cpp`, `simple_server.cpp`);
- **sp register**, a service proxy (`client_main.cpp`, `service_proxy.cpp`);
- **sp connect**, a client proxy (`client_main.cpp`, `client_proxy.cpp`).

They exchange JSON packets (`protocol.cpp`, and the vendored `json.hpp`) over
TCP (`network_util.cpp`, `client.cpp`). This directory holds TLA+ modules of the
three programs, of the relay that each of them ends up as, of the JSON library
they share, and of the calls they make to the kernel; TLC configurations that
check them on small instances; two abstract specifications they implement; and
TLAPS proofs that hold for every size of the system.

## 1. Inventory

| Component | State | Operations | Interacts through |
|---|---|---|---|
| Server (`server.cpp`) | `serverMap` (id to descriptor), `pendingConnections` (descriptors as decimal text) | handleRequest: register, unregister, connect, connection_created, connection_failed, anything else; updateConnectionStatus, which forks | the connection of a request, the registered connections, forked children |
| SimpleServer (`simple_server.cpp`) | the listening socket | run, startListening, acceptConnections, the SIGCHLD handler | accept queue; calls handleRequest |
| Protocol (`protocol.cpp`) | none | packets: make and classify; constructors that throw | json |
| ServiceProxy (`service_proxy.cpp`) | `connection`, one connection and one forked helper per client | start, handleConnectRequest, shutdown (SIGINT) | spd; the local service |
| ClientProxy (`client_proxy.cpp`) | `connection` | start, handleRequest; run(CLIENT_PORT) of SimpleServer | spd; a local listening socket and one local connection |
| Client (`client.cpp`) | `proxyHost`, `proxyPort`, `connection` | connect, sendRequest, loadConfigFile | configuration file |
| NetworkUtil (`network_util.cpp`) | none; two threads per relay that share two descriptors and a buffer each | createConnection, sendRequest, readRequest, facilitateConnection, exchangeData; forwardResponse has no caller | sockets |
| json (`json.hpp`) | a `basic_json` is a type and a union, which owns a string, a vector or a map on the heap | scan, parse, dump; construct, assign, move, swap, insert, erase; iterate, look up; compare; pointers, flatten, unflatten, patch, diff | every packet; a C++ program's variables |
| the kernel | descriptor tables, accept queue, TCP queues, signals | what the calls above do | all of it |
| ProtocolTest | - | a test of an older interface | - |

How a client is joined to a service:

1. The service proxy dials spd and sends `register id`; spd keeps the
   connection's descriptor number in `serverMap` and answers.
2. The client proxy dials spd and sends `connect id`; spd keeps the *decimal
   text of the descriptor number* in `pendingConnections` and sends it to the
   service proxy in a `connect` packet.
3. The service proxy dials spd once more and forks a helper, which dials the
   local service and sends `connection_created n` or `connection_failed n` on
   the new connection.
4. spd looks `n` up, forks a child that tells the client and relays bytes
   between the two connections, closes both in the parent and forgets `n`.
5. The child, the helper and the client proxy now each run
   `facilitateConnection`: two threads, one per direction, that recv and send in
   a loop and close *both* descriptors when their loop ends.
6. On SIGINT the service proxy dials spd, sends `unregister id` and exits
   without reading the answer. Helpers inherit this handler.

What is hard in this code: spd is one thread that receives exactly once from
each connection, blocks while it does, and dies of any parse error or SIGPIPE;
clients are named by descriptor numbers, which the kernel reuses; forked
processes hold copies of every descriptor, the listening socket included; the
handler of SIGINT runs between any two steps of the loop; TCP has no packet
borders, but every `recv` is parsed as one packet; the two threads of a relay
close descriptors under each other's calls; the JSON library manages its memory
by hand on values that may lie inside each other, counts in machine integers, and
edits arrays by index. `PROJECT.json` lists each hazard at its line.

What makes each component correct:

- Server: the numbers it keeps are never stale; ids are exclusive and only
  given up at the wish of the proxy that holds them; a client is answered once,
  truthfully, and joined to the service it asked for; the sockets it forgets
  without closing them are those of section 3 and no others; it does not end.
- SimpleServer: every queued connection is served; an address that cannot be bound
  leaves no socket behind.
- ServiceProxy: while it serves, its id is registered; every request it takes leads
  to an answer unless it is interrupted, and after an interruption the id is free again.
- ClientProxy: its user is always told whether the connection is established, and
  is only told so when a helper has reached the service.
- Client: the host and port that are dialled are those the file sets.
- Protocol: an id arrives as it was given; a packet is recognised if and only if
  it is a whole one.
- NetworkUtil: a relay passes on all bytes in order, an end of file means that
  there were no more, and the relay ends when its two programs have.
- json: it accepts JSON and nothing else; what is printed is read back; integers
  are exact; every block of memory has one owner; an iterator goes to every
  element once; a copy is a copy even of a part of itself; `diff` is undone by
  `patch`; `<` and `==` are an order.

## 2. Modules

| Module | What it is |
|---|---|
| `Protocol` | packets, their predicates, and which chunks of bytes the constructors parse |
| `Transport` | *external*: connections, spd's descriptor table, fork's copies, the accept queue, RST, SIGPIPE, from the calls the code makes |
| `Server` | spd: one action per handler and outcome; the forked child of updateConnectionStatus |
| `ServiceProxy` | service proxies and their helpers, with the interrupt handler of both |
| `ClientProxy` | client proxies |
| `VirtualSocket` | the composition, the fairness, the types and the properties |
| `VirtualSocketInv` | the inductive invariants: `RegistryInv`, `ChildrenApart`, `NothingLeft`, `PairingInv`, `LinesApart`, `UnaskedInv`, `HolderInv`, `BackedInv`, `GoingInv` |
| `Rendezvous` | abstract specification of the whole: ids, callers that wait, lines that are offered, pairs that are joined |
| `VirtualSocketRefinement` | the mapping under which VirtualSocket implements Rendezvous |
| `RegistryProofs`, `PairedProofs`, `DescriptorProofs`, `BackedProofs` | proofs about VirtualSocket: types and registry, then one module for each invariant, or two |
| `RendezvousProofs` | proof that VirtualSocket implements Rendezvous |
| `Relay` | facilitateConnection and exchangeData: the two threads, their calls and closes, the two sockets, the two programs at the far ends |
| `Pipe` | abstract specification of a relay: two streams, read in order, cut only after an end |
| `RelayRefinement` | the mapping under which Relay implements Pipe |
| `RelayInv`, `RelayProofs` | `StreamInv`, the inductive invariant of a relay, and the proofs |
| `Json` | the scanner's tokens, the parser, integers modulo `2^Width`, dump, the comparisons |
| `Wire` | the packets of protocol.cpp as bytes, and what the receiver makes of any bytes |
| `Words` | every text of a few lexemes, and what the two modules above should make of it |
| `JsonPatch` | pointers, flatten, unflatten, patch, diff |
| `JsonIterators` | iterators of all kinds of values; find, count, at, value; erase and insert by position |
| `JsonTrees` | every pair of small values, and what JsonPatch, JsonIterators and the comparisons should do with it |
| `Startup` | loadConfigFile, one action per line; the loops over addresses in createConnection and startListening, one action per call to the kernel |
| `Escapes` | extra_space and escape_string, one action per character, writing into the room that was counted |
| `LoopProofs` | `StartupInv` and `EscapesInv`, the inductive invariants of these two, and the proofs |
| `Texts` | Words, JsonTrees, Startup and Escapes side by side, for one run |
| `JsonHeap` | a `basic_json` in memory: cells, blocks, owners; construction, destruction, copy, move, swap, push_back, insert, erase, operator[]; `OwnedOnce` |
| `JsonHeapProofs` | proof that every block of memory has one owner |
| `JsonValues` | the trees that memory stands for, and what every operation should do to them |
| `MCVirtualSocket`, `MCRelay`, `MCTexts`, `MCJsonHeap` | the values of the constants for TLC |

### How state and actions correspond to the code

**The rendezvous (`VirtualSocket` and the modules it extends).**

*Processes.* spd handles a request from `recv` to the last `close` without
giving up control, so a handler is one action; `requestFd` is its argument and
`NoFd` while spd is in `accept`. What runs concurrently is a process of its own:
the forked children (`child`), the service proxies (`svc`), their helpers
(`helper`), the client proxies (`client`). A child and a helper are named by the
connection they were forked for, of which there is exactly one each. A client
proxy that was told of success becomes a SimpleServer of its own: it listens on
`CLIENT_PORT` and either cannot, or is stopped while it waits
(`ClientListenFails`), or accepts one local connection (`ClientAccept`), relays, and
exits (`ClientDone`). `helper[a].reached` says whether the helper's `createConnection`
to the local service succeeded, which the code knows by the branch it is in; the
model keeps it since the helper's later states do not show it.

*Connections and descriptors.* Connections (`Conn`) are numbered in the order in
which they are dialled and are never reused; descriptors (`FD`) are spd's table
`fdTable` and are reused, lowest free first, as `accept` does. `to_string` and
`atoi` turn a descriptor into a client id and back; the ids of services are
assumed not to be decimal numbers, since the two never meet in one map.

*Closing.* `inherited[a]` holds the connections a relay process got from
`fork`, so a connection the parent closed may live on. `SpdHolds` says whether
anyone holds spd's end; a peer sees end of file only when nobody does. A proxy's
registered connection likewise stays open while one of its helpers lives.

*Errors.* A peer that closes with unread bytes sends a RST; a `send` to a closed
peer provokes one. `rst` remembers it: `"reset"` makes the next call fail,
`"pipe"` makes the next `send` raise SIGPIPE, which none of the programs handles
(`HandleConnectKilled`, `ChildKilled`). Where a failed send changes nothing it is
no action of its own.

*Parsing.* `ParseThrows`, `ReadThrows` and `ClientReadThrows` stand for the
exception of the `Request` and `Response` constructors: at end of file (an empty
text), or, with the event `"coalesce"`, when one `recv` returns several packets.
That these texts, and no others, throw is what `Framing` checks on bytes. Where a
`recv` of a client proxy may as well fail (the connection was reset),
`ClientRecvFails` is the error response that sendRequest makes up. A `recv` of a
service proxy that fails, on a connection that was reset, is part of `ReadThrows`: while it
awaits its response it ends with an error; while it serves, `readRequest` returns NULL, the
loop reads once more and finds the end of file, which throws. `ReadConnectRequest` asks
for a connect request, which the loop (service_proxy.cpp:54-61) does not test: spd sends
nothing else to a proxy that serves.

*Events.* `Events` names what a configuration lets happen around the programs:
SIGINT to a service proxy (`shutdown`) or to its process group (`group`), kills
(`clientCrash`, `serviceCrash`), RSTs (`reset`), `fork` failing in spd or in a
service proxy (`fork`), several packets in one recv (`coalesce`), a service that
speaks first (`eager`), a foreign program that sends a JSON packet (`stray`), spd being
started again while service proxies of the last one run (`hasty`; without it, whoever
starts spd again first stops the service proxies, but neither their helpers nor clients:
`RestartAwaits`). No passing run has `hasty`: what goes wrong with it is the finding
`StaleAnswer`, and what does not (types, registry, single answers, descriptors) is
proved. The proofs hold for every set of events but where they say otherwise.

*Left out here:* partial `send`s of a packet, connections that stay silent for
ever after being dialled, `connect` blocking on a full accept queue.
`HelperInterrupt` happens after the service proxy itself was interrupted or ended,
which is how a terminal's Ctrl-C and a later kill of left-over helpers look; an
interrupt of a helper alone is not modelled. Relayed bytes are the one packet
`Payload`, sent at most once by the service; what a relay does with its bytes is
`Relay`.

**The relay.** `exchangeData(t)` is the thread that receives from `t`; its `pc`
separates each call (`loop`, `send`, `closeSrc`, `closeDst`) from being inside it
(`recv`, `sending`, `blocked`), since the other thread may close the descriptor in
between. A call in progress keeps the socket: `ShutDown` ends a connection only when
its descriptor is closed and no call is in it, with a RST if bytes are left unread.
A `send` takes what fits into `Buffer` and waits for room; a RST that arrives
meanwhile makes it return a short count, which the loop does not look at
(`SendShort`). Bytes are numbered, so what is lost, doubled or reordered shows.

**JSON and packets as text.** `Json` translates the scanner as longest match, the
parser as recursive descent, `dump` with both layouts, `get_integer`'s
accumulation modulo `2^Width`, and what `escape_string` returns. `Wire` puts packets together with `operator[]` and dump, as
protocol.cpp does, and classifies what a recv returned. `Words` then enumerates
*texts*: an action appends a lexeme (a bracket, a key, a digit, an escape, a whole
packet), so that every text up to a length is a state.

**Settings and addresses.** `Startup` is the program before it sends anything: which
function runs (`call`), where it is (`pc`), the lines it has read or what became of the
addresses (`seen`), the settings, and the sockets that are open, numbered as the
addresses they are for. `ReadLine` is one turn of loadConfigFile's loop; a line is a
comment or not, with a field and the characters behind its first colon, and `substr`
throws when there are none. In the loops over addresses each call that may fail is an
action: `socket`, `setsockopt`, `attach` (connect or bind), `close`, `listen`.

**Escapes.** `Escapes` is how dump writes a string: `Count` is one turn of the loop in
extra_space, `Allocate` the early return of a string without escapes or the string of
backslashes, `Write` one turn of the loop in escape_string. Nothing stops
`result[pos + 1] = ...` at the end of the string, so in the model such a write makes the
domain of `result` larger, where a property sees it. The room is a number without a
bound: a string whose escapes overflow `size_t` does not fit into memory.

**Trees.** `JsonPatch` translates pointers, flatten, unflatten, patch and diff as
functions of values. In `JsonIterators` an iterator is its position, the number of
elements before it; for a primitive value that is the number the class
`primitive_iterator_t` keeps, 0 at the value and 1 behind it. `operator++`, `+=`,
`-`, `<`, `*`, `->`, `[]` and `key` say for which types they throw, and `erase`
returns the value that is left with the iterator that the code returns. That two
iterators are of the same container, which every operation tests for, is assumed.

**JSON in memory.** A state of `JsonHeap` is a memory: the blocks on the heap by their
addresses, and at address 0 a block with the program's variables. A block is a string,
a vector of cells or a map of cells; a cell is a `basic_json`, its type and the address
in its union. A *place*, a block and an index or key in it, is where a `basic_json`
lies: what the code's references and `this` refer to. Constructors, destructor,
assignment and the container operations are operators that give the memory after the
call, and the cell that a call returns, built from the same steps as the code:
copy-and-swap assignment, moves that leave null, `push_back` that may reallocate while
its argument lies inside. The recursion of the copy constructor and the destructor
through vectors and maps is `Beneath`, the blocks that cells own, directly or not: the
one copies what is beneath a cell to fresh addresses, the other frees it. What is not
beneath a cell that is destroyed stays, so a block that lost its owner on the way is
seen to leak. Since an address means nothing but which block it is, `Becomes` numbers
the blocks anew after each call.

Preconditions that the C++ library or the code state stay preconditions: nothing is
moved into a part of itself, `push_back` of a moved value and `swap` take places apart
from each other, an inserted range is not from an ancestor of the array, a list is
assigned to a variable.

## 3. Runs

Each run takes at most about three minutes with two workers. Six must
pass:

| Run | Instance | Question |
|---|---|---|
| `Registry` | 2 services that want the same id, 2 clients, every event but `group` and `hasty`, spd started twice, 3 descriptors | Are the numbers never stale (`DescriptorsNotStale`), does spd forget no descriptor it leaves open but on two occasions (`ForgetsOnlyRefused`), is a service proxy that serves registered (`ServingIsRegistered`), is an id only given up for its holder (`UnregistersOwnService`)? Is Rendezvous implemented (`Implements`)? |
| `Paired` | 2 services with an id each, 2 clients, interruptions of a proxy or of its group, spd started twice | Is a client joined only to the service it asked for (`PairedWithRequestedService`), once (`AnsweredOnce`), with a helper that reached the service (`ConnectedIsBacked`)? Is it dropped only by the step that forks its messenger (`ResolvedIsNotified`)? Does spd survive everything but an interrupted proxy (`OnlyInterruptsEndSpd`)? Is Rendezvous implemented (`Implements`)? |
| `Live` | 1 service, 2 clients, interruptions, fair | Is every client told unless a proxy was interrupted (`AnsweredUnlessInterrupted`), does an interrupted proxy end up unregistered (`ShutdownUnregisters`), does spd get to every queued connection (`QueueServed`)? |
| `Relay` | 3 bytes each way, buffers of 2, fair | Are bytes in order (`InOrder`), is an end of file the end (`EndIsWhole`), is Pipe implemented (`ImplementsPipe`), does what is written arrive (`Forwarded`), does the relay end (`RelayEnds`)? `StreamInv` is the proved invariant. |
| `Texts` | texts of 3 to 5 lexemes; trees of 4 and 3 values | Grammar, numbers, strings, round trips, buffer sizes, packets, settings, addresses; patches, pointers, flattening, order, iterators (table below) |
| `Heap` | 2 variables, 3 blocks, 3 cells | Has every block one owner (`OwnedOnce`), and does every operation, on every pair of places, do to the values what it should (`AssignmentsCopy`, `ArraysSplice`, `ObjectsKeepFirst`)? |

The properties of `Texts`, each a comparison with a definition of another kind:

| Property | Compares | With |
|---|---|---|
| `Grammar` | parse of every text of brackets, commas, keys and values | a declarative reading: cut at the commas no bracket encloses |
| `NumbersExact` | scanner, get_integer, comparisons | RFC 7159's forms; sums of powers of ten; order of integers |
| `StringsSpelled` | escapes and surrogates decoded by shifts | code points by arithmetic |
| `RoundTrip` | dump, compact and pretty | parse |
| `EscapesFit` | where and what escape_string writes | the room that extra_space counted, and each character's spelling in a place of its own |
| `IdsSurvive`, `Framing` | packets as bytes, cut anywhere | the packets that were sent |
| `SettingsRead` | the loop over `.spconfig` | the last line of each field |
| `OneSocket` | the loops over addresses | the sockets that may be left open |
| `PatchOfDiff` | patch of diff | the target |
| `PointersReadBack`, `FlattenRestores`, `MovesUndone` | pointers, flatten, operations | their inverses |
| `Ordered` | operator< and operator== | a strict weak order |
| `IteratorsAgree` | loops in both directions, distances, find, count, at and value, erased, inserted and copied ranges | the contents of the value, as a sequence |

Six runs show where the code does not do what its documentation or comments
say (README.md is the repository's here). TLC finds a behaviour of the model
that violates the property named:

| Run | What happens |
|---|---|
| `StaleAnswer` | The client asks for a service and spd is started again. The helper's late answer names a descriptor number that the new spd has given to a client of *another* service, and spd joins the two (`PairedWithRequestedService`; README.md:3). |
| `InterruptedService` | One SIGINT to a service proxy between its dial and its fork: spd accepts the connection that was closed unused, parses an empty text and dies (`SpdStaysUp`; simple_server.cpp:141). |
| `GroupInterrupt` | Ctrl-C reaches a helper too, which unregisters the id again, after another proxy has registered it (`UnregistersOwnService`; service_proxy.h:28). |
| `TwoRequests` | Two connect requests in one recv end the service proxy (`ServesUntilInterrupted`; network_util.h:28). |
| `LeftOpen` | Two service proxies register one id. spd answers the second with an error and goes on; its socket stays open in spd, and neither table knows it, so nothing can close it any more (`HandledIsClosed`; simple_server.h:39 says that handleRequest "closes the socket"). |
| `SilentPeer` | One program closes; its thread closes both descriptors, but the other thread is in recv on one of them, which keeps that socket. No FIN is sent, and a program that only waits for the end waits for ever (`CloseForwarded`; README.md:38). |

### What the properties must except, and why

These conditions in the properties are behaviour of the code, found by TLC:

- `AnsweredUnlessInterrupted`: a service that unregisters while a client waits
  leaves that client untold (server.cpp:92). The run is without `eager`: a
  greeting of the service that reaches the client proxy in the same recv as spd's
  response makes it die without telling its user (`Framing` says that such bytes
  are no response; `Registry` runs with it).
- `ResolvedIsNotified` is checked without the event `fork`: if `fork` fails in
  spd the client is dropped and nobody tells it (`server.cpp:181`); `Registry`
  runs with it.
- `ForgetsOnlyRefused` names the two occasions on which spd forgets a descriptor it
  leaves open: a register request for an id that is taken, and a `recv` that fails. They
  are leaks (`LeftOpen`); what the property adds is that no other step makes one. It does
  not speak of the consequence, an spd whose table is full: `accept` then fails and the
  loop in simple_server.cpp spins. The model does nothing there, and `QueueServed`
  runs with a table that never fills.
- `EndIsWhole` demands that the partner caused no RST: when a `send` to it fails,
  the thread closes the descriptors, its own source included, and the program at
  that source sees a regular end of what may be a truncated stream. It also speaks
  of a program that goes on itself: one that stops writing first loses the rest of
  its answer, as the relay then closes both directions.
- `OneSocket`: startListening returns with the socket open when setsockopt or
  listen fail. (createConnection in turn returns without freeaddrinfo when no
  address works; the list of addresses is not modelled.)
- `NumbersExact` speaks of integers the types hold: the overflow test, that the
  sum must not get smaller, misses some overflows (with 8 bits, `600` is read as
  88; with 64 bits, `50000000000000000000` as a smaller number).
- `Ordered` compares signed and unsigned integers that both types hold. A comparison of the
  two kinds casts the unsigned one (json.hpp:5707), so beyond these `<` is no order: with
  8 bits, `1u < 200u`, `200u < -1` as 200 becomes -56, and `-1 < 1u`.
- `SettingsRead` takes a value to begin two characters behind the first colon, as the code
  does: in `host:a` the `a` is swallowed whether or not it is a blank, and `host:` throws.
- `StringsSpelled` pairs high surrogates only: a lone low one is accepted and
  encoded. A NUL ends a text; no lexeme contains one.
- `FlattenRestores` needs `Restorable`: json.hpp:10039 promises
  `j == j.flatten().unflatten()` for all values without empty containers, but
  `{"0":1}` comes back as an array.
- `IteratorsAgree` measures distances forwards only: `operator-` of
  json_reverse_iterator (json.hpp:7544) gives the negative of what
  std::reverse_iterator gives. Its ranges have an element, as `erase(begin, begin)`
  does nothing to an array or object and throws for a primitive value.
- `MovesUndone` and `PatchOfDiff` use paths that exist: "add" below a primitive
  runs into `assert(false)`, "remove" below one silently does nothing, and "copy"
  overwrites what is at its target in an object.

### Bounds, and why they are enough

*Rendezvous.* `MaxConn` is the number of connections a behaviour dials: each
service and client needs one, each answer and each farewell one more, so 5 or 6
lets every client be answered while services come and go; 4 in `Registry`, where
the table of `MaxFd` = 3 must run full and numbers must be reused. `MaxStarts` is
2, so that a new spd meets what is left of another, and 1 in the runs where a restart
plays no part. Two services suffice for every conflict over an id, as a
third would be refused like the second; two clients (three in `StaleAnswer`)
suffice to confuse one with another. `Backlog` is the code's 10 and never
reached. A service that speaks first does so once. `StaleAnswer` uses the symmetry
of the clients that ask for the same id, `Registry` that of its services, which all
register one id, and of its clients, which all ask for it.

*Relay.* `PACKET_SIZE` and `Buffer` are 2 and `MaxBytes` is 3, so that a stream
is longer than a buffer, a recv returns less than there is, and a send is taken in
part and waits. (2 bytes suffice to violate `CloseForwarded`.) The proofs hold for
all sizes.

*Texts.* `Width` is 8 instead of 64, so that numbers of three digits overflow.
`Longest` is 5 lexemes for structures and numbers: two levels of nesting, or a sign,
digits, point and exponent; 4 for strings and ids: two surrogate pairs;
3 for streams: two packets and something behind. `MaxSeen` is 3: two settings and
another line, or two addresses that fail in different ways and one that works (its
proofs hold for any number). Trees have up to 4 and 3 values, with a key that looks like an
index and one that contains `/~1`. `Strings` are those of up to 3 characters out of six:
three short escapes, a long one, and a character of ASCII and another that have none;
an escape thus meets every other before and behind it (the proof holds for any strings).

*Heap.* `MaxBlocks` and `MaxCells` are 3 and `MaxLen` is 2: a container in a
container with a string next to it, which is what aliasing needs. The operations
are compared with the trees at *every* pair of places of *every* memory, also those
whose result exceeds the bounds and is no state.

`CHECK_DEADLOCK FALSE` is set because all systems may stop: connections run out,
users stop their programs, relays end, texts and memories have a bound.

### Fairness

Weakly fair in the rendezvous are the loops that the operating system keeps
scheduling once their call can return: spd's loop as a whole (one thread), each
service proxy's loop, each helper's dial of the service, each child's notice, each
client's request. Not fair are the decisions of users (starting, interrupting,
hanging up; at the client also whether its port is free and whether anyone connects
to it: `ClientListenFails`, `ClientAccept`), how long a relayed connection lasts
(`ClientDone`, `HelperDone`, `ChildRelayed`), starting spd again, and every
event: nothing in the code makes them happen.

Weakly fair in the relay are the two threads, the join of the main thread, and
the programs' *reading* of what has arrived. Their writing and ending are not fair.
`Forwarded` needs a program that reads, since a send to one that does not waits.

`Texts` and `Heap` are not about behaviours over time and have none.

### Refinement

`Rendezvous` knows only ids, lines, who waits for what, on whose behalf a line
was opened and which pairs are joined. The mapping reads spd's numbers through its
descriptor table: `registry[id]` is the connection open at `serverMap[id]`, a
connection waits if its descriptor's text is pending, a line is offered by the
service whose helper owns it, a pair is joined when a child reports success. It
is meaningful because no number is stale. `Join` demands that the line was
offered for the very id the caller asked for and that both were unjoined. An spd that
ends forgets its registry and who waits, but not who is joined (`Forget`); the next one
starts with that. The refinement is checked by TLC with a second start of spd, and
proved for every size, any number of starts and every event but `hasty`; with a hasty
restart it fails in the way `StaleAnswer` shows.

`Pipe` knows the bytes that were written and read, who has stopped, and whose
connection was cut. A side is cut when the relay's socket to it was shut down, which
may only happen once a side has ended; what is read is always the next byte. The
refinement is checked by TLC and proved for every size.

## 4. Proofs

`tlapm` checks every step of the eight modules whose names end in `Proofs`. The only
assumptions are those of the modules: the bounds are numbers, `Events` holds known
events, each proxy has a service id, variables and keys of objects are numbered, lines of
a file have the parts that were named. None bounds the number of programs, connections,
descriptors or bytes, the size or depth of a value, or the length of a file or of a list
of addresses. Where a theorem needs more, that some event does not happen, its ASSUME says
so. `NoHaste`, in particular, is that spd is started again, if it is, only when no
service proxy runs; the findings `StaleAnswer` and `GroupInterrupt` are what happens
otherwise.

**`TypeCorrect`: `Spec => []TypeOK`** of VirtualSocket. The conjunct that is not
obvious is that spd always reads a *descriptor* back from an answer:
`atoi(clientID)` is in `FD`, and `svc[s].clientID` is a `NodeID` when it is written
to a packet. `TypeOK` is therefore strengthened with `HandlesKnown` (a service proxy
that dials or forks, and a helper that connects, knows whom it answers). One lemma
per kernel call says what it does to the types, one step per action applies them.

**`RegistryInvariant`: `Spec => []RegistryInv`, and `DescriptorsSafe`:
`Spec => []DescriptorsNotStale`.** *Each number in `serverMap` denotes the open
connection of a service proxy with that id and each number in `pendingConnections`
that of a client proxy, whatever crashes, resets, coalesces or restarts.* Not
inductive by itself; `RegistryInv` (checked by TLC on the `Registry` instance before it was
proved) adds

- `HostConsistent`: a connection is queued or open, at one place, and was dialled;
- `OwnersDistinct`: each proxy's connection is one it dialled, and nobody else's;
- `PacketsOwned`: a register request is in the queue of a connection of a service
  proxy with that id, a connect request in one of a client proxy;
- `HandlingFresh`: the descriptor of the request that is handled is open and in
  neither table;
- `DownIsEmpty`: a spd that ended keeps nothing.

The argument: `accept` returns a *free* number, and a number in a table is not
free, so a new request is fresh (`AcceptStep`); storing it is right because only
the owner sends such a request (`RegisterStep`, `ConnectStep`); the handlers that
close numbers close the request's own, which is fresh, and one more, which they
erase, and no other entry has the same number because two entries denote two
proxies' connections (`NumbersDistinct`, `UnregisterStep`, `AnswerStep`). Peers
can only queue a connection nobody used (`PeerStep`).

**`AnsweredAtMostOnce`: `Spec => []AnsweredOnce`, and `ResolvedAreNotified`:
`Spec => ResolvedIsNotified`** if `fork` does not fail. `ChildrenApart` says that both
connections of a relay process are ones spd is done with: neither queued nor open, so
that no number denotes them any more, and none can be given to a second child. It
holds since `updateConnectionStatus` closes both in the parent in the step that forks
(`ForkKeepsApart`), and since connections, other than descriptors, do not come back.

**`PairedWithoutHaste`: `Spec => []PairedWithRequestedService`** if `NoHaste`.
*However often spd crashes and is started again, and whatever helpers of the last one
still run.* An id that spd sent to a service is at one place at a time until it comes
back: queued for the service proxy, in its hands, with a helper, or queued in the helper's
answer (`OneBearer`); and whoever has it serves the id that the client with this number
asked for (`BearerWanted`). So a number that spd gives to a new client is in nobody's hands.

A new spd starts its numbers again while ids of the last one are still about. Why they do
no harm is in the definitions: an answer counts only on a connection that spd is not done
with (`Settled` is what was dialled, and is neither queued nor open), and a request
only for a service proxy that still reads. `RestartPairing` then says that nobody has an
id when spd starts: no service proxy runs, and every connection either was dialled, and
then the last spd took it with it, or is still to be dialled, and then has no packet and
no helper. The second half is `NothingLeft`, an inductive invariant of its own
(`HostInvariant`, with every event): the queue ends with the listening socket, which
relay processes may keep open after spd (`Listening`), and a helper is only forked for
a connection that was dialled. And what is settled stays so (`SettledKept`), for spd takes
connections only from the queue and peers queue only new ones, so that an answer that a
helper sends late is never received. A service proxy that outlives spd would dial the new
one instead, with the old id: `StaleAnswer`.

**`RendezvousImplemented`: `Spec => Implements`** if `NoHaste`. Each action of
VirtualSocket is mapped to an action of Rendezvous, or shown to stutter. `RegistryInv`
makes the mapping meaningful, `PairingInv` gives the guard of `Join`, `LinesApart`
that a line is offered once, by one service, and is nobody's connection to register or
to ask on. The end of spd is `Forget`; its start is not noticed.

**`OnlyRefusedForgotten`: `Spec => ForgetsOnlyRefused`**, with every event. *A step after
which spd has a descriptor open that it no longer knows refuses a registration, or is a
`recv` that fails, and the descriptor is that of the request.* A peer's step leaves spd's
table and numbers alone. Each handler registers, makes pending or closes the descriptor it
handles, but on these two occasions, and a number that is taken out of a table is closed in
the same step. `RegistryInv` says what is in the tables and that the request's descriptor
is open.

**`WhoServesIsRegistered`: `Spec => []ServingIsRegistered`** if `NoHaste` and helpers get
no signal. *A service proxy that took spd's response for a yes is the one clients reach.*
That is `HoldersKnown`, a part of the next theorem's invariant.

**`OnlyOwnUnregisters`: `Spec => UnregistersOwnService`** if `NoHaste` and helpers
get no signal. `HolderInv` says that a service proxy which serves, or has a success
queued, holds the registration of its id (`HoldersKnown`); that a request to unregister
which spd may still receive is of a service proxy that held it when it sent this, its last
packet, and still does (`Leaving`); and that there is one such request for each, on a
connection that is nobody else's (`FarewellsApart`). A new spd has no registrations, and no
service proxy that thinks it holds one runs; a farewell to the last spd is on a
connection that is settled (`RestartHolds`, again from `NothingLeft`). With the event
`group` a helper sends a second request, which may come after another proxy has registered
(`GroupInterrupt`).

**`ConnectedAreBacked`: `Spec => []ConnectedIsBacked`**, with every event and any number
of starts. `BackedInv` follows a success back: a packet that says "ok" on a client's
connection was sent by a child that was forked with success, so spd received a
`connection_created` on the connection the child is named by, so a helper sent it; and a
helper only answers so when its dial of the local service succeeded (`reached`), which
nothing takes back when it is interrupted or crashes later. It also needs that a client's connection carries no request to
unregister, which spd answers with "ok" too (`Promised`), and that a connection dialled
for a helper is unused until the helper is forked (`Unhelped`, `Silent`).

**`OnlyInterruptsEnd`: `Spec => []OnlyInterruptsEndSpd`** if `Events` holds at most
`shutdown`, `eager` and `stray`, so that no process is killed and no call fails. `GoingInv`
says that, until a service proxy is interrupted, spd is up and

- what is queued for spd and not handled (`Early`) has been sent nothing yet, begins
  with a packet, and is not an end of file only (`Receivable`), so that every request
  parses; the last needs that who closes a connection has spoken on it (`Spoken`);
- a service proxy that spd has registered keeps its connection open, and either serves
  or finds its "ok" next (`Held`), so that spd never sends to a closed connection;
- a RST only comes of a closed connection, and what a helper answers on is a
  connection that nobody registers on (`LinesUsed`).

It rests on `RegistryInv` (the number spd sends to is that of the service proxy),
`ChildrenApart` and `UnaskedInv` (who has dialled has sent no register request yet, so
that the registration of an id is not its own).
`InterruptedService` shows the interruption that the premise excludes.

**`StreamInvariant`: `Spec => []StreamInv`, `BytesInOrder`: `Spec => []InOrder`,
`EndsAreWhole`: `Spec => []EndIsWhole`, and `RelayIsPipe`: `Spec =>
ImplementsPipe`** of Relay, for every size of the buffers and every number of bytes.
*What a program reads from a relay is a beginning of what the other wrote; when it
reads the end of file, and the other ended its connection orderly, it is all of it.*
`StreamInv` consists of

- `TypeOK`;
- `ShutDownIsFinal`: a socket that was shut down has no descriptor, and no call is
  in it, so nothing is ever queued on it again;
- `NothingHeld`: a thread about to receive has no bytes in its buffer;
- `RstOfClosed`: a RST comes of a program that closed;
- `Stream`: the bytes that were read, those queued for the reader, those in the
  thread's buffer and those queued for the thread, put behind each other, are the
  numbers from 1 up to what was written, as long as they can still arrive; what was
  read and is queued is always a beginning;
- `Orderly`: of the two threads the one that receives from the program that ended is
  the first to leave its loop, and it has passed on everything by then.

`Orderly` is what rules out that the *other* thread closes the descriptors while
bytes are under way: it only leaves its loop after the first one closed them. The
premise of `EndIsWhole`, that the reader has not ended and that nothing was sent to
the relay after its writer closed, is needed: without it the other thread's failing
recv closes both descriptors at once, and bytes in the thread's hands are lost.

**`EveryBlockOwnedOnce`: `Spec => []OwnedOnce`** of JsonHeap, for any number of variables
and texts, and whatever the bounds. *Every string, vector and map on the heap has exactly
one owner, of its type, and is part of a variable: nothing leaks, is shared, freed twice or
used after it was freed.* The difficulty is that calls alias: the argument may be the
object, lie inside it, or it inside the argument. The proof follows each call through its
temporary objects. `Good(m, H)` says that the memory `m` is well-formed while temporaries
own the blocks `H`:

- `IsMemory`: the blocks are finitely many and have the shapes of their types;
- `Unshared`: whatever owns a block owns one that is there, of its type, and no two cells,
  or a cell and a temporary, own the same;
- `Rooted`: every set of blocks has a member that a temporary or a block outside the set
  owns. That every block has an owner would not do: two vectors might own each other and
  leak together.

The inductive invariant is `Good(memory, {})`. Its parts were first checked by TLC on the
`Heap` instance.

- *Creating and copying* make blocks that only the returned cells own, apart from all
  others (`Made`, `CopyMade`): the addresses are fresh, and copies of what lies beneath
  different cells are apart because no two cells have blocks beneath them in common.
- *Destroying* temporary cells (`Held`) frees what is beneath them and nothing that
  anybody else needs: a block outside that owned one of these would be a second owner.
- *Writing a cell* into a block is right if what it owns is not above that block: else it
  would own itself. That is what the preconditions on places are for, and what the
  order of the steps achieves: `push_back(const&)` copies, so the copy has nothing to do
  with the array, and `operator=` takes a copy or a moved value and destroys the old one
  only after the swap.
- *Numbering anew* is an isomorphism (`RenamedGood`).

`OwnedOnce` then follows: the blocks that are not beneath a variable would be a set
without an owner outside it.

`Beneath` is the one recursion, a recursive function on sets of blocks, and the library's
theorems on recursive functions have an operator parameter. That a function satisfies
its definition is shown by giving one, the least closed set around each argument
(`BeneathDefined`); that it *is* the least closed set by choosing, if it were not, a
largest argument for which it is not, which is possible in a finite set
(`BeneathLeast`).

**`SettingsAreRead`: `StartupSpec => []SettingsRead`, and `OneSocketLeft`:
`StartupSpec => []OneSocket`.** *Of a file of any length sp takes the last host and port;
of any number of addresses only the socket of the first that works stays open.* Both
properties speak of the end of a loop, so their invariant, `StartupInv`, says what is so
in the middle of it. For the file (`SettingsInv`): each setting is the value of the last
of the lines *read so far* that sets it, unless one threw. A further line leaves the last
one the last, or takes its place (`NothingSet` and the lemmas after it). For the
addresses (`SocketsInv`): before a socket is made none is open and no address has worked;
from then until it is closed it is the only one, and its number is that of the address
that is tried. TLC checked `StartupInv` on files and lists of four.

**`EscapesAlwaysFit`: `EscapesSpec => []EscapesFit`.** *Of a string of any length and any
characters, escape_string writes inside the room that extra_space counted, and returns
the characters' spellings one behind the other with nothing left over.* The first
function sums up numbers and the second one never looks at the sum again, so the
invariant, `EscapesInv`, has to remember how the sum came about: there are places `at[j]`
where the spelling of the first `j` characters ends, each behind the one before by that
character's width. While the room is counted the last place is the number of characters
and the room for them together; while it is written `pos` is the place of the characters
passed. That the places are in order (`Spaced`) keeps every write before the end, and is
carried along in the invariant, one character at a time (`OneMoreCounted`), because
nothing can be proved about a sum by induction here. `Spelt` compares, character by
character, what the two functions and the grammar say. TLC checked `EscapesInv` on
strings of four.

**Only model-checked:**

- liveness, which temporal proofs under fairness put out of the prover's reach;
- what the memory stands for (`AssignmentsCopy`, `ArraysSplice`, `ObjectsKeepFirst`) and
  everything else about texts and trees: these properties speak of recursive descents over data
  of any depth (`Tree`, `parse`, `dump`, `diff`), and an induction over data needs theorems
  that take an operator as a parameter, which none of the installed provers instantiates;

## 5. Plan

Done: the rendezvous, the relay, the texts and trees of the JSON library, its
memory, its iterators and escapes, the client's listener, settings and addresses step by step, and
the proofs above; the last of them those of an spd that is started again.

## 6. Not modelled, and why

- `json.hpp`: floating-point numbers (what `strtod` reads and `snprintf` prints is
  arithmetic the packets do not use; that a text *is* one is modelled); parser
  callbacks, streams and user-defined conversions, which no program uses; `max_size`,
  `value` of a pointer, and iterators of different containers; `bad_alloc`, which
  leaves a value whose type says it owns a block that it has not (json.hpp:3338, for
  instance) and would make every operation of `JsonHeap` two; the templates that only
  select an overload.
- `ProtocolTest.cpp` tests an interface that no longer exists.
- `forwardResponse`, `Response::isError` and `makeDataRequest` have no caller or no
  body.
- A connection that stays silent keeps spd in `recv` for ever (server.cpp:47): in the
  model whoever dials spd also sends its request, or ends. `QueueServed` holds under
  this assumption.
- A service proxy that cannot dial spd drops the request (service_proxy.cpp:76), and
  its client waits. In the model a dial fails only when nobody listens, and then the
  client has lost its connection as well.
- Relay processes inherit spd's listening socket (simple_server.cpp:98). The model has
  this, and `Registry` runs with it, but nothing in the repository promises that spd can
  be started again, so no property does.
- The bytes between a client proxy and its local program are those of `Relay`; in
  VirtualSocket only the steps around them remain.
- Partial `send`s of a packet (the relay's are modelled), reaping of children, the text of
  addresses, wording, logging, host names
  and the parsing of the command line, which carry no state of the protocol.
