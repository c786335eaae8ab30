# A verification project for ezserver

ezserver is a TCP command server in C++17 on Boost.Asio.  A pool of threads
runs the handlers of one `io_context`; an accept handler makes a client object
for each connection; each client reads length-prefixed requests on its own
strand; a request names a command that a plugin exported, and the command
answers through `ITcpClient::Respond`.  This directory models that program in
TLA+, checks the models with TLC on small instances and proves theorems about
them with TLAPS.

Paths below are relative to the root of the repository.  `PROJECT.json` lists,
for every definition of a module that stands for code, the lines it stands for.

## 1. Inventory

### The parts and how they interact

`main` builds the options, creates the `Bootstrapper` and runs it.  The
bootstrapper bootstraps the services of the `ServicesManager`, has the
`PluginsLoader` load the plugins of a directory, initialize them and import
their commands, and calls `Application::Startup`.  From there everything is
event driven: `Startup` launches threads that all call `io_context::run`, opens
the `AsyncTcpListener` and subscribes `OnNewClientAccepted` to it.  That handler
makes an `AsyncTcpClient`, subscribes to its two events, starts it, enters it in
`clients_` and asks the listener to accept again.  The events of a client are
raised inside the completion handlers of its reads; `OnMessageReceived` looks up
a command in the map the plugins loader filled and calls it,
`OnConnectionClosed` removes the client from `clients_`.  No lock exists in the
program: what is protected is protected by a strand, by the chain of accepts, or
by the order of the start.

| Component | Source | State it keeps | Operations | Hard behaviour | What makes it correct |
|---|---|---|---|---|---|
| TCP client | `src/net/async_tcp_client.cc` | `is_running_`, socket, strand, one outstanding read, any number of sends, shared pointers captured by handlers | `Start`, `Stop`, `Respond`, `StartRead`, `HandleWrite` | life time of the object; `Stop` racing with a read that just completed; sends bound to a raw `this` | a read never outlives its object; one `ConnectionClosed`, and it is the last event; a stopped client does not wait; an object whose peer is gone is freed |
| Message framing | `src/net/async_tcp_client.cc` | header, `msg_length`, `buffer_`, the queue of sends | header read, message read, header codec, the two sends of `Respond`, `HandleWrite` | segments: headers in two pieces, messages that arrive with the next header; sends that are short, fail, or are done after `Respond` returned | message bytes are never taken for a header; messages are delivered whole, once, in order; no piece of a response is lost unnoticed |
| TCP listener | `src/net/async_tcp_listener.cc`, `shared/utils/event_handler.h` | acceptor, `is_started_`, outstanding accept, callbacks | `Initialize`, `Start`, `AcceptNext`, `HandleAcceptedConnections`, `Stop` (a stub) | subscription after the start, on another thread than the handlers | one chain of accepts, which neither forks nor breaks |
| Application | `src/application.cc` | `clients_`, `commands_`, `plugins_`, `thread_pool_` | `Startup`, `OnNewClientAccepted`, `OnMessageReceived`, `OnConnectionClosed`, destructor | `clients_` shared by all threads; exceptions that end a thread | one thread at a time in the events of a client; connected clients are in `clients_`, and what else is in it is accounted for |
| Services manager | `include/services/services_manager.h`, `src/services/services_manager.cc`, `shared/services/iservice.h` | `services_`, `is_bootstrapped_` of each service | `RegisterService`, `GetService`, `ResolveDependencies`, `Bootstrap` | half done registrations | a key keeps its first provider; required services are up before the application |
| Plugins loader | `src/introp/plugins_loader.cc`, `shared/introp/iplugin.h` | the map of plugins, the map of commands | `LoadPlugins`, `InitializePlugins`, `LoadCommands` | removal while iterating; anything a plugin may throw | dependencies come first; each plugin is initialized once; one owner per command |
| Bootstrapper | `src/bootstrapper.cc` | none | `Run`, `LoadServices`, `LoadPlugins` | giving up half way | the start ends, and serves only if it may |
| Filesystem service | `src/services/filesystem.cc` | four directories on disk: `ezTech`, in it `ezServer`, in that `plugins` and `data` | `Initialize`, `GetPath`, `OpenFile`, `DeleteFile`, `RenameFile`, `ListDirectory` | processes that create, list and delete them at once; starts that are killed half way | races never abort all starts; what a dead start left hinders no later one |
| Main and shutdown | `src/main.cc`, `~Application` | the running threads, the loaded plugins, the `io_context` | `ParseOptions`, `Run`, the wait for input, destructors | threads that are still in `run()` | plugins go last; a start that failed ends the process |
| Configuration | `src/config/`, `include/config/` | option values | declaration and binding of options | none: no state changes after parsing | |
| Console logger, time | `src/services/console_logger.cc`, `src/utils/time.cc` | a flag and a stream | formatting of log lines | lines of several threads | |
| Event arguments | `shared/net/client_accepted_eventargs.h`, `shared/utils/event_args.h` | none | none, they are used nowhere | | |

### Hazards

`PROJECT.json` lists them with their lines.  They fall into five groups: life
time (operations that outlive their client, clients that outlive their
connection), unsynchronised state (`clients_`, the callbacks of the listener),
errors at an unlucky point (an exception of `remote_endpoint()`, of a command or
of a plugin; an accept error; a short send), order (accepts before the
subscription, registration after the start of a client, plugins before their
dependencies, segments of a stream), and several processes or the end of one
(directories that appear or disappear between a check and its use, a start that
is killed, threads that outlive `main`).

## 2. Plan

| Order | Module | Contents | State |
|---|---|---|---|
| 1 | `Connections`, `AsyncTcpClient`, `ClientSession` | the client objects; the session they implement | done |
| 2 | `AsyncTcpClientProofs` | inductive invariant, refinement | done |
| 3 | `AsyncTcpListener`, `Application`, `MCApplication` | the server after the start, composed of the listener, the clients and the thread pool | done |
| 4 | `FrameCodec`, `FrameReader`, `MessageChannel` | the byte stream of a connection; the channel it implements | done |
| 5 | `StreamLemmas`, `FrameReaderProofs` | induction and flattened sequences; header codec, alignment of the reader with the stream, refinement of the channel | done |
| 6 | `ServicesManager`, `PluginsLoader`, `Bootstrapper`, `MCBootstrapper` | the start of the program | done |
| 7 | `BootstrapperProofs` | order of the plugins, services, commands | done |
| 8 | `ResponseWriter`, `Conversation`, `MCConversation`, `ConversationProofs` | `Respond` as two sends, partial, deferred or failed; both directions of a connection; no piece is lost | done |
| 9 | `Filesystem`, `FilesystemProofs` | processes that start together, are killed and start again | done |
| 10 | `ApplicationProofs` | type correctness, one chain of accepts, serial events, refinement of the clients, the registry, the life of the thread pool | done |
| 11 | `Shutdown`, `ShutdownProofs` | the whole process: `main` around `Application`, `~Application`, the plugins | done |

How they are composed: `Application` extends `AsyncTcpClient` and
`AsyncTcpListener` and is shown to implement the former, which implements
`ClientSession`; `Shutdown` extends `Application`; `Bootstrapper` extends
`PluginsLoader`, which extends `ServicesManager`; `Conversation` extends
`FrameReader`, which implements `MessageChannel`, and `ResponseWriter`.

## 3. The modules and the code

### AsyncTcpClient

The variable `cl` holds one record per connection.  Its fields are the
member variables (`running`, `sock`), the operations Asio has outstanding for
the object (`read` with its result `res`, `sending`, `unsent`), the other end
(`peer`, `frames`), the shared pointers to the object (`refs`: the local variable
of the accept handler, and the one a read handler captures and hands to the next
read), the event being raised on the strand, and the heap block.  `proc` is the
process.

The methods are operators from the record before to the record after (`Start`,
`Stop`, `Respond`, `StartRead`), so that a handler is written as the calls it
makes: `EndHandler(StartRead(Respond(o)))` is the handler of an empty message.
A read handler that raises an event is two actions, because the subscriber runs
in between and may be interrupted by other threads: `RaiseMessage` and
`MessageReturns` or `MessageThrows`, `RaiseClosed` and `ClosedReturns`.
Handlers that raise no event are one action: everything they touch belongs to
the strand.  What a subscriber does is any combination of `Respond` and `Stop`.

*Abstractions.*  Of a completed read only the five results are kept that the
handlers tell apart.  The strand is a field that serialises the handlers of one
client.  A completed send with all its bytes does nothing in `HandleWrite` and is
dropped.  The allocator may reuse the block of any freed object, which is how a
`HandleWrite` bound to a dead `this` may stop another client; other outcomes of
that undefined behaviour are nothing and a crash.

### ClientSession

The promise of `shared/net/itcp_client.h` without sockets and pointers: one event
at a time, `ConnectionClosed` at most once and last.  `AsyncTcpClient` implements
it with `session[c] <- SessionOf(cl[c])`: not started, open while a read is
outstanding, in an event while the strand is in it, and over otherwise.

### AsyncTcpListener and Application

`conn[c]` is the way of a connection through the accept (new, accepted by the
kernel, given to a handler, or dropped), `accepts` counts accept operations, and
`subscribed` is the state of the list of callbacks, of which the `push_back` has
a begin and an end.  `Application` adds the main thread (`main`, the progress of
`Startup`), `clients_` and the threads: `worker[w]` is what thread `w` executes.
A thread takes any handler that is ready (`TakeAccepted`, `TakeMessage`,
`TakeClosed`, `RunQuietHandler`) and the handlers of the application go on in
steps, split where another thread can make a difference: before and in the middle
of an access to `clients_`, before `AcceptNext`, before the local pointer dies.
Overlapping accesses to the map are undefined; the outcomes kept are that the
access works, that it is lost, and a crash.  Exceptions that leave a handler take
the thread out of `run()` for good.

What is in `clients_` is not quite "the currently connected clients", as
`include/application.h:91` and `shared/iapplication.h:41` say.  An entry leaves it
by `OnConnectionClosed` alone, and a session may end without that event: a command
or `HandleWrite` calls `Stop`, after which `StartRead` returns at once, or a
command throws something that is no `std::exception` (`src/application.cc:125`).
Such clients (`Unheard`) keep their entry for ever.  The properties therefore take
a client for `Connected` when its session goes on and its socket is open, ask that
these are in `clients_` (`RegistryOneThread`, `RegistryComplete`), and say of the
other entries whose they are (`RegistryOneThread`) and how they came to stay
(`StaleEntryCauses`).

`Application` draws the life of the clients from the actions of
`AsyncTcpClient` itself and decides when they happen.  `ImplementsClient` checks
that it gives them no step they do not have: what was found or proved about
`ClientSpec` holds in the server.  The number of threads is any of
`ThreadCounts`, and a launch may fail after some of them: those that run then
find no work and leave.

### Shutdown

The whole process.  `exit` is how far `main` and the destructors have come:
`ParseOptions`, then `Run` and the wait for a line of input, beside which the
server of `Application` runs (`ServerRuns`), then `~Application`, which waits for
the threads (`ThreadsJoined`) and unloads the plugins (`UnloadPlugins`).  A start
that throws goes through the same destructor (`RunThrows`).  Nothing in `src/`
says whether the injection library keeps the application in a static object;
`static` leaves it open.  If it does, `main` destroys the `io_context` first
(`IoDestroyed`): with threads still in `run()` that is undefined, and the phase
"dead" is its end, in which the destructor waits for threads that may never
come.  Otherwise the destructor waits for threads nobody stops, and the server
goes on serving: this is what the code does, and no property says otherwise.

### FrameCodec, FrameReader and MessageChannel

The header is eight bytes, of which four hold the length, low byte first:
`Encode` as `Respond` writes it, `Decode` as the reader adds it up.  `FrameReader`
is the reader of one connection on bytes: `wire` are the bytes written by the
peer and not read, `ready` of them have arrived.  `async_receive` takes what has
arrived, eight bytes at most; `async_read` reads up to `ReadCap` bytes until at
least `want` are buffered.  The constant stands for the room of at least 512
bytes that Asio makes in a streambuf; for TLC it is 2, so that messages of few
bytes need several reads and reads go past the end of a message.
`MessageChannel` is the abstract channel: messages arrive whole, once, in order.
A header announces at most 2^32 - 1 bytes, so that no frame holds a longer message
(`MessageAssumption`); what happens to the length of one is theorem `LengthCut`.

### ResponseWriter and Conversation

`ResponseWriter` is the sending half of a connection.  Response `n` is the two
pieces `2n-1` (header) and `2n` (message).  Respond starts a send for each and
waits for neither.  A send is done at once, whole or short, or fails, or waits in
`queue` if the socket is full.  One that waits is done when the array with the
header and the string of the caller are gone: what the peer receives is then
perhaps "junk", and the send counts as complete.  `failures` are the handlers
`HandleWrite` that will see an error or a short send, and call `Stop`.  `NothingLost`
and `ResponsesComeOut` are about whether a piece comes out and count "junk" as the
piece it should have been; that it is not is the finding of run `writer_garbled`.

`Conversation` puts the two halves together, with one action per handler:
`HeaderRead` answers an empty frame itself, `MessageRead` gives the message to a
command, and a wrong size or a failed read stops the client.  `AfterMessage` is
what `OnMessageReceived` and the command may have done when the reading loop goes
on: nothing (a command that has no answer, or throws a `std::exception`, which is
caught and logged), one response or two, `Stop`, or responses and a `Stop` in any
order.  `operation` is the read operation: after a `Stop` the handler of a read
that was already complete still runs, be it that of a header or of a message, with
all its effects, and what it starts on the closed socket ends in an error
("aborted").  `FrameReader` is used as it is: a step of the reader beside the
writer is a step of the reader.

### Filesystem

Here the processes are server processes of one user.  `dirs` are the directories
on disk; `create_dir` is two actions, since another process may act between
`exists` and `create_directory` (`CheckDirectory`, `CreateDirectory`), and so is
`ListDirectory` (`CheckList`, `Iterate`).  `create_directory` returns false for a
directory that has appeared, which the code takes for a failure, and throws if
the parent is gone.  `Kill` ends a process at any step, `Launch` starts it again.
A process that serves may delete an empty directory or move one, as plugins can
through the service.  `last` and `disturbed` are history: who changed the disk
last, and whether another one did since a start began.

### ServicesManager, PluginsLoader and Bootstrapper

The registry is a function from keys to providers.  The plugins loader follows
the loops over the map of plugins with `itr`, the iterator, one plugin per
action; what a plugin says of itself (priority, required and provided services,
commands) is chosen at the start, and how each of its virtual methods returns is
left open.  `provides` is what `RegisterServices` has registered when it returns:
with `false` it costs the plugin a warning and nothing else
(`src/introp/plugins_loader.cc:99`), so that a plugin that registers only some of its
services and returns `false` is one with those in `provides`.  One that throws
after some is `RegistrationFails`.  `EraseAt` is the removal of a plugin that
failed: the loop goes on from the freed node, and so to the end, to any plugin left
in the map or into a crash.  (With libstdc++ and a map of three the observed case
is that the first plugin comes again.)  `Bootstrapper` puts them in sequence with `LoadServices`
and gives up where the code does.

### Definitions named Faulty...

`FaultyX` is the definition `X` with a mistake that could have been made in the
code (a dropped pointer, a check left out, a swapped order).  They belong to no
specification.  For every property of a passing run one of them, put in the
place of `X`, makes TLC find the property violated: the property depends on that
line of the code.

## 4. The runs

Runs that pass:

| Run | Instance | Distinct states | What it asks and shows |
|---|---|---|---|
| `client` | 2 clients, 1 frame each | 321 thousand | Every interleaving of handlers, peers, sends and subscribers: reads keep their object alive, closed comes once and last, a stopped client never waits, an object is freed after its peer has gone, and `ClientSession` is implemented |
| `app_safety` | 1 or 2 threads, 2 clients, 1 frame each | 2.5 million, up to symmetry | From `Startup` on: one chain of accepts, broken only for the named reasons; one thread per client's events; no handler on a freed client; with one thread every connected client is in `clients_` between handlers, and the other entries are those of stopped clients whose `ConnectionClosed` was not raised (`RegistryOneThread`); `ClientSpec` is implemented; no thread returns from `run()` while connections may come (`PoolStays`); an entry of `clients_` becomes stale by a late `emplace`, by a race, or when a session ends unheard, by `Stop` or an escaping exception, and in no other way (`StaleEntryCauses`) |
| `shutdown` | 0, 1 or 2 threads, 1 client, 1 frame | 66 thousand | From the command line to the end of `~Application`: plugins are unloaded when no thread can run a handler; a start that fails leaves nothing that holds the threads (`FailedStartIdle`) and ends the process; a client whose peer is gone is freed, unless one of the named ends of the process came first; a connected client is in `clients_` from its emplace on, unless two threads were in the map at once (`RegistryComplete`) |
| `conversation` | messages of 0, 1 and 9 bytes, 2 of them written, up to 2 answers before the last command or frame, reads of 2 bytes | 533 thousand | Both directions of a connection: the reader keeps its place in the stream and implements `MessageChannel`; no piece of a response is lost unnoticed; a peer that waits until its frame is handled, and whose headers arrive in one piece, is never refused for a size (`PoliteNeverRefused`) and has every frame handled or is disconnected (`PoliteHandled`); whatever is given to `Respond` comes out, or the client is stopped (`ResponsesComeOut`) |
| `files` | 3 processes | 241 thousand | Starts race, are killed and repeated: never all of them abort, and what a dead one left hinders no other |
| `boot` | 3 plugins of priorities 1 to 3, 2 core services, 1 more key, 2 commands | 1.2 million | Required services first, dependencies by priority, each plugin once unless one was removed, one owner per command, and the start ends |

Runs whose property is what a comment or doc says, and which TLC finds violated
by what the code does:

| Run | Line that says it | What happens |
|---|---|---|
| `app_dropped` | `OnNewClientAccepted` is "Executed when a new valid connection is accepted" (`src/application.cc:49`) | `Start` accepts before `Startup` subscribes: the first connection may find no handler, is closed, and nothing accepts again |
| `app_stale` | `OnConnectionClosed` is to remove the "weak_ptr from the clients map" (`src/application.cc:138`) | The client is started before it is entered in `clients_`; if it closes in between, its entry stays for ever |
| `app_dangling` | `StartRead` takes a pointer "in order to keep the object alive" (`src/net/async_tcp_client.cc:97`); `Respond` does not | A send is bound to a raw `this` and completes after the client was freed |
| `reader_greedy` | the message task receives a message "with the size of msg_length" (`src/net/async_tcp_client.cc:132`) | `async_read` reads on into the next frame, and the size check closes the connection of a peer that did not wait |
| `writer_garbled` | `HandleWrite` is to "Disconnect the client if the message could not be sent" (`src/net/async_tcp_client.cc:178`) | A header that has to wait is sent from the stack of a `Respond` that has returned: something else is sent, the sizes agree, and the client stays connected |
| `boot_repeat` | `InitializePlugins` initializes plugins "one by one" (`src/introp/plugins_loader.cc:81`) | After a removal the loop continues from a freed node: a plugin is initialized twice, or never |

### Bounds, and why they are enough

* Two clients: the properties speak of one client, except for the reuse of a heap
  block and for accesses to `clients_`, which take two.
* One frame per client: what follows a frame is a client in the same
  state as before, with a smaller `frames`.  The number of responses is bounded by
  the number of frames.
* Two threads: a race needs two; `OneAcceptChain` and `StrandSerial` are about
  pairs.  `ThreadCounts` has 1 for what holds only with one thread, and 0 in
  `shutdown`, where `--threads 0` launches none and `Startup` succeeds.
* One client in `shutdown`: its properties are about one client, or about threads
  and the main thread.  Two threads in `clients_` at once are there too, the accept
  handler of the client and its `OnConnectionClosed`.  `RegistryComplete` with
  several clients is theorem `ConnectedAreRegistered`.
* `MaxMessages` is 2: the second message tells whether the reader found its place
  after the first, and the second response whether it was overtaken.  The messages
  are an empty one, one that is shorter than a read, and one of nine zero bytes that
  needs several reads and would be taken for the header of an empty frame if the
  reader lost its place.
* `MaxAnswers` is 2, and a handler makes two calls at most: a command that answers
  twice differs from one that answers and then stops the client, and a third call
  meets a writer in a state that two calls of two handlers lead to as well.  At the
  bound no command answers any more and the peer writes no new frame.
* Three plugins: with three the map has a root with two children, and one plugin
  can fail between two others.
* Three server processes: two race, and the third comes to what they left.

`CHECK_DEADLOCK FALSE` stands in every configuration but `Files.cfg`:
connections, frames and the start are finite in the others, so a run that has
served everything stops.  A server process can always be started again, and there
deadlock is checked.

### Fairness

* `FairClientSpec`: the handlers of each strand run, since the threads of the pool
  take every ready handler and Asio serves strands in order; the accept handler
  returns; the kernel reports the end of a connection to the read or the sends
  that wait.  Nothing is assumed of the peer or of data.
* `FairShutdownSpec`: each thread that can take a step does; the main thread gets
  on with options, `Startup` and the destructors, but nobody need ever type the
  line it waits for (`InputRead` is not fair); the kernel reports failed
  connections.  That a thread is left to serve is not assumed but part of
  `FreedWhileServed`.
* `FairTalkSpec`: bytes that were written arrive, what has arrived is read, and a
  peer makes room for what is sent to it or its connection fails, until the client
  is stopped.  Nothing is assumed of what the peer writes or a command answers.
* `FairBootSpec`: the main thread runs.  A plugin that never returns is outside
  of it.

All of it is weak fairness.

## 5. What is proved

The theorems hold for every value of the constants that satisfies the
assumptions the modules name.

`AsyncTcpClientProofs`, for every set of clients and number of frames
(`MaxFramesIsNat`):

* `ClientInvariant`: the inductive invariant, from which the others follow;
* `ClientTypeCorrect`, `ReadsKeepAlive`, `ClosedComesLast`, `StopEndsReads`: the
  invariants of the run `client`;
* `SessionImplemented`: `ClientSpec` implements `ClientSession`.

The properties are not inductive: that a read keeps the object alive depends on
which pointers exist, and these on what the handler does at its end.  The
invariant `Settled(o)`, for each client record between handlers, says that the
pointer of the reads exists exactly while a read is outstanding or an event is
raised, that an object lives exactly as long as it has a pointer, that the socket
of a living client is open exactly while it runs, and that a closed socket keeps
no read waiting.
`Core` is the part that holds at every point of a handler and `InHandler` what a
running read handler has; the lemmas follow the methods through these three, so
that the proof of an action is the composition of the lemmas of the calls it
makes.  The dangling `HandleWrite` is the one action that touches two clients; it
preserves the invariant because `Stop` does, on whichever client it hits.

`ApplicationProofs`, for every set of clients, every finite set of threads and
every choice of their number (`WorkersAreFinite`, `NoClientIsNoClient`,
`ThreadCountsAreNat`, `MaxFramesIsNat`): `AppTypeCorrect`, `OneChain`,
`ChainUnbroken`, `EventsSerial`, `HandlersHold`, `OneThreadRegistry`, the
refinement `ClientImplemented` and, composed with `SessionImplemented`,
`SessionsInServer`.  The invariant is `AppInv`.  `ClientInv` comes from
`AsyncTcpClientProofs`: `AppIsClientStep` shows that each step of a thread gives
the clients one of their own steps, which needs `StrandSerial` (a thread in a
subscriber finds the strand in that event).  `Chain` says that there is one
accept operation, or one accepted connection, or one thread in the accept
handler, but never two of these; the cardinality of `OneAcceptChain` follows from
it.  `NotYet` is the start, when there is none.  `Held` says that the client in
an accept handler has its owner's pointer and is in no other handler, so it is
not freed under it, and `AcceptsUnlessBroken` that the chain ends only for the
named reasons.  `SoleExact` is the invariant about `clients_`: if one thread is
all there is and it has not left `run()`, then `clients_` differs from the clients
whose `ConnectionClosed` was not raised (`Unclosed`) by exactly the one that the
thread is registering or removing, and no client is `LeftRunning`, over without
`ConnectionClosed` and without `Stop`.  `LeftByException` shows that only
`CommandEscapes` makes a client that, which takes the thread out of `run()`.
`OneThreadRegistry` is the consequence: an entry is connected or was stopped.

With more threads the converse of registration fails (run `app_stale`), and an
access that races may be lost.  What is left is `ConnectedAreRegistered`:
`[]NoOverlap => []ConnectedRegistered`, under the assumption that no two threads
ever were in the map at once a connected client is in it, or has its `emplace`
still to come.  `UnclosedRegistered`, which says so of every client that is not
closed, is inductive beside `AppInv`, since an erase is for a client whose
`ConnectionClosed` was raised (`StrandSerial`).  `StaleEntries` says of the entries
that stay how they came about, without that assumption: by the `emplace` of a
client that was done before it, which is what `app_stale` shows, by an erase that
raced, or because the session ended unheard, by `Stop` or by an exception that
left `OnMessageReceived`, and by nothing else.

`FailedStartLeaves` and `PoolKept` are about when `run()` returns.  They need
`StartInv`: until the listener listens there are no accepts, connections, clients
or busy threads (`Still`), a start that failed never came that far, and one that
has succeeded is `started`.  That an idle thread leaves only over a broken chain
then is the contraposition of `AcceptsUnlessBroken`.  `SafeInServer` carries the
invariants of `AsyncTcpClientProofs` over to the server.

`ShutdownProofs`, under the same assumptions: `ShutdownInvariant`, that `AppInv` and
`StartInv` hold to the end of the process and that from the loop over the plugins
on all threads are done; `ShutdownTypeCorrect` and `UnloadedLast` follow.
`ExitStep` says what `main` and the destructors can do besides: crash the process,
or give up a start that was not begun.  So everything proved of `Spec` for the
running server holds while `main` waits for its line and `~Application` for the
threads: `ServedToTheEnd`, `FailedStartJoins`, `PoolToTheEnd`, `ClientToTheEnd`,
`SessionsToTheEnd`, `RegisteredToTheEnd`.

`FilesystemProofs`, for every set of processes (`ProcessAssumption`):
`FilesTypeCorrect`, `NotAllAborted`, `LeftoversHarmless`.  Both properties need to
know what a start may rely on.  `FilesInv` says it: for the process that changed
the disk last, and for one that no other has disturbed, the disk is as its last
check has found it (`Steady`), so that its next step does not abort; the second
kind also has every directory it has come by (`Made`).

`FrameReaderProofs`, for all messages, read sizes and numbers of frames
(`MessageAssumption`, `ReadCapAssumption`, `MaxMessagesAssumption`):

* `LengthRoundTrip`: the decoded length is the encoded one for every length below
  2^32; `LengthCut`: above, they differ by a multiple of 2^32, whatever the message;
* `ReaderTypeCorrect`: the variables of the reader keep their types and no empty
  message is delivered;
* `ReaderAligned`, `ChannelImplemented`: the reader keeps its place in the stream,
  and `MessageChannel` is implemented;
* `PoliteServed`: a peer that waits until its frame is handled and whose headers
  arrive in one piece is never refused for a size.

The invariant is `StreamInv`: before a header, the bytes on the wire are the frames
not handled, one after the other; in a message, buffer and wire together are what
is left of the first of them and the frames behind it (`Aligned`); and what was
delivered is what the frames handled hold (`Delivers`).  A read moves bytes from
one side of a concatenation to the other, and only the end of a message drops a
frame.  `PoliteServed` needs `Waits` beside it, that there is at most one frame not
handled and that no part of a header has arrived alone.

`StreamLemmas` holds what this needs of `FlattenSeq`, which the frames on the wire
are: the flattening of a concatenation is the concatenation of the flattenings, for
sequences of any length.  It is proved by induction, in the form of a set of
numbers that has 0 and is closed under the successor (`NatClosed`, from the
well-foundedness of `<`), because the induction theorems of the library take an
operator as a parameter, which the provers cannot instantiate.

`ConversationProofs`, for all messages, read sizes and numbers of responses:
`WriterTypeCorrect`, `NoPieceLost`, and `ReaderImplemented`, that the
conversation implements `FrameReader`, so that what is proved of the reader holds in
it (`TalkAligned`, `TalkChannel`, `TalkPolite`).
`NoPieceLost` is shown through `Sound(w, n)`: after `n` pieces either a send has
failed, or the client was stopped, or exactly the pieces up to `n` were received or
wait, in order; each of the two sends of `Respond` takes `Sound(w, n)` to
`Sound(w, n + 1)`.

`BootstrapperProofs`, for every set of plugins, attributes, services and every
failure (`ServiceAssumption`, `NoPluginAssumption`, `CommandAssumption`,
`AttributesAssumption`): `BootTypeCorrect`, `RequiredServicesUp`,
`DependenciesByPriority`, `InitializedOnce`, `CommandOwners`.  `FirstIsLeast` gets
the first plugin of a set from the well-foundedness of `<`; `NextPasses` says that
a step of the loop leaves behind the plugin it was at and no other, for which no
two plugins may have the same priority (`Distinct`, which `RefusePlugin`
maintains).  The invariant `InOrder` then says that, as long as none was removed,
exactly the plugins left behind were initialized and have their services in the
registry.  A plugin whose required key is missing is therefore not preceded by one
that provides it, which is `PriorityResolves`.  `CommandsSoFar` does for
`LoadCommands` what `InOrder` does for `InitializePlugins`.

Model-checked only: the liveness properties (`FreedAfterPeerGone`,
`FreedWhileServed`, `FailedStartEnds`, `PoliteHandled`, `ResponsesComeOut`,
`StartEnds`), since the
prover has no rules for fairness and `ENABLED`.  The safety half of
`FailedStartEnds` is `FailedStartIdle`, that of `PoliteHandled` is
`PoliteNeverRefused`, and that of `ResponsesComeOut` is `NothingLost`.

## 6. What is not modelled, and why

* `OpenFile` and `GetPath` change nothing that other operations see, and the
  contents of files do not matter to any; `HOME` is taken to be set.
* That `clients_` loses an entry when two threads change it at once is in the
  model (`EndAccess`), as is a crash; no line of the repository promises anything
  that could be checked against it.
* What happens after undefined behaviour: a crash is an outcome where there is any,
  and the model claims nothing beyond the outcomes listed with each module.
* Configuration, logging, time and the event arguments: no state that anything
  here depends on.  The lines of a log and the buffer of `localtime` may be mixed up
  by several threads, which changes what is printed and nothing else.
* The contents of requests: `OnMessageReceived` matches a pattern and looks up a
  command; which of its outcomes occurs is open.  In `Conversation` a command makes
  two calls at most.  It may answer nothing at all, as when it throws a
  `std::exception`: then the peer waits on a connection that goes on, and no
  property says that it gets an answer.
* `--max-connections` and the option for plugins are declared and used nowhere.
* Memory, and the 4 GiB a header may announce.
* Plugins: any outcome of their methods, but not threads of their own.
