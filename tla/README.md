# conjist in TLA+

Specifications, model-checking runs and machine-checked proofs for conjist, the
program that finds peers over XMPP, links the hosts of friends by TCP and makes
each other's music collections appear as DAAP shares. Source paths below are
relative to the repository.

## The system

A conjist process is one Qt event loop in its main thread, one more thread per
DAAP server (`QDaapdThread`), the master and worker threads of each mongoose
context, and, if it is started, a scanner thread. On the event loop a slot runs
to its end; signals of different sockets come in any order. Processes of
different hosts interleave freely and share only TCP connections and the XMPP
server.

| Component | State it keeps | Operations | Interacts with |
|---|---|---|---|
| Command line (`src/getopt_helper.cpp`) | the stack of arguments, the option whose value is expected | `parse` | conjist::setup |
| Port forwarding (`src/portfwd.cpp`, `miniupnp`) | the gateway's URLs, this host's address on its side, its external address | `init`, `get_status`, `add` | UPnP devices; conjist::startServent |
| XMPP stream (`qxmpp`) | the socket, `m_sessionAvaliable`, the roster | read, login, accept a subscription | XMPP server; JabberClient |
| Discovery (`src/jabberclient.cpp`, `src/conjist.cpp`) | `m_peerjids`, external address | `presenceReceived`, `messageReceived`, `newJabberPeer`, `jabberMsg` | XMPP stream; Servent |
| Connection (`src/connection.cpp`) | `m_sock`, `m_bs`, `m_outbound`, `m_ready`, `m_firstmsg` | `start`, `readyRead`, `sendMsg`, `shutdown`, `markAsFailed` | the Servent (dial, accept, hand-over), its subclasses (`setup`, `handleMsg`) |
| Servent (`src/servent.cpp`), ControlConnection, RemoteCollectionConnection | `m_controlconnections`, `m_offers`, the accepted sockets with their `_bs`, `_conn`, `_disowned` | accept, first message, `connectToPeer`, `createParallelConnection`, `reverseOfferRequest`, register, unregister | peers by control messages (`library-offer`, `request-offer`, `alltracks`); conjist, which dials and offers |
| DAAP server of a collection (`qdaapd/httpd.cpp`, `src/remotecollection.cpp`) | `m_tracks`, `m_tracksloaded`, the port, a mongoose context | `connAllTracks`, `startListening`, `handleRequest`, deletion | RemoteCollectionConnection (makes and deletes the collection), mongoose workers |
| HTTP server (`qdaapd/mongoose.c`) | the ring of accepted sockets, the counts of threads, a connection per worker | `mg_start`, accept, `put_socket`, `get_socket`, read and answer a request, `mg_stop` | Httpd; HTTP clients |
| DAAP proxying (`src/proxy*.cpp`) | send buffers on both ends, `m_dead` | relay both ways, flush, close | Servent, a local DAAP client and server |
| Bonjour (`src/zeroconf`) | the one registered service, known records, one resolve in flight | `registerService`, browse reply, resolve, finish | Servent |
| Library and scanner (`src/library`) | SQLite tables, one shared query | `addFile`, `removeFile`, `buildIndex`, `searchTable`, `allTracks` | RemoteCollectionConnection::setup |
| Track streaming (`src/remoteioconnection.h`, `src/remoteiodevice.h`), daaplib | a buffer and a wait condition; none | | see Not modelled |

What is hard here: a byte stream that is cut anywhere; a socket that changes
hands between two readers; raw pointers in `m_offers` and
`m_controlconnections` to objects that delete themselves; hosts that decide
independently who dials; peers that restart; links that break at any step; a
main thread and server threads that share a collection without a lock; a pool
of threads that start, wait, time out and are stopped around one ring; a
database that survives where its process stops; requests to a gateway whose
failure nobody looks at. `PROJECT.json` lists each such hazard at its line, with
the properties that would catch it, or the reason why none does.

What makes the components correct:

* Start: an option means what it says wherever it stands; the address told to
  peers is the one the best gateway forwards; the login is in order, after the
  encryption if required, and ends online.
* Discovery: of two hosts of which one is visible exactly one dials, restarts
  or not.
* Connection: payloads arrive whole, once and in order, after the handshake;
  nothing waits in a buffer for ever; a broken link frees both objects.
* Servent: the list of control connections holds only usable objects; a key
  outlives its object only where it was taken in reverse; reverse requests end;
  unless a link is lost or an offer taken by another peer, each side gets the
  other's tracks.
* DAAP server: it starts at most once, after the tracks have come, and does start
  unless the signal that they have come is lost.
* HTTP server: a socket is in one place from `accept()` to close; each request
  gets one answer, as long as it says; `mg_stop()` returns and leaves no thread.
* Proxying: a two-way pipe while it lasts, and an end for both sides.
* Bonjour: the records known are the services there are, each with its port.
* Library: after any stop and whatever statements fail, rows that belong
  together; a file whose `addFile` call returned its id listed with that call's
  names; a later call that meets no failure repairs what others left; a search
  that finds each name after a build that met none.

## Modules

| Module | Models | State and actions |
|---|---|---|
| `ReadyLink` | what a Connection promises | ready, sent and handled messages per end; become ready, send, hand over, break |
| `Connection` | one TCP link at the level of bytes | `wire`/`rbuf` are the bytes under way and in `QTcpSocket`; `bs` is `_bs`/`m_bs`; `owner` says whose `readyRead` is connected; `timers` counts pending `singleShot(0)`. `Arrive` delivers any prefix; `Timeout` is the timer; `Disconnected`, `DeferredDelete` are `shutdown()` and `deleteLater()` |
| `Servent` | the servents of several hosts | per host `offers`, per Connection `ccs` (its entries in `m_controlconnections`), `life`, `ready`, `outbound`, `sockOf` (`m_sock`); per socket both ends and the messages under way. One action per slot; `ReadyRead` splits by message |
| `Rendezvous` | presence, offers, who dials | `peers` is `m_peerjids`; `offers`, `dials` what was offered and dialled; `link` the stanzas from host to host; `visible` is what `visibleExternally()` says, chosen at each start. `Login`, `Logout` are the processes' starts and ends and the server's broadcast |
| `CollectionServer` | the DAAP servers of one host | `life`, `loaded` of a collection, how far its server thread is, posted starts, who listens; `emitting` splits `connAllTracks` at the point where another thread can see the flag but not yet the signal |
| `HttpRequest` | the answer to a request | pure operators: the request line and header, the methods, files, ranges, directories, scripts, authorization, the URLs of the DAAP server; `Answers(r, cb, got)` is the set of answers a request may get |
| `HttpServer` | mongoose's threads | the ring (`queue`, `sq_head`, `sq_tail`), `num_idle`, `num_threads`, `stop_flag`, each worker with its `mg_connection`, the master, the clients. A section under `thr_mutex` is one action; `TimesOut` and `WorkerExits` are the two ends of a timed wait |
| `Pipe` | what a DAAP client is promised | what each end wrote and read; write, read, break |
| `Proxy` | a ProxyConnectionListener and a ProxyConnection | both ends' sockets and buffers, the messages between them; one action per slot |
| `Bonjour` | browser, resolver, register | what the daemon wrote, the records, one query, its lookups and queued cleanups |
| `DaapSharing` | `Bonjour` and `Proxy` in one Servent | listeners are opened, advertised and closed; a client comes to what is advertised |
| `Library` | database, scanner, addFile, index | one action per SQL statement, each of which may fail, those of the schema and of `buildIndex` too; `Stop` ends the process between any two; only `db` survives. `made` is what took effect of the schema, `lost`, which the code does not keep, what ever failed of it |
| `Options` | `GetOpt::parse` | the stack, the option that expects a value, the values; one action per kind of argument |
| `Igd` | miniupnp and Portfwd | devices that answer a search, the descriptions, the rounds of `UPNP_GetValidIGD`, the commands; a request may fail before or after the gateway has read it |
| `XmppStream` | the XMPP client and its server | what each wrote, the socket, the roster; an element is a sequence of parts, so that features come in any order; a read takes any number of elements, or ends inside one |
| `Startup` | `conjist::setup` | composes `Options`, `Igd` and `XmppStream` in the order of `setup()` |
| `MC*` | constants for TLC | |
| `*Proofs` | theorems | |

`Servent` takes from `Connection` that messages are whole and in order, and
from `Rendezvous` the set `Dials` of who dials whom; `CollectionServer` is what
a RemoteCollectionConnection that has become ready owns, and `HttpServer` what
its `startListening` starts; `Proxy` stands on the messages of `Connection`.
`Startup` ends where `Rendezvous` begins: `external` is what makes a host
visible, and `Online` what makes peers see it. The mapping of every definition
to its lines is in `PROJECT.json`.

Abstractions.

* In `Connection` messages are short byte sequences: the lengths differ and the
  bodies can be told apart, which is all the framing looks at.
* In `Servent` a uuid is the object it names, since keys are never equal by
  chance; an object registered under a second key by `createParallelConnection`
  is one member of `offers`. `connectToHost` either connects or errs; a crash by
  use of a deleted object closes the host's sockets and stops its actions. Ports
  and names are left out. `start()` of an already ready object, which needs a
  second socket for one object, keeps `m_ready`, as the code does.
* In `Rendezvous` an address is its rank in the order of `QString::operator<`,
  which is all `jabberMsg` looks at; the server delivers stanzas between two
  hosts in order, drops a message to a jid that is gone (no offline storage, no
  error message back), and each stanza is read whole.
* In `CollectionServer` a peer sends its tracks once (its `setup()` runs once).
* In `HttpRequest` a request is what mongoose tells apart in it, and a body is
  counted in units; `uint64_t` lengths are modulo `Wrap`. In `HttpServer` a
  client connects once; a worker's identity is reused after it has left.
* In `Proxy` reads take any number of bytes; TCP to client and server is whole
  while it lasts.
* In `Bonjour` a service and its host have one name, and a port is named by its
  service; interfaces are not told apart.
* In `Library` a name is a sequence of characters, `Lower` their lower case; a
  row is what its unique index is over. Three pairs of statements are one step
  with the outcomes of both: the SELECT and INSERT of `artistId`, `trackId` and
  `albumId`, the DELETE and SELECT of `buildIndex`, and the UPDATE and INSERT for
  one n-gram. A process may start the scanner or not (`Scans`): nothing under
  `src/` does (see Known divergences), and what `addFile` does is stated for
  whoever calls it.
* In `Options` an argument is what the lexer makes of it; `Length` is that of its
  text, which bounds how often it can be pushed back. In `Igd` a device is
  the targets it answers a search for, the services of its description, and
  whether its WAN connection is up; a reply nobody wrote is anything in
  `Garbage`, since the buffer it is parsed from is not initialised.
* In `XmppStream` an element is the kinds of its parts, of which only features
  have several; encryption and SASL are one step each.

## Runs

| Run | Instance | Shows |
|---|---|---|
| `connection` | 1-byte handshake messages, payloads of 1 and 2 bytes, two from the dialler and one from the other end, every cut | `PayloadsInOrder`, `NothingStranded`, `IsReadyLink` (refinement, with fairness), `BrokenLinkFreed` |
| `servent_pair` | 2 hosts, 1 dial, 2 losses | `SharesAppear`, `LostLinkUnlisted`, `BrokenLinkFreed` |
| `servent_chain` | 3 hosts, the middle one dials and is dialled, 1 loss | `TypeOK`, `ListedUsable`, `ListedOnce`, `ControlHandshake`, `RequestsReachDialler`, `StaleOnlyReversed`, `TracksFindCollection` |
| `rendezvous` | 2 hosts, 3 logins each, visible or not each time | `TypeOK`, `OneInitiator`, `OneOfferEach`, `SomebodyDials` |
| `collection_server` | 2 collections, 2 ports | `ListeningLoaded`, `StartedOnce`, `LoadedInTimeListens` |
| `library` | 3 files in 2 directories, one of two versions, one untagged; 1 stop, 2 failed statements; the index of tracks | `DatabaseSound`, `ListedAsAdded`, `AddRepairs`, `SearchFinds` |
| `http_server` | 3 clients at once, or 1 with each of 46 requests; 2 workers, a ring of 1, one failed thread start, `mg_stop()` at any time | `TypeOK`, `OnePlaceEach`, `OneAnswer`, `MemorySound`, `ConnectionsEnd`, `StopReturns` |
| `startup` | 115 command lines; 16 networks of 2 devices with 1 fault; 24 kinds of server, 1 push, 1 cut | `OptionsMeant`, `VisibleRight`, `LoginInOrder`, `ComesOnline` |
| `daap_sharing` | 2 services, 4 changes, 3 answers; or one session with 2 bytes each way, 2 offers, any failure | `KnownIsThere`, `ResolvedRight`, `TunnelIsPipe` (refinement, with fairness), `Teardown` |
| `rendezvous_same_jid`, `startup_mapping`, `startup_usage` | the smallest instance with the case | each a disagreement of the code with a comment or document, see Findings |

Bounds and why they are enough.

* `MaxSend` two payloads from one end make two frames meet in one read, and one
  from the other makes both directions cross; with two distinct lengths every
  wrong length or boundary shows.
* `MaxConn = 5` and `MaxSock = 3` let the middle host construct the control
  connections, its own library offer and the collections of two peers, and
  reverse one offer; a host that has spent its bound takes no such step, which
  for invariants only cuts long behaviours. `servent_pair`, the run with
  liveness, never reaches its bounds. `MaxLoss` one or two links break at any
  point, so a break meets every step.
* Three logins let a host restart while stanzas of its last and its next to last
  process are under way; two hosts are enough, since what a host does about one
  peer never looks at another.
* Two collections let ports collide and one share be deleted while the other
  starts.
* A ring of one slot is full with the second socket and wraps at once; two
  workers let one be idle, or timed out, while the other is busy; three clients
  are more than both and the ring hold. A header of three pieces is longer than
  the buffer with a fourth. Three requests at once are enough to meet in the
  threads; what a request is answered with does not depend on another one.
* One stop and two failed statements meet every statement, and each other: two
  failures are what it takes to list a url twice (its unique index was not made,
  and its old row not found or not removed) or to count a name twice. The names
  differ in case and spaces only, so that keys meet; one file changes between
  scans, so that rows of its old tags stay behind.
* Two devices let the first found be the worse one; three rounds of the choice
  are the code's own. One fault meets every request. `Port16` is small, so that
  a port is truncated.
* Four changes let a service come, go and come again before one read; three
  answers let the next query be answered too. Two bytes each way let one be
  written before the link is ready and one after.

No symmetry is used. `CHECK_DEADLOCK FALSE` is set since all of these systems
may come to rest: nobody has anything to send.

Fairness. Every slot whose signal has been emitted runs, timers fire, deferred
deletes are run, TCP and XMPP deliver while the link or the process is up: weak
fairness of each such action, or of their disjunction where none of them can go
on for ever, which is what an event loop that is never blocked gives. Threads
keep running, and a timed wait ends. A client that has connected to mongoose
sends what it has or leaves: nothing in the server makes it, see Known
divergences. Nothing forces a payload to be sent, a link to break, a host to
log in or out, a collection to be loaded or deleted, a service to appear, a
statement to fail or a process to stop. `SharesAppear` and `SomebodyDials` claim
something only of hosts that stay and links that are not lost; `ComesOnline`,
`ConnectionsEnd` and `StopReturns` name what they except.

### Slips

For each property a `Slip_` definition stands next to the one it imitates: a
mistake the code could plausibly contain, under which TLC finds the property
violated.

| Slip | Mistake | Breaks |
|---|---|---|
| `Slip_AfterMessage` | `m_bs` not reset | `PayloadsInOrder` |
| `Slip_Rescheduled` | no timer for what is left | `NothingStranded`, `IsReadyLink` |
| `Slip_ShutsDown` | `disconnected()` connected only once ready | `Connection!BrokenLinkFreed` |
| `Slip_Ready2Then` | no answer to "ready" | `SharesAppear` |
| `Slip_Ready2ThenTwice` | "ready2" twice | `ListedOnce` |
| `Slip_Ready2ThenLate` | `setup()` before "ready2" | `TracksFindCollection` |
| `Slip_Unregister` | destructor does not unregister | `ListedUsable`, `LostLinkUnlisted` |
| `Slip_ConnectFinished` | `finished()` not connected to `deleteLater()` | `Servent!BrokenLinkFreed` |
| `Slip_OffersAfterUse` | a used offer stays | `StaleOnlyReversed` |
| `Slip_Greeting` | "ready2" at once, without waiting for "ready" | `ControlHandshake` |
| `Slip_DialsDirectly` | the test of `outbound()` inverted | `RequestsReachDialler` |
| `Slip_UnregisterOne` | an entry is taken from the list without asking if there is one | `Servent!TypeOK` |
| `Slip_Known` | the set of known jids not asked | `OneOfferEach` |
| `Slip_Offer` | an offer without its key | `Rendezvous!TypeOK` |
| `Slip_LetsPeerInitiate` | every visible host waits | `SomebodyDials` |
| `Slip_LetsPeerInitiateNever` | every host dials | `OneInitiator` |
| `Slip_AfterCheck` | the signal is connected also if loaded | `StartedOnce` |
| `Slip_AfterCheckUnasked` | starts without asking | `ListeningLoaded` |
| `Slip_Posted` | the signal does not reach the server | `LoadedInTimeListens` |
| `Slip_Schema` | the version recorded first | `DatabaseSound` |
| `Slip_Key` | tracks and albums looked up without their artist | `DatabaseSound` |
| `Slip_NewFileId` | the id of a removed row given out again | `ListedAsAdded` |
| `Slip_Emptied` | the old index is kept | `SearchFinds` |
| `Slip_Unfiled` | the old file row is kept | `AddRepairs` |
| `Slip_Uncounted` | a thread that leaves stays counted as idle | `HttpServer!TypeOK` |
| `Slip_Wrapped` | only the tail of the ring is wrapped | `OnePlaceEach` |
| `Slip_BodyErrors` | a body that did not come whole is passed over | `OneAnswer` |
| `Slip_FiniWaits` | `mg_fini` does not wait for the workers | `MemorySound` |
| `Slip_BodyBuffer` | a body on the stack is marked to be freed | `MemorySound` |
| `Slip_Signalled` | a queued socket wakes nobody | `ConnectionsEnd` |
| `Slip_Told` | a slot that becomes free wakes nobody | `StopReturns` |
| `Slip_Pushed` | what follows a short name is lost | `OptionsMeant` |
| `Slip_Suffices` | a gateway that is down is taken in the first round | `VisibleRight` |
| `Slip_Required` | the features after a required starttls are looked at too | `LoginInOrder` |
| `Slip_BindReply` | no session is asked for | `ComesOnline` |
| `Slip_Found` | records that are gone stay known | `KnownIsThere` |
| `Slip_Asks` | a second query replaces the first | `ResolvedRight` |
| `Slip_Flushed` | the buffer is flushed backwards | `TunnelIsPipe` |
| `Slip_Closes` | destructors leave their socket open | `Teardown` |

## Findings

1. `jabberclient.cpp:18` A peer never goes offline; restarted under the same
   jid it gets no offer (`rendezvous_same_jid`).
2. `upnpcommands.c:336` The result of the request that adds a port mapping is
   ignored, and a reply without an error code, or none at all, is success
   (`startup_mapping`).
3. `conjist.cpp:30` The option for the server's port is `--jabberport`; the usage
   text and `src/README.txt` say `--port`, and a host started so exits
   (`startup_usage`).

## Known divergences

What the models show the code to do that a reader may not expect. It is part of
the models; the properties name it where they except it.

Servent and discovery.

* `servent.cpp:256`: an offer taken in reverse stays registered, so its key
  outlives the object, and one that is used then crashes the host; or the object
  is dialled out with and handed an accepted socket too. No peer has to claim a
  key twice for it: the key of a library offer is written to all peers, of which
  one may ask for it in reverse and another dial with it. One lost link is enough
  in `servent_chain`.
* `servent.cpp:60`: the library offer meant for a peer that has just come works
  once, but goes to all control connections: where two peers dial one host, the
  earlier may take it, and the later one, whose dial is refused, and the host never
  get each other's tracks. `SharesAppear` is checked for one peer, and false for
  two (`MCServentChain.cfg` with `Dials <- Star` and `MaxLoss = 0`).
* `servent.cpp:224`: nothing connects `finished()` of a ControlConnection whose
  dial fails to `deleteLater()`; it is never deleted.
* `conjist.cpp:190`: hosts with equal external addresses (behind one router)
  both dial. `OneInitiator` is stated for distinct addresses.
* `servent.cpp:190`: a control connection that has just been disconnected gives
  null for address and port; the parallel connection's dial then errs.
* `httpd.cpp:13-15`: `finishedLoading()` emitted between `isLoaded()` and
  `connect()` is lost and the server never starts.
* `conjist.cpp:83`: `setupLibrary` starts the scanner if the database file does
  not exist, but asks after the Library has made it.

HTTP server.

* There is no receive timeout: a client that connects and is silent keeps its
  worker, and with it `mg_stop()`, for ever.
* `put_socket` takes a worker whose wait has timed out, but which has not yet
  taken the mutex, for an idle one: no thread is started and nobody is woken.
  The socket waits for the next one; if such sockets fill the ring, the master
  and `mg_stop()` wait for ever.
* A worker that times out before its first socket leaves through a null
  `conn.ctx` (`mongoose.c:4525`).
* A request that comes between the options `ports` and the callback is answered
  from the working directory.
* A range is not compared with the file's size: the answer declares more than it
  sends. A header longer than the buffer is closed without an answer. PUT and
  DELETE are always 401. `/logout` and every track are 503, the latter after a
  RemoteIOConnection has been dialled. A POST to a script that closes its input is
  answered 577, which says that its body did not come.

Start.

* A value that begins with `-` is taken for an option.
* `Portfwd::add` reads a null pointer when no device's description could be
  fetched. A device that is no gateway, or a gateway whose connection is down,
  counts as good enough in the later rounds. The external address may be empty
  while the host counts as visible. The last WAN service of a description wins.
  A port above 65535 is truncated. `remove()` has no caller; a search that is
  answered for ever never ends.
* Features are gone through in the server's order: one that names its mechanisms
  before the `starttls` it requires is sent the password unencrypted, and then
  again (`QXmppStream.cpp:163-199`).
* A read that ends inside an element loses it and what came with it. A lost
  connection is not made again, a refused password is only logged, and a server
  that offers no session leaves the client without presence.

Proxying and Bonjour.

* Nothing offers a ProxyConnection: that code is commented out
  (`servent.cpp:319-337`). The listening side is live, on a `daap-offer`.
* If the proxied server closes, the client is not told before it writes again;
  if it refuses, the client hangs. A failed dial leaves the listening end
  undeleted. A client that leaves before the link is up leaves a connection
  nobody closes, or crashes the process (`proxyconnectionlistener.h:68`).
* Only the first share is advertised, and it stays so after its listener is
  closed. A record that comes while another is resolved counts as known and is
  never resolved. An error reply leaves its query, so that no other starts. A
  query that is answered twice queues two cleanups, the second of which ends the
  next query and makes a port of -1.

Library.

* `albumId`'s 0 is not looked at: `addFile` reports success and `allTracks`
  drops the file. A statement of the schema that failed is never tried again,
  once the version is recorded.
* Without `file_url_uniq`, which may have failed, a url whose old row was not
  found or not removed is listed twice. `ListedAsAdded` says so.
* `buildIndex` does not look at the result of its DELETE: if it fails, the counts
  are added to the old ones, and searches score them twice. `SearchFinds` says
  that they are multiples. `buildIndex` has no caller.

## Proofs

All theorems hold for every value of the constants that satisfies the named
assumption of the module, by an inductive invariant.

* `ConnectionProofs`. `InOrder` and `NotStranded` prove the two byte-level
  invariants, `Refinement` that every step of `Connection` is a step of
  `ReadyLink` or leaves it alone (its fairness is left to TLC). `CInv` adds to
  the types `Phases`, which says for each state of an end what is connected,
  open and counted, and `Flows`: what is left to read at an end, in its buffer
  and under way, is the frames of the messages that were written and not yet
  read, of all of them while the link lives and of the first few once it is
  lost. Without it
  `PayloadsInOrder` is not inductive: a frame cut across two reads is seen only
  as bytes. That a length survives its four bytes and comes back
  (`BigEndianBytes`) is proved, not assumed; it needs that a message is no
  longer than an `int` says, which is what `sendMsg` is given.
* `ServentProofs`. `TypeCorrect`: `TypeOK` alone is not inductive, since a slot
  follows `_conn` and `m_sock` and stores what it finds. `TInv == TypeOK /\
  SockShape` adds that a dialled socket has a dialling Connection, an accepted
  one that was handed over has its Connection, and that the `m_sock` of a
  Connection is a socket one of whose ends is that Connection. `ListIsUsable`:
  `LInv == TInv /\ Fresh /\ ListedUsable`, where `Fresh` says that an object
  not yet constructed has no class, so that a construction cannot change the
  class of a listed one. Only registering adds to the list, in the step that
  sets `ready`; nothing resets `ready`; and the step that deletes unregisters.

  `ListsOnce`, `HandshakeOrder`, `DiallerIsAsked` and
  `NoTracksDropped` all come from `HInv`. It says of every message under way what
  it presumes of the two ends (`SrvMsg`, `CliMsg`: a `ready2` finds a control
  connection that is not ready, anything later comes from one that is), that a
  control connection either dials once, with a key, or is accepted once,
  without one (`Dialler`, `Acceptor`, `Offered`, `Blank`), that at most one
  `ready2` is under way (`Once`) and tracks only behind it (`Led`), and that
  `m_outbound` tells the end (`Sided`). All are needed: an entry is added to
  `m_controlconnections` by the end that becomes ready, so that it is listed
  once only if nothing makes it ready twice; and what the accepting end does
  with `alltracks` depends on the `ready2` before it in the same stream.

  `KeyOutlivesOnlyReversed`: `Unclaimed` says that an object that is registered and
  at no dialled end of a socket is live, and neither handed an accepted socket nor
  about to be. Handing it one takes it from `m_offers` in the same step, and an
  object is deleted only with a socket of its own; which sockets it may have at
  which side is in `HInv`, so both together are inductive.
* `RendezvousProofs`. `RendezvousTypeCorrect`, `OffersOnce` and `OnlyOneInitiates`, the
  latter assuming that `Ip` is injective on `Hosts`, without which it does not
  hold. `RInv` adds `LoggedIn` (an online host has a session), `OffersSound` (an
  invitation under way comes from another host than its reader and bears a sound
  key) and `DialsSound` (a host that is offline has dialled nothing; one that is
  online has dialled with sound keys, of hosts it need not let initiate). A key
  is sound if an earlier process of its host made it, or the running one, which
  then is visible. If both of two running processes had dialled each other, both
  would be visible and each would have an address no lower than the other's.
* `CollectionServerProofs`. `NeverStartedTwice` and `NoneListensEarly`: `CInv`
  adds to the types `OneWay`, which says, for each point of the server thread,
  by which of the two ways the start can still come: not yet, by the signal
  (emitted once, after the flag is set), or already posted.
* `DaapSharingProofs`. `PortOfItsRecord`: `BInv` says that the resolver, until some
  query is answered twice, is in one of three states, with the query
  unanswered, with one lookup under way whose port is the record's, or with
  that one told and its cleanup waiting; only the first lets it take up another
  record, so no lookup outlives its query. `twice` is in the statement because
  the code does go wrong after it (see Known divergences).

  `ServicesKnown`: `KInv` says that what has not been read makes up for what the
  list lacks. The last unread reply about a service is true of the network
  (`LastTrue`), and of a service none is unread about the list is right
  (`Agrees`); the list has no duplicates. A read folds over several replies, so
  that both must hold between any two of them (`BrowsedAgrees`). That such a
  fold is defined at all (`FoldExists`) takes the least place at which it is not.

  `TunnelRelays` (`ProxyAssumption`: the bound is a number): every step of a session
  is a step of `Pipe` or leaves it alone. `PInv` counts, of what each end wrote, how
  much has been read, sent, kept and delivered: what lies between two of these
  counts is what is on the wire, in `m_buf` or in `m_sendbuffer`, cut into pieces in
  order (`ToServer`, `ToClient`). That nothing overtakes what was kept takes
  `Steps`, which says how far each end can have come when the other is at a given
  point: P is told "ready" once, so it dials its server once; L is not ready, and P
  has not dialled, before P has its socket; and a server that has hung up is not
  dialled again. A piece that is lost with the link is never passed by a later one,
  since what follows it is not sent either.
* `LibraryProofs`. `DatabaseStaysSound`, `AddedIsListed`, `AddingRepairs`
  (`LibraryAssumption`) and `NamesAreFound` (also `MusicAssumption`: tags are
  written in characters that have a lower case, which is its own), for any number
  of stops and of statements that fail, those of the schema and of `buildIndex`
  included. `LInv` is `JInv`, that the `addFile` under way holds only ids of rows
  already there; `VInv`, that what a schema lacks of the statements before the
  next one failed or is over a table that did (`BootSound`), and that only a table
  whose unique index failed has a row twice (`UniqueSound`: a unique index that
  meets duplicates is not made either); and `FileIds`. Rows are only added to
  artist, track and album, so ids a call holds stay good across the stops and
  failures of its other statements. `RInv`, for `AddedIsListed`, adds `FilesSound`
  (a file has one row in file_join, and an id above the counter is in neither
  table, which is what AUTOINCREMENT is for: rows of file_join outlive the file
  when the statement that removes them fails), `CallNamed` (the rows whose ids a
  call holds are called what it was given, and its file is not yet joined) and
  `ResultsSound` (what an earlier call returned is still there and joined, unless
  the file is being added again). That a url is listed under one id only takes its
  unique index, and the statement says so. `GInv`, for `AddingRepairs`, says of a
  call none of whose statements has failed that it has found what there was of its
  file, and then removed it, so that its INSERT is not refused.

  `SInv`, for `NamesAreFound`, says that every name in a row is what `sortname`
  leaves of it (`NamesSound`), that an index entry is of a row and is the count of
  its name once for each build that did not remove it first, of which there are no
  more than failures and one (`EntriesSound`, `Times`), and how far each build has
  come (`BuildSound`): an index whose DELETE did not fail has entries only of the
  rows before its next one, so that adding the next row's counts never adds to old
  ones. A search normalises a name that was normalised before it was indexed; that
  this changes nothing (`SortnameSorted`) is proved by counting which characters
  are kept.
* `HttpServerProofs`. `CountsRight`, `NothingFreedInUse`, `EachHasOnePlace` and
  `AnswersOnce` (`HttpServerAssumption`: finitely many threads, at least
  `MaxThreads` of them, and requests made as `IsRequest` says;
  `HttpRequestAssumption`: a directory is no script and its index file exists).
  `HInv` adds to the counts `WorkersSound`, that a worker which is to
  free its body does not have it on its stack and one still reading its header
  has nothing to free, and `StopSound`, that the master gets to its end only
  through `mg_stop()` and only with `num_threads = 0`. As `num_threads` is the
  number of threads, there is then none. `PInv` adds `Places`: the backlog, the
  master, the slots between the ring's pointers and the workers each hold
  clients that differ, each in one of them only, and just the clients that are
  connected. The ring's part is about indices modulo `QueueSize`: at most that
  many are in use, below twice that number, so two of them never share a slot
  and both pointers may be wrapped at once. `AInv` adds how far each worker has
  read at each point of its way (`Reads`) and what every client has been sent
  (`Answered`): nothing, or one answer that is true of what it has sent, after
  which its connection is closed or about to be. It rests on `Places`, by which
  no two workers serve one client, and on `OneHonestAnswer`: every branch of
  `analyze_request` gives one answer, of the length it declares. That the end of
  the header does not move when more is read (`LenOfPrefix`) takes the least
  index of its pieces; a least element of a set of numbers (`Least`) is what
  there is of induction.

* `StartupProofs`. `CommandLineMeant` (`OptionsAssumption`: an option is a switch
  or has a value, short names stand for options, and what is pushed back is
  shorter than what it is part of): `OInv` says that some number `p` of words
  have been lexed, none of them wrong, that what the stack spreads to are the
  others, and that each option has what the first `p` words give it. That
  lexing one argument with its push-back is one word (`Lexed`) rests on what
  `Spread` and `FlattenSeq` compute, for arguments attached to any depth and
  command lines of any length; that they compute anything is shown by the least
  argument, or place, at which they would not.

  `HostVisibleAsForwarded` (`IgdAssumption`: finitely many devices, an absent
  value is not what a gateway answers; `StartsAssumption`: conjist has its
  options): `GInv` says, while no request has failed, that in each round of
  `UPNP_GetValidIGD` no device described so far is good enough for an earlier
  one, nor any before the one looked at for this (`NoneYet`), so that the one
  taken is the best and the first of its rank (`Took`), and that a port said to
  be added is a mapping of that gateway to this host's address on its side
  (`Mapped`). `Set` says which of this `setup()` has come to. After a fault the
  code does go wrong (`MappingMade`, see Findings), so `faults = 0` is in the
  statement.

  `LoginGoesInOrder` (`ContactsAssumption`: a roster push is told from other
  elements; `StartsAssumption`): the plan, what comes before the login included, is
  fixed by the features the server names and their order. `XInv` says that the
  client's own messages are the first `k` of it, and that of all messages, elements
  and socket changes under way at most one is something the login goes on with,
  which is due after `k` messages with the server as it is. The exception is the
  password before a required encryption (`Eager`): it is under way beside the
  `starttls` behind it, and its answer, a refusal, says nothing to the client. A
  read folds over several elements and an element over its parts, so the proof goes
  from each part to the next, to the element (`ElementIs`) and to the read
  (`ReadAfter`): before the element that is due nothing of the login is said, with
  it what comes next in the plan, and then nothing more, whether the read is ended
  there or not.

Only model-checked: liveness under fairness (all leads-to properties, the
liveness part of the refinements of `ReadyLink` and `Pipe`).

## Plan

In order of importance to the system; done: 1-10.

1. `ReadyLink`, `Connection`: what every other class stands on.
2. `Servent` with `ServentProofs`.
3. `Rendezvous` with `RendezvousProofs`.
4. `CollectionServer` with `CollectionServerProofs`.
5. `Pipe`, `Proxy`: a DAAP session through a peer.
6. `Bonjour`, and both in `DaapSharing`, with `DaapSharingProofs`.
7. `Library` with `LibraryProofs`.
8. `HttpRequest`, `HttpServer`, with `HttpServerProofs`.
9. `Options`, `Igd`, `XmppStream`, and the three in `Startup`, with `StartupProofs`.
10. `ConnectionProofs`.
11. Left: `Rendezvous` composed with the dials of `Servent`; an abstract
    specification of sharing that `Servent` implements while no link is lost.

## Not modelled

* Track streaming (`src/remoteioconnection.*`, `src/remoteiodevice.h`):
  `handleRequest` answers every track 503 once the connection is dialled, so
  nothing ever reads a `RemoteIODevice`.
* The data race of `getTrack`, on a worker, with the main thread's use of the
  Servent: what it dials is modelled, what a hash changed by two threads becomes
  is not.
* daaplib and the XML, SOAP, SASL and HTTP wording: data without control.
* In mongoose SSL, access lists, the Windows parts, a failing allocation in a
  directory listing, and that options are locked by their place in a table; in
  miniupnp `upnpc.c`, a command-line client conjist does not use, `bsdqueue.h`,
  macros of lists, `URLBase`, and the commands other than those Portfwd sends;
  in qxmpp the requests JabberClient never makes, and an iq with an empty id.
* In `Library` `addDir`, `file(fid)` and the lookups by id; in GetOpt the kinds
  of option conjist does not register.
* Logging.
