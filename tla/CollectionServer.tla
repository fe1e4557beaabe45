--------------------------- MODULE CollectionServer ---------------------------
(***************************************************************************)
(* The DAAP servers of one host: each RemoteCollection, made when a        *)
(* RemoteCollectionConnection becomes ready, is served by an Httpd in a    *)
(* thread of its own, which is not to listen before the tracks have come.  *)
(* The main thread makes, fills and deletes collections while each server  *)
(* thread starts up and its workers answer requests; they share the        *)
(* collection without a lock.                                              *)
(***************************************************************************)
EXTENDS Naturals

CONSTANTS Collections,
          Ports,        \* what qrand() % 50000 + 10000 may give
          None          \* no collection

ASSUME CollectionServerAssumption == None \notin Collections

VARIABLES life,         \* "none"; "live"; "deleted"
          loaded,       \* m_tracksloaded
          port,         \* m_port
          server,       \* how far the thread of the collection's server is
          starts,       \* startListening() calls posted to the server thread
          listening,    \* mongoose accepts requests on port[c]
          emitting,     \* the collection whose connAllTracks is between its
                        \* assignment to m_tracksloaded and its signal
          crashed       \* an object was used after its deletion

vars == <<life, loaded, port, server, starts, listening, emitting, crashed>>

-----------------------------------------------------------------------------
Init ==
    /\ life = [c \in Collections |-> "none"]
    /\ loaded = [c \in Collections |-> FALSE]
    /\ port \in [Collections -> Ports]
    /\ server = [c \in Collections |-> "none"]
    /\ starts = [c \in Collections |-> 0]
    /\ listening = [c \in Collections |-> FALSE]
    /\ emitting = None
    /\ crashed = FALSE

Crash ==
    /\ crashed' = TRUE
    /\ UNCHANGED <<life, loaded, port, server, starts, listening, emitting>>

(* The main thread is at its event loop. *)
Main == emitting = None /\ ~crashed

(* A definition Slip_D is a plausible slip in the code D models; no action    *)
(* uses it.  The README says which property each slip breaks.                *)
Slip_Posted(c) == starts[c]
Slip_AfterCheck(c) == IF loaded[c] THEN <<"waiting", 1>> ELSE <<"unloaded", 0>>
Slip_AfterCheckUnasked(c) == <<"posted", 1>>

(* The threads that connected finishedLoading() when it is emitted. *)
Posted(c) == IF server[c] = "waiting" THEN starts[c] + 1 ELSE starts[c]

(* RemoteCollectionConnection::setup(): the new collection starts its server *)
(* thread.                                                                  *)
Setup(c) ==
    /\ Main /\ life[c] = "none"
    /\ life' = [life EXCEPT ![c] = "live"]
    /\ server' = [server EXCEPT ![c] = "started"]
    /\ UNCHANGED <<loaded, port, starts, listening, emitting, crashed>>

(* RemoteCollection::connAllTracks, up to m_tracksloaded = true... *)
ConnAllTracks(c) ==
    /\ Main /\ life[c] = "live" /\ ~loaded[c]
    /\ loaded' = [loaded EXCEPT ![c] = TRUE]
    /\ emitting' = c
    /\ UNCHANGED <<life, port, server, starts, listening, crashed>>

(* ...and its finishedLoading(). *)
FinishedLoading(c) ==
    /\ emitting = c /\ ~crashed
    /\ starts' = [starts EXCEPT ![c] = Posted(c)]
    /\ emitting' = None
    /\ UNCHANGED <<life, loaded, port, server, listening, crashed>>

(* The RemoteCollectionConnection is deleted and its child the collection    *)
(* with it.  ~RemoteCollection calls deleteLater() on an m_h that nothing    *)
(* ever set.                                                                *)
Delete(c) ==
    /\ Main /\ life[c] = "live"
    /\ \/ /\ life' = [life EXCEPT ![c] = "deleted"]
          /\ UNCHANGED <<loaded, port, server, starts, listening, emitting, crashed>>
       \/ Crash

-----------------------------------------------------------------------------
(* The server thread of c: QDaapdThread::startServer() runs Httpd::Httpd.    *)

(* The way the constructor takes on what isLoaded() says, and the            *)
(* singleShot(0, startListening) it posts if that is TRUE.                   *)
AfterCheck(c) == IF loaded[c] THEN <<"posted", 1>> ELSE <<"unloaded", 0>>

CheckLoaded(c) ==
    /\ server[c] = "started" /\ ~crashed
    /\ \/ life[c] = "deleted" /\ Crash
       \/ /\ life[c] = "live"
          /\ server' = [server EXCEPT ![c] = AfterCheck(c)[1]]
          /\ starts' = [starts EXCEPT ![c] = @ + AfterCheck(c)[2]]
          /\ UNCHANGED <<life, loaded, port, listening, emitting, crashed>>

(* connect(m_coll, SIGNAL(finishedLoading()), this, SLOT(startListening())) *)
ConnectFinishedLoading(c) ==
    /\ server[c] = "unloaded" /\ ~crashed
    /\ \/ life[c] = "deleted" /\ Crash
       \/ /\ life[c] = "live"
          /\ server' = [server EXCEPT ![c] = "waiting"]
          /\ UNCHANGED <<life, loaded, port, starts, listening, emitting, crashed>>

PortTaken(c) == \E d \in Collections \ {c} : listening[d] /\ port[d] = port[c]

(* Httpd::startListening: a port that is taken is not tried again. *)
StartListening(c) ==
    /\ starts[c] > 0 /\ ~crashed
    /\ starts' = [starts EXCEPT ![c] = @ - 1]
    /\ listening' = [listening EXCEPT ![c] = @ \/ ~PortTaken(c)]
    /\ UNCHANGED <<life, loaded, port, server, emitting, crashed>>

(* A request reaches Httpd::handleRequest on a mongoose worker.  It only     *)
(* reads the collection; nothing has stopped the server when that is gone.   *)
Request(c) ==
    /\ listening[c] /\ ~crashed
    /\ life[c] = "deleted" /\ Crash

Next ==
    \E c \in Collections :
        \/ Setup(c)
        \/ ConnAllTracks(c)
        \/ FinishedLoading(c)
        \/ Delete(c)
        \/ CheckLoaded(c)
        \/ ConnectFinishedLoading(c)
        \/ StartListening(c)
        \/ Request(c)

(* Both threads run.  Peers connect, send their tracks, leave and are asked  *)
(* for tracks when they like.                                               *)
Fairness ==
    \A c \in Collections :
        /\ WF_vars(FinishedLoading(c))
        /\ WF_vars(CheckLoaded(c))
        /\ WF_vars(ConnectFinishedLoading(c))
        /\ WF_vars(StartListening(c))

Spec == Init /\ [][Next]_vars /\ Fairness

-----------------------------------------------------------------------------
(* Properties *)

TypeOK ==
    /\ life \in [Collections -> {"none", "live", "deleted"}]
    /\ loaded \in [Collections -> BOOLEAN]
    /\ port \in [Collections -> Ports]
    /\ server \in [Collections -> {"none", "started", "unloaded", "waiting", "posted"}]
    /\ starts \in [Collections -> 0..1]
    /\ listening \in [Collections -> BOOLEAN]
    /\ emitting \in Collections \cup {None}
    /\ crashed \in BOOLEAN

(* "don't start the daap server listening until the remote collection has    *)
(* loaded and we know how many tracks there are" (httpd.cpp:13-14).          *)
ListeningLoaded ==
    \A c \in Collections : (starts[c] > 0 \/ listening[c]) => loaded[c]

(* Of isLoaded() and finishedLoading() at most one starts the server, also   *)
(* when the tracks come while the constructor runs: a second mg_start()      *)
(* would leak the first and find the port taken (httpd.cpp:15-16,25-32).     *)
StartedOnce ==
    \A c \in Collections : starts[c] + (IF listening[c] THEN 1 ELSE 0) <= 1

(* Nothing more is to be waited for from the server of c. *)
Served(c) == listening[c] \/ PortTaken(c) \/ life[c] = "deleted" \/ crashed

(* Tracks that come before the constructor asks, or after it has connected   *)
(* the signal, start the server (httpd.cpp:15-16, remotecollection.cpp:32-33).*)
LoadedInTimeListens ==
    \A c \in Collections :
        /\ (loaded[c] /\ server[c] = "started") ~> Served(c)
        /\ (emitting = c /\ server[c] = "waiting") ~> Served(c)

=============================================================================
