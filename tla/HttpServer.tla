------------------------------ MODULE HttpServer ------------------------------
(***************************************************************************)
(* The HTTP server of one collection: mongoose's master thread, which      *)
(* accepts connections and queues them in a ring, its workers, started on  *)
(* demand, which take them from the ring, read one request each and answer *)
(* it, and leave when idle; and the Httpd that starts and stops them.      *)
(* A section under thr_mutex is one step.                                  *)
(***************************************************************************)
EXTENDS HttpRequest, SequencesExt

CONSTANTS Clients,
          Scripts,      \* set of [Clients -> request]: what each may come to ask;
                        \* a client with nothing to send does not connect
          Workers,      \* bound: identities of threads, reused
          MaxThreads,   \* max_threads
          QueueSize,    \* ARRAY_SIZE(ctx->queue)
          MaxPieces,    \* MAX_REQUEST_SIZE, in pieces
          MaxSpawnFails, \* bound: pthread_create calls that fail
          Stops         \* whether the Httpd is deleted

ASSUME HttpServerAssumption ==
    /\ None \notin Clients \cup Workers /\ QueueSize \in Nat \ {0} /\ MaxThreads \in Nat
    /\ IsFiniteSet(Workers) /\ MaxThreads <= Cardinality(Workers) /\ MaxSpawnFails \in Nat
    /\ \A s \in Scripts : \A c \in Clients : IsRequest(s[c])

VARIABLES setup,        \* how far Httpd::startListening is
          open,         \* the port is listened on
          backlog,      \* connections the kernel has for accept()
          master,       \* [at, sock]: the master thread
          queue, sq_head, sq_tail,
          num_idle, num_threads, stop_flag,
          worker,       \* worker[w]: a thread, and the mg_connection on its stack
          client,       \* client[c]: [at, req, sent]: its end of the connection
          answers,      \* answers[c]: what was sent to it
          dialled,      \* the clients getTrack has made a RemoteIOConnection for
          spawnFails,
          stranded,     \* put_socket left a socket to workers that had all timed out
          crashed       \* "no", or why the process died

vars == <<setup, open, backlog, master, queue, sq_head, sq_tail, num_idle, num_threads,
          stop_flag, worker, client, answers, dialled, spawnFails, stranded, crashed>>
ring == <<queue, sq_head, sq_tail>>
pool == <<master, ring, num_idle, num_threads, stop_flag, spawnFails, stranded>>
net == <<setup, open, backlog>>
io == <<client, answers, dialled>>

(* A worker that is not there has at = "none"; "look": before get_socket;     *)
(* "waiting": on empty_cond; "woken" and "timedout": by a signal, by the     *)
(* clock; ctx: conn.ctx has been set; post, free: where post_data points and *)
(* free_post_data.                                                           *)
NoThread == [at |-> "none", sock |-> None, ctx |-> FALSE, got |-> 0, cb |-> FALSE,
             post |-> "null", free |-> FALSE]
Alive == {w \in Workers : worker[w].at # "none"}
At(s) == {w \in Workers : worker[w].at \in s}

Init ==
    /\ setup = "none" /\ open = FALSE /\ backlog = <<>>
    /\ master = [at |-> "none", sock |-> None]
    /\ queue = [i \in 0..QueueSize - 1 |-> None] /\ sq_head = 0 /\ sq_tail = 0
    /\ num_idle = 0 /\ num_threads = 0 /\ stop_flag = 0
    /\ worker = [w \in Workers |-> NoThread]
    /\ \E s \in Scripts : client = [c \in Clients |-> [at |-> "new", req |-> s[c], sent |-> 0]]
    /\ answers = [c \in Clients |-> <<>>]
    /\ dialled = {} /\ spawnFails = 0 /\ stranded = FALSE /\ crashed = "no"

-----------------------------------------------------------------------------
(* Httpd *)

(* mg_start *)
MgStart ==
    /\ setup = "none" /\ setup' = "started"
    /\ master' = [master EXCEPT !.at = "select"]
    /\ UNCHANGED <<open, backlog, ring, num_idle, num_threads, stop_flag, spawnFails, stranded, worker, io, crashed>>

(* set_ports_option: whether the port could be bound is not looked at. *)
SetPorts ==
    /\ setup = "started" /\ setup' = "ports"
    /\ open' \in IF stop_flag = 0 THEN BOOLEAN ELSE {FALSE}
    /\ UNCHANGED <<backlog, pool, worker, io, crashed>>

SetUriCallback ==
    /\ setup = "ports" /\ setup' = "ready"
    /\ UNCHANGED <<open, backlog, pool, worker, io, crashed>>

(* ~Httpd, mg_stop up to its wait for stop_flag to become 2. *)
MgStop ==
    /\ Stops /\ setup = "ready" /\ stop_flag = 0 /\ stop_flag' = 1
    /\ UNCHANGED <<net, master, ring, num_idle, num_threads, spawnFails, stranded, worker, io, crashed>>

-----------------------------------------------------------------------------
(* The clients *)

Connect(c) ==
    /\ client[c].at = "new" /\ client[c].req.pieces # <<>> /\ open
    /\ backlog' = Append(backlog, c)
    /\ client' = [client EXCEPT ![c].at = "open"]
    /\ UNCHANGED <<setup, open, pool, worker, answers, dialled, crashed>>

SendPiece(c) ==
    /\ client[c].at = "open" /\ client[c].sent < Len(client[c].req.pieces)
    /\ client' = [client EXCEPT ![c].sent = @ + 1]
    /\ UNCHANGED <<net, pool, worker, answers, dialled, crashed>>

(* It closes its end before it has sent all it announced; later the server    *)
(* cannot tell.                                                              *)
Short(r, sent) ==
    \/ sent < Len(r.pieces)
    \/ r.length # None /\ sent - get_request_len(r.pieces) < r.length
Leave(c) ==
    /\ client[c].at = "open" /\ Short(client[c].req, client[c].sent)
    /\ client' = [client EXCEPT ![c].at = "left"]
    /\ UNCHANGED <<net, pool, worker, answers, dialled, crashed>>

-----------------------------------------------------------------------------
(* The master thread *)

Accept ==
    /\ master.at = "select" /\ stop_flag = 0 /\ backlog # <<>>
    /\ master' = [at |-> "put", sock |-> Head(backlog)]
    /\ backlog' = Tail(backlog)
    /\ UNCHANGED <<setup, open, ring, num_idle, num_threads, stop_flag, spawnFails, stranded, worker, io, crashed>>

(* put_socket with the queue full: it waits for full_cond. *)
PutWaits ==
    /\ master.at = "put" /\ sq_head - sq_tail >= QueueSize
    /\ master' = [master EXCEPT !.at = "waiting"]
    /\ UNCHANGED <<net, ring, num_idle, num_threads, stop_flag, spawnFails, stranded, worker, io, crashed>>

(* "If there are no idle threads, start one" *)
StartsThread == num_idle = 0 /\ num_threads < MaxThreads

Slip_Signalled == {None}
(* pthread_cond_signal(&empty_cond) wakes one of the waiting workers. *)
Signalled == IF At({"waiting"}) = {} THEN {None} ELSE At({"waiting"})

(* Threads differ in nothing but their identity. *)
Fresh == CHOOSE w \in Workers : w \notin Alive \/ Alive = Workers

Put ==
    /\ master.at = "put" /\ sq_head - sq_tail < QueueSize
    /\ queue' = [queue EXCEPT ![sq_head % QueueSize] = master.sock]
    /\ sq_head' = sq_head + 1
    /\ \E new \in {Fresh, None}, woken \in Signalled :
          /\ \/ new = Fresh /\ StartsThread /\ UNCHANGED spawnFails
             \/ new = None /\ ~StartsThread /\ UNCHANGED spawnFails
             \/ new = None /\ StartsThread /\ spawnFails < MaxSpawnFails /\ spawnFails' = spawnFails + 1
          /\ num_threads' = IF new = None THEN num_threads ELSE num_threads + 1
          /\ worker' = [w \in Workers |->
                CASE w = new   -> [NoThread EXCEPT !.at = "look"]
                  [] w = woken -> [worker[w] EXCEPT !.at = "woken"]
                  [] OTHER     -> worker[w]]
          /\ stranded' = (stranded \/ /\ new = None
                                      /\ At({"waiting"}) = {} /\ Alive \subseteq At({"timedout"}))
    /\ master' = [at |-> "select", sock |-> None]
    /\ UNCHANGED <<net, sq_tail, num_idle, stop_flag, io, crashed>>

Slip_FiniWaits == FALSE
(* mg_fini waits until the workers have gone. *)
FiniWaits == num_threads > 0

(* The flag is seen: the listening sockets are closed, and connections that   *)
(* were not accepted go with them.                                           *)
MasterStops ==
    /\ master.at = "select" /\ stop_flag = 1
    /\ master' = [master EXCEPT !.at = "fini"]
    /\ open' = FALSE /\ backlog' = <<>>
    /\ client' = [c \in Clients |-> IF c \in Range(backlog) THEN [client[c] EXCEPT !.at = "closed"]
                                    ELSE client[c]]
    /\ UNCHANGED <<setup, ring, num_idle, num_threads, stop_flag, spawnFails, stranded, worker,
                   answers, dialled, crashed>>

MgFini ==
    /\ master.at = "fini" /\ ~FiniWaits
    /\ master' = [master EXCEPT !.at = "done"]
    /\ stop_flag' = 2
    /\ UNCHANGED <<net, ring, num_idle, num_threads, spawnFails, stranded, worker, io, crashed>>

-----------------------------------------------------------------------------
(* A worker *)

Becomes(w, r) == worker' = [worker EXCEPT ![w] = r]

(* get_socket with nothing queued: the worker counts as idle from now on. *)
Waits(w) ==
    /\ worker[w].at \in {"look", "woken"} /\ sq_head = sq_tail
    /\ num_idle' = IF worker[w].at = "look" THEN num_idle + 1 ELSE num_idle
    /\ Becomes(w, [worker[w] EXCEPT !.at = "waiting"])
    /\ UNCHANGED <<net, master, ring, num_threads, stop_flag, spawnFails, stranded, io, crashed>>

Slip_Wrapped(head, tail) ==
    IF tail > QueueSize THEN <<head, tail - QueueSize>> ELSE <<head, tail>>
(* "Wrap pointers if needed" *)
Wrapped(head, tail) ==
    IF tail > QueueSize THEN <<head - QueueSize, tail - QueueSize>> ELSE <<head, tail>>

Slip_Told(m) == m
(* pthread_cond_signal(&full_cond) *)
Told(m) == IF m.at = "waiting" THEN [m EXCEPT !.at = "put"] ELSE m

(* get_socket takes the socket at the tail, tells the master, and the request *)
(* is started afresh: reset_connection_attributes.                           *)
Takes(w) ==
    /\ worker[w].at \in {"look", "woken"} /\ sq_head # sq_tail
    /\ num_idle' = IF worker[w].at = "woken" THEN num_idle - 1 ELSE num_idle
    /\ LET next == Wrapped(sq_head, sq_tail + 1) IN sq_head' = next[1] /\ sq_tail' = next[2]
    /\ master' = Told(master)
    /\ Becomes(w, [NoThread EXCEPT !.at = "read", !.sock = queue[sq_tail % QueueSize], !.ctx = TRUE])
    /\ UNCHANGED <<net, queue, num_threads, stop_flag, spawnFails, stranded, io, crashed>>

Sock(w) == client[worker[w].sock]
Pieces(w, n) == SubSeq(Sock(w).req.pieces, 1, n)

(* read_request: some of what has come, until the header is complete, the     *)
(* buffer full or the client gone.                                           *)
ReadRequest(w) ==
    /\ worker[w].at = "read"
    /\ \/ \E n \in worker[w].got + 1..Sock(w).sent :
             LET len == get_request_len(Pieces(w, n)) IN
             /\ n <= MaxPieces
             /\ Becomes(w, [worker[w] EXCEPT !.got = n,
                               !.at = CASE len > 0 -> "analyze"
                                        [] len < 0 \/ (len = 0 /\ n = MaxPieces) -> "close"
                                        [] OTHER -> "read"])
       \/ /\ worker[w].got = Sock(w).sent /\ Sock(w).at # "open"
          /\ Becomes(w, [worker[w] EXCEPT !.at = "close"])
    /\ UNCHANGED <<net, pool, io, crashed>>

Body(w, n) == n - get_request_len(Pieces(w, n))

(* What is sent to the client, and the worker goes on to close. *)
Answer(w, cb, n) ==
    /\ \E a \in Answers(Sock(w).req, cb, Body(w, n)) :
          answers' = [answers EXCEPT ![worker[w].sock] = @ \o a]
    /\ dialled' = IF Served(Sock(w).req, cb) /\ getTrack(Sock(w).req)
                  THEN dialled \cup {worker[w].sock} ELSE dialled
    /\ UNCHANGED client

Slip_BodyBuffer(toScript) == IF toScript THEN <<"stack", FALSE>> ELSE <<"stack", TRUE>>
(* Where handle_request_body puts a body it has to wait for. *)
BodyBuffer(toScript) == IF toScript THEN <<"stack", FALSE>> ELSE <<"heap", TRUE>>

(* Httpd registers one callback, for every URI. *)
find_callback == setup = "ready"

(* The request is parsed and analyzed. *)
AnalyzeRequest(w) ==
    /\ worker[w].at = "analyze"
    /\ LET r == Sock(w).req
           cb == find_callback
           got == worker[w].got
       IN  IF ReadsBody(r, cb, Body(w, got))
           THEN /\ Becomes(w, [worker[w] EXCEPT !.at = "body", !.cb = cb,
                                   !.post = BodyBuffer(~cb)[1], !.free = BodyBuffer(~cb)[2]])
                /\ UNCHANGED io
           ELSE /\ Answer(w, cb, got)
                /\ Becomes(w, [worker[w] EXCEPT !.at = "close", !.post = "stack"])
    /\ UNCHANGED <<net, pool, crashed>>

(* handle_request_body waits for the rest, unless it is for a script that     *)
(* takes no more of it.                                                      *)
ReadBody(w) ==
    /\ worker[w].at = "body"
    /\ \/ \E n \in worker[w].got + 1..Sock(w).sent :
             \/ /\ WantsBody(Sock(w).req, Body(w, n))
                /\ Becomes(w, [worker[w] EXCEPT !.got = n]) /\ UNCHANGED io
             \/ /\ ~WantsBody(Sock(w).req, Body(w, n)) \/ ~worker[w].cb
                /\ Becomes(w, [worker[w] EXCEPT !.got = n, !.at = "close"])
                /\ Answer(w, worker[w].cb, n)
       \/ /\ worker[w].got = Sock(w).sent /\ Sock(w).at # "open"
          /\ Becomes(w, [worker[w] EXCEPT !.at = "close"])
          /\ Answer(w, worker[w].cb, worker[w].got)
    /\ UNCHANGED <<net, pool, crashed>>

(* close_connection: post_data is freed if free_post_data says so. *)
CloseConnection(w) ==
    /\ worker[w].at = "close"
    /\ crashed' = IF worker[w].free /\ worker[w].post = "stack" THEN "bad_free" ELSE crashed
    /\ client' = [client EXCEPT ![worker[w].sock].at = "closed"]
    /\ Becomes(w, [worker[w] EXCEPT !.at = "look", !.sock = None, !.got = 0, !.cb = FALSE, !.post = "null"])
    /\ UNCHANGED <<net, pool, answers, dialled>>

(* pthread_cond_timedwait times out, which get_socket returns whatever has    *)
(* been queued until it has the mutex again...                               *)
TimesOut(w) ==
    /\ worker[w].at = "waiting" /\ Becomes(w, [worker[w] EXCEPT !.at = "timedout"])
    /\ UNCHANGED <<net, pool, io, crashed>>

Slip_Uncounted == <<num_threads - 1, num_idle>>
Uncounted == <<num_threads - 1, num_idle - 1>>

(* ...and the thread takes itself off the counts, through a conn.ctx that is  *)
(* null if it never had a socket.                                            *)
WorkerExits(w) ==
    /\ worker[w].at = "timedout"
    /\ IF worker[w].ctx
       THEN /\ num_threads' = Uncounted[1] /\ num_idle' = Uncounted[2]
            /\ Becomes(w, NoThread) /\ UNCHANGED crashed
       ELSE crashed' = "null_ctx" /\ UNCHANGED <<num_threads, num_idle, worker>>
    /\ UNCHANGED <<net, master, ring, stop_flag, spawnFails, stranded, io>>

-----------------------------------------------------------------------------
Httpd == MgStart \/ SetPorts \/ SetUriCallback
Master == Accept \/ PutWaits \/ Put \/ MasterStops \/ MgFini
Work(w) == Waits(w) \/ Takes(w) \/ ReadRequest(w) \/ AnalyzeRequest(w) \/ ReadBody(w)
           \/ CloseConnection(w) \/ WorkerExits(w)

Runs ==
    /\ crashed = "no"
    /\ \/ Httpd \/ Master
       \/ \E w \in Workers : Work(w) \/ TimesOut(w)
       \/ \E c \in Clients : SendPiece(c) \/ Leave(c)

Next == Runs \/ (crashed = "no" /\ (MgStop \/ \E c \in Clients : Connect(c)))

(* Threads run, waits end, and a client that has connected sends what it has  *)
(* to or leaves: nothing in the server makes it.  No thread can go on for     *)
(* ever by itself, so fairness of all of them together is fairness of each.  *)
Fairness == WF_vars(Runs)

Spec == Init /\ [][Next]_vars /\ Fairness

-----------------------------------------------------------------------------
(* Properties *)

Busy == At({"read", "analyze", "body", "close"})

(* The counts put_socket and mg_fini go by are the numbers of the threads     *)
(* they stand for, and the ring's pointers stay in their range.              *)
TypeOK ==
    /\ sq_tail \in 0..QueueSize /\ sq_head - sq_tail \in 0..QueueSize
    /\ num_threads = Cardinality(Alive) /\ num_threads <= MaxThreads
    /\ num_idle = Cardinality(At({"waiting", "woken", "timedout"}))
    /\ stop_flag \in 0..2 /\ spawnFails \in 0..MaxSpawnFails
    /\ setup \in {"none", "started", "ports", "ready"} /\ open \in BOOLEAN

(* A connection that was accepted and not yet closed is in exactly one place: *)
(* with the master, in one slot of the ring, or with one worker.             *)
OnePlaceEach ==
    LET places(c) == Cardinality({i \in sq_tail..sq_head - 1 : queue[i % QueueSize] = c})
                     + Cardinality({w \in Busy : worker[w].sock = c})
                     + (IF master.sock = c THEN 1 ELSE 0)
                     + Cardinality({i \in DOMAIN backlog : backlog[i] = c})
    IN  \A c \in Clients : places(c) = (IF client[c].at \in {"open", "left"} THEN 1 ELSE 0)

(* A client gets at most one answer, as long as it declares (RangeInside: a   *)
(* range is not compared with the file); none only if it left, its header    *)
(* did not fit the buffer or was no text; 577 only if it left before all its *)
(* body had come, or it POSTs to a script, which may stop reading; and the   *)
(* output of such a script only if the body has come.                        *)
OneAnswer ==
    \A c \in Clients :
        LET r == client[c].req
            whole == r.length # None /\ client[c].sent >= get_request_len(r.pieces) + r.length
        IN  /\ Len(answers[c]) <= 1
            /\ \A i \in DOMAIN answers[c] :
                  LET a == answers[c][i] IN
                  /\ a.declared # None /\ r.method # "HEAD" /\ RangeInside(r) => a.sent = a.declared
                  /\ a.status = 577 => ToScript(r) \/ (~whole /\ client[c].at # "open")
                  /\ a.status = 200 /\ r.method = "POST" /\ Site[r.path].script = "cgi" => whole
            /\ \A w \in At({"close"}) :
                  worker[w].sock = c /\ answers[c] = <<>> => get_request_len(Pieces(w, worker[w].got)) <= 0

(* No worker frees a request that is on its stack; when mg_stop() goes on to  *)
(* free the context there is no worker left to use it, nor a master.         *)
MemorySound ==
    /\ crashed # "bad_free"
    /\ stop_flag = 2 => Alive = {} /\ master.at = "done"

(* Clients that connect are answered and their connections closed, unless the *)
(* server is stopped, crashes or strands a socket.                           *)
ConnectionsEnd ==
    <>[](\/ stop_flag # 0 \/ crashed # "no" \/ stranded
         \/ \A c \in Clients : client[c].at \in {"new", "closed"})

(* mg_stop() comes back, unless stranded sockets fill the ring.              *)
StopReturns == stop_flag = 1 ~> stop_flag = 2 \/ crashed # "no" \/ stranded

=============================================================================
