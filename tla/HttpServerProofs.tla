----------------------------- MODULE HttpServerProofs -----------------------------
(***************************************************************************)
(* For any number of clients, workers and slots, and any request: the      *)
(* counts that put_socket and mg_fini go by are right, so mg_stop() frees  *)
(* nothing in use; a connection is in one place from its coming to its     *)
(* close; and a client gets one answer, of the length it declares, that    *)
(* does not run ahead of its body.                                         *)
(***************************************************************************)
EXTENDS HttpServer, FiniteSetTheorems, SequenceTheorems, WellFoundedInduction, TLAPS

IdleAt == {"waiting", "woken", "timedout"}

WorkerShape(r) == "at" \in DOMAIN r /\ "post" \in DOMAIN r /\ "free" \in DOMAIN r

(* post_data is to be freed only if it is not on the stack; a request that is *)
(* being read has not set it.                                                *)
FreeSound(r) ==
    /\ r.free => r.post # "stack"
    /\ r.at \in {"read", "analyze"} => ~r.free

WorkersSound ==
    /\ DOMAIN worker = Workers
    /\ \A w \in Workers : WorkerShape(worker[w]) /\ FreeSound(worker[w])

(* The master is done only after mg_stop() has been called and every thread   *)
(* has left; nothing starts one after that.                                  *)
StopSound ==
    /\ "at" \in DOMAIN master
    /\ stop_flag # 0 => setup = "ready"
    /\ master.at = "fini" => stop_flag = 1
    /\ stop_flag = 2 => master.at = "done"
    /\ master.at = "done" => stop_flag = 2
    /\ master.at = "done" => num_threads = 0

(* TypeOK but for the one Boolean. *)
Counts ==
    /\ sq_tail \in 0..QueueSize /\ sq_head - sq_tail \in 0..QueueSize
    /\ num_threads = Cardinality(Alive) /\ num_threads <= MaxThreads
    /\ num_idle = Cardinality(At(IdleAt))
    /\ stop_flag \in 0..2 /\ spawnFails \in 0..MaxSpawnFails
    /\ setup \in {"none", "started", "ports", "ready"}

LEMMA CountsAreTypes == TypeOK <=> Counts /\ open \in BOOLEAN
BY Zenon DEF TypeOK, Counts, IdleAt

(* The master's pointer is a number. *)
HInv == Counts /\ sq_head \in Int /\ WorkersSound /\ StopSound /\ crashed # "bad_free"

LEMMA HFacts ==
    ASSUME HInv
    PROVE  /\ sq_head \in Int /\ sq_tail \in 0..QueueSize /\ sq_head - sq_tail \in 0..QueueSize
           /\ num_threads = Cardinality(Alive) /\ num_threads <= MaxThreads
           /\ num_idle = Cardinality(At(IdleAt))
           /\ stop_flag \in 0..2 /\ spawnFails \in 0..MaxSpawnFails
           /\ setup \in {"none", "started", "ports", "ready"}
           /\ WorkersSound /\ StopSound /\ crashed # "bad_free"
BY Zenon DEF HInv, Counts

LEMMA FiniteWorkers ==
    /\ IsFiniteSet(Workers) /\ IsFiniteSet(Alive) /\ IsFiniteSet(At(IdleAt))
    /\ Cardinality(Workers) \in Nat /\ Cardinality(Alive) \in Nat
    /\ Cardinality(At(IdleAt)) \in Nat
<1>1. IsFiniteSet(Workers)
  BY HttpServerAssumption
<1>2. Alive \subseteq Workers /\ At(IdleAt) \subseteq Workers
  BY DEF Alive, At
<1>3. IsFiniteSet(Alive) /\ IsFiniteSet(At(IdleAt))
  BY <1>1, <1>2, FS_Subset
<1> QED BY <1>1, <1>3, FS_CardinalityType

LEMMA InitHInv == Init => HInv
<1> SUFFICES ASSUME Init
             PROVE  HInv
  OBVIOUS
<1>1. worker = [w \in Workers |-> NoThread]
  BY DEF Init
<1>2. WorkersSound
  BY <1>1 DEF WorkersSound, WorkerShape, FreeSound, NoThread
<1>3. Alive = {} /\ At(IdleAt) = {}
  BY <1>1 DEF Alive, At, NoThread, IdleAt
<1>4. num_threads = Cardinality(Alive) /\ num_idle = Cardinality(At({"waiting", "woken", "timedout"}))
  BY <1>3, FS_EmptySet DEF Init, IdleAt
<1>5. Counts
  BY <1>4, HttpServerAssumption DEF Init, Counts, IdleAt
<1>6. StopSound /\ crashed # "bad_free" /\ sq_head \in Int
  BY DEF Init, StopSound
<1> QED BY <1>2, <1>5, <1>6 DEF HInv

-----------------------------------------------------------------------------
(* What a step that changes one worker does to the sets that are counted *)

LEMMA OneWorker ==
    ASSUME WorkersSound, NEW w \in Workers, NEW r, Becomes(w, r), WorkerShape(r), FreeSound(r)
    PROVE  /\ WorkersSound'
           /\ Alive' = IF r.at = "none" THEN Alive \ {w} ELSE Alive \cup {w}
           /\ At(IdleAt)' = IF r.at \in IdleAt THEN At(IdleAt) \cup {w} ELSE At(IdleAt) \ {w}
<1>1. worker' = [worker EXCEPT ![w] = r] /\ DOMAIN worker = Workers
  BY DEF Becomes, WorkersSound
<1>2. worker'[w] = r /\ \A v \in Workers \ {w} : worker'[v] = worker[v]
  BY <1>1
<1>3. WorkersSound'
  BY <1>1, <1>2 DEF WorkersSound
<1> QED BY <1>2, <1>3 DEF Alive, At, IdleAt

(* A worker that goes on with its request, or waits on, is counted as before. *)
LEMMA SameCounts ==
    ASSUME WorkersSound, NEW w \in Workers, NEW r, Becomes(w, r), WorkerShape(r), FreeSound(r),
           w \in Alive, r.at # "none", r.at \in IdleAt <=> worker[w].at \in IdleAt
    PROVE  WorkersSound' /\ Alive' = Alive /\ At(IdleAt)' = At(IdleAt)
<1>1. w \in At(IdleAt) <=> r.at \in IdleAt
  BY DEF At
<1> QED BY <1>1, OneWorker

(* Everything but the workers stays, or moves in ways that keep HInv. *)
LEMMA CountsKept ==
    ASSUME HInv, WorkersSound', Alive' = Alive, At(IdleAt)' = At(IdleAt),
           UNCHANGED <<net, pool>>, crashed' # "bad_free"
    PROVE  HInv'
<1>1. Counts'
  BY DEF HInv, Counts, IdleAt, net, pool, ring
<1>2. StopSound'
  BY DEF HInv, StopSound, net, pool
<1> QED BY <1>1, <1>2 DEF HInv, pool, ring

LEMMA WorkersKept ==
    ASSUME HInv, UNCHANGED worker
    PROVE  WorkersSound' /\ Alive' = Alive /\ At(IdleAt)' = At(IdleAt)
BY HFacts DEF WorkersSound, Alive, At

LEMMA NothingCounted ==
    ASSUME HInv, UNCHANGED <<net, pool, worker, crashed>>
    PROVE  HInv'
BY WorkersKept, CountsKept DEF HInv

-----------------------------------------------------------------------------
(* The Httpd and the clients *)

LEMMA HttpdHInv == HInv /\ (Httpd \/ MgStop) => HInv'
<1> SUFFICES ASSUME HInv, Httpd \/ MgStop
             PROVE  HInv'
  OBVIOUS
<1>1. UNCHANGED <<sq_tail, sq_head, num_idle, num_threads, spawnFails, worker, crashed>>
  BY DEF Httpd, MgStart, SetPorts, SetUriCallback, MgStop, pool, ring
<1>2. WorkersSound' /\ Alive' = Alive /\ At(IdleAt)' = At(IdleAt)
  BY <1>1, WorkersKept
<1>3. /\ \/ setup = "none" /\ setup' = "started" /\ master' = [master EXCEPT !.at = "select"]
            /\ UNCHANGED stop_flag
         \/ setup \in {"started", "ports"} /\ setup' \in {"ports", "ready"}
            /\ UNCHANGED <<master, stop_flag>>
         \/ setup = "ready" /\ stop_flag = 0 /\ stop_flag' = 1 /\ UNCHANGED <<setup, master>>
  <2>1. CASE MgStart
    BY <2>1 DEF MgStart
  <2>2. CASE SetPorts
    <3>1. setup = "started" /\ setup' = "ports" /\ UNCHANGED pool
      BY Zenon, <2>2 DEF SetPorts
    <3> QED BY <3>1 DEF pool
  <2>3. CASE SetUriCallback
    BY <2>3 DEF SetUriCallback, pool
  <2>4. CASE MgStop
    BY <2>4 DEF MgStop, net
  <2> QED BY <2>1, <2>2, <2>3, <2>4 DEF Httpd
<1>4. stop_flag' \in 0..2 /\ setup' \in {"none", "started", "ports", "ready"}
  BY <1>3, HFacts
<1>5. Counts'
  BY <1>1, <1>2, <1>4 DEF HInv, Counts
<1>6. StopSound'
  BY <1>1, <1>3, HFacts DEF StopSound
<1> QED BY <1>1, <1>2, <1>5, <1>6 DEF HInv

LEMMA ClientHInv ==
    ASSUME HInv, NEW c \in Clients, Connect(c) \/ SendPiece(c) \/ Leave(c)
    PROVE  HInv'
<1>1. UNCHANGED <<setup, open, pool, worker, crashed>>
  BY DEF Connect, SendPiece, Leave, net
<1>2. WorkersSound' /\ Alive' = Alive /\ At(IdleAt)' = At(IdleAt)
  BY <1>1, WorkersKept
<1>3. Counts'
  BY <1>1, <1>2 DEF HInv, Counts, IdleAt, pool, ring
<1>4. StopSound'
  BY <1>1 DEF HInv, StopSound, pool
<1> QED BY <1>1, <1>2, <1>3, <1>4 DEF HInv, pool, ring

-----------------------------------------------------------------------------
(* The master *)

LEMMA MasterWaitsHInv == HInv /\ (Accept \/ PutWaits \/ MasterStops) => HInv'
<1> SUFFICES ASSUME HInv, Accept \/ PutWaits \/ MasterStops
             PROVE  HInv'
  OBVIOUS
<1>1. UNCHANGED <<setup, ring, num_idle, num_threads, stop_flag, spawnFails, worker, crashed>>
  BY DEF Accept, PutWaits, MasterStops, net
<1>2. WorkersSound' /\ Alive' = Alive /\ At(IdleAt)' = At(IdleAt)
  BY <1>1, WorkersKept
<1>4. Counts'
  BY <1>1, <1>2 DEF HInv, Counts, IdleAt, ring
<1>5. \/ master.at = "select" /\ stop_flag = 0 /\ master' = [at |-> "put", sock |-> Head(backlog)]
      \/ master.at = "put" /\ master' = [master EXCEPT !.at = "waiting"]
      \/ master.at = "select" /\ stop_flag = 1 /\ master' = [master EXCEPT !.at = "fini"]
  BY DEF Accept, PutWaits, MasterStops
<1>6. StopSound'
  BY <1>1, <1>5, HFacts DEF StopSound
<1> QED BY <1>1, <1>2, <1>4, <1>6 DEF HInv, ring

LEMMA MgFiniHInv == HInv /\ MgFini => HInv'
<1> SUFFICES ASSUME HInv, MgFini
             PROVE  HInv'
  OBVIOUS
<1>1. UNCHANGED <<net, ring, num_idle, num_threads, spawnFails, worker, crashed>>
      /\ stop_flag' = 2 /\ master.at = "fini" /\ master' = [master EXCEPT !.at = "done"]
  BY DEF MgFini
<1>2. WorkersSound' /\ Alive' = Alive /\ At(IdleAt)' = At(IdleAt)
  BY <1>1, WorkersKept
<1>3. Counts'
  <2>1. stop_flag' \in 0..2 /\ UNCHANGED <<sq_tail, sq_head, num_idle, num_threads, spawnFails, setup>>
    BY <1>1 DEF net, ring
  <2> QED BY <1>2, <2>1, HFacts DEF Counts
<1>4. num_threads = 0
  BY HFacts, FiniteWorkers DEF MgFini, FiniWaits
<1>5. StopSound'
  BY <1>1, <1>4 DEF HInv, StopSound, net
<1> QED BY <1>1, <1>2, <1>3, <1>5 DEF HInv, ring

(* A thread is started only if there is an identity for it. *)
LEMMA FreshIsNot ==
    ASSUME HInv, StartsThread
    PROVE  Fresh \in Workers /\ Fresh \notin Alive
<1>1. Cardinality(Alive) < Cardinality(Workers)
  BY HttpServerAssumption, HFacts, FiniteWorkers DEF StartsThread
<1>2. \E w \in Workers : w \notin Alive
  <2>1. Alive # Workers
    BY <1>1, FiniteWorkers
  <2> QED BY <2>1 DEF Alive
<1> QED BY <1>1, <1>2 DEF Fresh

LEMMA PutHInv == HInv /\ Put => HInv'
<1> SUFFICES ASSUME HInv, Put
             PROVE  HInv'
  OBVIOUS
<1>1. PICK new \in {Fresh, None}, woken \in Signalled :
         /\ \/ new = Fresh /\ StartsThread /\ UNCHANGED spawnFails
            \/ new = None /\ ~StartsThread /\ UNCHANGED spawnFails
            \/ new = None /\ StartsThread /\ spawnFails < MaxSpawnFails /\ spawnFails' = spawnFails + 1
         /\ num_threads' = IF new = None THEN num_threads ELSE num_threads + 1
         /\ worker' = [w \in Workers |->
               CASE w = new   -> [NoThread EXCEPT !.at = "look"]
                 [] w = woken -> [worker[w] EXCEPT !.at = "woken"]
                 [] OTHER     -> worker[w]]
  BY DEF Put
<1>2. /\ DOMAIN worker' = Workers
      /\ \A w \in Workers :
            /\ w = new /\ w # woken => worker'[w] = [NoThread EXCEPT !.at = "look"]
            /\ w # new /\ w = woken => worker'[w] = [worker[w] EXCEPT !.at = "woken"]
            /\ w # new /\ w # woken => worker'[w] = worker[w]
  BY <1>1
<1>3. /\ WorkersSound' /\ At(IdleAt)' = At(IdleAt)
      /\ num_threads' = Cardinality(Alive') /\ num_threads' <= MaxThreads
      /\ spawnFails' \in 0..MaxSpawnFails
  <2>1. CASE new = Fresh /\ StartsThread
    <3>1. new \in Workers /\ new \notin Alive /\ new # None
      BY <2>1, FreshIsNot, HttpServerAssumption
    <3>2. woken # None => woken \in Workers /\ worker[woken].at = "waiting" /\ woken # new
      BY <3>1 DEF Signalled, At, Alive
    <3>3. /\ DOMAIN worker' = Workers
          /\ \A w \in Workers :
                worker'[w] = IF w = new THEN [NoThread EXCEPT !.at = "look"]
                             ELSE IF w = woken THEN [worker[w] EXCEPT !.at = "woken"] ELSE worker[w]
      BY <1>2, <3>1, <3>2
    <3>4. WorkersSound'
      BY <3>3, HFacts DEF WorkersSound, WorkerShape, FreeSound, NoThread
    <3>5. \A w \in Workers : worker'[w].at = IF w = new THEN "look" ELSE IF w = woken THEN "woken"
                                              ELSE worker[w].at
      BY <3>3, HFacts DEF WorkersSound, WorkerShape, NoThread
    <3>6. Alive' = Alive \cup {new} /\ At(IdleAt)' = At(IdleAt)
      BY <3>1, <3>2, <3>5, HttpServerAssumption DEF Alive, At, IdleAt
    <3>7. num_threads' = num_threads + 1 /\ num_threads < MaxThreads /\ UNCHANGED spawnFails
      BY <1>1, <2>1, <3>1 DEF StartsThread
    <3>8. num_threads' = Cardinality(Alive')
      BY <3>1, <3>6, <3>7, FiniteWorkers, FS_AddElement DEF HInv, Counts
    <3> QED BY <3>4, <3>6, <3>7, <3>8, HFacts, FiniteWorkers, HttpServerAssumption
  <2>2. CASE new = None
    <3>1. \A w \in Workers : w # new
      BY <2>2, HttpServerAssumption
    <3>2. woken # None => woken \in Workers /\ worker[woken].at = "waiting"
      BY DEF Signalled, At
    <3>3. /\ DOMAIN worker' = Workers
          /\ \A w \in Workers :
                worker'[w] = IF w = woken THEN [worker[w] EXCEPT !.at = "woken"] ELSE worker[w]
      BY <1>2, <3>1
    <3>4. WorkersSound'
      BY <3>3, HFacts DEF WorkersSound, WorkerShape, FreeSound
    <3>5. \A w \in Workers : worker'[w].at = IF w = woken THEN "woken" ELSE worker[w].at
      BY <3>3, HFacts DEF WorkersSound, WorkerShape
    <3>6. Alive' = Alive /\ At(IdleAt)' = At(IdleAt)
      BY <3>2, <3>5, HttpServerAssumption DEF Alive, At, IdleAt
    <3>7. num_threads' = num_threads /\ spawnFails' \in 0..MaxSpawnFails
      BY <1>1, <2>2, HFacts, HttpServerAssumption
    <3> QED BY <3>4, <3>6, <3>7 DEF HInv, Counts
  <2> QED BY <1>1, <2>1, <2>2
<1>4. sq_tail' = sq_tail /\ sq_head' = sq_head + 1 /\ sq_head - sq_tail < QueueSize
      /\ UNCHANGED <<net, num_idle, stop_flag, crashed>>
  BY DEF Put
<1>5. sq_tail' \in 0..QueueSize /\ sq_head' - sq_tail' \in 0..QueueSize
  BY <1>4, HFacts, HttpServerAssumption
<1>6. Counts'
  BY <1>3, <1>4, <1>5 DEF HInv, Counts, IdleAt, net
<1>7. StopSound'
  BY <1>4, HFacts DEF StopSound, Put, net
<1>8. sq_head' \in Int
  BY <1>4, HFacts
<1> QED BY <1>3, <1>4, <1>6, <1>7, <1>8, HFacts DEF HInv

-----------------------------------------------------------------------------
(* The workers *)

(* A step of a worker that leaves the counts, the ring and the master alone. *)
LEMMA GoesOn ==
    ASSUME HInv, NEW w \in Workers, NEW r, Becomes(w, r), WorkerShape(r), FreeSound(r),
           worker[w].at # "none", r.at # "none", r.at \in IdleAt <=> worker[w].at \in IdleAt,
           UNCHANGED <<net, pool>>, crashed' # "bad_free"
    PROVE  HInv'
<1>1. w \in Alive
  BY DEF Alive
<1>2. WorkersSound' /\ Alive' = Alive /\ At(IdleAt)' = At(IdleAt)
  BY <1>1, SameCounts, HFacts
<1> QED BY <1>2, CountsKept

(* The counts after a step that changes them along with the sets they count. *)
LEMMA Recounted ==
    ASSUME HInv, WorkersSound', StopSound', crashed' # "bad_free",
           UNCHANGED <<setup, stop_flag, spawnFails>>,
           sq_head' \in Int, sq_tail' \in 0..QueueSize, sq_head' - sq_tail' \in 0..QueueSize,
           num_threads' = Cardinality(Alive'), num_threads' <= MaxThreads,
           num_idle' = Cardinality(At(IdleAt)')
    PROVE  HInv'
<1>1. Counts'
  BY HFacts DEF Counts
<1> QED BY <1>1 DEF HInv

LEMMA WaitsHInv == ASSUME HInv, NEW w \in Workers, Waits(w) PROVE HInv'
<1> DEFINE r == [worker[w] EXCEPT !.at = "waiting"]
<1>1. WorkerShape(worker[w]) /\ FreeSound(worker[w]) /\ w \in DOMAIN worker
  BY HFacts DEF WorkersSound
<1>2. WorkerShape(r) /\ FreeSound(r) /\ r.at = "waiting"
  BY <1>1 DEF WorkerShape, FreeSound
<1>3. Becomes(w, r) /\ worker[w].at \in {"look", "woken"}
      /\ UNCHANGED <<net, master, ring, num_threads, stop_flag, spawnFails, stranded, crashed>>
  BY DEF Waits
<1>4. WorkersSound' /\ Alive' = Alive \cup {w} /\ At(IdleAt)' = At(IdleAt) \cup {w}
  BY <1>2, <1>3, OneWorker, HFacts DEF IdleAt
<1>5. w \in Alive /\ (w \in At(IdleAt) <=> worker[w].at = "woken")
  BY <1>3 DEF Alive, At, IdleAt
<1>6. Alive' = Alive
  BY <1>4, <1>5
<1>7. num_idle' = Cardinality(At(IdleAt)')
  BY <1>3, <1>4, <1>5, HFacts, FiniteWorkers, FS_AddElement DEF Waits
<1>8. StopSound'
  BY <1>3, HFacts DEF StopSound, net
<1> QED BY <1>3, <1>4, <1>6, <1>7, <1>8, HFacts, Recounted DEF net, ring

LEMMA TakesHInv == ASSUME HInv, NEW w \in Workers, Takes(w) PROVE HInv'
<1> DEFINE r == [NoThread EXCEPT !.at = "read", !.sock = queue[sq_tail % QueueSize], !.ctx = TRUE]
<1>1. WorkerShape(r) /\ FreeSound(r) /\ r.at = "read"
  BY DEF WorkerShape, FreeSound, NoThread
<1>2. Becomes(w, r) /\ worker[w].at \in {"look", "woken"} /\ sq_head # sq_tail
      /\ master' = Told(master)
      /\ UNCHANGED <<net, num_threads, stop_flag, spawnFails, crashed>>
  BY DEF Takes
<1>3. WorkersSound' /\ Alive' = Alive \cup {w} /\ At(IdleAt)' = At(IdleAt) \ {w}
  BY <1>1, <1>2, OneWorker, HFacts DEF IdleAt
<1>4. w \in Alive /\ (w \in At(IdleAt) <=> worker[w].at = "woken")
  BY <1>2 DEF Alive, At, IdleAt
<1>5. Alive' = Alive
  BY <1>3, <1>4
<1>6. num_idle' = Cardinality(At(IdleAt)')
  BY <1>2, <1>3, <1>4, HFacts, FiniteWorkers, FS_RemoveElement DEF Takes
<1>7. \/ sq_head' = sq_head /\ sq_tail' = sq_tail + 1 /\ sq_tail + 1 <= QueueSize
      \/ sq_head' = sq_head - QueueSize /\ sq_tail' = sq_tail + 1 - QueueSize /\ sq_tail + 1 > QueueSize
  BY HFacts, HttpServerAssumption DEF Takes, Wrapped
<1>8. sq_head' \in Int /\ sq_tail' \in 0..QueueSize /\ sq_head' - sq_tail' \in 0..QueueSize
  BY <1>2, <1>7, HFacts, HttpServerAssumption
<1>9. StopSound'
  BY <1>2, HFacts DEF StopSound, Told, net
<1> QED BY <1>2, <1>3, <1>5, <1>6, <1>8, <1>9, HFacts, Recounted DEF net

LEMMA RequestHInv ==
    ASSUME HInv, NEW w \in Workers, ReadRequest(w) \/ AnalyzeRequest(w) \/ ReadBody(w) PROVE HInv'
<1>1. WorkerShape(worker[w]) /\ FreeSound(worker[w])
  BY HFacts DEF WorkersSound
<1>2. UNCHANGED <<net, pool, crashed>>
  BY Zenon DEF ReadRequest, AnalyzeRequest, ReadBody
<1>3. CASE ReadRequest(w)
  <2>1. worker[w].at = "read"
    BY <1>3 DEF ReadRequest
  <2>2. ASSUME NEW n, NEW len,
               Becomes(w, [worker[w] EXCEPT !.got = n,
                              !.at = CASE len > 0 -> "analyze"
                                       [] len < 0 \/ (len = 0 /\ n = MaxPieces) -> "close"
                                       [] OTHER -> "read"])
        PROVE  HInv'
    <3> DEFINE at == CASE len > 0 -> "analyze"
                       [] len < 0 \/ (len = 0 /\ n = MaxPieces) -> "close"
                       [] OTHER -> "read"
               r == [worker[w] EXCEPT !.got = n, !.at = at]
    <3>1. at \in {"analyze", "close", "read"}
      OBVIOUS
    <3> HIDE DEF at
    <3>2. WorkerShape(r) /\ FreeSound(r) /\ r.at = at
      BY <1>1, <2>1 DEF WorkerShape, FreeSound
    <3>3. Becomes(w, r)
      BY <2>2 DEF at
    <3> QED BY <1>2, <2>1, <3>1, <3>2, <3>3, GoesOn, HFacts DEF IdleAt
  <2>3. ASSUME Becomes(w, [worker[w] EXCEPT !.at = "close"])
        PROVE  HInv'
    <3> DEFINE r == [worker[w] EXCEPT !.at = "close"]
    <3>1. WorkerShape(r) /\ FreeSound(r) /\ r.at = "close"
      BY <1>1, <2>1 DEF WorkerShape, FreeSound
    <3> QED BY <1>2, <2>1, <2>3, <3>1, GoesOn, HFacts DEF IdleAt
  <2> QED BY <1>3, <2>2, <2>3 DEF ReadRequest
<1>4. CASE AnalyzeRequest(w)
  <2>1. worker[w].at = "analyze" /\ ~worker[w].free
    BY <1>1, <1>4 DEF AnalyzeRequest, FreeSound
  <2>2. ASSUME Becomes(w, [worker[w] EXCEPT !.at = "body", !.cb = find_callback,
                              !.post = BodyBuffer(~find_callback)[1],
                              !.free = BodyBuffer(~find_callback)[2]])
        PROVE  HInv'
    <3> DEFINE post == BodyBuffer(~find_callback)[1]
               free == BodyBuffer(~find_callback)[2]
               r == [worker[w] EXCEPT !.at = "body", !.cb = find_callback, !.post = post, !.free = free]
    <3>1. free => post # "stack"
      BY DEF BodyBuffer
    <3> HIDE DEF post, free
    <3>2. WorkerShape(r) /\ FreeSound(r) /\ r.at = "body"
      BY <1>1, <3>1 DEF WorkerShape, FreeSound
    <3>3. Becomes(w, r)
      BY <2>2 DEF post, free
    <3> QED BY <1>2, <2>1, <3>2, <3>3, GoesOn, HFacts DEF IdleAt
  <2>3. ASSUME Becomes(w, [worker[w] EXCEPT !.at = "close", !.post = "stack"])
        PROVE  HInv'
    <3> DEFINE r == [worker[w] EXCEPT !.at = "close", !.post = "stack"]
    <3>1. WorkerShape(r) /\ FreeSound(r) /\ r.at = "close"
      BY <1>1, <2>1 DEF WorkerShape, FreeSound
    <3> QED BY <1>2, <2>1, <2>3, <3>1, GoesOn, HFacts DEF IdleAt
  <2> QED BY Zenon, <1>4, <2>2, <2>3 DEF AnalyzeRequest
<1>5. CASE ReadBody(w)
  <2>1. worker[w].at = "body"
    BY <1>5 DEF ReadBody
  <2>2. ASSUME NEW n, NEW at \in {"body", "close"},
               Becomes(w, [worker[w] EXCEPT !.got = n, !.at = at])
        PROVE  HInv'
    <3> DEFINE r == [worker[w] EXCEPT !.got = n, !.at = at]
    <3>1. WorkerShape(r) /\ FreeSound(r) /\ r.at = at
      BY <1>1, <2>1 DEF WorkerShape, FreeSound
    <3> QED BY <1>2, <2>1, <2>2, <3>1, GoesOn, HFacts DEF IdleAt
  <2>3. ASSUME NEW n, Becomes(w, [worker[w] EXCEPT !.got = n])
        PROVE  HInv'
    <3> DEFINE r == [worker[w] EXCEPT !.got = n]
    <3>1. WorkerShape(r) /\ FreeSound(r) /\ r.at = "body"
      BY <1>1, <2>1 DEF WorkerShape, FreeSound
    <3> QED BY <1>2, <2>1, <2>3, <3>1, GoesOn, HFacts DEF IdleAt
  <2>4. ASSUME Becomes(w, [worker[w] EXCEPT !.at = "close"])
        PROVE  HInv'
    <3> DEFINE r == [worker[w] EXCEPT !.at = "close"]
    <3>1. WorkerShape(r) /\ FreeSound(r) /\ r.at = "close"
      BY <1>1, <2>1 DEF WorkerShape, FreeSound
    <3> QED BY <1>2, <2>1, <2>4, <3>1, GoesOn, HFacts DEF IdleAt
  <2> QED BY <1>5, <2>2, <2>3, <2>4 DEF ReadBody
<1> QED BY <1>3, <1>4, <1>5

LEMMA CloseHInv == ASSUME HInv, NEW w \in Workers, CloseConnection(w) PROVE HInv'
<1> DEFINE r == [worker[w] EXCEPT !.at = "look", !.sock = None, !.got = 0, !.cb = FALSE, !.post = "null"]
<1>1. WorkerShape(worker[w]) /\ FreeSound(worker[w])
  BY HFacts DEF WorkersSound
<1>2. WorkerShape(r) /\ FreeSound(r) /\ r.at = "look"
  BY <1>1 DEF WorkerShape, FreeSound
<1>3. Becomes(w, r) /\ worker[w].at = "close" /\ UNCHANGED <<net, pool>>
  BY DEF CloseConnection
<1>4. crashed' # "bad_free"
  BY <1>1, HFacts DEF CloseConnection, FreeSound
<1> QED BY <1>2, <1>3, <1>4, GoesOn DEF IdleAt

LEMMA TimesOutHInv == ASSUME HInv, NEW w \in Workers, TimesOut(w) PROVE HInv'
<1> DEFINE r == [worker[w] EXCEPT !.at = "timedout"]
<1>1. WorkerShape(worker[w]) /\ FreeSound(worker[w])
  BY HFacts DEF WorkersSound
<1>2. WorkerShape(r) /\ FreeSound(r) /\ r.at = "timedout"
  BY <1>1 DEF WorkerShape, FreeSound
<1>3. Becomes(w, r) /\ worker[w].at = "waiting" /\ UNCHANGED <<net, pool, crashed>>
  BY DEF TimesOut
<1> QED BY <1>2, <1>3, GoesOn, HFacts DEF IdleAt

LEMMA WorkerExitsHInv == ASSUME HInv, NEW w \in Workers, WorkerExits(w) PROVE HInv'
<1>1. UNCHANGED <<net, master, ring, stop_flag, spawnFails, stranded>> /\ worker[w].at = "timedout"
  BY DEF WorkerExits
<1>2. CASE worker[w].ctx
  <2>1. Becomes(w, NoThread) /\ UNCHANGED crashed
        /\ num_threads' = num_threads - 1 /\ num_idle' = num_idle - 1
    BY <1>2 DEF WorkerExits, Uncounted
  <2>2. WorkerShape(NoThread) /\ FreeSound(NoThread) /\ NoThread.at = "none"
    BY DEF WorkerShape, FreeSound, NoThread
  <2>3. WorkersSound' /\ Alive' = Alive \ {w} /\ At(IdleAt)' = At(IdleAt) \ {w}
    BY <2>1, <2>2, OneWorker, HFacts DEF IdleAt
  <2>4. w \in Alive /\ w \in At(IdleAt)
    BY <1>1 DEF Alive, At, IdleAt
  <2>5. num_threads' = Cardinality(Alive') /\ num_idle' = Cardinality(At(IdleAt)')
    BY <2>1, <2>3, <2>4, HFacts, FiniteWorkers, FS_RemoveElement
  <2>6. num_threads' <= MaxThreads
    BY <2>1, HFacts, FiniteWorkers, HttpServerAssumption
  <2>7. num_threads # 0
    BY <2>4, HFacts, FiniteWorkers, FS_EmptySet
  <2>8. StopSound'
    BY <1>1, <2>7, HFacts DEF StopSound, net
  <2> QED BY <1>1, <2>1, <2>3, <2>5, <2>6, <2>8, HFacts, Recounted DEF net, ring
<1>3. CASE ~worker[w].ctx
  <2>1. crashed' = "null_ctx" /\ UNCHANGED <<num_threads, num_idle, worker>>
    BY <1>3 DEF WorkerExits
  <2> QED BY <1>1, <2>1, WorkersKept, CountsKept DEF pool
<1> QED BY <1>2, <1>3

-----------------------------------------------------------------------------
LEMMA NextHInv == HInv /\ [Next]_vars => HInv'
<1> SUFFICES ASSUME HInv, [Next]_vars
             PROVE  HInv'
  OBVIOUS
<1>1. CASE Httpd \/ MgStop
  BY <1>1, HttpdHInv
<1>2. CASE Master
  BY <1>2, MasterWaitsHInv, PutHInv, MgFiniHInv DEF Master
<1>3. CASE \E w \in Workers : Work(w) \/ TimesOut(w)
  BY <1>3, WaitsHInv, TakesHInv, RequestHInv, CloseHInv, TimesOutHInv, WorkerExitsHInv DEF Work
<1>4. CASE \E c \in Clients : Connect(c) \/ SendPiece(c) \/ Leave(c)
  BY <1>4, ClientHInv
<1>5. CASE UNCHANGED vars
  <2>1. UNCHANGED <<net, pool, worker, crashed>>
    BY <1>5 DEF vars, net, pool, ring
  <2> QED BY <2>1, NothingCounted
<1> QED BY <1>1, <1>2, <1>3, <1>4, <1>5 DEF Next, Runs

(* Whether the port is open is set to a Boolean or left alone. *)
LEMMA NextOpen == open \in BOOLEAN /\ [Next]_vars => open' \in BOOLEAN
<1> SUFFICES ASSUME open \in BOOLEAN, [Next]_vars
             PROVE  open' \in BOOLEAN
  OBVIOUS
<1>1. CASE SetPorts
  BY Zenon, <1>1 DEF SetPorts
<1>2. CASE MgStart \/ SetUriCallback \/ Master
  BY Zenon, <1>2 DEF MgStart, SetUriCallback, Master, Accept, PutWaits, Put, MasterStops, MgFini, net
<1>3. CASE \E w \in Workers : Work(w) \/ TimesOut(w)
  BY Zenon, <1>3 DEF Work, Waits, Takes, ReadRequest, AnalyzeRequest, ReadBody, CloseConnection,
     WorkerExits, TimesOut, net
<1>4. CASE MgStop \/ \E c \in Clients : Connect(c) \/ SendPiece(c) \/ Leave(c)
  BY Zenon, <1>4 DEF MgStop, Connect, SendPiece, Leave, net
<1>5. CASE UNCHANGED vars
  BY Zenon, <1>5 DEF vars
<1> QED BY <1>1, <1>2, <1>3, <1>4, <1>5 DEF Next, Runs, Httpd

OInv == HInv /\ open \in BOOLEAN

(* The counts put_socket and mg_fini go by are the numbers of threads, and the *)
(* ring's pointers stay in range, for any number of clients, workers and slots. *)
THEOREM CountsRight == Spec => []TypeOK
<1>1. Init => OInv
  BY InitHInv DEF Init, OInv
<1>2. OInv /\ [Next]_vars => OInv'
  BY NextHInv, NextOpen DEF OInv
<1>3. OInv => TypeOK
  BY CountsAreTypes DEF HInv, OInv
<1> QED BY <1>1, <1>2, <1>3, PTL DEF Spec

(* No worker frees a request that is on its stack, and mg_stop() goes on to   *)
(* free the context only when every worker and the master have gone.         *)
THEOREM NothingFreedInUse == Spec => []MemorySound
<1>1. HInv => MemorySound
  <2> SUFFICES ASSUME HInv
               PROVE  MemorySound
    OBVIOUS
  <2>1. stop_flag = 2 => Cardinality(Alive) = 0 /\ master.at = "done"
    BY HFacts DEF StopSound
  <2>2. stop_flag = 2 => Alive = {}
    BY <2>1, FiniteWorkers, FS_EmptySet
  <2> QED BY <2>1, <2>2, HFacts DEF MemorySound
<1> QED BY <1>1, InitHInv, NextHInv, PTL DEF Spec

-----------------------------------------------------------------------------
(* Where a connection is *)

Asked == {s[c] : s \in Scripts, c \in Clients}
BusyAt == {"read", "analyze", "body", "close"}

Threads == [at: {"none", "look"} \cup IdleAt \cup BusyAt, sock: Clients \cup {None},
            ctx: BOOLEAN, got: Nat, cb: BOOLEAN, post: {"null", "stack", "heap"}, free: BOOLEAN]
Peers == [at: {"new", "open", "left", "closed"}, req: Asked, sent: Nat]

PTypes ==
    /\ worker \in [Workers -> Threads] /\ client \in [Clients -> Peers]
    /\ backlog \in Seq(Clients) /\ queue \in [0..QueueSize - 1 -> Clients \cup {None}]
    /\ master \in [at: {"none", "select", "put", "waiting", "fini", "done"},
                   sock: Clients \cup {None}]

(* Those who have a connection, and where it is: the master has it only       *)
(* while it queues it.                                                       *)
Connected(c) == client[c].at \in {"open", "left"}
InBacklog(c) == \E i \in DOMAIN backlog : backlog[i] = c
WithMaster(c) == master.sock = c
Ring == sq_tail..sq_head - 1
InRing(c) == \E i \in Ring : queue[i % QueueSize] = c
AtWorker(c) == \E w \in Busy : worker[w].sock = c

Held ==
    /\ \A i \in Ring : queue[i % QueueSize] \in Clients
    /\ \A w \in Busy : worker[w].sock \in Clients
    /\ master.at \in {"put", "waiting"} <=> master.sock \in Clients
    /\ setup = "none" => master.at = "none"

Once ==
    /\ \A i, j \in DOMAIN backlog : backlog[i] = backlog[j] => i = j
    /\ \A i, j \in Ring : queue[i % QueueSize] = queue[j % QueueSize] => i = j
    /\ \A v, w \in Busy : worker[v].sock = worker[w].sock => v = w

OnePlace(c) ==
    /\ Connected(c) <=> InBacklog(c) \/ WithMaster(c) \/ InRing(c) \/ AtWorker(c)
    /\ InBacklog(c) => ~WithMaster(c) /\ ~InRing(c) /\ ~AtWorker(c)
    /\ WithMaster(c) => ~InRing(c) /\ ~AtWorker(c)
    /\ InRing(c) => ~AtWorker(c)

Places == PTypes /\ Held /\ Once /\ \A c \in Clients : OnePlace(c)

PInv == HInv /\ Places

LEMMA PFacts ==
  ASSUME PInv
  PROVE  /\ worker \in [Workers -> Threads] /\ client \in [Clients -> Peers]
         /\ backlog \in Seq(Clients) /\ queue \in [0..QueueSize - 1 -> Clients \cup {None}]
         /\ master \in [at: {"none", "select", "put", "waiting", "fini", "done"},
                        sock: Clients \cup {None}]
         /\ HInv /\ Held /\ Once /\ \A c \in Clients : OnePlace(c)
         /\ sq_head \in Int /\ sq_tail \in 0..QueueSize /\ sq_head - sq_tail \in 0..QueueSize
         /\ None \notin Clients /\ QueueSize \in Nat \ {0}
<1>1. HInv /\ PTypes
  BY DEF PInv, Places
<1>2. sq_head \in Int /\ sq_tail \in 0..QueueSize /\ sq_head - sq_tail \in 0..QueueSize
  BY <1>1, HFacts
<1> QED BY <1>1, <1>2, HttpServerAssumption DEF PInv, Places, PTypes

(* A slot of the ring. *)
LEMMA Slot ==
  ASSUME NEW i \in 0..(2 * QueueSize - 1)
  PROVE  i % QueueSize = IF i < QueueSize THEN i ELSE i - QueueSize
<1> DEFINE q == QueueSize
           d == i \div q
<1>1. q \in Nat \ {0}
  BY HttpServerAssumption
<1>2. d \in Int /\ i = q * d + (i % q) /\ i % q \in 0..(q - 1)
  <2> HIDE DEF q
  <2> QED BY <1>1
<1> HIDE DEF d, q
<1>3. d < 2
  <2> SUFFICES ASSUME d >= 2 PROVE FALSE
    BY <1>2
  <2>1. q * d >= q * 2
    BY <1>1, <1>2
  <2>2. i < 2 * q
    BY <1>1 DEF q
  <2> QED BY <1>1, <1>2, <2>1, <2>2
<1>4. d >= 0
  <2> SUFFICES ASSUME d <= -1 PROVE FALSE
    BY <1>2
  <2>1. q * d <= q * (-1)
    BY <1>1, <1>2
  <2> QED BY <1>1, <1>2, <2>1
<1>5. d = 0 \/ d = 1
  BY <1>2, <1>3, <1>4
<1>6. i % q = IF i < q THEN i ELSE i - q
  BY <1>1, <1>2, <1>5
<1> QED BY <1>6 DEF q

LEMMA RingIndex ==
  ASSUME PInv
  PROVE  /\ \A i \in Ring : i \in 0..(2 * QueueSize - 1)
         /\ \A i \in Ring : i % QueueSize \in 0..(QueueSize - 1)
         /\ sq_head - sq_tail < QueueSize =>
               /\ sq_head \in 0..(2 * QueueSize - 1) /\ sq_head % QueueSize \in 0..(QueueSize - 1)
               /\ \A i \in Ring : i % QueueSize # sq_head % QueueSize
<1>1. \A i \in Ring : i \in 0..(2 * QueueSize - 1)
  BY PFacts DEF Ring
<1>2. \A i \in Ring : i % QueueSize \in 0..(QueueSize - 1)
  BY <1>1, Slot, PFacts
<1>3. ASSUME sq_head - sq_tail < QueueSize
      PROVE  /\ sq_head \in 0..(2 * QueueSize - 1) /\ sq_head % QueueSize \in 0..(QueueSize - 1)
             /\ \A i \in Ring : i % QueueSize # sq_head % QueueSize
  <2>1. sq_head \in 0..(2 * QueueSize - 1)
    BY <1>3, PFacts
  <2>2. sq_head % QueueSize = IF sq_head < QueueSize THEN sq_head ELSE sq_head - QueueSize
    BY <2>1, Slot
  <2>3. ASSUME NEW i \in Ring
        PROVE  i % QueueSize # sq_head % QueueSize
    <3>1. i % QueueSize = IF i < QueueSize THEN i ELSE i - QueueSize
      BY <1>1, Slot
    <3>2. i \in Int /\ i < sq_head /\ sq_head - i < QueueSize
      BY <1>3, PFacts DEF Ring
    <3> QED BY <2>1, <2>2, <3>1, <3>2, PFacts
  <2>4. sq_head % QueueSize \in 0..(QueueSize - 1)
    <3>1. sq_head \in Int /\ QueueSize \in Nat \ {0}
      BY PFacts
    <3> QED BY <2>1, <2>2, <3>1
  <2> QED BY <2>1, <2>3, <2>4
<1> QED BY <1>1, <1>2, <1>3

(* What the steps that leave one of the places alone keep. *)
LEMMA BusyKept ==
  ASSUME PInv,
         \A w \in Workers : /\ worker'[w].at \in BusyAt <=> worker[w].at \in BusyAt
                            /\ worker[w].at \in BusyAt => worker'[w].sock = worker[w].sock
  PROVE  /\ Busy' = Busy
         /\ \A c : AtWorker(c)' <=> AtWorker(c)
         /\ \A w \in Busy' : worker'[w].sock \in Clients
         /\ \A v, w \in Busy' : worker'[v].sock = worker'[w].sock => v = w
<1>1. Busy' = Busy
  BY DEF Busy, At, BusyAt
<1>2. \A w \in Busy : worker'[w].sock = worker[w].sock
  BY DEF Busy, At, BusyAt
<1>3. /\ \A w \in Busy : worker[w].sock \in Clients
      /\ \A v, w \in Busy : worker[v].sock = worker[w].sock => v = w
  BY PFacts DEF Held, Once
<1>4. \A c : AtWorker(c)' <=> AtWorker(c)
  BY <1>1, <1>2 DEF AtWorker
<1> QED BY <1>1, <1>2, <1>3, <1>4

LEMMA RingKept ==
  ASSUME PInv, UNCHANGED ring
  PROVE  /\ Ring' = Ring
         /\ \A c : InRing(c)' <=> InRing(c)
         /\ \A i \in Ring' : queue'[i % QueueSize] \in Clients
         /\ \A i, j \in Ring' : queue'[i % QueueSize] = queue'[j % QueueSize] => i = j
<1>1. Ring' = Ring /\ queue' = queue
  BY DEF Ring, ring
<1> QED BY <1>1, PFacts DEF InRing, Held, Once

LEMMA BacklogKept ==
  ASSUME PInv, UNCHANGED backlog
  PROVE  /\ \A c : InBacklog(c)' <=> InBacklog(c)
         /\ \A i, j \in DOMAIN backlog' : backlog'[i] = backlog'[j] => i = j
  BY PFacts DEF InBacklog, Once

LEMMA OneIsBusy ==
  ASSUME PInv, NEW w \in Workers, NEW r, Becomes(w, r), "at" \in DOMAIN r
  PROVE  /\ worker'[w] = r /\ \A v \in Workers \ {w} : worker'[v] = worker[v]
         /\ Busy' = IF r.at \in BusyAt THEN Busy \cup {w} ELSE Busy \ {w}
<1>1. worker' = [worker EXCEPT ![w] = r]
  BY DEF Becomes
<1>2. worker'[w] = r /\ \A v \in Workers \ {w} : worker'[v] = worker[v]
  BY <1>1, PFacts
<1> QED BY <1>2 DEF Busy, At, BusyAt

LEMMA InitPlaces == Init => Places
<1> SUFFICES ASSUME Init
             PROVE  Places
  OBVIOUS
<1>1. PICK s \in Scripts : client = [c \in Clients |-> [at |-> "new", req |-> s[c], sent |-> 0]]
  BY DEF Init
<1>2. \A c \in Clients : s[c] \in Asked
  BY DEF Asked
<1>3. client \in [Clients -> Peers] /\ \A c \in Clients : ~Connected(c)
  BY <1>1, <1>2 DEF Peers, Connected
<1>4. worker \in [Workers -> Threads] /\ Busy = {}
  BY DEF Init, NoThread, Threads, Busy, At
<1>5. Ring = {} /\ DOMAIN backlog = {} /\ backlog \in Seq(Clients)
  BY DEF Init, Ring
<1>6. master = [at |-> "none", sock |-> None] /\ None \notin Clients
  BY HttpServerAssumption DEF Init
<1>7. queue \in [0..QueueSize - 1 -> Clients \cup {None}]
  BY DEF Init
<1>8. PTypes
  BY <1>3, <1>4, <1>5, <1>6, <1>7 DEF PTypes
<1>9. Held /\ Once
  BY <1>4, <1>5, <1>6 DEF Held, Once
<1>10. \A c \in Clients : OnePlace(c)
  BY <1>3, <1>4, <1>5, <1>6 DEF OnePlace, InBacklog, WithMaster, InRing, AtWorker
<1> QED BY <1>8, <1>9, <1>10 DEF Places

(* A step after which every connection is where it was. *)
LEMMA NothingMoves ==
  ASSUME PInv, UNCHANGED <<backlog, ring>>,
         client' \in [Clients -> Peers], \A c \in Clients : Connected(c)' <=> Connected(c),
         worker' \in [Workers -> Threads],
         \A w \in Workers : /\ worker'[w].at \in BusyAt <=> worker[w].at \in BusyAt
                            /\ worker[w].at \in BusyAt => worker'[w].sock = worker[w].sock,
         master' = master \/ \E at \in {"none", "select", "put", "waiting", "fini", "done"} :
                                /\ master' = [master EXCEPT !.at = at]
                                /\ at \in {"put", "waiting"} <=> master.at \in {"put", "waiting"},
         setup' = "none" => setup = "none" /\ master' = master
  PROVE  Places'
<1>1. /\ master' \in [at: {"none", "select", "put", "waiting", "fini", "done"},
                       sock: Clients \cup {None}]
      /\ master'.sock = master.sock
      /\ master'.at \in {"put", "waiting"} <=> master.at \in {"put", "waiting"}
  BY PFacts
<1>2. backlog' = backlog /\ queue' = queue
  BY DEF ring
<1>3. PTypes'
  BY <1>1, <1>2, PFacts DEF PTypes
<1>4. Held'
  BY <1>1, BusyKept, RingKept, PFacts DEF Held
<1>5. Once'
  BY BusyKept, RingKept, BacklogKept DEF Once
<1>6. ASSUME NEW c \in Clients
      PROVE  OnePlace(c)'
  <2>1. WithMaster(c)' <=> WithMaster(c)
    BY <1>1 DEF WithMaster
  <2>2. InBacklog(c)' <=> InBacklog(c)
    BY BacklogKept
  <2>3. InRing(c)' <=> InRing(c)
    BY RingKept
  <2>4. AtWorker(c)' <=> AtWorker(c)
    BY BusyKept
  <2>5. OnePlace(c)
    BY PFacts
  <2> QED BY <2>1, <2>2, <2>3, <2>4, <2>5 DEF OnePlace
<1> QED BY <1>3, <1>4, <1>5, <1>6 DEF Places

LEMMA ClientsPlaces ==
  ASSUME PInv, NEW c \in Clients, SendPiece(c) \/ Leave(c)
  PROVE  Places'
<1>1. UNCHANGED <<backlog, ring, master, worker, setup>>
  BY DEF SendPiece, Leave, net, pool
<1>2. client' \in [Clients -> Peers]
      /\ \A d \in Clients : client'[d].at = client[d].at
                           \/ (d = c /\ client[d].at = "open" /\ client'[d].at = "left")
  <2>1. CASE SendPiece(c)
    <3>1. client' = [client EXCEPT ![c].sent = client[c].sent + 1]
      BY <2>1 DEF SendPiece
    <3>2. client[c] \in Peers /\ client[c].sent + 1 \in Nat
      BY PFacts DEF Peers
    <3>3. [client[c] EXCEPT !.sent = client[c].sent + 1] \in Peers
      BY <3>2 DEF Peers
    <3>4. client' = [client EXCEPT ![c] = [client[c] EXCEPT !.sent = client[c].sent + 1]]
      BY <3>1, PFacts
    <3>5. \A d \in Clients : client'[d].at = client[d].at
      BY <3>2, <3>4, PFacts DEF Peers
    <3> QED BY <3>3, <3>4, <3>5, PFacts
  <2>2. CASE Leave(c)
    BY <2>2, PFacts DEF Leave, Peers
  <2> QED BY <2>1, <2>2
<1>3. \A d \in Clients : Connected(d)' <=> Connected(d)
  BY <1>2 DEF Connected
<1> QED BY <1>1, <1>2, <1>3, NothingMoves, PFacts

LEMMA HttpdPlaces ==
  ASSUME PInv, Httpd \/ MgStop \/ PutWaits \/ MgFini \/ UNCHANGED vars
  PROVE  Places'
<1>1. UNCHANGED <<backlog, ring, client, worker>>
  BY DEF Httpd, MgStart, SetPorts, SetUriCallback, MgStop, PutWaits, MgFini, vars, pool, io, net, ring
<1>2. \A c \in Clients : Connected(c)' <=> Connected(c)
  BY <1>1 DEF Connected
<1>3. /\ setup' = "none" => setup = "none" /\ master' = master
      /\ master' = master \/ \E at \in {"none", "select", "put", "waiting", "fini", "done"} :
                                /\ master' = [master EXCEPT !.at = at]
                                /\ at \in {"put", "waiting"} <=> master.at \in {"put", "waiting"}
  <2>1. CASE MgStart
    <3>1. master.at = "none" /\ setup' = "started" /\ master' = [master EXCEPT !.at = "select"]
      BY <2>1, PFacts DEF MgStart, Held
    <3> QED BY <3>1
  <2>2. CASE PutWaits
    <3>1. master.at = "put" /\ setup' = setup /\ master' = [master EXCEPT !.at = "waiting"]
      BY <2>2 DEF PutWaits, net
    <3> QED BY <3>1, PFacts DEF Held
  <2>3. CASE MgFini
    <3>1. master.at = "fini" /\ setup' = setup /\ master' = [master EXCEPT !.at = "done"]
      BY <2>3 DEF MgFini, net
    <3> QED BY <3>1, PFacts DEF Held
  <2>4. CASE SetPorts \/ SetUriCallback \/ MgStop \/ UNCHANGED vars
    BY <2>4 DEF SetPorts, SetUriCallback, MgStop, vars, pool, net
  <2> QED BY <2>1, <2>2, <2>3, <2>4 DEF Httpd
<1> QED BY <1>1, <1>2, <1>3, NothingMoves, PFacts

(* What a worker does between taking a socket and closing it, and before and  *)
(* after, moves no connection.                                               *)
LEMMA WorkerMovesNothing ==
  ASSUME PInv, NEW w \in Workers, NEW r \in Threads, Becomes(w, r),
         UNCHANGED <<backlog, ring, client, master, setup>>,
         r.at \in BusyAt <=> worker[w].at \in BusyAt,
         r.at \in BusyAt => r.sock = worker[w].sock
  PROVE  Places'
<1>1. worker' = [worker EXCEPT ![w] = r]
  BY DEF Becomes
<1>2. worker' \in [Workers -> Threads]
      /\ worker'[w] = r /\ \A v \in Workers \ {w} : worker'[v] = worker[v]
  BY <1>1, PFacts
<1>3. \A c \in Clients : Connected(c)' <=> Connected(c)
  BY DEF Connected
<1>4. client' \in [Clients -> Peers]
  BY PFacts
<1> QED BY <1>2, <1>3, <1>4, NothingMoves

LEMMA WorkerType ==
  ASSUME PInv, NEW w \in Workers
  PROVE  worker[w] \in Threads
  BY PFacts

LEMMA WorkerAt ==
  ASSUME PInv, NEW w \in Workers, NEW at \in {"look", "waiting", "woken", "timedout"} \cup BusyAt,
         NEW r, r = [worker[w] EXCEPT !.at = at]
  PROVE  r \in Threads /\ r.at = at /\ r.sock = worker[w].sock
  BY WorkerType DEF Threads, IdleAt

LEMMA IdlePlaces ==
  ASSUME PInv, NEW w \in Workers, Waits(w) \/ TimesOut(w) \/ WorkerExits(w)
  PROVE  Places'
<1>1. UNCHANGED <<backlog, ring, client, master, setup>> /\ worker[w].at \notin BusyAt
  BY DEF Waits, TimesOut, WorkerExits, net, pool, io, BusyAt
<1>2. CASE Waits(w)
  <2> DEFINE r == [worker[w] EXCEPT !.at = "waiting"]
  <2>1. Becomes(w, r)
    BY <1>2 DEF Waits
  <2>2. "waiting" \notin BusyAt
    BY DEF BusyAt
  <2>3. r \in Threads /\ r.at = "waiting"
    BY WorkerAt
  <2> HIDE DEF r
  <2> QED BY <1>1, <2>1, <2>2, <2>3, WorkerMovesNothing
<1>3. CASE TimesOut(w)
  <2> DEFINE r == [worker[w] EXCEPT !.at = "timedout"]
  <2>1. Becomes(w, r)
    BY <1>3 DEF TimesOut
  <2>2. "timedout" \notin BusyAt
    BY DEF BusyAt
  <2>3. r \in Threads /\ r.at = "timedout"
    BY WorkerAt
  <2> HIDE DEF r
  <2> QED BY <1>1, <2>1, <2>2, <2>3, WorkerMovesNothing
<1>4. CASE WorkerExits(w)
  <2>1. NoThread \in Threads /\ NoThread.at \notin BusyAt
    BY DEF NoThread, Threads, BusyAt
  <2>2. CASE Becomes(w, NoThread)
    BY <1>1, <2>1, <2>2, WorkerMovesNothing
  <2>3. CASE UNCHANGED worker
    <3>1. client' \in [Clients -> Peers] /\ worker' \in [Workers -> Threads]
          /\ \A c \in Clients : Connected(c)' <=> Connected(c)
      BY <1>1, <2>3, PFacts DEF Connected
    <3> QED BY <1>1, <2>3, <3>1, NothingMoves
  <2> QED BY <1>4, <2>2, <2>3 DEF WorkerExits
<1> QED BY <1>2, <1>3, <1>4

LEMMA RequestPlaces ==
  ASSUME PInv, NEW w \in Workers, ReadRequest(w) \/ AnalyzeRequest(w) \/ ReadBody(w)
  PROVE  Places'
<1>1. UNCHANGED <<backlog, ring, client, master, setup>> /\ worker[w].at \in BusyAt
  BY DEF ReadRequest, AnalyzeRequest, ReadBody, Answer, net, pool, io, BusyAt
<1>2. \A r \in Threads : Becomes(w, r) /\ r.at \in BusyAt /\ r.sock = worker[w].sock => Places'
  BY <1>1, WorkerMovesNothing
<1>3. \A n \in worker[w].got + 1..Sock(w).sent : n \in Nat
  <2>1. worker[w].got \in Nat
    BY WorkerType DEF Threads
  <2>2. Sock(w).sent \in Nat
    BY <1>1, PFacts DEF Held, Busy, At, BusyAt, Sock, Peers
  <2> QED BY <2>1, <2>2
<1>4. CASE ReadRequest(w)
  <2>1. ASSUME NEW n \in worker[w].got + 1..Sock(w).sent, NEW at \in {"analyze", "close", "read"},
               Becomes(w, [worker[w] EXCEPT !.got = n, !.at = at])
        PROVE  Places'
    <3>1. n \in Nat /\ at \in BusyAt
      BY <1>3 DEF BusyAt
    <3> DEFINE r == [worker[w] EXCEPT !.got = n, !.at = at]
    <3>2. r \in Threads /\ r.at = at /\ r.sock = worker[w].sock
      BY <3>1, WorkerType DEF Threads
    <3> QED BY <1>2, <2>1, <3>1, <3>2
  <2>2. ASSUME Becomes(w, [worker[w] EXCEPT !.at = "close"])
        PROVE  Places'
    <3> DEFINE r == [worker[w] EXCEPT !.at = "close"]
    <3>1. "close" \in BusyAt
      BY DEF BusyAt
    <3>2. r \in Threads /\ r.at = "close" /\ r.sock = worker[w].sock
      BY <3>1, WorkerAt
    <3> QED BY <1>2, <2>2, <3>1, <3>2
  <2> QED BY <1>4, <2>1, <2>2 DEF ReadRequest
<1>5. CASE AnalyzeRequest(w)
  <2>1. worker[w] \in Threads /\ find_callback \in BOOLEAN
    BY WorkerType DEF find_callback
  <2>2. ASSUME NEW cb \in BOOLEAN, NEW post \in {"null", "stack", "heap"}, NEW free \in BOOLEAN,
               Becomes(w, [worker[w] EXCEPT !.at = "body", !.cb = cb, !.post = post, !.free = free])
        PROVE  Places'
    <3>1. LET r == [worker[w] EXCEPT !.at = "body", !.cb = cb, !.post = post, !.free = free]
          IN  r \in Threads /\ r.at \in BusyAt /\ r.sock = worker[w].sock
      BY <2>1 DEF Threads, BusyAt
    <3> QED BY <1>2, <2>2, <3>1
  <2>3. ASSUME Becomes(w, [worker[w] EXCEPT !.at = "close", !.post = "stack"])
        PROVE  Places'
    <3>1. LET r == [worker[w] EXCEPT !.at = "close", !.post = "stack"]
          IN  r \in Threads /\ r.at \in BusyAt /\ r.sock = worker[w].sock
      BY <2>1 DEF Threads, BusyAt
    <3> QED BY <1>2, <2>3, <3>1
  <2>4. \A b \in BOOLEAN : BodyBuffer(b)[1] \in {"null", "stack", "heap"} /\ BodyBuffer(b)[2] \in BOOLEAN
    BY DEF BodyBuffer
  <2> QED BY <1>5, <2>1, <2>2, <2>3, <2>4 DEF AnalyzeRequest
<1>6. CASE ReadBody(w)
  <2>1. ASSUME NEW n \in worker[w].got + 1..Sock(w).sent,
               Becomes(w, [worker[w] EXCEPT !.got = n])
        PROVE  Places'
    <3>1. worker[w] \in Threads /\ n \in Nat
      BY <1>3, WorkerType
    <3>2. LET r == [worker[w] EXCEPT !.got = n]
          IN  r \in Threads /\ r.at = worker[w].at /\ r.sock = worker[w].sock
      BY <3>1 DEF Threads
    <3> QED BY <1>1, <1>2, <2>1, <3>2
  <2>2. ASSUME NEW n \in worker[w].got + 1..Sock(w).sent,
               Becomes(w, [worker[w] EXCEPT !.got = n, !.at = "close"])
        PROVE  Places'
    <3>1. n \in Nat /\ "close" \in BusyAt
      BY <1>3 DEF BusyAt
    <3> DEFINE r == [worker[w] EXCEPT !.got = n, !.at = "close"]
    <3>2. r \in Threads /\ r.at = "close" /\ r.sock = worker[w].sock
      BY <3>1, WorkerType DEF Threads
    <3> QED BY <1>2, <2>2, <3>1, <3>2
  <2>3. ASSUME Becomes(w, [worker[w] EXCEPT !.at = "close"])
        PROVE  Places'
    <3> DEFINE r == [worker[w] EXCEPT !.at = "close"]
    <3>1. "close" \in BusyAt
      BY DEF BusyAt
    <3>2. r \in Threads /\ r.at = "close" /\ r.sock = worker[w].sock
      BY <3>1, WorkerAt
    <3> QED BY <1>2, <2>3, <3>1, <3>2
  <2> QED BY <1>6, <2>1, <2>2, <2>3 DEF ReadBody
<1> QED BY <1>4, <1>5, <1>6

-----------------------------------------------------------------------------
(* The steps that move a connection *)

LEMMA ConnectPlaces == ASSUME PInv, NEW c \in Clients, Connect(c) PROVE Places'
<1>1. /\ UNCHANGED <<ring, master, worker, setup>>
      /\ backlog' = Append(backlog, c) /\ client' = [client EXCEPT ![c].at = "open"]
      /\ client[c].at = "new"
  BY DEF Connect, pool
<1>2. client' \in [Clients -> Peers] /\ Connected(c)'
      /\ \A d \in Clients \ {c} : Connected(d)' <=> Connected(d)
  BY <1>1, PFacts DEF Peers, Connected
<1>3. ~InBacklog(c) /\ ~WithMaster(c) /\ ~InRing(c) /\ ~AtWorker(c)
  BY <1>1, PFacts DEF OnePlace, Connected
<1>4. /\ backlog' \in Seq(Clients) /\ DOMAIN backlog' = 1..(Len(backlog) + 1)
      /\ DOMAIN backlog = 1..Len(backlog) /\ Len(backlog) \in Nat
      /\ backlog'[Len(backlog) + 1] = c /\ \A i \in DOMAIN backlog : backlog'[i] = backlog[i]
  BY <1>1, PFacts
<1>5. InBacklog(c)' /\ \A d \in Clients \ {c} : InBacklog(d)' <=> InBacklog(d)
  BY <1>4 DEF InBacklog
<1>6. \A i, j \in DOMAIN backlog' : backlog'[i] = backlog'[j] => i = j
  BY <1>3, <1>4, PFacts DEF Once, InBacklog
<1>7. \A d : /\ WithMaster(d)' <=> WithMaster(d)
             /\ InRing(d)' <=> InRing(d)
             /\ AtWorker(d)' <=> AtWorker(d)
  BY <1>1, RingKept, BusyKept DEF WithMaster
<1>8. PTypes'
  BY <1>1, <1>2, <1>4, PFacts DEF PTypes, ring
<1>9. Held'
  BY <1>1, RingKept, BusyKept, PFacts DEF Held
<1>10. Once'
  BY <1>1, <1>6, RingKept, BusyKept DEF Once
<1>11. ASSUME NEW d \in Clients
       PROVE  OnePlace(d)'
  <2>1. OnePlace(d)
    BY PFacts
  <2> QED BY <1>2, <1>3, <1>5, <1>7, <2>1 DEF OnePlace
<1> QED BY <1>8, <1>9, <1>10, <1>11 DEF Places

LEMMA AcceptPlaces == PInv /\ Accept => Places'
<1> SUFFICES ASSUME PInv, Accept
             PROVE  Places'
  OBVIOUS
<1>0. PICK c \in Clients : c = Head(backlog)
  BY PFacts DEF Accept
<1>1. /\ UNCHANGED <<ring, client, worker, setup>> /\ backlog # <<>>
      /\ backlog' = Tail(backlog) /\ master' = [at |-> "put", sock |-> c]
      /\ master.at = "select"
  BY <1>0 DEF Accept, io
<1>2. /\ backlog' \in Seq(Clients) /\ c \in Clients /\ c = backlog[1]
      /\ Len(backlog) \in Nat \ {0} /\ DOMAIN backlog = 1..Len(backlog)
      /\ DOMAIN backlog' = 1..(Len(backlog) - 1)
      /\ \A i \in DOMAIN backlog' : i + 1 \in DOMAIN backlog /\ backlog'[i] = backlog[i + 1]
  BY <1>0, <1>1, PFacts
<1>3. \A i, j \in DOMAIN backlog : backlog[i] = backlog[j] => i = j
  BY PFacts DEF Once
<1>4. /\ \A i, j \in DOMAIN backlog' : backlog'[i] = backlog'[j] => i = j
      /\ \A i \in DOMAIN backlog' : backlog'[i] # c
  <2>1. \A i \in DOMAIN backlog' : i \in Nat \ {0} /\ 1 \in DOMAIN backlog
    BY <1>2
  <2>2. ASSUME NEW i \in DOMAIN backlog', NEW j \in DOMAIN backlog', backlog'[i] = backlog'[j]
        PROVE  i = j
    <3>1. i + 1 = j + 1
      BY <1>2, <1>3, <2>2
    <3> QED BY <2>1, <3>1
  <2>3. ASSUME NEW i \in DOMAIN backlog', backlog'[i] = c
        PROVE  FALSE
    <3>1. i + 1 = 1
      BY <1>2, <1>3, <2>1, <2>3
    <3> QED BY <2>1, <3>1
  <2> QED BY <2>2, <2>3
<1>5. InBacklog(c) /\ ~InBacklog(c)' /\ \A d \in Clients \ {c} : InBacklog(d)' <=> InBacklog(d)
  <2>1. InBacklog(c) /\ ~InBacklog(c)'
    BY <1>2, <1>4 DEF InBacklog
  <2>2. ASSUME NEW d \in Clients \ {c}, NEW i \in DOMAIN backlog, backlog[i] = d
        PROVE  \E j \in DOMAIN backlog' : backlog'[j] = d
    <3>1. i # 1 /\ i - 1 \in DOMAIN backlog' /\ (i - 1) + 1 = i
      BY <1>2, <2>2
    <3> QED BY <1>2, <2>2, <3>1
  <2>3. \A d : InBacklog(d)' => InBacklog(d)
    BY <1>2 DEF InBacklog
  <2> QED BY <2>1, <2>2, <2>3 DEF InBacklog
<1>6. WithMaster(c)' /\ \A d \in Clients \ {c} : ~WithMaster(d) /\ ~WithMaster(d)'
  BY <1>1, PFacts DEF WithMaster, Held
<1>7. \A d : /\ InRing(d)' <=> InRing(d)
             /\ AtWorker(d)' <=> AtWorker(d)
             /\ Connected(d)' <=> Connected(d)
  BY <1>1, RingKept, BusyKept DEF Connected
<1>8. PTypes'
  BY <1>1, <1>2, PFacts DEF PTypes, ring
<1>9. Held'
  <2>1. master'.at = "put" /\ master'.sock = c /\ setup' # "none"
    BY <1>1, PFacts DEF Held
  <2> QED BY <1>1, <1>2, <2>1, RingKept, BusyKept DEF Held
<1>10. Once'
  BY <1>1, <1>4, RingKept, BusyKept DEF Once
<1>11. ASSUME NEW d \in Clients
       PROVE  OnePlace(d)'
  <2>1. OnePlace(d)
    BY PFacts
  <2> QED BY <1>2, <1>5, <1>6, <1>7, <2>1 DEF OnePlace
<1> QED BY <1>8, <1>9, <1>10, <1>11 DEF Places

LEMMA MasterStopsPlaces == PInv /\ MasterStops => Places'
<1> SUFFICES ASSUME PInv, MasterStops
             PROVE  Places'
  OBVIOUS
<1>1. /\ UNCHANGED <<ring, worker, setup>> /\ backlog' = <<>>
      /\ master' = [master EXCEPT !.at = "fini"] /\ master.at = "select"
      /\ client' = [c \in Clients |-> IF c \in Range(backlog) THEN [client[c] EXCEPT !.at = "closed"]
                                      ELSE client[c]]
  BY DEF MasterStops
<1>2. \A c \in Clients : c \in Range(backlog) <=> InBacklog(c)
  BY DEF Range, InBacklog
<1>3. client' \in [Clients -> Peers]
      /\ \A c \in Clients : Connected(c)' <=> Connected(c) /\ ~InBacklog(c)
  BY <1>1, <1>2, PFacts DEF Peers, Connected
<1>4. /\ master' \in [at: {"none", "select", "put", "waiting", "fini", "done"}, sock: Clients \cup {None}]
      /\ master'.at = "fini" /\ master'.sock = master.sock
  BY <1>1, PFacts
<1>5. \A d : /\ InRing(d)' <=> InRing(d)
             /\ AtWorker(d)' <=> AtWorker(d)
             /\ WithMaster(d)' <=> WithMaster(d)
             /\ ~InBacklog(d)'
  BY <1>1, <1>4, RingKept, BusyKept DEF InBacklog, WithMaster
<1>6. PTypes'
  BY <1>1, <1>3, <1>4, PFacts DEF PTypes, ring
<1>7. Held'
  BY <1>1, <1>4, RingKept, BusyKept, PFacts DEF Held
<1>8. Once'
  BY <1>1, RingKept, BusyKept DEF Once
<1>9. ASSUME NEW d \in Clients
      PROVE  OnePlace(d)'
  <2>1. OnePlace(d)
    BY PFacts
  <2> QED BY <1>3, <1>5, <2>1 DEF OnePlace
<1> QED BY <1>6, <1>7, <1>8, <1>9 DEF Places

LEMMA PutWorkers ==
  ASSUME PInv, Put
  PROVE  /\ worker' \in [Workers -> Threads]
         /\ \A w \in Workers : /\ worker'[w].at \in BusyAt <=> worker[w].at \in BusyAt
                               /\ worker[w].at \in BusyAt => worker'[w] = worker[w]
<1>1. PICK new \in {Fresh, None}, woken \in Signalled :
         /\ new = None \/ (new = Fresh /\ StartsThread)
         /\ worker' = [w \in Workers |->
               CASE w = new   -> [NoThread EXCEPT !.at = "look"]
                 [] w = woken -> [worker[w] EXCEPT !.at = "woken"]
                 [] OTHER     -> worker[w]]
  BY DEF Put
<1>2. None \notin Workers
  BY HttpServerAssumption
<1>3. new = None \/ (new \in Workers /\ worker[new].at = "none")
  BY <1>1, FreshIsNot, PFacts DEF Alive
<1>4. woken = None \/ (woken \in Workers /\ worker[woken].at = "waiting")
  BY DEF Signalled, At
<1>5. ASSUME NEW w \in Workers
      PROVE  /\ worker'[w] \in Threads
             /\ worker'[w].at \in BusyAt <=> worker[w].at \in BusyAt
             /\ worker[w].at \in BusyAt => worker'[w] = worker[w]
  <2>1. CASE w = new
    <3>1. worker'[w] = [NoThread EXCEPT !.at = "look"] /\ worker[w].at = "none"
      BY <1>1, <1>2, <1>3, <1>4, <2>1
    <3>2. NoThread \in Threads
      BY DEF NoThread, Threads
    <3>3. worker'[w] \in Threads /\ worker'[w].at = "look"
      BY <3>1, <3>2 DEF Threads
    <3> QED BY <3>1, <3>3 DEF BusyAt
  <2>2. CASE w = woken /\ w # new
    <3>1. worker'[w] = [worker[w] EXCEPT !.at = "woken"] /\ worker[w].at = "waiting"
      BY <1>1, <1>2, <1>4, <2>2
    <3>2. worker'[w] \in Threads /\ worker'[w].at = "woken"
      BY <3>1, WorkerAt
    <3> QED BY <3>1, <3>2 DEF BusyAt
  <2>3. CASE w # new /\ w # woken
    BY <1>1, <2>3, WorkerType
  <2> QED BY <2>1, <2>2, <2>3
<1> QED BY <1>1, <1>5

LEMMA PutPlaces == PInv /\ Put => Places'
<1> SUFFICES ASSUME PInv, Put
             PROVE  Places'
  OBVIOUS
<1>0. PICK c \in Clients : c = master.sock
  BY PFacts DEF Put, Held
<1>1. /\ UNCHANGED <<backlog, client, setup, sq_tail>> /\ sq_head' = sq_head + 1
      /\ queue' = [queue EXCEPT ![sq_head % QueueSize] = c]
      /\ master' = [at |-> "select", sock |-> None]
      /\ sq_head - sq_tail < QueueSize /\ master.at = "put"
  BY <1>0 DEF Put, net, io
<1>2. /\ sq_head % QueueSize \in 0..QueueSize - 1 /\ \A i \in Ring : i % QueueSize \in 0..QueueSize - 1
      /\ \A i \in Ring : i % QueueSize # sq_head % QueueSize
  BY <1>1, RingIndex
<1>3. /\ queue' \in [0..QueueSize - 1 -> Clients \cup {None}]
      /\ queue'[sq_head % QueueSize] = c
      /\ \A i \in Ring : queue'[i % QueueSize] = queue[i % QueueSize]
  BY <1>1, <1>2, PFacts
<1>4. Ring' = Ring \cup {sq_head} /\ sq_head \notin Ring
  BY <1>1, PFacts DEF Ring
<1>5. ~InBacklog(c) /\ ~InRing(c) /\ ~AtWorker(c) /\ Connected(c)
  BY <1>0, PFacts DEF OnePlace, WithMaster
<1>6. /\ InRing(c)' /\ \A d \in Clients \ {c} : InRing(d)' <=> InRing(d)
      /\ \A i \in Ring' : queue'[i % QueueSize] \in Clients
      /\ \A i, j \in Ring' : queue'[i % QueueSize] = queue'[j % QueueSize] => i = j
  <2>1. InRing(c)' /\ \A d \in Clients \ {c} : InRing(d)' <=> InRing(d)
    BY <1>3, <1>4 DEF InRing
  <2>2. \A i \in Ring' : queue'[i % QueueSize] \in Clients
    BY <1>3, <1>4, PFacts DEF Held
  <2>3. \A i \in Ring : queue[i % QueueSize] # c
    BY <1>5 DEF InRing
  <2>4. \A i, j \in Ring : queue[i % QueueSize] = queue[j % QueueSize] => i = j
    BY PFacts DEF Once
  <2>5. \A i, j \in Ring' : queue'[i % QueueSize] = queue'[j % QueueSize] => i = j
    BY <1>3, <1>4, <2>3, <2>4
  <2> QED BY <2>1, <2>2, <2>5
<1>7. ~WithMaster(c)' /\ \A d \in Clients \ {c} : ~WithMaster(d) /\ ~WithMaster(d)'
  BY <1>0, <1>1, PFacts DEF WithMaster
<1>13. /\ \A d : AtWorker(d)' <=> AtWorker(d)
       /\ \A w \in Busy' : worker'[w].sock \in Clients
       /\ \A v, w \in Busy' : worker'[v].sock = worker'[w].sock => v = w
  <2>1. \A w \in Workers : /\ worker'[w].at \in BusyAt <=> worker[w].at \in BusyAt
                           /\ worker[w].at \in BusyAt => worker'[w].sock = worker[w].sock
    BY PutWorkers, Zenon
  <2> QED BY <2>1, BusyKept
<1>14. /\ \A d : InBacklog(d)' <=> InBacklog(d)
       /\ \A i, j \in DOMAIN backlog' : backlog'[i] = backlog'[j] => i = j
  BY <1>1, BacklogKept
<1>8. \A d : /\ InBacklog(d)' <=> InBacklog(d)
             /\ AtWorker(d)' <=> AtWorker(d)
             /\ Connected(d)' <=> Connected(d)
  BY <1>1, <1>13, <1>14 DEF Connected
<1>9. PTypes'
  BY <1>1, <1>3, PutWorkers, PFacts DEF PTypes
<1>10. Held'
  <2>1. setup' # "none"
    BY <1>1, PFacts DEF Held
  <2>2. master'.at = "select" /\ master'.sock \notin Clients
    BY <1>1, PFacts
  <2> QED BY <1>6, <1>13, <2>1, <2>2 DEF Held
<1>11. Once'
  BY <1>6, <1>13, <1>14 DEF Once
<1>12. ASSUME NEW d \in Clients
       PROVE  OnePlace(d)'
  <2>1. OnePlace(d)
    BY PFacts
  <2> QED BY <1>5, <1>6, <1>7, <1>8, <2>1 DEF OnePlace
<1> QED BY <1>9, <1>10, <1>11, <1>12 DEF Places

LEMMA TakesRing ==
  ASSUME PInv, NEW w \in Workers, Takes(w)
  PROVE  \E d \in {0, QueueSize} : /\ \A i : i \in Ring' <=> i + d \in Ring /\ i + d # sq_tail /\ i \in Int
                                   /\ \A i \in Ring' : i % QueueSize = (i + d) % QueueSize
                                   /\ \A i \in Ring \ {sq_tail} : i - d \in Ring'
<1>1. /\ sq_head' = Wrapped(sq_head, sq_tail + 1)[1] /\ sq_tail' = Wrapped(sq_head, sq_tail + 1)[2]
      /\ sq_head # sq_tail
  BY DEF Takes
<1>2. sq_head \in Int /\ sq_tail \in 0..QueueSize /\ sq_head - sq_tail \in 0..QueueSize /\ QueueSize \in Nat \ {0}
  BY PFacts
<1>3. CASE sq_tail + 1 > QueueSize
  <2>1. sq_head' = sq_head - QueueSize /\ sq_tail' = sq_tail + 1 - QueueSize /\ sq_tail = QueueSize
    BY <1>1, <1>2, <1>3 DEF Wrapped
  <2>2. \A i : i \in Ring' <=> i + QueueSize \in Ring /\ i + QueueSize # sq_tail /\ i \in Int
    BY <1>2, <2>1 DEF Ring
  <2>3. ASSUME NEW i \in Ring'
        PROVE  i % QueueSize = (i + QueueSize) % QueueSize
    <3>1. i \in Int /\ i >= 1 /\ i < QueueSize
      BY <1>2, <2>1 DEF Ring
    <3>2. i \in 0..(2 * QueueSize - 1) /\ i + QueueSize \in 0..(2 * QueueSize - 1)
      BY <1>2, <3>1
    <3>3. i % QueueSize = i /\ (i + QueueSize) % QueueSize = (i + QueueSize) - QueueSize
      BY <1>2, <3>1, <3>2, Slot
    <3> QED BY <1>2, <3>1, <3>3
  <2>4. \A i \in Ring \ {sq_tail} : i - QueueSize \in Ring'
    BY <1>2, <2>1 DEF Ring
  <2> QED BY <2>2, <2>3, <2>4
<1>4. CASE ~(sq_tail + 1 > QueueSize)
  <2>1. sq_head' = sq_head /\ sq_tail' = sq_tail + 1
    BY <1>1, <1>4 DEF Wrapped
  <2>2. \A i : i \in Ring' <=> i + 0 \in Ring /\ i + 0 # sq_tail /\ i \in Int
    BY <1>2, <2>1 DEF Ring
  <2>3. \A i \in Ring' : i + 0 = i
    BY <2>1 DEF Ring
  <2>4. \A i \in Ring \ {sq_tail} : i - 0 \in Ring'
    BY <1>2, <2>1 DEF Ring
  <2> QED BY <2>2, <2>3, <2>4
<1> QED BY <1>3, <1>4

LEMMA TakesPlaces == ASSUME PInv, NEW w \in Workers, Takes(w) PROVE Places'
<1>1. /\ UNCHANGED <<backlog, client, setup, queue>> /\ master' = Told(master)
      /\ worker[w].at \in {"look", "woken"} /\ sq_head # sq_tail
      /\ Becomes(w, [NoThread EXCEPT !.at = "read", !.sock = queue[sq_tail % QueueSize], !.ctx = TRUE])
  BY DEF Takes, net, io
<1>2. sq_tail \in Ring
  BY <1>1, PFacts DEF Ring
<1>3. PICK c \in Clients : c = queue[sq_tail % QueueSize]
  BY <1>2, PFacts DEF Held
<1>4. PICK r \in Threads : Becomes(w, r) /\ r.at = "read" /\ r.sock = c
  <2>1. NoThread \in Threads
    BY DEF NoThread, Threads
  <2>2. LET r == [NoThread EXCEPT !.at = "read", !.sock = c, !.ctx = TRUE]
        IN  r \in Threads /\ r.at = "read" /\ r.sock = c
    BY <2>1 DEF Threads, BusyAt
  <2> QED BY <1>1, <1>3, <2>2
<1>5. /\ worker' \in [Workers -> Threads] /\ worker'[w] = r
      /\ \A v \in Workers \ {w} : worker'[v] = worker[v]
      /\ Busy' = Busy \cup {w} /\ w \notin Busy
  <2>1. worker' = [worker EXCEPT ![w] = r]
    BY <1>4 DEF Becomes
  <2>2. worker' \in [Workers -> Threads] /\ worker'[w] = r
        /\ \A v \in Workers \ {w} : worker'[v] = worker[v]
    BY <2>1, PFacts
  <2> QED BY <1>1, <1>4, <2>2 DEF Busy, At
<1>6. PICK d \in {0, QueueSize} :
         /\ \A i : i \in Ring' <=> i + d \in Ring /\ i + d # sq_tail /\ i \in Int
         /\ \A i \in Ring' : i % QueueSize = (i + d) % QueueSize
         /\ \A i \in Ring \ {sq_tail} : i - d \in Ring'
  BY TakesRing
<1>7. /\ \A i, j \in Ring : queue[i % QueueSize] = queue[j % QueueSize] => i = j
      /\ \A i \in Ring : queue[i % QueueSize] \in Clients
      /\ QueueSize \in Nat /\ sq_tail \in Int /\ Ring \subseteq Int
  BY PFacts DEF Once, Held, Ring
<1>8. /\ \A i \in Ring' : /\ i \in Int /\ i + d \in Ring /\ i + d # sq_tail
                          /\ queue'[i % QueueSize] = queue[(i + d) % QueueSize]
  BY <1>1, <1>6
<1>9. InRing(c) /\ ~InRing(c)'
  BY <1>2, <1>3, <1>7, <1>8 DEF InRing
<1>10. \A e \in Clients \ {c} : InRing(e)' <=> InRing(e)
  <2>1. ASSUME NEW e \in Clients \ {c}, NEW i \in Ring, queue[i % QueueSize] = e
        PROVE  InRing(e)'
    <3>1. i # sq_tail /\ i - d \in Ring' /\ (i - d) + d = i
      BY <1>3, <1>6, <1>7, <2>1
    <3> QED BY <1>8, <2>1, <3>1 DEF InRing
  <2>2. \A e : InRing(e)' => InRing(e)
    BY <1>8 DEF InRing
  <2> QED BY <2>1, <2>2 DEF InRing
<1>11. /\ \A i, j \in Ring' : queue'[i % QueueSize] = queue'[j % QueueSize] => i = j
       /\ \A i \in Ring' : queue'[i % QueueSize] \in Clients
  <2>1. ASSUME NEW i \in Ring', NEW j \in Ring', queue'[i % QueueSize] = queue'[j % QueueSize]
        PROVE  i = j
    <3>1. i + d = j + d
      BY <1>7, <1>8, <2>1
    <3> QED BY <1>7, <1>8, <3>1
  <2> QED BY <1>7, <1>8, <2>1
<1>12. ~InBacklog(c) /\ ~WithMaster(c) /\ ~AtWorker(c) /\ Connected(c)
  BY <1>9, PFacts DEF OnePlace
<1>13. /\ AtWorker(c)' /\ \A e \in Clients \ {c} : AtWorker(e)' <=> AtWorker(e)
       /\ \A v \in Busy' : worker'[v].sock \in Clients
       /\ \A u, v \in Busy' : worker'[u].sock = worker'[v].sock => u = v
  <2>1. Busy \subseteq Workers
    BY DEF Busy, At
  <2>2. \A v \in Busy : worker'[v].sock = worker[v].sock
    BY <1>5, <2>1
  <2>3. \A v \in Busy : worker[v].sock # c /\ worker[v].sock \in Clients
    BY <1>12, PFacts DEF AtWorker, Held
  <2>4. \A u, v \in Busy : worker[u].sock = worker[v].sock => u = v
    BY PFacts DEF Once
  <2>5. worker'[w].sock = c
    BY <1>4, <1>5
  <2> QED BY <1>5, <2>2, <2>3, <2>4, <2>5 DEF AtWorker
<1>14. /\ master' \in [at: {"none", "select", "put", "waiting", "fini", "done"}, sock: Clients \cup {None}]
       /\ master'.sock = master.sock
       /\ master'.at \in {"put", "waiting"} <=> master.at \in {"put", "waiting"}
       /\ master.at = "none" => master'.at = "none"
  BY <1>1, PFacts DEF Told
<1>15. \A e : /\ InBacklog(e)' <=> InBacklog(e)
              /\ WithMaster(e)' <=> WithMaster(e)
              /\ Connected(e)' <=> Connected(e)
  BY <1>1, <1>14 DEF InBacklog, WithMaster, Connected
<1>16. PTypes'
  BY <1>1, <1>5, <1>14, PFacts DEF PTypes
<1>17. Held'
  BY <1>1, <1>11, <1>13, <1>14, PFacts DEF Held
<1>18. Once'
  <2>1. \A i, j \in DOMAIN backlog' : backlog'[i] = backlog'[j] => i = j
    BY <1>1, BacklogKept
  <2> QED BY <1>11, <1>13, <2>1 DEF Once
<1>19. ASSUME NEW e \in Clients
       PROVE  OnePlace(e)'
  <2>1. OnePlace(e)
    BY PFacts
  <2> QED BY <1>9, <1>10, <1>12, <1>13, <1>15, <2>1 DEF OnePlace
<1> QED BY <1>16, <1>17, <1>18, <1>19 DEF Places

LEMMA ClosePlaces == ASSUME PInv, NEW w \in Workers, CloseConnection(w) PROVE Places'
<1>1. w \in Busy
  BY DEF CloseConnection, Busy, At
<1>2. PICK c \in Clients : c = worker[w].sock
  BY <1>1, PFacts DEF Held
<1>3. /\ UNCHANGED <<backlog, ring, master, setup>>
      /\ client' = [client EXCEPT ![c].at = "closed"]
      /\ Becomes(w, [worker[w] EXCEPT !.at = "look", !.sock = None, !.got = 0, !.cb = FALSE, !.post = "null"])
  BY <1>2 DEF CloseConnection, net, pool
<1>4. PICK r \in Threads : Becomes(w, r) /\ r.at = "look"
  <2>1. worker[w] \in Threads
    BY WorkerType
  <2>2. LET r == [worker[w] EXCEPT !.at = "look", !.sock = None, !.got = 0, !.cb = FALSE, !.post = "null"]
        IN  r \in Threads /\ r.at = "look"
    BY <2>1 DEF Threads
  <2> QED BY <1>3, <2>2
<1>5. /\ worker' \in [Workers -> Threads]
      /\ \A v \in Workers \ {w} : worker'[v] = worker[v]
      /\ Busy' = Busy \ {w}
  <2>1. worker' = [worker EXCEPT ![w] = r]
    BY <1>4 DEF Becomes
  <2>2. worker' \in [Workers -> Threads] /\ worker'[w] = r
        /\ \A v \in Workers \ {w} : worker'[v] = worker[v]
    BY <2>1, PFacts
  <2> QED BY <1>4, <2>2 DEF Busy, At
<1>6. /\ client' \in [Clients -> Peers] /\ ~Connected(c)'
      /\ \A d \in Clients \ {c} : Connected(d)' <=> Connected(d)
  BY <1>3, PFacts DEF Peers, Connected
<1>7. AtWorker(c)
  BY <1>1, <1>2 DEF AtWorker
<1>8. ~InBacklog(c) /\ ~WithMaster(c) /\ ~InRing(c)
  BY <1>7, PFacts DEF OnePlace
<1>9. /\ ~AtWorker(c)' /\ \A d \in Clients \ {c} : AtWorker(d)' <=> AtWorker(d)
      /\ \A v \in Busy' : worker'[v].sock \in Clients
      /\ \A u, v \in Busy' : worker'[u].sock = worker'[v].sock => u = v
  <2>1. Busy \subseteq Workers
    BY DEF Busy, At
  <2>2. \A v \in Busy' : v \in Busy /\ v # w /\ worker'[v].sock = worker[v].sock
    BY <1>5, <2>1
  <2>3. \A v \in Busy : worker[v].sock \in Clients
    BY PFacts DEF Held
  <2>4. \A u, v \in Busy : worker[u].sock = worker[v].sock => u = v
    BY PFacts DEF Once
  <2> QED BY <1>1, <1>2, <1>5, <2>2, <2>3, <2>4 DEF AtWorker
<1>10. PTypes'
  BY <1>3, <1>5, <1>6, PFacts DEF PTypes, ring
<1>11. Held'
  BY <1>3, <1>9, RingKept, PFacts DEF Held
<1>12. Once'
  BY <1>3, <1>9, RingKept, BacklogKept DEF Once
<1>13. \A d : /\ InBacklog(d)' <=> InBacklog(d)
              /\ WithMaster(d)' <=> WithMaster(d)
              /\ InRing(d)' <=> InRing(d)
  BY <1>3, RingKept, BacklogKept DEF WithMaster
<1>14. ASSUME NEW d \in Clients
       PROVE  OnePlace(d)'
  <2>1. OnePlace(d)
    BY PFacts
  <2> QED BY <1>6, <1>8, <1>9, <1>13, <2>1 DEF OnePlace
<1> QED BY <1>10, <1>11, <1>12, <1>14 DEF Places

LEMMA NextPlaces == PInv /\ [Next]_vars => PInv'
<1> SUFFICES ASSUME PInv, [Next]_vars
             PROVE  PInv'
  OBVIOUS
<1>1. HInv'
  BY NextHInv, PFacts
<1>2. CASE Httpd \/ MgStop \/ UNCHANGED vars
  BY <1>1, <1>2, HttpdPlaces DEF PInv
<1>3. CASE Master
  BY <1>1, <1>3, HttpdPlaces, AcceptPlaces, PutPlaces, MasterStopsPlaces DEF Master, PInv
<1>4. CASE \E w \in Workers : Work(w) \/ TimesOut(w)
  BY <1>1, <1>4, IdlePlaces, TakesPlaces, RequestPlaces, ClosePlaces DEF Work, PInv
<1>5. CASE \E c \in Clients : Connect(c) \/ SendPiece(c) \/ Leave(c)
  BY <1>1, <1>5, ConnectPlaces, ClientsPlaces DEF PInv
<1> QED BY <1>2, <1>3, <1>4, <1>5 DEF Next, Runs

(* The sets that OnePlaceEach counts have one element, or none. *)
LEMMA AtMostOne ==
  ASSUME NEW S, \A x, y \in S : x = y
  PROVE  Cardinality(S) = IF S = {} THEN 0 ELSE 1
<1>1. CASE S = {}
  BY <1>1, FS_EmptySet
<1>2. CASE S # {}
  <2>1. PICK x : S = {x}
    BY <1>2
  <2> QED BY <1>2, <2>1, FS_Singleton
<1> QED BY <1>1, <1>2

LEMMA CountsOfPlaces == PInv => OnePlaceEach
<1> SUFFICES ASSUME PInv, NEW c \in Clients
             PROVE  Cardinality({i \in sq_tail..sq_head - 1 : queue[i % QueueSize] = c})
                     + Cardinality({w \in Busy : worker[w].sock = c})
                     + (IF master.sock = c THEN 1 ELSE 0)
                     + Cardinality({i \in DOMAIN backlog : backlog[i] = c})
                    = (IF client[c].at \in {"open", "left"} THEN 1 ELSE 0)
  BY DEF OnePlaceEach
<1> DEFINE R == {i \in sq_tail..sq_head - 1 : queue[i % QueueSize] = c}
           W == {w \in Busy : worker[w].sock = c}
           B == {i \in DOMAIN backlog : backlog[i] = c}
<1>1. Cardinality(R) = IF InRing(c) THEN 1 ELSE 0
  <2>1. \A x, y \in R : x = y
    BY PFacts DEF Once, Ring
  <2>2. R # {} <=> InRing(c)
    BY DEF InRing, Ring
  <2> HIDE DEF R
  <2> QED BY <2>1, <2>2, AtMostOne
<1>2. Cardinality(W) = IF AtWorker(c) THEN 1 ELSE 0
  <2>1. \A x, y \in W : x = y
    BY PFacts DEF Once
  <2>2. W # {} <=> AtWorker(c)
    BY DEF AtWorker
  <2> HIDE DEF W
  <2> QED BY <2>1, <2>2, AtMostOne
<1>3. Cardinality(B) = IF InBacklog(c) THEN 1 ELSE 0
  <2>1. \A x, y \in B : x = y
    BY PFacts DEF Once
  <2>2. B # {} <=> InBacklog(c)
    BY DEF InBacklog
  <2> HIDE DEF B
  <2> QED BY <2>1, <2>2, AtMostOne
<1>4. OnePlace(c)
  BY PFacts
<1> HIDE DEF R, W, B
<1>5. Cardinality(R) + Cardinality(W) + (IF master.sock = c THEN 1 ELSE 0) + Cardinality(B)
      = (IF client[c].at \in {"open", "left"} THEN 1 ELSE 0)
  BY <1>1, <1>2, <1>3, <1>4 DEF OnePlace, Connected, WithMaster
<1> QED BY <1>5 DEF R, W, B

(* No connection is served twice or lost: from accept() to its close it is    *)
(* with the master, in one slot of the ring or with one worker.              *)
THEOREM EachHasOnePlace == Spec => []OnePlaceEach
<1>1. Init => PInv
  BY InitHInv, InitPlaces DEF PInv
<1> QED BY <1>1, NextPlaces, CountsOfPlaces, PTL DEF Spec

-----------------------------------------------------------------------------
(* The request and its answers *)

(* Every set of numbers has a least one. *)
LEMMA Least ==
  ASSUME NEW T \in SUBSET Nat, T # {}
  PROVE  \E x \in T : \A y \in T : x <= y
<1> DEFINE R == {p \in Nat \X Nat : p[1] < p[2]}
<1>1. IsWellFoundedOn(OpToRel(<, Nat), Nat)
  BY NatLessThanWellFounded
<1>2. OpToRel(<, Nat) = R
  BY DEF OpToRel
<1>3. IsWellFoundedOn(R, Nat)
  BY <1>1, <1>2
<1>4. \E x \in T : \A y \in T : ~(<<y, x>> \in R)
  <2> HIDE DEF R
  <2> QED BY <1>3, WFMin
<1>5. ASSUME NEW x \in T, NEW y \in T, ~(<<y, x>> \in R)
      PROVE  x <= y
  <2>1. x \in Nat /\ y \in Nat /\ <<y, x>> \in Nat \X Nat
    OBVIOUS
  <2>2. ~(y < x)
    BY <1>5, <2>1
  <2> QED BY <2>1, <2>2
<1> HIDE DEF R
<1> QED BY <1>4, <1>5

PieceKinds == {"part", "head", "body", "bad"}
Ends(p) == {i \in DOMAIN p : p[i] \in {"head", "bad"}}

(* The first piece that ends the header, or spoils it, decides. *)
LEMMA LenOf ==
  ASSUME NEW p \in Seq(PieceKinds)
  PROVE  \/ Ends(p) = {} /\ get_request_len(p) = 0
         \/ \E i \in Ends(p) : /\ \A j \in Ends(p) : i <= j
                               /\ get_request_len(p) = IF p[i] = "bad" THEN -1 ELSE i
<1> DEFINE first == CHOOSE i \in Ends(p) : \A j \in Ends(p) : i <= j
<1>1. get_request_len(p) = IF Ends(p) = {} THEN 0 ELSE IF p[first] = "bad" THEN -1 ELSE first
  BY DEF get_request_len, Ends
<1>2. Ends(p) \in SUBSET Nat
  BY DEF Ends
<1>3. CASE Ends(p) = {}
  BY <1>1, <1>3
<1>4. CASE Ends(p) # {}
  <2>1. \E i \in Ends(p) : \A j \in Ends(p) : i <= j
    BY <1>2, <1>4, Least
  <2>2. first \in Ends(p) /\ \A j \in Ends(p) : first <= j
    BY <2>1
  <2> QED BY <1>1, <1>4, <2>2
<1> QED BY <1>3, <1>4

LEMMA LenOfPrefix ==
  ASSUME NEW p \in Seq(PieceKinds), NEW n \in 0..Len(p), get_request_len(SubSeq(p, 1, n)) > 0
  PROVE  /\ get_request_len(p) = get_request_len(SubSeq(p, 1, n))
         /\ get_request_len(p) \in 1..n
<1> DEFINE q == SubSeq(p, 1, n)
<1>1. q \in Seq(PieceKinds) /\ DOMAIN q = 1..n /\ DOMAIN p = 1..Len(p) /\ Len(p) \in Nat /\ n \in Nat
      /\ \A i \in 1..n : q[i] = p[i]
  OBVIOUS
<1>7. get_request_len(q) > 0
  OBVIOUS
<1> HIDE DEF q
<1>2. PICK i \in Ends(q) : /\ \A j \in Ends(q) : i <= j
                           /\ get_request_len(q) = IF q[i] = "bad" THEN -1 ELSE i
  BY <1>1, <1>7, LenOf
<1>3. get_request_len(q) = i /\ p[i] # "bad" /\ i \in 1..n
  BY <1>1, <1>2, <1>7 DEF Ends
<1>4. i \in Ends(p) /\ \A j \in Ends(p) : i <= j
  <2>1. i \in Ends(p)
    BY <1>1, <1>2 DEF Ends
  <2>2. ASSUME NEW j \in Ends(p)
        PROVE  i <= j
    <3>1. j \in 1..Len(p) /\ (j <= n => j \in Ends(q))
      BY <1>1 DEF Ends
    <3> QED BY <1>1, <1>2, <1>3, <3>1
  <2> QED BY <2>1, <2>2
<1>5. PICK k \in Ends(p) : /\ \A j \in Ends(p) : k <= j
                           /\ get_request_len(p) = IF p[k] = "bad" THEN -1 ELSE k
  BY <1>4, LenOf
<1>6. k = i
  <2>1. k <= i /\ i <= k /\ k \in Nat /\ i \in Nat
    BY <1>1, <1>4, <1>5 DEF Ends
  <2> QED BY <2>1
<1> QED BY <1>3, <1>5, <1>6 DEF q

LEMMA LenType == ASSUME NEW p \in Seq(PieceKinds) PROVE get_request_len(p) \in Int
<1>1. Ends(p) \subseteq Nat
  BY DEF Ends
<1> QED BY <1>1, LenOf

(* What an answer says of its length, and what its status says of the body, n *)
(* units of which have come.                                                 *)
Complete(r, n) == r.length # None /\ n >= r.length
Honest(r, cb, a, n) ==
    /\ a.declared # None /\ r.method # "HEAD" /\ RangeInside(r) => a.sent = a.declared
    /\ a.status = 577 => (cb /\ ReadsBody(r, cb, n)) \/ (~cb /\ ToScript(r))
    /\ a.status = 200 /\ r.method = "POST" /\ Site[r.path].script = "cgi" => Complete(r, n)

LEMMA ErrorIs ==
  ASSUME NEW s \in Nat
  PROVE  Error(s).status = s /\ Error(s).sent = Error(s).declared
  BY DEF Error, Text

LEMMA BareIs ==
  ASSUME NEW s \in Nat
  PROVE  Bare(s).status = s /\ Bare(s).declared = None
  BY DEF Bare

LEMMA BodyError ==
  ASSUME NEW r, NEW n \in Int, r.length \in Nat \cup {None}
  PROVE  \/ BodyErrors(r, n) = <<>> /\ Complete(r, n)
         \/ /\ BodyErrors(r, n) \in {<<Error(411)>>, <<Error(417)>>}
            /\ BodyErrors(r, n) # <<>>
         \/ /\ BodyErrors(r, n) = <<Error(577)>> /\ WantsBody(r, n)
            /\ BodyErrors(r, n) # <<>>
<1>1. None \notin Nat
  BY HttpRequestAssumption
<1>2. \A a : <<a>> # <<>>
  OBVIOUS
<1> QED BY <1>1, <1>2 DEF BodyErrors, Complete, WantsBody, Refused

(* A file whose range lies in it is sent whole. *)
LEMMA SendsRange ==
  ASSUME NEW r, IsRequest(r), NEW f, f.size \in Nat,
         r.method # "HEAD", f.readable,
         r.range = <<>> \/ /\ r.range[1] < f.size
                           /\ Len(r.range) = 2 => r.range[2] \in r.range[1]..f.size - 1
  PROVE  send_file(r, f).sent = send_file(r, f).declared
<1> DEFINE n == Len(r.range)
           from == IF n = 0 THEN 0 ELSE r.range[1]
           len == IF n = 0 THEN f.size
                  ELSE RangeLength(n, from, IF n = 2 THEN r.range[2] ELSE 0, f.size)
           left == IF from > f.size THEN 0 ELSE f.size - from
<1>1. /\ n \in Nat /\ n <= 2 /\ r.range \in Seq(Nat)
      /\ r.range = <<>> <=> n = 0
  BY DEF IsRequest
<1>2. \A w \in Nat \ {0}, x \in Nat : x % w \in 0..x
  <2> SUFFICES ASSUME NEW w \in Nat \ {0}, NEW x \in Nat
               PROVE  x % w \in 0..x
    OBVIOUS
  <2> DEFINE d == x \div w
             m == x % w
  <2>1. d \in Nat /\ m \in 0..(w - 1) /\ x = w * d + m
    OBVIOUS
  <2>2. w * d \in Nat
    BY <2>1
  <2> HIDE DEF d, m
  <2>3. m \in 0..x
    BY <2>1, <2>2
  <2> QED BY <2>3 DEF m
<1>3. len \in Nat /\ left \in Nat /\ len <= left
  <2>1. CASE n = 0
    BY <2>1
  <2>2. CASE n = 1
    <3>1. r.range[1] \in Nat /\ r.range[1] < f.size
      BY <1>1, <2>2
    <3>2. f.size - r.range[1] \in Nat /\ len = (f.size - r.range[1]) % Wrap /\ left = f.size - r.range[1]
      BY <2>2, <3>1 DEF RangeLength
    <3> HIDE DEF len, left
    <3> QED BY <1>2, <3>2, HttpRequestAssumption
  <2>3. CASE n = 2
    <3>1. r.range[1] \in Nat /\ r.range[2] \in Nat /\ r.range[2] \in r.range[1]..f.size - 1
      BY <1>1, <2>3
    <3> DEFINE k == r.range[2] - r.range[1] + 1
    <3>2. k \in Nat /\ len = k % Wrap /\ left = f.size - r.range[1] /\ k <= left /\ left \in Nat
      BY <2>3, <3>1 DEF RangeLength
    <3> HIDE DEF len, left, k
    <3> QED BY <1>2, <3>2, HttpRequestAssumption
  <2>4. n = 0 \/ n = 1 \/ n = 2
    <3> HIDE DEF n
    <3> QED BY <1>1
  <2> QED BY <2>1, <2>2, <2>3, <2>4
<1>4. send_file(r, f) = [status |-> IF n = 0 THEN 200 ELSE 206, declared |-> len, sent |-> Smaller(len, left)]
  BY DEF send_file
<1> HIDE DEF n, len, left
<1> QED BY <1>3, <1>4 DEF Smaller

LEMMA HandlerIs ==
  ASSUME NEW r, NEW cb, NEW n
  PROVE  Honest(r, cb, handleRequest(r), n)
<1> DEFINE a == handleRequest(r)
<1>1. a.sent = a.declared /\ a.status \in {200, 404, 503} /\ (a.status = 200 => r.method = "GET")
  BY DEF handleRequest, Text
<1> HIDE DEF a
<1>2. Honest(r, cb, a, n)
  BY <1>1 DEF Honest
<1> QED BY <1>2 DEF a

LEMMA PlainIs ==
  ASSUME NEW r, NEW cb, NEW n, NEW s \in Nat, s \notin {200, 577}
  PROVE  Honest(r, cb, Error(s), n) /\ Honest(r, cb, Bare(s), n)
<1>1. Error(s).status = s /\ Error(s).sent = Error(s).declared
  BY ErrorIs
<1>2. Bare(s).status = s /\ Bare(s).declared = None
  BY BareIs
<1> QED BY <1>1, <1>2 DEF Honest

(* The file a request is about. *)
LEMMA TargetIs ==
  ASSUME NEW r, r.path \in DOMAIN Site
  PROVE  /\ Target(r).size \in Nat
         /\ Site[r.path].script = "cgi" => Target(r) = Site[r.path] /\ ~Target(r).dir
<1> DEFINE f == Site[r.path]
<1>1. /\ f.size \in Nat /\ f.dir \in BOOLEAN /\ (f.dir => f.script = None) /\ None # "cgi"
      /\ f.index # None => Site[f.index].size \in Nat
  BY HttpRequestAssumption
<1>2. Target(r) = IF f.dir /\ r.slash /\ substitute_index_file(f) THEN Site[f.index] ELSE f
  BY DEF Target
<1> HIDE DEF f
<1>3. Target(r).size \in Nat
  BY <1>1, <1>2 DEF substitute_index_file
<1>4. f.script = "cgi" => ~f.dir /\ Target(r) = f
  BY <1>1, <1>2
<1> QED BY <1>3, <1>4 DEF f

LEMMA ScriptIs ==
  ASSUME NEW r, IsRequest(r), NEW n \in Int, NEW cb, ~cb,
         r.path \in DOMAIN Site, Target(r).script = "cgi", NEW a \in send_cgi(r, n)
  PROVE  Honest(r, cb, a, n)
<1>2. r.length \in Nat \cup {None}
  BY DEF IsRequest
<1>3. CASE a = Error(500)
  BY <1>3, PlainIs
<1>1. ASSUME r.method = "POST", a = Error(577)
      PROVE  Honest(r, cb, a, n)
  <2>1. a.status = 577 /\ a.sent = a.declared /\ ToScript(r)
    BY <1>1, ErrorIs DEF ToScript
  <2> QED BY <2>1 DEF Honest
<1>4. CASE r.method = "POST" /\ BodyErrors(r, n) # <<>> /\ a = BodyErrors(r, n)[1]
  <2>1. a \in {Error(411), Error(417)} \/ (a = Error(577) /\ WantsBody(r, n))
    BY <1>2, <1>4, BodyError
  <2>2. CASE a \in {Error(411), Error(417)}
    BY <2>2, PlainIs
  <2>3. CASE a = Error(577) /\ WantsBody(r, n)
    BY <1>1, <1>4, <2>3
  <2> QED BY <2>1, <2>2, <2>3
<1>5. CASE a = Bare(200) /\ ~(r.method = "POST" /\ BodyErrors(r, n) # <<>>)
  <2>1. a.status = 200 /\ a.declared = None
    BY <1>5, BareIs
  <2>2. r.method = "POST" => Complete(r, n)
    BY <1>2, <1>5, BodyError
  <2> QED BY <2>1, <2>2 DEF Honest
<1>6. a = Error(500) \/ (r.method = "POST" /\ BodyErrors(r, n) # <<>> /\ a = BodyErrors(r, n)[1])
      \/ (a = Bare(200) /\ ~(r.method = "POST" /\ BodyErrors(r, n) # <<>>))
      \/ (r.method = "POST" /\ a = Error(577))
  BY DEF send_cgi, PushErrors
<1> QED BY <1>1, <1>3, <1>4, <1>5, <1>6

LEMMA FileIs ==
  ASSUME NEW r, IsRequest(r), NEW n \in Int, NEW cb, ~cb, Analyzed(r), check_authorization(r),
         r.path \in DOMAIN Site, NEW a \in ServeFile(r, Target(r), n)
  PROVE  Honest(r, cb, a, n)
<1> DEFINE f == Target(r)
<1>1. f.size \in Nat /\ (Site[r.path].script = "cgi" => f.script = "cgi")
  BY TargetIs
<1>2. CASE f.script = "cgi"
  <2>1. CASE r.method \in {"POST", "GET"}
    <3>1. a \in send_cgi(r, n)
      BY <1>2, <2>1 DEF ServeFile
    <3> QED BY <1>2, <3>1, ScriptIs
  <2>2. CASE r.method \notin {"POST", "GET"}
    BY <1>2, <2>2, PlainIs DEF ServeFile
  <2> QED BY <2>1, <2>2
<1>3. CASE f.script # "cgi"
  <2>1. a = Error(304) \/ a = send_ssi(f) \/ a = send_file(r, f)
    BY <1>3 DEF ServeFile
  <2>2. CASE a = Error(304) \/ a = Error(500)
    BY <2>2, PlainIs
  <2>3. CASE a = Bare(200)
    <3>1. a.status = 200 /\ a.declared = None
      BY <2>3, BareIs
    <3> QED BY <1>1, <1>3, <3>1 DEF Honest
  <2>4. CASE a = send_file(r, f) /\ a # Error(500)
    <3>1. f.readable /\ a.status \in {200, 206}
      BY <2>4 DEF send_file
    <3>2. r.method # "HEAD" /\ RangeInside(r) => a.sent = a.declared
      <4> SUFFICES ASSUME r.method # "HEAD", RangeInside(r)
                   PROVE  a.sent = a.declared
        OBVIOUS
      <4>1. r.range = <<>> \/ /\ r.range[1] < f.size
                              /\ Len(r.range) = 2 => r.range[2] \in r.range[1]..f.size - 1
        BY DEF RangeInside
      <4> HIDE DEF f
      <4> QED BY <1>1, <2>4, <3>1, <4>1, SendsRange
    <3> QED BY <1>1, <1>3, <3>1, <3>2 DEF Honest
  <2>5. send_ssi(f) \in {Bare(200), Error(500)}
    BY DEF send_ssi
  <2> QED BY <2>1, <2>2, <2>3, <2>4, <2>5
<1> QED BY <1>2, <1>3

LEMMA PathIs ==
  ASSUME NEW r, IsRequest(r), NEW n \in Int, NEW cb, ~cb, Analyzed(r), check_authorization(r),
         NEW a \in ServePath(r, n)
  PROVE  Honest(r, cb, a, n)
<1> DEFINE f == Target(r)
<1>1. CASE a \in {Error(403), Error(404), Error(500), Bare(401), Bare(301)}
  BY <1>1, PlainIs
<1>2. CASE r.path \in DOMAIN Site /\ ~f.dir /\ a \in ServeFile(r, f, n)
  BY <1>2, FileIs
<1>3. CASE r.path \in DOMAIN Site /\ f.dir /\ a = Bare(200)
  <2>1. a.status = 200 /\ a.declared = None /\ Site[r.path].script # "cgi"
    BY <1>3, BareIs, TargetIs
  <2> QED BY <2>1 DEF Honest
<1>4. \/ a \in {Error(403), Error(404), Error(500), Bare(401), Bare(301)}
      \/ r.path \in DOMAIN Site /\ ~f.dir /\ a \in ServeFile(r, f, n)
      \/ r.path \in DOMAIN Site /\ f.dir /\ a = Bare(200)
  BY DEF ServePath, send_directory
<1> QED BY <1>1, <1>2, <1>3, <1>4

LEMMA OneHonestAnswer ==
  ASSUME NEW r, IsRequest(r), NEW n \in Int, NEW cb \in BOOLEAN, NEW s \in Answers(r, cb, n)
  PROVE  \E a : s = <<a>> /\ Honest(r, cb, a, n)
<1>1. CASE s \in {<<Error(400)>>, <<Error(505)>>, <<Bare(401)>>}
  BY <1>1, PlainIs
<1>2. CASE s = <<handleRequest(r)>>
  BY <1>2, HandlerIs
<1>3. CASE /\ cb /\ Analyzed(r) /\ check_authorization(r) /\ r.method \in {"POST", "PUT"}
           /\ s = BodyErrors(r, n) \o Continues(r, n)
  <2>1. r.length \in Nat \cup {None}
    BY DEF IsRequest
  <2>2. CASE BodyErrors(r, n) = <<>>
    <3>1. s = <<>> \o <<handleRequest(r)>>
      BY <1>3, <2>2 DEF Continues
    <3>2. \A x : <<>> \o <<x>> = <<x>>
      OBVIOUS
    <3> QED BY <3>1, <3>2, HandlerIs
  <2>3. CASE BodyErrors(r, n) # <<>>
    <3>1. \A x : <<x>> \o <<>> = <<x>>
      OBVIOUS
    <3>2. s = BodyErrors(r, n) \o <<>>
      BY <1>3, <2>3 DEF Continues
    <3>3. CASE BodyErrors(r, n) \in {<<Error(411)>>, <<Error(417)>>}
      BY <3>1, <3>2, <3>3, PlainIs
    <3>4. CASE BodyErrors(r, n) = <<Error(577)>> /\ WantsBody(r, n)
      <4>1. Error(577).status # 200 /\ Error(577).sent = Error(577).declared
        BY ErrorIs
      <4>2. cb /\ ReadsBody(r, cb, n)
        BY <1>3, <3>4 DEF ReadsBody, Served
      <4>3. Honest(r, cb, Error(577), n)
        BY Zenon, <4>1, <4>2 DEF Honest
      <4> QED BY <3>1, <3>2, <3>4, <4>3
    <3> QED BY <2>1, <2>3, <3>3, <3>4, BodyError
  <2> QED BY <2>2, <2>3
<1>4. CASE ~cb /\ Analyzed(r) /\ check_authorization(r) /\ \E a \in ServePath(r, n) : s = <<a>>
  BY <1>4, PathIs
<1>5. \/ s \in {<<Error(400)>>, <<Error(505)>>, <<Bare(401)>>}
      \/ s = <<handleRequest(r)>>
      \/ /\ cb /\ Analyzed(r) /\ check_authorization(r) /\ r.method \in {"POST", "PUT"}
         /\ s = BodyErrors(r, n) \o Continues(r, n)
      \/ ~cb /\ Analyzed(r) /\ check_authorization(r) /\ \E a \in ServePath(r, n) : s = <<a>>
  BY Zenon DEF Answers, Analyzed
<1> QED BY <1>1, <1>2, <1>3, <1>4, <1>5

-----------------------------------------------------------------------------
(* What each client is sent *)

Whole(c) ==
    LET r == client[c].req
    IN  r.length # None /\ client[c].sent >= get_request_len(r.pieces) + r.length

Sound(c, a) ==
    LET r == client[c].req IN
    /\ a.declared # None /\ r.method # "HEAD" /\ RangeInside(r) => a.sent = a.declared
    /\ a.status = 577 => ToScript(r) \/ (~Whole(c) /\ client[c].at # "open")
    /\ a.status = 200 /\ r.method = "POST" /\ Site[r.path].script = "cgi" => Whole(c)

(* Who has been answered has its connection closed, or a worker is about to. *)
Closing(c) == \E w \in Busy : worker[w].at = "close" /\ worker[w].sock = c
Answered(c) ==
    /\ client[c].sent <= Len(client[c].req.pieces)
    /\ answers[c] = <<>> \/ \E a : answers[c] = <<a>> /\ Sound(c, a)
    /\ answers[c] # <<>> => client[c].at = "closed" \/ Closing(c)

(* How much of its request a worker has read, at each point of its way. *)
Reads(w) ==
    LET len == get_request_len(Pieces(w, worker[w].got)) IN
    /\ worker[w].got <= Sock(w).sent
    /\ worker[w].at = "read" => len <= 0
    /\ worker[w].at \in {"analyze", "body"} => len > 0
    /\ worker[w].at = "close" /\ answers[worker[w].sock] = <<>> => len <= 0

AInv ==
    /\ PInv /\ DOMAIN answers = Clients
    /\ \A c \in Clients : Answered(c)
    /\ \A w \in Busy : Reads(w)

LEMMA ClientIs ==
  ASSUME AInv, NEW c \in Clients
  PROVE  /\ client[c] \in Peers /\ client[c].sent \in Nat /\ IsRequest(client[c].req)
         /\ client[c].req.pieces \in Seq(PieceKinds) /\ Answered(c) /\ OnePlace(c)
         /\ client[c].req.length \in Nat \cup {None}
         /\ client[c].sent <= Len(client[c].req.pieces)
         /\ get_request_len(client[c].req.pieces) \in Int
<1>1. client[c] \in Peers /\ OnePlace(c) /\ Answered(c)
  BY PFacts DEF AInv
<1>2. client[c].req \in Asked
  BY <1>1 DEF Peers
<1>3. IsRequest(client[c].req)
  BY <1>2, HttpServerAssumption DEF Asked
<1>4. client[c].req.pieces \in Seq(PieceKinds) /\ client[c].req.length \in Nat \cup {None}
  BY <1>3 DEF IsRequest, PieceKinds
<1>5. get_request_len(client[c].req.pieces) \in Int
  BY <1>4, LenType
<1> QED BY <1>1, <1>3, <1>4, <1>5 DEF Peers, Answered

LEMMA ReaderIs ==
  ASSUME AInv, NEW w \in Busy
  PROVE  /\ w \in Workers /\ worker[w] \in Threads /\ worker[w].sock \in Clients
         /\ Connected(worker[w].sock) /\ Reads(w)
         /\ worker[w].at # "close" => answers[worker[w].sock] = <<>>
<1>1. w \in Workers /\ worker[w] \in Threads /\ worker[w].sock \in Clients /\ PInv /\ Reads(w)
  BY PFacts DEF AInv, Held, Busy, At
<1> DEFINE c == worker[w].sock
<1>2. Connected(c) /\ client[c].at # "closed"
  BY <1>1, PFacts DEF OnePlace, AtWorker, Connected
<1>3. worker[w].at # "close" => ~Closing(c)
  BY <1>1, PFacts DEF Closing, Once
<1>4. Answered(c)
  BY <1>1 DEF AInv
<1> QED BY <1>1, <1>2, <1>3, <1>4 DEF Answered

LEMMA ReadsKept ==
  ASSUME AInv, NEW w \in Busy, worker'[w] = worker[w],
         client'[worker[w].sock].req = client[worker[w].sock].req,
         client'[worker[w].sock].sent \in Nat,
         client'[worker[w].sock].sent >= client[worker[w].sock].sent,
         answers'[worker[w].sock] = answers[worker[w].sock]
  PROVE  Reads(w)'
<1>1. worker[w].got \in Nat /\ worker[w].sock \in Clients /\ Reads(w)
  BY ReaderIs DEF Threads
<1>2. client[worker[w].sock].sent \in Nat
  BY <1>1, ClientIs
<1>3. Pieces(w, worker[w].got)' = Pieces(w, worker[w].got)
  BY DEF Pieces, Sock
<1> QED BY <1>1, <1>2, <1>3 DEF Reads, Sock

LEMMA AnsweredKept ==
  ASSUME AInv, NEW c \in Clients, answers'[c] = answers[c],
         client'[c].req = client[c].req, client'[c].sent \in Nat,
         client'[c].sent >= client[c].sent, client'[c].sent <= Len(client[c].req.pieces),
         client[c].at # "open" => client'[c].sent = client[c].sent,
         client'[c].at = "open" => client[c].at \in {"new", "open"},
         client[c].at = "closed" => client'[c].at = "closed",
         Closing(c) => Closing(c)' \/ client'[c].at = "closed"
  PROVE  Answered(c)'
<1>1. /\ client[c].sent \in Nat /\ Answered(c) /\ OnePlace(c)
      /\ client[c].req.length \in Nat \cup {None}
      /\ get_request_len(client[c].req.pieces) \in Int
  BY ClientIs
<1>2. Whole(c) => Whole(c)'
  BY <1>1 DEF Whole
<1>3. client[c].at # "open" => (Whole(c)' => Whole(c))
  BY <1>1 DEF Whole
<1>4. answers[c] # <<>> => client[c].at # "new"
  BY <1>1 DEF Answered, Closing, OnePlace, AtWorker, Connected
<1>5. ASSUME NEW a, answers[c] = <<a>>, Sound(c, a)
      PROVE  Sound(c, a)'
  <2>1. client[c].at # "new"
    BY <1>4, <1>5
  <2> QED BY <1>2, <1>3, <1>5, <2>1 DEF Sound
<1>6. answers'[c] = <<>> \/ \E a : answers'[c] = <<a>> /\ Sound(c, a)'
  BY <1>1, <1>5 DEF Answered
<1>7. answers'[c] # <<>> => client'[c].at = "closed" \/ Closing(c)'
  BY <1>1 DEF Answered
<1> QED BY <1>6, <1>7 DEF Answered

(* The steps of all but the workers that have a connection. *)
LEMMA OthersKeep ==
  ASSUME AInv, PInv', UNCHANGED answers, Busy' = Busy, \A w \in Busy : worker'[w] = worker[w],
         \A c \in Clients :
            /\ client'[c].req = client[c].req /\ client'[c].sent \in Nat
            /\ client'[c].sent >= client[c].sent
            /\ client'[c].sent <= Len(client[c].req.pieces)
            /\ client[c].at # "open" => client'[c].sent = client[c].sent
            /\ client'[c].at = "open" => client[c].at \in {"new", "open"}
            /\ client[c].at = "closed" => client'[c].at = "closed"
  PROVE  AInv'
<1>1. \A c \in Clients : Closing(c) => Closing(c)'
  BY DEF Closing
<1>2. \A c \in Clients : Answered(c)'
  BY <1>1, AnsweredKept
<1>3. \A w \in Busy' : Reads(w)'
  BY ReaderIs, ReadsKept
<1> QED BY <1>2, <1>3 DEF AInv

(* The steps of a worker that has, or gets, one. *)
LEMMA OneReader ==
  ASSUME AInv, PInv', NEW w \in Workers, NEW r \in Threads, Becomes(w, r), r.at \in BusyAt,
         w \in Busy => worker[w].sock = r.sock /\ worker[w].at # "close",
         UNCHANGED client, DOMAIN answers' = Clients,
         \A c \in Clients \ {r.sock} : answers'[c] = answers[c],
         Reads(w)', Answered(r.sock)'
  PROVE  AInv'
<1>1. /\ worker'[w] = r /\ \A v \in Workers \ {w} : worker'[v] = worker[v]
      /\ Busy' = Busy \cup {w}
  <2>1. PInv /\ "at" \in DOMAIN r
    BY DEF AInv, Threads
  <2> QED BY <2>1, OneIsBusy
<1>2. Busy \subseteq Workers /\ \A v, u \in Busy' : worker'[v].sock = worker'[u].sock => v = u
  BY PFacts DEF PInv, Places, Once, Busy, At
<1>3. ASSUME NEW c \in Clients \ {r.sock}
      PROVE  Answered(c)'
  <2>1. Closing(c) => Closing(c)'
    BY <1>1, <1>2 DEF Closing
  <2>2. client[c].sent \in Nat /\ client[c].sent <= Len(client[c].req.pieces)
    BY ClientIs
  <2> QED BY <2>1, <2>2, AnsweredKept
<1>4. ASSUME NEW v \in Busy' \ {w}
      PROVE  Reads(v)'
  <2>1. v \in Busy /\ worker'[v] = worker[v] /\ worker[v].sock # r.sock
    BY <1>1, <1>2
  <2>2. worker[v].sock \in Clients /\ client[worker[v].sock].sent \in Nat
    BY <2>1, ReaderIs, ClientIs
  <2> QED BY <2>1, <2>2, ReadsKept
<1> QED BY <1>1, <1>3, <1>4 DEF AInv

LEMMA InitAInv == Init => AInv
<1> SUFFICES ASSUME Init
             PROVE  AInv
  OBVIOUS
<1>1. PInv
  BY InitHInv, InitPlaces DEF PInv
<1>2. Busy = {}
  BY DEF Init, NoThread, Busy, At
<1>3. ASSUME NEW c \in Clients
      PROVE  Answered(c)
  <2>1. client[c] \in Peers /\ client[c].sent = 0
    BY <1>1, PFacts DEF Init
  <2>2. client[c].req.pieces \in Seq(PieceKinds)
    BY <2>1, HttpServerAssumption DEF Peers, Asked, IsRequest, PieceKinds
  <2>3. client[c].sent <= Len(client[c].req.pieces)
    BY <2>1, <2>2
  <2>4. answers[c] = <<>>
    BY DEF Init
  <2> QED BY <2>3, <2>4 DEF Answered
<1>4. DOMAIN answers = Clients
  BY DEF Init
<1> QED BY <1>1, <1>2, <1>3, <1>4 DEF AInv

(* The worker goes on reading, or gives the request up. *)
LEMMA GoesOnReading ==
  ASSUME AInv, PInv', NEW w \in Busy, worker[w].at # "close",
         NEW r \in Threads, Becomes(w, r), r.at \in BusyAt, r.sock = worker[w].sock,
         UNCHANGED <<client, answers>>, r.got <= Sock(w).sent,
         r.at \in {"read", "close"} => get_request_len(Pieces(w, r.got)) <= 0,
         r.at \in {"analyze", "body"} => get_request_len(Pieces(w, r.got)) > 0
  PROVE  AInv'
<1>0. PICK c \in Clients : c = worker[w].sock
  BY ReaderIs
<1>1. w \in Workers /\ answers[c] = <<>> /\ PInv /\ DOMAIN answers = Clients
  BY <1>0, ReaderIs DEF AInv
<1>2. worker'[w] = r
  BY <1>1, PFacts DEF Becomes
<1>3. Sock(w)' = Sock(w) /\ Pieces(w, worker[w].got)' = Pieces(w, r.got)
  BY <1>2 DEF Sock, Pieces
<1>4. Reads(w)'
  BY <1>2, <1>3 DEF Reads
<1>5. Answered(c)'
  <2>1. client[c].sent <= Len(client[c].req.pieces)
    BY ClientIs
  <2> QED BY <1>1, <2>1 DEF Answered
<1> QED BY <1>0, <1>1, <1>4, <1>5, OneReader

(* More of a header does not move its end. *)
LEMMA LenGrows ==
  ASSUME NEW p \in Seq(PieceKinds), NEW n \in 0..Len(p), NEW m \in 0..n,
         get_request_len(SubSeq(p, 1, m)) > 0
  PROVE  get_request_len(SubSeq(p, 1, n)) > 0
<1> DEFINE q == SubSeq(p, 1, n)
<1>1. q \in Seq(PieceKinds) /\ Len(q) = n /\ SubSeq(q, 1, m) = SubSeq(p, 1, m)
  OBVIOUS
<1>2. m \in 0..Len(q)
  BY <1>1
<1>3. get_request_len(SubSeq(q, 1, m)) > 0
  BY <1>1
<1> HIDE DEF q
<1>4. get_request_len(q) \in 1..m
  BY <1>1, <1>2, <1>3, LenOfPrefix
<1> QED BY <1>4 DEF q

(* An answer is given to a request as much of which has come as it takes, or  *)
(* as its client sent before it left.                                        *)
LEMMA AnswerIsSound ==
  ASSUME AInv, NEW w \in Busy, NEW n \in Nat, n <= Sock(w).sent,
         get_request_len(Pieces(w, n)) > 0, NEW cb \in BOOLEAN,
         NEW s \in Answers(Sock(w).req, cb, Body(w, n)),
         cb /\ ReadsBody(Sock(w).req, cb, Body(w, n)) => Sock(w).at # "open" /\ n = Sock(w).sent
  PROVE  \E a : s = <<a>> /\ Sound(worker[w].sock, a)
<1> DEFINE c == worker[w].sock
           r == client[c].req
           len == get_request_len(r.pieces)
<1>1. c \in Clients
  BY ReaderIs
<1>2. /\ client[c].sent \in Nat /\ IsRequest(r) /\ r.pieces \in Seq(PieceKinds)
      /\ r.length \in Nat \cup {None} /\ client[c].sent <= Len(r.pieces)
  BY <1>1, ClientIs
<1>3. Sock(w) = client[c] /\ Pieces(w, n) = SubSeq(r.pieces, 1, n)
  BY DEF Sock, Pieces
<1>4. n \in 0..Len(r.pieces) /\ n <= client[c].sent
  BY <1>2, <1>3
<1>5. len = get_request_len(SubSeq(r.pieces, 1, n)) /\ len \in Int
  BY <1>2, <1>3, <1>4, LenOfPrefix
<1>6. Body(w, n) = n - len /\ n - len \in Int
  BY <1>3, <1>5 DEF Body
<1> HIDE DEF len, r, c
<1>7. PICK a : s = <<a>> /\ Honest(r, cb, a, n - len)
  BY <1>2, <1>3, <1>6, OneHonestAnswer DEF r
<1>8. ASSUME a.status = 577, ~ToScript(r)
      PROVE  ~Whole(c) /\ client[c].at # "open"
  <2>1. cb /\ ReadsBody(r, cb, n - len)
    BY <1>7, <1>8 DEF Honest
  <2>2. client[c].at # "open" /\ n = client[c].sent
    BY <1>3, <1>6, <2>1 DEF r
  <2>3. r.length \in Nat /\ n - len < r.length
    BY <1>2, <2>1 DEF ReadsBody, WantsBody, Refused
  <2> QED BY <1>5, <1>6, <2>2, <2>3 DEF Whole, r, len
<1>9. Complete(r, n - len) => Whole(c)
  <2> SUFFICES ASSUME r.length # None, n - len >= r.length
               PROVE  client[c].sent >= len + r.length
    BY DEF Whole, Complete, r, len
  <2>1. r.length \in Nat
    BY <1>2
  <2> QED BY <1>2, <1>4, <1>5, <2>1
<1>10. Sound(c, a)
  BY <1>7, <1>8, <1>9 DEF Sound, Honest, r
<1> QED BY <1>7, <1>10 DEF c

LEMMA Replies ==
  ASSUME AInv, PInv', NEW w \in Busy, worker[w].at # "close",
         NEW r \in Threads, Becomes(w, r), r.at = "close", r.sock = worker[w].sock,
         r.got <= Sock(w).sent, get_request_len(Pieces(w, r.got)) > 0,
         NEW cb \in BOOLEAN, Answer(w, cb, r.got),
         cb /\ ReadsBody(Sock(w).req, cb, Body(w, r.got)) => Sock(w).at # "open" /\ r.got = Sock(w).sent
  PROVE  AInv'
<1>0. PICK c \in Clients : c = worker[w].sock
  BY ReaderIs
<1>1. w \in Workers /\ answers[c] = <<>> /\ PInv /\ DOMAIN answers = Clients
  BY <1>0, ReaderIs DEF AInv
<1>2. PICK s \in Answers(Sock(w).req, cb, Body(w, r.got)) :
               answers' = [answers EXCEPT ![c] = answers[c] \o s]
  BY <1>0 DEF Answer
<1>3. client' = client
  BY DEF Answer
<1>4. r.got \in Nat
  BY DEF Threads
<1>5. PICK a : s = <<a>> /\ Sound(c, a)
  BY <1>0, <1>4, AnswerIsSound
<1>6. \A x : <<>> \o <<x>> = <<x>>
  OBVIOUS
<1>7. /\ answers'[c] = <<a>> /\ DOMAIN answers' = Clients
      /\ \A d \in Clients \ {c} : answers'[d] = answers[d]
  BY <1>1, <1>2, <1>5, <1>6
<1>8. worker'[w] = r
  BY <1>1, PFacts DEF Becomes
<1>9. w \in Busy'
  BY <1>1, <1>8 DEF Busy, At
<1>10. Closing(c)'
  BY <1>0, <1>8, <1>9 DEF Closing
<1>11. Sound(c, a)'
  BY <1>3, <1>5 DEF Sound, Whole
<1>12. Answered(c)'
  <2>1. client[c].sent <= Len(client[c].req.pieces)
    BY <1>1, ClientIs
  <2> QED BY <1>3, <1>7, <1>10, <1>11, <2>1 DEF Answered
<1>13. Reads(w)'
  <2>1. <<a>> # <<>>
    OBVIOUS
  <2> QED BY <1>0, <1>3, <1>7, <1>8, <2>1 DEF Reads, Sock
<1>14. r.at \in BusyAt
  BY DEF BusyAt
<1> QED BY <1>0, <1>1, <1>3, <1>7, <1>12, <1>13, <1>14, OneReader

(* Those who hold no request keep what is known of all of them. *)
LEMMA ElsewhereAInv ==
  ASSUME AInv, PInv', UNCHANGED <<client, answers>>, Busy' = Busy,
         \A w \in Busy : worker'[w] = worker[w]
  PROVE  AInv'
<1>1. ASSUME NEW c \in Clients
      PROVE  /\ client'[c] = client[c] /\ client[c].sent \in Nat
             /\ client[c].sent <= Len(client[c].req.pieces)
  BY ClientIs
<1>2. \A c \in Clients :
            /\ client'[c].req = client[c].req /\ client'[c].sent \in Nat
            /\ client'[c].sent >= client[c].sent
            /\ client'[c].sent <= Len(client[c].req.pieces)
            /\ client[c].at # "open" => client'[c].sent = client[c].sent
            /\ client'[c].at = "open" => client[c].at \in {"new", "open"}
            /\ client[c].at = "closed" => client'[c].at = "closed"
  BY <1>1
<1> QED BY <1>2, OthersKeep

LEMMA SettingsAInv ==
  ASSUME AInv, PInv', Httpd \/ MgStop \/ Accept \/ PutWaits \/ MgFini \/ UNCHANGED vars
  PROVE  AInv'
<1>1. UNCHANGED <<client, answers, worker>>
  BY DEF Httpd, MgStart, SetPorts, SetUriCallback, MgStop, Accept, PutWaits, MgFini, vars, pool,
         io, net
<1> QED BY <1>1, ElsewhereAInv DEF Busy, At

LEMMA PutAInv == ASSUME AInv, PInv', Put PROVE AInv'
<1>1. PInv /\ UNCHANGED <<client, answers>>
  BY DEF AInv, Put, io
<1>2. \A w \in Workers : /\ worker'[w].at \in BusyAt <=> worker[w].at \in BusyAt
                         /\ worker[w].at \in BusyAt => worker'[w] = worker[w]
  BY <1>1, PutWorkers
<1>3. Busy' = Busy /\ \A w \in Busy : worker'[w] = worker[w]
  BY <1>2 DEF Busy, At, BusyAt
<1> QED BY <1>1, <1>3, ElsewhereAInv

LEMMA MasterStopsAInv == ASSUME AInv, PInv', MasterStops PROVE AInv'
<1>1. /\ UNCHANGED <<answers, worker>>
      /\ \A c \in Clients : client'[c] = client[c] \/ client'[c] = [client[c] EXCEPT !.at = "closed"]
  BY DEF MasterStops
<1>2. ASSUME NEW c \in Clients
      PROVE  /\ client'[c].req = client[c].req /\ client'[c].sent = client[c].sent
             /\ client'[c].at \in {client[c].at, "closed"}
             /\ client[c].sent \in Nat /\ client[c].sent <= Len(client[c].req.pieces)
  <2>1. client[c] \in Peers
    BY ClientIs
  <2>2. client[c].sent \in Nat /\ client[c].sent <= Len(client[c].req.pieces)
    BY ClientIs
  <2> QED BY <1>1, <2>1, <2>2 DEF Peers
<1>3. Busy' = Busy
  BY <1>1 DEF Busy, At
<1> QED BY <1>1, <1>2, <1>3, OthersKeep

LEMMA ClientAInv ==
  ASSUME AInv, PInv', NEW c \in Clients, Connect(c) \/ SendPiece(c) \/ Leave(c)
  PROVE  AInv'
<1>1. UNCHANGED <<answers, worker>>
  BY DEF Connect, SendPiece, Leave, io, pool
<1>2. client[c] \in Peers /\ client[c].sent \in Nat /\ client[c].sent <= Len(client[c].req.pieces)
      /\ client \in [Clients -> Peers] /\ client[c].req.pieces \in Seq(PieceKinds)
  BY ClientIs, PFacts DEF AInv
<1>3. /\ \A d \in Clients \ {c} : client'[d] = client[d]
      /\ client'[c].req = client[c].req
      /\ \/ /\ client'[c].sent = client[c].sent
            /\ \/ client[c].at = "new" /\ client'[c].at = "open"
               \/ client[c].at = "open" /\ client'[c].at = "left"
         \/ /\ client'[c].sent = client[c].sent + 1 /\ client[c].sent < Len(client[c].req.pieces)
            /\ client[c].at = "open" /\ client'[c].at = "open"
  <2>1. CASE Connect(c)
    BY <1>2, <2>1 DEF Connect, Peers
  <2>2. CASE SendPiece(c)
    BY <1>2, <2>2 DEF SendPiece, Peers
  <2>3. CASE Leave(c)
    BY <1>2, <2>3 DEF Leave, Peers
  <2> QED BY <2>1, <2>2, <2>3
<1>4. ASSUME NEW d \in Clients
      PROVE  /\ client'[d].req = client[d].req /\ client'[d].sent \in Nat
             /\ client'[d].sent >= client[d].sent
             /\ client'[d].sent <= Len(client[d].req.pieces)
             /\ client[d].at # "open" => client'[d].sent = client[d].sent
             /\ client'[d].at = "open" => client[d].at \in {"new", "open"}
             /\ client[d].at = "closed" => client'[d].at = "closed"
  <2>1. client[d].sent \in Nat /\ client[d].sent <= Len(client[d].req.pieces)
    BY ClientIs
  <2>2. CASE d = c
    <3>1. Len(client[c].req.pieces) \in Nat
      BY <1>2
    <3> QED BY <1>2, <1>3, <2>2, <3>1
  <2>3. CASE d # c
    BY <1>3, <2>1, <2>3
  <2> QED BY <2>2, <2>3
<1>5. Busy' = Busy /\ \A w \in Busy : worker'[w] = worker[w]
  BY <1>1 DEF Busy, At
<1> QED BY <1>1, <1>4, <1>5, OthersKeep

LEMMA IdleAInv ==
  ASSUME AInv, PInv', NEW w \in Workers, Waits(w) \/ TimesOut(w) \/ WorkerExits(w)
  PROVE  AInv'
<1>1. UNCHANGED <<client, answers>> /\ worker[w].at \notin BusyAt
  BY DEF Waits, TimesOut, WorkerExits, io, BusyAt
<1>2. PInv
  BY DEF AInv
<1>3. ASSUME NEW r, Becomes(w, r), "at" \in DOMAIN r, r.at \notin BusyAt
      PROVE  AInv'
  <2>1. /\ \A v \in Workers \ {w} : worker'[v] = worker[v]
        /\ Busy' = Busy \ {w}
    BY <1>2, <1>3, OneIsBusy
  <2>2. w \notin Busy /\ Busy \subseteq Workers
    BY <1>1 DEF Busy, At, BusyAt
  <2> QED BY <1>1, <2>1, <2>2, ElsewhereAInv
<1>4. ASSUME NEW at \in {"waiting", "timedout"}, Becomes(w, [worker[w] EXCEPT !.at = at])
      PROVE  AInv'
  <2> DEFINE r == [worker[w] EXCEPT !.at = at]
  <2>1. r \in Threads /\ r.at = at
    BY <1>2, WorkerAt
  <2>2. "at" \in DOMAIN r /\ r.at \notin BusyAt /\ Becomes(w, r)
    BY <1>4, <2>1 DEF Threads, BusyAt
  <2> HIDE DEF r
  <2> QED BY <1>3, <2>2
<1>5. CASE Becomes(w, NoThread)
  <2>1. "at" \in DOMAIN NoThread /\ NoThread.at \notin BusyAt
    BY DEF NoThread, BusyAt
  <2> QED BY <1>3, <1>5, <2>1
<1>6. CASE UNCHANGED worker
  BY <1>1, <1>6, ElsewhereAInv DEF Busy, At
<1> QED BY <1>4, <1>5, <1>6 DEF Waits, TimesOut, WorkerExits

LEMMA NothingRead == ASSUME NEW p \in Seq(PieceKinds) PROVE get_request_len(SubSeq(p, 1, 0)) = 0
<1>1. SubSeq(p, 1, 0) = <<>>
  OBVIOUS
<1>2. <<>> \in Seq(PieceKinds) /\ Ends(<<>>) = {}
  BY DEF Ends
<1> QED BY <1>1, <1>2, LenOf

LEMMA TakesAInv == ASSUME AInv, PInv', NEW w \in Workers, Takes(w) PROVE AInv'
<1>1. /\ PInv /\ UNCHANGED <<client, answers>> /\ DOMAIN answers = Clients
      /\ sq_head # sq_tail /\ worker[w].at \in {"look", "woken"}
  BY DEF AInv, Takes, io
<1>2. PICK c \in Clients : c = queue[sq_tail % QueueSize] /\ InRing(c)
  <2>1. sq_tail \in Ring
    BY <1>1, PFacts DEF Ring
  <2>2. queue[sq_tail % QueueSize] \in Clients
    BY <1>1, <2>1, PFacts DEF Held
  <2> QED BY <2>1, <2>2 DEF InRing
<1> DEFINE r == [NoThread EXCEPT !.at = "read", !.sock = c, !.ctx = TRUE]
<1>3. Becomes(w, r)
  BY <1>2 DEF Takes
<1>4. r \in Threads /\ r.at = "read" /\ r.sock = c /\ r.got = 0
  BY DEF NoThread, Threads, BusyAt
<1> HIDE DEF r
<1>5. worker'[w] = r
  BY <1>1, <1>3, PFacts DEF Becomes
<1>6. /\ client[c].sent \in Nat /\ client[c].sent <= Len(client[c].req.pieces)
      /\ client[c].req.pieces \in Seq(PieceKinds)
  BY ClientIs
<1>7. answers[c] = <<>>
  <2>1. Answered(c) /\ OnePlace(c)
    BY ClientIs
  <2>2. client[c].at # "closed" /\ ~AtWorker(c)
    BY <1>2, <2>1 DEF OnePlace, Connected
  <2> QED BY <2>1, <2>2 DEF Answered, Closing, AtWorker
<1>8. Reads(w)'
  <2>1. Sock(w)' = client[c] /\ Pieces(w, worker[w].got)' = SubSeq(client[c].req.pieces, 1, 0)
    BY <1>1, <1>4, <1>5 DEF Sock, Pieces
  <2>2. get_request_len(Pieces(w, worker[w].got))' = 0
    BY <1>6, <2>1, NothingRead
  <2> HIDE DEF Reads
  <2>3. worker'[w].got <= Sock(w)'.sent /\ worker'[w].at = "read"
    BY <1>4, <1>5, <1>6, <2>1
  <2> QED BY <2>2, <2>3 DEF Reads
<1>9. Answered(c)'
  BY <1>1, <1>6, <1>7 DEF Answered
<1>10. w \notin Busy /\ r.at \in BusyAt
  BY <1>1, <1>4 DEF Busy, At, BusyAt
<1> QED BY <1>1, <1>3, <1>4, <1>8, <1>9, <1>10, OneReader

(* What a worker has read, and how much of it is the header. *)
LEMMA GotIs ==
  ASSUME AInv, NEW w \in Busy
  PROVE  /\ worker[w] \in Threads /\ worker[w].got \in Nat /\ Sock(w).sent \in Nat
         /\ worker[w].got <= Sock(w).sent /\ Sock(w).sent <= Len(Sock(w).req.pieces)
         /\ Sock(w).req.pieces \in Seq(PieceKinds)
         /\ \A n : get_request_len(Pieces(w, n)) = get_request_len(SubSeq(Sock(w).req.pieces, 1, n))
         /\ worker[w].at = "read" => get_request_len(Pieces(w, worker[w].got)) <= 0
         /\ worker[w].at \in {"analyze", "body"} => get_request_len(Pieces(w, worker[w].got)) > 0
<1>1. worker[w] \in Threads /\ worker[w].sock \in Clients /\ Reads(w)
  BY ReaderIs
<1>2. /\ Sock(w).sent \in Nat /\ Sock(w).sent <= Len(Sock(w).req.pieces)
      /\ Sock(w).req.pieces \in Seq(PieceKinds)
  BY <1>1, ClientIs DEF Sock
<1> QED BY <1>1, <1>2 DEF Reads, Pieces, Threads

LEMMA ReadRequestAInv == ASSUME AInv, PInv', NEW w \in Workers, ReadRequest(w) PROVE AInv'
<1>1. w \in Busy /\ worker[w].at = "read" /\ UNCHANGED <<client, answers>>
  BY DEF ReadRequest, Busy, At, io
<1>2. worker[w] \in Threads /\ worker[w].got \in Nat /\ Sock(w).sent \in Nat
  BY <1>1, GotIs
<1>3. ASSUME NEW n \in worker[w].got + 1..Sock(w).sent, n <= MaxPieces,
             NEW at \in {"analyze", "close", "read"},
             Becomes(w, [worker[w] EXCEPT !.got = n, !.at = at]),
             at = "analyze" <=> get_request_len(Pieces(w, n)) > 0
      PROVE  AInv'
  <2> DEFINE r == [worker[w] EXCEPT !.got = n, !.at = at]
  <2>1. n \in Nat /\ n <= Sock(w).sent /\ n \in 0..Len(Sock(w).req.pieces)
    BY <1>1, <1>2, GotIs
  <2>2. r \in Threads /\ r.at = at /\ r.sock = worker[w].sock /\ r.got = n /\ r.at \in BusyAt
    BY <1>2, <2>1 DEF Threads, BusyAt
  <2>3. get_request_len(Pieces(w, n)) \in Int
    <3>1. SubSeq(Sock(w).req.pieces, 1, n) \in Seq(PieceKinds)
      BY <1>1, <2>1, GotIs
    <3> QED BY <3>1, LenType DEF Pieces
  <2>4. Becomes(w, r)
    BY <1>3
  <2> HIDE DEF r
  <2>5. /\ r.at \in {"read", "close"} => get_request_len(Pieces(w, r.got)) <= 0
        /\ r.at \in {"analyze", "body"} => get_request_len(Pieces(w, r.got)) > 0
    BY <1>3, <2>2, <2>3
  <2> QED BY <1>1, <2>1, <2>2, <2>4, <2>5, GoesOnReading
<1>4. ASSUME Becomes(w, [worker[w] EXCEPT !.at = "close"])
      PROVE  AInv'
  <2> DEFINE r == [worker[w] EXCEPT !.at = "close"]
  <2>1. /\ r \in Threads /\ r.at = "close" /\ r.sock = worker[w].sock /\ r.got = worker[w].got
        /\ r.at \in BusyAt /\ Becomes(w, r)
    BY <1>2, <1>4 DEF Threads, BusyAt
  <2> HIDE DEF r
  <2> QED BY <1>1, <2>1, GotIs, GoesOnReading
<1>5. ASSUME NEW n \in worker[w].got + 1..Sock(w).sent, NEW len, len = get_request_len(Pieces(w, n)),
             n <= MaxPieces,
             Becomes(w, [worker[w] EXCEPT !.got = n,
                               !.at = CASE len > 0 -> "analyze"
                                        [] len < 0 \/ (len = 0 /\ n = MaxPieces) -> "close"
                                        [] OTHER -> "read"])
      PROVE  AInv'
  <2> DEFINE at == CASE len > 0 -> "analyze"
                     [] len < 0 \/ (len = 0 /\ n = MaxPieces) -> "close"
                     [] OTHER -> "read"
  <2>1. len \in Int
    <3>1. n \in 0..Len(Sock(w).req.pieces)
      BY <1>1, <1>2, GotIs
    <3>2. SubSeq(Sock(w).req.pieces, 1, n) \in Seq(PieceKinds)
      BY <1>1, <3>1, GotIs
    <3> QED BY <1>5, <3>2, LenType DEF Pieces
  <2>2. at \in {"analyze", "close", "read"} /\ (at = "analyze" <=> len > 0)
    BY <2>1
  <2>3. Becomes(w, [worker[w] EXCEPT !.got = n, !.at = at])
    BY <1>5
  <2> HIDE DEF at
  <2> QED BY <1>3, <1>5, <2>2, <2>3
<1> QED BY <1>4, <1>5 DEF ReadRequest

LEMMA AnalyzeAInv == ASSUME AInv, PInv', NEW w \in Workers, AnalyzeRequest(w) PROVE AInv'
<1>1. w \in Busy /\ worker[w].at = "analyze"
  BY DEF AnalyzeRequest, Busy, At
<1>2. worker[w] \in Threads /\ worker[w].got <= Sock(w).sent /\ find_callback \in BOOLEAN
      /\ get_request_len(Pieces(w, worker[w].got)) > 0
  BY <1>1, GotIs DEF find_callback
<1>3. \A b \in BOOLEAN : BodyBuffer(b)[1] \in {"null", "stack", "heap"} /\ BodyBuffer(b)[2] \in BOOLEAN
  BY DEF BodyBuffer
<1>4. CASE ReadsBody(Sock(w).req, find_callback, Body(w, worker[w].got))
  <2>1. /\ UNCHANGED <<client, answers>>
        /\ Becomes(w, [worker[w] EXCEPT !.at = "body", !.cb = find_callback,
                          !.post = BodyBuffer(~find_callback)[1], !.free = BodyBuffer(~find_callback)[2]])
    BY <1>4 DEF AnalyzeRequest, io
  <2>2. PICK post \in {"null", "stack", "heap"}, free \in BOOLEAN :
           Becomes(w, [worker[w] EXCEPT !.at = "body", !.cb = find_callback, !.post = post, !.free = free])
    BY <1>2, <1>3, <2>1
  <2> DEFINE r == [worker[w] EXCEPT !.at = "body", !.cb = find_callback, !.post = post, !.free = free]
  <2>3. /\ r \in Threads /\ r.at = "body" /\ r.sock = worker[w].sock /\ r.got = worker[w].got
        /\ r.at \in BusyAt /\ Becomes(w, r)
    BY <1>2, <2>2 DEF Threads, BusyAt
  <2> HIDE DEF r
  <2> QED BY <1>1, <1>2, <2>1, <2>3, GoesOnReading
<1>5. CASE ~ReadsBody(Sock(w).req, find_callback, Body(w, worker[w].got))
  <2> DEFINE r == [worker[w] EXCEPT !.at = "close", !.post = "stack"]
  <2>1. Answer(w, find_callback, worker[w].got) /\ Becomes(w, r)
    BY <1>5 DEF AnalyzeRequest
  <2>2. r \in Threads /\ r.at = "close" /\ r.sock = worker[w].sock /\ r.got = worker[w].got
    BY <1>2 DEF Threads, BusyAt
  <2> HIDE DEF r
  <2> QED BY <1>1, <1>2, <1>5, <2>1, <2>2, Replies
<1> QED BY <1>4, <1>5

LEMMA ReadBodyAInv == ASSUME AInv, PInv', NEW w \in Workers, ReadBody(w) PROVE AInv'
<1>1. w \in Busy /\ worker[w].at = "body"
  BY DEF ReadBody, Busy, At
<1>2. /\ worker[w] \in Threads /\ worker[w].got \in Nat /\ Sock(w).sent \in Nat
      /\ worker[w].got <= Sock(w).sent /\ worker[w].cb \in BOOLEAN
      /\ get_request_len(Pieces(w, worker[w].got)) > 0
  BY <1>1, GotIs DEF Threads
<1>3. ASSUME NEW n \in worker[w].got + 1..Sock(w).sent
      PROVE  n \in Nat /\ n <= Sock(w).sent /\ get_request_len(Pieces(w, n)) > 0
  <2>1. /\ n \in 0..Len(Sock(w).req.pieces) /\ worker[w].got \in 0..n /\ n <= Sock(w).sent
        /\ Sock(w).req.pieces \in Seq(PieceKinds)
    BY <1>1, <1>2, GotIs
  <2> QED BY <1>2, <2>1, LenGrows DEF Pieces
<1>4. ASSUME NEW n \in worker[w].got + 1..Sock(w).sent, UNCHANGED io,
             Becomes(w, [worker[w] EXCEPT !.got = n])
      PROVE  AInv'
  <2> DEFINE r == [worker[w] EXCEPT !.got = n]
  <2>1. /\ r \in Threads /\ r.at = "body" /\ r.sock = worker[w].sock /\ r.got = n
        /\ r.at \in BusyAt /\ Becomes(w, r)
    BY <1>1, <1>2, <1>3, <1>4 DEF Threads, BusyAt
  <2>2. UNCHANGED <<client, answers>>
    BY <1>4 DEF io
  <2> HIDE DEF r
  <2> QED BY <1>1, <1>3, <2>1, <2>2, GoesOnReading
<1>5. ASSUME NEW n \in worker[w].got + 1..Sock(w).sent,
             ~WantsBody(Sock(w).req, Body(w, n)) \/ ~worker[w].cb,
             Becomes(w, [worker[w] EXCEPT !.got = n, !.at = "close"]), Answer(w, worker[w].cb, n)
      PROVE  AInv'
  <2> DEFINE r == [worker[w] EXCEPT !.got = n, !.at = "close"]
  <2>1. /\ r \in Threads /\ r.at = "close" /\ r.sock = worker[w].sock /\ r.got = n
        /\ Becomes(w, r)
    BY <1>2, <1>3, <1>5 DEF Threads, BusyAt
  <2> HIDE DEF r
  <2>2. ~(worker[w].cb /\ ReadsBody(Sock(w).req, worker[w].cb, Body(w, n)))
    BY <1>5 DEF ReadsBody
  <2> QED BY <1>1, <1>2, <1>3, <1>5, <2>1, <2>2, Replies
<1>6. ASSUME worker[w].got = Sock(w).sent, Sock(w).at # "open",
             Becomes(w, [worker[w] EXCEPT !.at = "close"]), Answer(w, worker[w].cb, worker[w].got)
      PROVE  AInv'
  <2> DEFINE r == [worker[w] EXCEPT !.at = "close"]
  <2>1. /\ r \in Threads /\ r.at = "close" /\ r.sock = worker[w].sock /\ r.got = worker[w].got
        /\ Becomes(w, r)
    BY <1>2, <1>6 DEF Threads, BusyAt
  <2> HIDE DEF r
  <2> QED BY <1>1, <1>2, <1>6, <2>1, Replies
<1> QED BY <1>4, <1>5, <1>6 DEF ReadBody

LEMMA CloseAInv == ASSUME AInv, PInv', NEW w \in Workers, CloseConnection(w) PROVE AInv'
<1>1. w \in Busy /\ worker[w].at = "close" /\ answers' = answers /\ PInv /\ DOMAIN answers = Clients
  BY DEF CloseConnection, Busy, At, AInv
<1>2. PICK c \in Clients : c = worker[w].sock
  BY <1>1, ReaderIs
<1>3. /\ client' = [client EXCEPT ![c].at = "closed"]
      /\ client \in [Clients -> Peers] /\ client[c] \in Peers
  BY <1>1, <1>2, PFacts DEF CloseConnection
<1>4. /\ \A d \in Clients \ {c} : client'[d] = client[d]
      /\ client'[c].req = client[c].req /\ client'[c].sent = client[c].sent
      /\ client'[c].at = "closed"
  BY <1>3 DEF Peers
<1>5. /\ \A v \in Workers \ {w} : worker'[v] = worker[v]
      /\ Busy' = Busy \ {w}
  <2>1. worker[w] \in Threads
    BY <1>1, ReaderIs
  <2> DEFINE r == [worker[w] EXCEPT !.at = "look", !.sock = None, !.got = 0, !.cb = FALSE, !.post = "null"]
  <2>2. "at" \in DOMAIN r /\ r.at = "look" /\ Becomes(w, r)
    BY <2>1 DEF Threads, CloseConnection
  <2>3. "look" \notin BusyAt
    BY DEF BusyAt
  <2> HIDE DEF r
  <2> QED BY <1>1, <2>2, <2>3, OneIsBusy
<1>6. Busy \subseteq Workers /\ \A v, u \in Busy : worker[v].sock = worker[u].sock => v = u
  BY <1>1, PFacts DEF Once, Busy, At
<1>7. ASSUME NEW d \in Clients
      PROVE  Answered(d)'
  <2>1. client[d].sent \in Nat /\ client[d].sent <= Len(client[d].req.pieces) /\ client[d] \in Peers
    BY ClientIs
  <2>2. /\ client'[d].req = client[d].req /\ client'[d].sent = client[d].sent
        /\ client'[d].at = "open" => client[d].at \in {"new", "open"}
        /\ client[d].at = "closed" => client'[d].at = "closed"
    BY <1>4
  <2>3. Closing(d) => Closing(d)' \/ client'[d].at = "closed"
    BY <1>2, <1>4, <1>5, <1>6 DEF Closing
  <2> QED BY <1>1, <2>1, <2>2, <2>3, AnsweredKept
<1>8. ASSUME NEW v \in Busy'
      PROVE  Reads(v)'
  <2>1. v \in Busy /\ worker'[v] = worker[v] /\ worker[v].sock # c /\ worker[v].sock \in Clients
    BY <1>1, <1>2, <1>5, <1>6, <1>8, ReaderIs
  <2>2. client[worker[v].sock].sent \in Nat
    BY <2>1, ClientIs
  <2> QED BY <1>1, <1>4, <2>1, <2>2, ReadsKept
<1> QED BY <1>1, <1>7, <1>8 DEF AInv

LEMMA NextAInv == AInv /\ [Next]_vars => AInv'
<1> SUFFICES ASSUME AInv, [Next]_vars
             PROVE  AInv'
  OBVIOUS
<1>1. PInv'
  BY NextPlaces DEF AInv
<1>2. CASE Httpd \/ MgStop \/ UNCHANGED vars
  BY <1>1, <1>2, SettingsAInv
<1>3. CASE Master
  BY <1>1, <1>3, SettingsAInv, PutAInv, MasterStopsAInv DEF Master
<1>4. CASE \E w \in Workers : Work(w) \/ TimesOut(w)
  BY <1>1, <1>4, IdleAInv, TakesAInv, ReadRequestAInv, AnalyzeAInv, ReadBodyAInv, CloseAInv DEF Work
<1>5. CASE \E c \in Clients : Connect(c) \/ SendPiece(c) \/ Leave(c)
  BY <1>1, <1>5, ClientAInv
<1> QED BY <1>2, <1>3, <1>4, <1>5 DEF Next, Runs

LEMMA AnsweredOnce == AInv => OneAnswer
<1> SUFFICES ASSUME AInv, NEW c \in Clients
             PROVE  LET r == client[c].req
                        whole == r.length # None /\ client[c].sent >= get_request_len(r.pieces) + r.length
                    IN  /\ Len(answers[c]) <= 1
                        /\ \A i \in DOMAIN answers[c] :
                              LET a == answers[c][i] IN
                              /\ a.declared # None /\ r.method # "HEAD" /\ RangeInside(r) => a.sent = a.declared
                              /\ a.status = 577 => ToScript(r) \/ (~whole /\ client[c].at # "open")
                              /\ a.status = 200 /\ r.method = "POST" /\ Site[r.path].script = "cgi" => whole
                        /\ \A w \in At({"close"}) :
                              worker[w].sock = c /\ answers[c] = <<>> => get_request_len(Pieces(w, worker[w].got)) <= 0
  BY DEF OneAnswer
<1>1. answers[c] = <<>> \/ \E a : answers[c] = <<a>> /\ Sound(c, a)
  BY DEF AInv, Answered
<1>2. Len(answers[c]) <= 1 /\ \A i \in DOMAIN answers[c] : Sound(c, answers[c][i])
  <2>1. CASE answers[c] = <<>>
    BY <2>1
  <2>2. ASSUME NEW a, answers[c] = <<a>>, Sound(c, a)
        PROVE  Len(answers[c]) <= 1 /\ \A i \in DOMAIN answers[c] : Sound(c, answers[c][i])
    <3>1. Len(<<a>>) = 1 /\ \A i \in DOMAIN <<a>> : <<a>>[i] = a
      OBVIOUS
    <3> QED BY <2>2, <3>1
  <2> QED BY <1>1, <2>1, <2>2
<1>3. ASSUME NEW w \in At({"close"}), worker[w].sock = c, answers[c] = <<>>
      PROVE  get_request_len(Pieces(w, worker[w].got)) <= 0
  <2>1. w \in Busy /\ worker[w].at = "close"
    BY DEF Busy, At
  <2> QED BY <1>3, <2>1 DEF AInv, Reads
<1> QED BY <1>2, <1>3 DEF Sound, Whole

(* Who is answered is answered once, and as the answer says: no worker        *)
(* answers a request that another has, or before its body has come.          *)
THEOREM AnswersOnce == Spec => []OneAnswer
<1> QED BY InitAInv, NextAInv, AnsweredOnce, PTL DEF Spec

=============================================================================
