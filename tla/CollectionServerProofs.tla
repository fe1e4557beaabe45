------------------------ MODULE CollectionServerProofs ------------------------
(***************************************************************************)
(* However the main thread and the server threads interleave, no server    *)
(* listens before its tracks are there, and none is started twice.         *)
(***************************************************************************)
EXTENDS CollectionServer, TLAPS

(* Which way the start of the server of c can still come.                    *)
(*   - until it waits or has posted, nothing has;                            *)
(*   - waiting, it comes with the signal, which connAllTracks emits once,    *)
(*     after it has set m_tracksloaded.                                      *)
OneWay(c) ==
    /\ life[c] = "none" => server[c] = "none" /\ ~loaded[c]
    /\ server[c] \in {"none", "started", "unloaded"} => starts[c] = 0 /\ ~listening[c]
    /\ server[c] = "waiting" /\ (emitting = c \/ ~loaded[c])
          => starts[c] = 0 /\ ~listening[c]
    /\ server[c] = "posted" => loaded[c]
    /\ emitting = c => loaded[c]

CInv == TypeOK /\ StartedOnce /\ \A c \in Collections : OneWay(c)

LEMMA InitCInv == Init => CInv
<1> SUFFICES ASSUME Init
             PROVE  CInv
  OBVIOUS
<1>1. TypeOK
  <2>1. starts \in [Collections -> 0..1]
    BY DEF Init
  <2>2. /\ life \in [Collections -> {"none", "live", "deleted"}]
        /\ server \in [Collections -> {"none", "started", "unloaded", "waiting", "posted"}]
    BY DEF Init
  <2>3. /\ loaded \in [Collections -> BOOLEAN]
        /\ listening \in [Collections -> BOOLEAN]
    BY DEF Init
  <2>4. /\ port \in [Collections -> Ports]
        /\ emitting \in Collections \cup {None}
        /\ crashed \in BOOLEAN
    BY DEF Init
  <2> QED BY <2>1, <2>2, <2>3, <2>4 DEF TypeOK
<1>2. ASSUME NEW c \in Collections
      PROVE  starts[c] + (IF listening[c] THEN 1 ELSE 0) <= 1
  <2>1. starts[c] = 0
    BY DEF Init
  <2>2. ~listening[c]
    BY DEF Init
  <2> QED BY <2>1, <2>2
<1>3. ASSUME NEW c \in Collections
      PROVE  OneWay(c)
  BY CollectionServerAssumption DEF Init, OneWay
<1> QED BY <1>1, <1>2, <1>3 DEF CInv, StartedOnce

(* A step of c leaves the others alone, up to what they read of emitting. *)
LEMMA NextCInv == CInv /\ [Next]_vars => CInv'
<1> SUFFICES ASSUME CInv, [Next]_vars
             PROVE  CInv'
  OBVIOUS
<1> USE CollectionServerAssumption DEF CInv, TypeOK, StartedOnce, OneWay
<1>1. CASE UNCHANGED vars
  BY <1>1 DEF vars
<1>2. CASE Crash
  BY <1>2 DEF Crash
<1>3. ASSUME NEW c \in Collections, Setup(c)
      PROVE  CInv'
  BY <1>3 DEF Setup, Main
<1>4. ASSUME NEW c \in Collections, ConnAllTracks(c)
      PROVE  CInv'
  BY <1>4 DEF ConnAllTracks, Main
<1>5. ASSUME NEW c \in Collections, FinishedLoading(c)
      PROVE  CInv'
  BY <1>5 DEF FinishedLoading, Posted
<1>6. ASSUME NEW c \in Collections, Delete(c), ~Crash
      PROVE  CInv'
  BY <1>6 DEF Delete, Main
<1>7. ASSUME NEW c \in Collections, CheckLoaded(c), ~Crash
      PROVE  CInv'
  BY <1>7 DEF CheckLoaded, AfterCheck
<1>8. ASSUME NEW c \in Collections, ConnectFinishedLoading(c), ~Crash
      PROVE  CInv'
  BY <1>8 DEF ConnectFinishedLoading
<1>9. ASSUME NEW c \in Collections, StartListening(c)
      PROVE  CInv'
  BY <1>9 DEF StartListening
<1>10. ASSUME NEW c \in Collections, Request(c)
       PROVE  CInv'
  BY <1>2, <1>10 DEF Request
<1> QED BY <1>1, <1>2, <1>3, <1>4, <1>5, <1>6, <1>7, <1>8, <1>9, <1>10 DEF Next

(* The server of a collection is started by the constructor's question or    *)
(* by the signal, never by both (httpd.cpp:15-16).                           *)
THEOREM NeverStartedTwice == Spec => []StartedOnce
<1>1. CInv => StartedOnce
  BY DEF CInv
<1> QED BY <1>1, InitCInv, NextCInv, PTL DEF Spec

(* No server listens before its tracks are loaded (httpd.cpp:13-16). *)
THEOREM NoneListensEarly == Spec => []ListeningLoaded
<1>1. CInv => ListeningLoaded
  BY DEF CInv, TypeOK, StartedOnce, OneWay, ListeningLoaded
<1> QED BY <1>1, InitCInv, NextCInv, PTL DEF Spec
=============================================================================
