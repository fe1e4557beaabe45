---------------------------- MODULE ServentProofs ----------------------------
(***************************************************************************)
(* Of Servent, for any hosts, dials and bounds: its types; what            *)
(* m_controlconnections may hold; the handshake of the control connections *)
(* and what their messages may say; that no track list is dropped; and,    *)
(* while no host both dials and is dialled, that an offered object lives   *)
(* and serves one socket.                                                  *)
(***************************************************************************)
EXTENDS Servent, TLAPS

(* What the types of a step rest on: a socket not dialled yet is untouched,  *)
(* a dialled one has a Connection of the dialling host, an accepted one goes *)
(* to a host, and m_sock of a Connection is a socket it was given.           *)
Dialled(s) ==
    /\ s[2] > dialled[s[1]] => clientEnd[s] = "none"
    /\ clientEnd[s] # "none" <=> cli[s] \in Conns
    /\ cli[s] \in Conns => HostOf(cli[s]) = s[1]

Accepted(s) ==
    /\ serverEnd[s] # "none" => clientEnd[s] # "none" /\ to[s] \in Hosts
    /\ serverEnd[s] \in {"none", "servent"} => srv[s] = NoConn
    /\ serverEnd[s] = "conn" => srv[s] \in Conns

SockShape ==
    /\ \A s \in Socks : Dialled(s) /\ Accepted(s)
    /\ \A c \in Conns : \A s \in Socks :
          sockOf[c] = s => c = cli[s] \/ c = srv[s]

TInv == TypeOK /\ SockShape

-----------------------------------------------------------------------------
(* Lemmas *)

LEMMA NoConnNotConn == NoConn \notin Conns /\ NoSock \notin Socks
  BY ServentAssumption DEF NoConn, NoSock, Conns, Socks

LEMMA NewConnType ==
  ASSUME TypeOK, NEW h \in Hosts, made[h] < MaxConn
  PROVE  NewConn(h) \in Conns /\ HostOf(NewConn(h)) = h
  BY ServentAssumption DEF TypeOK, NewConn, Conns, HostOf

LEMMA MessageTypes ==
  ASSUME NEW k \in Conns \cup {NoConn}, NEW o \in Conns \cup {NoConn}
  PROVE  /\ MsgKey("first", k) \in Message
         /\ MsgKey("library-offer", k) \in Message
         /\ RequestOffer(k, o) \in Message
         /\ Msg("ready") \in Message
         /\ Msg("ready2") \in Message
         /\ Msg("alltracks") \in Message
  BY DEF Msg, MsgKey, RequestOffer, Message

LEMMA ConstructType ==
  ASSUME TypeOK, NEW h \in Hosts, NEW class \in {"control", "collection"},
         Construct(h, class)
  PROVE  /\ made' \in [Hosts -> 0..MaxConn]
         /\ kind' \in [Conns -> {"none", "control", "collection"}]
         /\ NewConn(h) \in Conns
         /\ HostOf(NewConn(h)) = h
<1>1. NewConn(h) \in Conns /\ HostOf(NewConn(h)) = h
  BY NewConnType DEF Construct
<1>2. made' \in [Hosts -> 0..MaxConn]
  BY ServentAssumption DEF TypeOK, Construct
<1>3. kind' \in [Conns -> {"none", "control", "collection"}]
  BY <1>1 DEF TypeOK, Construct
<1> QED BY <1>1, <1>2, <1>3

LEMMA ConnectToPeerType ==
  ASSUME TypeOK, SockShape, NEW c \in Conns, NEW a \in Hosts \cup {NoHost},
         ConnectToPeer(a, c)
  PROVE  /\ dialled' \in [Hosts -> 0..MaxSock]
         /\ to' \in [Socks -> Hosts \cup {NoHost}]
         /\ cli' \in [Socks -> Conns \cup {NoConn}]
         /\ clientEnd' \in [Socks -> {"none", "connecting", "open", "closed"}]
         /\ up' \in [Socks -> BOOLEAN]
<1> DEFINE h == HostOf(c)
           t == <<h, dialled[h] + 1>>
<1>1. h \in Hosts
  BY DEF HostOf, Conns
<1>2. dialled[h] \in 0..MaxSock /\ dialled[h] < MaxSock
  BY <1>1 DEF TypeOK, ConnectToPeer
<1>3. t \in Socks
  BY <1>1, <1>2, ServentAssumption DEF Socks
<1> HIDE DEF h, t
<1>4. /\ dialled' = [dialled EXCEPT ![h] = @ + 1]
      /\ to' = [to EXCEPT ![t] = a]
      /\ cli' = [cli EXCEPT ![t] = c]
      /\ clientEnd' = [clientEnd EXCEPT ![t] = "connecting"]
      /\ up' = [up EXCEPT ![t] = TRUE]
  BY DEF ConnectToPeer, h, t
<1> QED BY <1>1, <1>2, <1>3, <1>4, ServentAssumption DEF TypeOK

LEMMA ExchangeType ==
  ASSUME TypeOK, NEW c \in Conns, sockOf[c] # NoSock, Inbox(c) # <<>>,
         NEW out \in [Conns -> Seq(Message)], Exchange(c, out)
  PROVE  toSrv' \in [Socks -> Seq(Message)] /\ toCli' \in [Socks -> Seq(Message)]
<1>1. ASSUME NEW s \in Socks
      PROVE  Read(c)[s] \in Seq(Message) /\ ReadAtClient(c)[s] \in Seq(Message)
  <2>1. toSrv[s] \in Seq(Message) /\ toCli[s] \in Seq(Message)
    BY DEF TypeOK
  <2>2. s = sockOf[c] /\ ~AtClient(c) => toSrv[s] # <<>>
    BY DEF Inbox
  <2>3. s = sockOf[c] /\ AtClient(c) => toCli[s] # <<>>
    BY DEF Inbox
  <2>4. \A q \in Seq(Message) : q # <<>> => Tail(q) \in Seq(Message)
    OBVIOUS
  <2>5. Read(c)[s] = IF s = sockOf[c] /\ ~AtClient(c) THEN Tail(toSrv[s]) ELSE toSrv[s]
    BY DEF Read
  <2>6. ReadAtClient(c)[s] =
          IF s = sockOf[c] /\ AtClient(c) THEN Tail(toCli[s]) ELSE toCli[s]
    BY DEF ReadAtClient
  <2> QED BY <2>1, <2>2, <2>3, <2>4, <2>5, <2>6
<1>2. ASSUME NEW s \in Socks, NEW w
      PROVE  Written(out, w, s) \in Seq(Message)
  <2>1. <<>> \in Seq(Message)
    OBVIOUS
  <2>2. w \in Conns => out[w] \in Seq(Message)
    OBVIOUS
  <2> QED BY <2>1, <2>2 DEF Written
<1>3. \A q, r \in Seq(Message) : q \o r \in Seq(Message)
  OBVIOUS
<1> QED BY <1>1, <1>2, <1>3 DEF Exchange

LEMMA OnlyType ==
  ASSUME NEW w \in Conns, NEW msgs \in Seq(Message)
  PROVE  Only(w, msgs) \in [Conns -> Seq(Message)]
<1>1. <<>> \in Seq(Message)
  OBVIOUS
<1> QED BY <1>1 DEF Only

LEMMA NothingType == Nothing \in [Conns -> Seq(Message)]
<1>1. <<>> \in Seq(Message)
  OBVIOUS
<1> QED BY <1>1 DEF Nothing

LEMMA PeerAddressType ==
  ASSUME TypeOK, NEW c \in Conns
  PROVE  PeerAddress(c) \in Hosts \cup {NoHost}
  BY DEF TypeOK, PeerAddress, EndOpen

LEMMA InboxType ==
  ASSUME TypeOK, NEW c \in Conns, sockOf[c] # NoSock, Inbox(c) # <<>>
  PROVE  Head(Inbox(c)) \in Message
<1>1. Inbox(c) \in Seq(Message)
  BY DEF TypeOK, Inbox
<1> QED BY <1>1

LEMMA CrashType ==
  ASSUME TypeOK, NEW h \in Hosts, Crash(h)
  PROVE  TypeOK'
<1>1. up' \in [Socks -> BOOLEAN]
  BY DEF Crash, TypeOK
<1>2. crashed' \subseteq Hosts
  BY DEF Crash, TypeOK
<1> QED BY <1>1, <1>2 DEF Crash, TypeOK, connVars

LEMMA ConnectToPeerShape ==
  ASSUME TypeOK, SockShape, NEW c \in Conns, NEW a \in Hosts \cup {NoHost},
         ConnectToPeer(a, c), UNCHANGED <<srv, serverEnd, sockOf>>
  PROVE  SockShape'
<1> DEFINE h == HostOf(c)
           t == <<h, dialled[h] + 1>>
<1>1. h \in Hosts /\ dialled[h] \in Nat
  BY DEF HostOf, Conns, TypeOK
<1>2. t \in Socks
  <2>1. dialled[h] < MaxSock
    BY DEF ConnectToPeer
  <2> QED BY <1>1, <2>1, ServentAssumption DEF Socks
<1>3. t[1] = h /\ t[2] = dialled[h] + 1
  OBVIOUS
<1> HIDE DEF h, t
<1>4. /\ dialled' = [dialled EXCEPT ![h] = @ + 1]
      /\ to' = [to EXCEPT ![t] = a]
      /\ cli' = [cli EXCEPT ![t] = c]
      /\ clientEnd' = [clientEnd EXCEPT ![t] = "connecting"]
  BY DEF ConnectToPeer, h, t
<1>5. clientEnd[t] = "none" /\ serverEnd[t] = "none" /\ cli[t] \notin Conns
  BY <1>1, <1>2, <1>3 DEF SockShape, Dialled, Accepted
<1>6. \A s \in Socks : s # t =>
         clientEnd'[s] = clientEnd[s] /\ cli'[s] = cli[s] /\ to'[s] = to[s]
  BY <1>4 DEF TypeOK
<1>7. clientEnd'[t] = "connecting" /\ cli'[t] = c
  BY <1>2, <1>4 DEF TypeOK
<1>8. ASSUME NEW s \in Socks
      PROVE  Dialled(s)' /\ Accepted(s)'
  <2>1. s[1] \in Hosts /\ s[2] \in Nat /\ dialled[s[1]] \in Nat
    BY ServentAssumption DEF Socks, TypeOK
  <2>2. CASE s = t
    <3>1. dialled'[h] = dialled[h] + 1
      BY <1>1, <1>4 DEF TypeOK
    <3>2. Dialled(s)'
      BY <1>1, <1>3, <1>7, <2>2, <3>1 DEF Dialled, h
    <3>3. Accepted(s)'
      BY <1>5, <2>2 DEF Accepted, SockShape
    <3> QED BY <3>2, <3>3
  <2>3. CASE s # t
    <3>1. dialled'[s[1]] >= dialled[s[1]] /\ dialled'[s[1]] \in Nat
      BY <1>1, <1>4, <2>1 DEF TypeOK
    <3>2. Dialled(s)'
      BY <1>6, <2>1, <2>3, <3>1 DEF Dialled, SockShape
    <3>3. Accepted(s)'
      BY <1>6, <2>3 DEF Accepted, SockShape
    <3> QED BY <3>2, <3>3
  <2> QED BY <2>2, <2>3
<1>9. ASSUME NEW x \in Conns, NEW s \in Socks, sockOf'[x] = s
      PROVE  x = cli'[s] \/ x = srv'[s]
  <2>1. x = cli[s] \/ x = srv[s]
    BY <1>9 DEF SockShape
  <2>2. s = t => x = srv[s]
    BY <1>5, <2>1
  <2> QED BY <1>6, <2>1, <2>2
<1> QED BY <1>8, <1>9 DEF SockShape

(* A step that dials nothing keeps SockShape if no end comes up or goes back *)
(* to "none" and a Connection takes only a socket it was given.              *)
LEMMA KeepShape ==
  ASSUME SockShape, UNCHANGED <<dialled, to, cli>>,
         \A x \in Socks : clientEnd'[x] = "none" <=> clientEnd[x] = "none",
         \A x \in Socks : Accepted(x)',
         \A c \in Conns : \A x \in Socks :
            sockOf'[c] = x => c = cli[x] \/ c = srv'[x]
  PROVE  SockShape'
<1>1. \A x \in Socks : Dialled(x)'
  BY DEF SockShape, Dialled
<1> QED BY <1>1 DEF SockShape

LEMMA SameShape ==
  ASSUME SockShape,
         UNCHANGED <<dialled, clientEnd, cli, serverEnd, to, srv, sockOf>>
  PROVE  SockShape'
  BY DEF SockShape, Dialled, Accepted

-----------------------------------------------------------------------------
(* Every action keeps TypeOK and SockShape. *)

LEMMA NewJabberPeerType ==
  ASSUME TInv, NEW d \in Dials, NewJabberPeer(d)
  PROVE  TInv'
<1> DEFINE h == d[2]
<1>1. d[1] \in Hosts /\ h \in Hosts
  BY ServentAssumption
<1>2. Construct(h, "control") /\ TypeOK
  BY DEF NewJabberPeer, TInv
<1>3. /\ made' \in [Hosts -> 0..MaxConn]
      /\ kind' \in [Conns -> {"none", "control", "collection"}]
      /\ NewConn(h) \in Conns
  BY <1>1, <1>2, ConstructType
<1>4. invites' \subseteq Hosts \X Conns /\ toInvite' \subseteq Dials
  BY <1>1, <1>2, <1>3 DEF NewJabberPeer, TypeOK
<1>5. offers' \in [Hosts -> SUBSET Conns]
  BY <1>1, <1>2, <1>3 DEF NewJabberPeer, TypeOK
<1>6. TypeOK'
  BY <1>2, <1>3, <1>4, <1>5 DEF NewJabberPeer, TypeOK, sockVars
<1>7. SockShape'
  BY SameShape DEF NewJabberPeer, TInv, sockVars
<1> QED BY <1>6, <1>7 DEF TInv

LEMMA JabberMsgType ==
  ASSUME TInv, NEW i \in invites, JabberMsg(i)
  PROVE  TInv'
<1> DEFINE h == i[1]
<1>1. h \in Hosts /\ i[2] \in Conns /\ HostOf(i[2]) \in Hosts /\ TypeOK
  BY DEF TInv, TypeOK, HostOf, Conns
<1>2. Construct(h, "control") /\ ConnectToPeer(HostOf(i[2]), NewConn(h))
  BY DEF JabberMsg
<1>3. /\ made' \in [Hosts -> 0..MaxConn]
      /\ kind' \in [Conns -> {"none", "control", "collection"}]
      /\ NewConn(h) \in Conns
  BY <1>1, <1>2, ConstructType
<1>4. /\ dialled' \in [Hosts -> 0..MaxSock]
      /\ to' \in [Socks -> Hosts \cup {NoHost}]
      /\ cli' \in [Socks -> Conns \cup {NoConn}]
      /\ clientEnd' \in [Socks -> {"none", "connecting", "open", "closed"}]
      /\ up' \in [Socks -> BOOLEAN]
  BY <1>1, <1>2, <1>3, ConnectToPeerType DEF TInv
<1>5. invites' \subseteq Hosts \X Conns
  BY <1>1 DEF JabberMsg, TypeOK
<1>6. firstKey' \in [Conns -> Conns \cup {NoConn}]
  BY <1>1, <1>3 DEF JabberMsg, AcceptOfferMessage, TypeOK
<1>7. TypeOK'
  BY <1>1, <1>3, <1>4, <1>5, <1>6 DEF JabberMsg, TypeOK
<1>8. SockShape'
  <2>1. UNCHANGED <<srv, serverEnd, sockOf>>
    BY DEF JabberMsg
  <2> QED BY <1>1, <1>2, <1>3, <2>1, ConnectToPeerShape DEF TInv
<1> QED BY <1>7, <1>8 DEF TInv

LEMMA SocketConnectedType ==
  ASSUME TInv, NEW s \in Socks, SocketConnected(s)
  PROVE  TInv'
<1> DEFINE c == cli[s]
<1>1. c \in Conns /\ s[1] \in Hosts /\ TypeOK /\ clientEnd[s] = "connecting"
  BY DEF TInv, SockShape, Dialled, SocketConnected, Socks
<1>2. CASE Crash(s[1])
  <2>1. SockShape'
    BY <1>2, SameShape DEF Crash, TInv, connVars
  <2> QED BY <1>1, <1>2, <2>1, CrashType DEF TInv
<1>3. CASE ~Crash(s[1])
  <2>1. /\ clientEnd' = [clientEnd EXCEPT ![s] = "open"]
        /\ outbound' = [outbound EXCEPT ![c] = TRUE]
        /\ sockOf' = [sockOf EXCEPT ![c] = s]
        /\ autodel' = [autodel EXCEPT ![c] = TRUE]
        /\ toSrv' = [toSrv EXCEPT ![s] =
                        IF up[s] THEN @ \o Greeting(c, TRUE) ELSE @]
        /\ UNCHANGED <<hostVars, ccs, kind, life, ready, firstKey, tracks,
                       to, cli, srv, serverEnd, up, toCli, lost>>
    BY <1>3 DEF SocketConnected, ConnectFinished
  <2>2. Greeting(c, TRUE) \in Seq(Message)
    <3>1. firstKey[c] \in Conns \cup {NoConn}
      BY <1>1 DEF TypeOK
    <3>2. MsgKey("first", firstKey[c]) \in Message
      BY <3>1, MessageTypes
    <3> QED BY <3>2 DEF Greeting
  <2>3. toSrv' \in [Socks -> Seq(Message)]
    <3> DEFINE g == Greeting(c, TRUE)
    <3>1. toSrv[s] \in Seq(Message) /\ g \in Seq(Message)
      BY <1>1, <2>2 DEF TypeOK
    <3> HIDE DEF g
    <3>2. toSrv[s] \o g \in Seq(Message)
      BY <3>1
    <3>3. \/ toSrv' = [toSrv EXCEPT ![s] = toSrv[s] \o g]
          \/ toSrv' = [toSrv EXCEPT ![s] = toSrv[s]]
      BY <2>1 DEF g
    <3> QED BY <1>1, <3>1, <3>2, <3>3 DEF TypeOK
  <2>4. TypeOK'
    BY <1>1, <2>1, <2>3 DEF TypeOK, hostVars
  <2>5. SockShape'
    <3>1. \A x \in Socks : clientEnd'[x] = "none" <=> clientEnd[x] = "none"
      BY <1>1, <2>1 DEF TypeOK
    <3>2. \A x \in Socks : Accepted(x)'
      BY <2>1, <3>1 DEF TInv, SockShape, Accepted
    <3>3. \A y \in Conns : \A x \in Socks :
             sockOf'[y] = x => y = cli[x] \/ y = srv'[x]
      BY <1>1, <2>1 DEF TypeOK, TInv, SockShape
    <3> QED BY <2>1, <3>1, <3>2, <3>3, KeepShape DEF hostVars, TInv
  <2> QED BY <2>4, <2>5 DEF TInv
<1> QED BY <1>2, <1>3

LEMMA SocketErrorType ==
  ASSUME TInv, NEW s \in Socks, clientEnd[s] # "none", SocketError(s)
  PROVE  TInv'
<1> DEFINE c == cli[s]
<1>1. c \in Conns /\ s[1] \in Hosts /\ TypeOK
  BY DEF TInv, SockShape, Dialled, Socks
<1>2. CASE Crash(s[1])
  <2>1. SockShape'
    BY <1>2, SameShape DEF Crash, TInv, connVars
  <2> QED BY <1>1, <1>2, <2>1, CrashType DEF TInv
<1>3. CASE ~Crash(s[1])
  <2>1. /\ sockOf' = [sockOf EXCEPT ![c] = s]
        /\ life' = [life EXCEPT ![c] = IF autodel[c] THEN "dying" ELSE @]
        /\ clientEnd' = [clientEnd EXCEPT ![s] = "closed"]
        /\ up' = [up EXCEPT ![s] = FALSE]
        /\ UNCHANGED <<hostVars, ccs, kind, autodel, outbound, ready,
                       firstKey, tracks, to, cli, srv, serverEnd, toSrv,
                       toCli, lost>>
    BY <1>3 DEF SocketError
  <2>2. TypeOK'
    BY <1>1, <2>1 DEF TypeOK, hostVars
  <2>3. SockShape'
    <3>1. \A x \in Socks : clientEnd'[x] = "none" <=> clientEnd[x] = "none"
      BY <1>1, <2>1 DEF TypeOK
    <3>2. \A x \in Socks : Accepted(x)'
      BY <2>1, <3>1 DEF TInv, SockShape, Accepted
    <3>3. \A y \in Conns : \A x \in Socks :
             sockOf'[y] = x => y = cli[x] \/ y = srv'[x]
      BY <1>1, <2>1 DEF TypeOK, TInv, SockShape
    <3> QED BY <2>1, <3>1, <3>2, <3>3, KeepShape DEF hostVars, TInv
  <2> QED BY <2>2, <2>3 DEF TInv
<1> QED BY <1>2, <1>3

LEMMA ServentReadyReadType ==
  ASSUME TInv, NEW s \in Socks, ServentReadyRead(s)
  PROVE  TInv'
<1> DEFINE h == to[s]
           c == Head(toSrv[s]).key
<1>1. h \in Hosts /\ TypeOK /\ clientEnd[s] # "none"
  BY DEF TInv, SockShape, Accepted, ServentReadyRead
<1>2. toSrv[s] \in Seq(Message) /\ Tail(toSrv[s]) \in Seq(Message)
  <2>1. toSrv[s] \in Seq(Message) /\ toSrv[s] # <<>>
    BY <1>1 DEF TypeOK, ServentReadyRead
  <2> QED BY <2>1
<1>3. CASE c \notin offers[h]
  <2>1. /\ serverEnd' = [serverEnd EXCEPT ![s] = "closed"]
        /\ up' = [up EXCEPT ![s] = FALSE]
        /\ toSrv' = [toSrv EXCEPT ![s] = Tail(@)]
        /\ UNCHANGED <<hostVars, connVars, to, cli, srv, clientEnd, toCli, lost>>
    BY <1>3 DEF ServentReadyRead
  <2>2. TypeOK'
    BY <1>1, <1>2, <2>1 DEF TypeOK, hostVars, connVars
  <2>3. SockShape'
    <3>1. \A x \in Socks : Accepted(x)'
      BY <1>1, <2>1 DEF TInv, SockShape, Accepted, TypeOK
    <3> QED BY <2>1, <3>1, KeepShape DEF TInv, SockShape, hostVars, connVars
  <2> QED BY <2>2, <2>3 DEF TInv
<1>4. CASE Crash(h)
  <2>1. SockShape'
    BY <1>4, SameShape DEF Crash, TInv, connVars
  <2> QED BY <1>1, <1>4, <2>1, CrashType DEF TInv
<1>5. CASE c \in offers[h] /\ ~Crash(h)
  <2>1. /\ offers' = [offers EXCEPT ![h] = @ \ {c}]
        /\ outbound' = [outbound EXCEPT ![c] = FALSE]
        /\ sockOf' = [sockOf EXCEPT ![c] = s]
        /\ autodel' = [autodel EXCEPT ![c] = TRUE]
        /\ srv' = [srv EXCEPT ![s] = c]
        /\ serverEnd' = [serverEnd EXCEPT ![s] = "conn"]
        /\ toSrv' = [toSrv EXCEPT ![s] = Tail(@)]
        /\ toCli' = [toCli EXCEPT ![s] =
                        IF up[s] THEN @ \o Greeting(c, FALSE) ELSE @]
        /\ UNCHANGED <<toInvite, invites, made, dialled, crashed, ccs, kind,
                       life, ready, firstKey, tracks, to, cli, clientEnd, up,
                       lost>>
    BY <1>5 DEF ServentReadyRead, ConnectFinished, OffersAfterUse
  <2>2. c \in Conns
    BY <1>1, <1>5 DEF TypeOK
  <2>3. toCli' \in [Socks -> Seq(Message)]
    <3> DEFINE g == Greeting(c, FALSE)
    <3>1. toCli[s] \in Seq(Message)
      BY <1>1 DEF TypeOK
    <3>2. g \in Seq(Message)
      <4>1. Msg("ready") \in Message
        BY MessageTypes
      <4> QED BY <4>1 DEF Greeting
    <3>3. \/ toCli' = [toCli EXCEPT ![s] = toCli[s] \o g]
          \/ toCli' = [toCli EXCEPT ![s] = toCli[s]]
      BY <2>1
    <3> HIDE DEF g
    <3>4. toCli[s] \o g \in Seq(Message)
      BY <3>1, <3>2
    <3> QED BY <1>1, <3>1, <3>3, <3>4 DEF TypeOK
  <2>4. toSrv' \in [Socks -> Seq(Message)]
    BY <1>1, <1>2, <2>1 DEF TypeOK
  <2> HIDE DEF c, h
  <2>5. offers' \in [Hosts -> SUBSET Conns]
    BY <1>1, <2>1 DEF TypeOK
  <2>6. TypeOK'
    BY <1>1, <2>1, <2>2, <2>3, <2>4, <2>5 DEF TypeOK
  <2>7. SockShape'
    <3>1. \A x \in Socks : Accepted(x)'
      <4> SUFFICES ASSUME NEW x \in Socks PROVE Accepted(x)'
        OBVIOUS
      <4>1. /\ serverEnd'[x] = IF x = s THEN "conn" ELSE serverEnd[x]
            /\ srv'[x] = IF x = s THEN c ELSE srv[x]
        BY <1>1, <2>1 DEF TypeOK
      <4> QED BY <1>1, <2>1, <2>2, <4>1 DEF TInv, SockShape, Accepted, h
    <3>2. srv[s] = NoConn
      BY DEF TInv, SockShape, Accepted, ServentReadyRead
    <3>3. ASSUME NEW y \in Conns, NEW x \in Socks, sockOf'[y] = x
          PROVE  y = cli[x] \/ y = srv'[x]
      <4>1. CASE y = c
        <5>1. x = s /\ srv'[s] = c
          BY <1>1, <2>1, <2>2, <3>3, <4>1 DEF TypeOK
        <5> QED BY <4>1, <5>1
      <4>2. CASE y # c
        <5>1. sockOf[y] = x
          BY <1>1, <2>1, <3>3, <4>2 DEF TypeOK
        <5>2. y = cli[x] \/ y = srv[x]
          BY <5>1 DEF TInv, SockShape
        <5>3. x = s => y # srv[x]
          BY <3>2, NoConnNotConn
        <5>4. x # s => srv'[x] = srv[x]
          BY <1>1, <2>1 DEF TypeOK
        <5> QED BY <5>2, <5>3, <5>4
      <4> QED BY <4>1, <4>2
    <3>4. /\ SockShape
          /\ UNCHANGED <<dialled, to, cli, clientEnd>>
      BY <2>1 DEF TInv
    <3> QED BY <3>1, <3>3, <3>4, KeepShape
  <2> QED BY <2>6, <2>7 DEF TInv
<1> QED BY <1>3, <1>4, <1>5 DEF ServentReadyRead

LEMMA ServerDisconnectedType ==
  ASSUME TInv, NEW s \in Socks, ServerDisconnected(s)
  PROVE  TInv'
<1> DEFINE c == srv[s]
           m == sockOf[c]
<1>1. TypeOK /\ serverEnd[s] # "none"
  BY DEF TInv, ServerDisconnected
<1>2. CASE serverEnd' = [serverEnd EXCEPT ![s] = "closed"]
           /\ UNCHANGED <<hostVars, connVars, to, cli, srv, clientEnd, up,
                          toSrv, toCli, lost>>
  <2>1. TypeOK'
    BY <1>1, <1>2 DEF TypeOK, hostVars, connVars
  <2>2. SockShape'
    BY <1>1, <1>2 DEF TInv, SockShape, Dialled, Accepted, hostVars, connVars, TypeOK
  <2> QED BY <2>1, <2>2 DEF TInv
<1>3. ASSUME serverEnd[s] = "conn",
             life' = [life EXCEPT ![c] = "dying"],
             serverEnd' = [serverEnd EXCEPT ![s] = "closed",
                              ![m] = IF AtClient(c) THEN @ ELSE "closed"],
             clientEnd' = [clientEnd EXCEPT
                              ![m] = IF AtClient(c) THEN "closed" ELSE @],
             up' = [up EXCEPT ![m] = FALSE],
             UNCHANGED <<hostVars, ccs, kind, autodel, outbound, ready, sockOf,
                         firstKey, tracks, to, cli, srv, toSrv, toCli, lost>>
      PROVE  TInv'
  <2>1. c \in Conns
    BY <1>3 DEF TInv, SockShape, Accepted
  <2>2. m \in Socks \cup {NoSock}
    BY <1>1, <2>1 DEF TypeOK
  <2>3. m \in Socks => c = cli[m] \/ c = srv[m]
    BY <2>1 DEF TInv, SockShape
  <2>4. AtClient(c) <=> cli[m] = c
    BY DEF AtClient
  <2> HIDE DEF c, m
  <2>5. /\ serverEnd' \in [Socks -> {"none", "servent", "conn", "closed"}]
        /\ clientEnd' \in [Socks -> {"none", "connecting", "open", "closed"}]
        /\ up' \in [Socks -> BOOLEAN]
        /\ life' \in [Conns -> {"live", "dying", "deleted"}]
    BY <1>1, <1>3 DEF TypeOK
  <2>6. TypeOK'
    BY <1>1, <1>3, <2>5 DEF TypeOK, hostVars
  <2>7. ASSUME NEW x \in Socks
        PROVE  /\ serverEnd'[x] = serverEnd[x]
                  \/ (serverEnd'[x] = "closed" /\ serverEnd[x] # "none")
               /\ clientEnd'[x] = clientEnd[x]
                  \/ (clientEnd'[x] = "closed" /\ clientEnd[x] # "none")
    <3>1. x = m /\ cli[m] = c => clientEnd[x] # "none"
      BY <2>1 DEF TInv, SockShape, Dialled
    <3>2. x = m /\ cli[m] # c => serverEnd[x] # "none"
      <4> SUFFICES ASSUME x = m, cli[m] # c
                   PROVE  serverEnd[x] # "none"
        OBVIOUS
      <4>1. srv[m] = c /\ srv[m] \in Conns
        BY <2>1, <2>3
      <4>2. srv[m] # NoConn
        BY <4>1, NoConnNotConn
      <4> QED BY <4>2 DEF TInv, SockShape, Accepted
    <3>3. clientEnd'[x] = IF x = m /\ cli[m] = c THEN "closed" ELSE clientEnd[x]
      BY <1>1, <1>3, <2>4 DEF TypeOK
    <3>4. serverEnd'[x] = IF x = s \/ (x = m /\ cli[m] # c)
                          THEN "closed" ELSE serverEnd[x]
      BY <1>1, <1>3, <2>4 DEF TypeOK
    <3>5. serverEnd[s] # "none"
      BY <1>1
    <3>6. clientEnd'[x] = clientEnd[x]
            \/ (clientEnd'[x] = "closed" /\ clientEnd[x] # "none")
      BY <3>1, <3>3
    <3>7. CASE x = s \/ (x = m /\ cli[m] # c)
      BY <3>2, <3>4, <3>5, <3>6, <3>7
    <3>8. CASE ~(x = s \/ (x = m /\ cli[m] # c))
      BY <3>4, <3>6, <3>8
    <3> QED BY <3>7, <3>8
  <2>8. ASSUME NEW x \in Socks
        PROVE  Dialled(x)' /\ Accepted(x)'
    <3>1. Dialled(x)'
      BY <1>3, <2>7 DEF TInv, SockShape, Dialled, hostVars
    <3>2. Accepted(x)'
      BY <1>3, <2>7 DEF TInv, SockShape, Accepted
    <3> QED BY <3>1, <3>2
  <2>9. SockShape'
    BY <1>3, <2>8 DEF TInv, SockShape
  <2> QED BY <2>6, <2>9 DEF TInv
<1> QED BY <1>2, <1>3 DEF ServerDisconnected

LEMMA IncomingConnectionType ==
  ASSUME TInv, NEW s \in Socks, IncomingConnection(s)
  PROVE  TInv'
<1>1. TypeOK'
  BY DEF TInv, TypeOK, IncomingConnection, hostVars, connVars
<1>2. \A x \in Socks : Accepted(x)'
  BY DEF TInv, TypeOK, SockShape, Accepted, IncomingConnection
<1>3. SockShape'
  BY <1>2, KeepShape DEF TInv, SockShape, IncomingConnection, hostVars, connVars
<1> QED BY <1>1, <1>3 DEF TInv

LEMMA LossType ==
  ASSUME TInv, NEW s \in Socks, Loss(s)
  PROVE  TInv'
<1>1. lost' \in 0..MaxLoss
  BY ServentAssumption DEF Loss, TInv, TypeOK
<1>2. TypeOK'
  BY <1>1 DEF TInv, TypeOK, Loss, hostVars, connVars
<1>3. SockShape'
  BY SameShape DEF TInv, Loss, hostVars, connVars
<1> QED BY <1>2, <1>3 DEF TInv

LEMMA DeferredDeleteType ==
  ASSUME TInv, NEW c \in Conns, DeferredDelete(c)
  PROVE  TInv'
<1>1. ccs' \in [Conns -> Nat]
  <2>1. ccs' = [ccs EXCEPT ![c] = 0] \/ ccs' = ccs
    BY DEF DeferredDelete, Unregister
  <2>2. ccs \in [Conns -> Nat]
    BY DEF TInv, TypeOK
  <2> QED BY <2>1, <2>2
<1>2. TypeOK'
  BY <1>1 DEF TInv, TypeOK, DeferredDelete, hostVars, sockVars
<1>3. SockShape'
  BY SameShape DEF TInv, DeferredDelete, hostVars, sockVars
<1> QED BY <1>2, <1>3 DEF TInv

-----------------------------------------------------------------------------
(* Connection::readyRead, branch by branch. *)

Reads(c) ==
    /\ c \in Conns /\ HostOf(c) \in Hosts
    /\ sockOf[c] # NoSock /\ Inbox(c) # <<>>

LEMMA AcceptedControlReadyType ==
  ASSUME TInv, NEW c, Reads(c), NEW m \in Message, AcceptedControlReady(c, m)
  PROVE  TInv'
<1> DEFINE h == HostOf(c)
           share == NewConn(h)
           out == [w \in Conns |->
                     IF HostOf(w) = h
                     THEN [i \in 1..ccs'[w] |-> MsgKey("library-offer", share)]
                     ELSE <<>>]
<1>1. TypeOK /\ c \in Conns /\ h \in Hosts
  BY DEF TInv, Reads
<1>2. /\ made' \in [Hosts -> 0..MaxConn]
      /\ kind' \in [Conns -> {"none", "control", "collection"}]
      /\ share \in Conns
  BY <1>1, ConstructType DEF AcceptedControlReady
<1>3. ccs' \in [Conns -> Nat]
  BY <1>1 DEF AcceptedControlReady, Register, TypeOK
<1>4. out \in [Conns -> Seq(Message)]
  <2>1. MsgKey("library-offer", share) \in Message
    BY <1>2, MessageTypes
  <2> HIDE DEF share, h
  <2>2. \A w \in Conns : [i \in 1..ccs'[w] |-> MsgKey("library-offer", share)]
                            \in Seq(Message)
    BY <1>3, <2>1
  <2>3. <<>> \in Seq(Message)
    OBVIOUS
  <2> QED BY <2>2, <2>3
<1>5. Exchange(c, out)
  BY DEF AcceptedControlReady
<1>6. toSrv' \in [Socks -> Seq(Message)] /\ toCli' \in [Socks -> Seq(Message)]
  <2> HIDE DEF out
  <2> QED BY <1>1, <1>4, <1>5, ExchangeType DEF Reads
<1>7. offers' \in [Hosts -> SUBSET Conns]
  BY <1>1, <1>2 DEF AcceptedControlReady, TypeOK
<1>8. /\ ready' \in [Conns -> BOOLEAN]
      /\ autodel' \in [Conns -> BOOLEAN]
  BY <1>1, <1>2 DEF AcceptedControlReady, ConnectFinished, TypeOK
<1> HIDE DEF h, share, out
<1>9. TypeOK'
  BY <1>1, <1>2, <1>3, <1>6, <1>7, <1>8 DEF AcceptedControlReady, TypeOK
<1>10. SockShape'
  BY SameShape DEF TInv, AcceptedControlReady
<1> QED BY <1>9, <1>10 DEF TInv

LEMMA DialledControlReadyType ==
  ASSUME TInv, NEW c, Reads(c), NEW m, DialledControlReady(c, m)
  PROVE  TInv'
<1>1. TypeOK /\ c \in Conns
  BY DEF TInv, Reads
<1>2. Only(c, Ready2Then(<<>>)) \in [Conns -> Seq(Message)]
  <2>1. Ready2Then(<<>>) \in Seq(Message)
    BY MessageTypes, NoConnNotConn DEF Ready2Then
  <2> QED BY <1>1, <2>1, OnlyType
<1>3. toSrv' \in [Socks -> Seq(Message)] /\ toCli' \in [Socks -> Seq(Message)]
  BY <1>1, <1>2, ExchangeType DEF DialledControlReady, Reads
<1>4. ccs' \in [Conns -> Nat] /\ ready' \in [Conns -> BOOLEAN]
  BY <1>1 DEF DialledControlReady, Register, TypeOK
<1>5. TypeOK'
  BY <1>1, <1>3, <1>4 DEF DialledControlReady, TypeOK, hostVars
<1>6. SockShape'
  BY SameShape DEF TInv, DialledControlReady, hostVars
<1> QED BY <1>5, <1>6 DEF TInv

LEMMA CollectionReadyType ==
  ASSUME TInv, NEW c, Reads(c), NEW m, CollectionReady(c, m)
  PROVE  TInv'
<1> DEFINE all == <<Msg("alltracks")>>
           msgs == IF outbound[c] THEN Ready2Then(all) ELSE all
<1>1. TypeOK /\ c \in Conns
  BY DEF TInv, Reads
<1>2. Only(c, msgs) \in [Conns -> Seq(Message)]
  <2>1. Msg("alltracks") \in Message /\ Msg("ready2") \in Message
    BY MessageTypes
  <2>2. all \in Seq(Message) /\ Ready2Then(all) \in Seq(Message)
    BY <2>1 DEF Ready2Then
  <2> QED BY <1>1, <2>2, OnlyType
<1>3. toSrv' \in [Socks -> Seq(Message)] /\ toCli' \in [Socks -> Seq(Message)]
  BY <1>1, <1>2, ExchangeType DEF CollectionReady, Reads
<1>4. ready' \in [Conns -> BOOLEAN]
  BY <1>1 DEF CollectionReady, TypeOK
<1>5. TypeOK'
  BY <1>1, <1>3, <1>4 DEF CollectionReady, TypeOK, hostVars
<1>6. SockShape'
  BY SameShape DEF TInv, CollectionReady, hostVars
<1> QED BY <1>5, <1>6 DEF TInv

(* createParallelConnection keeps the types of all it changes, and SockShape. *)
LEMMA CreateParallelConnectionType ==
  ASSUME TInv, NEW c, Reads(c), NEW n \in Conns,
         NEW key \in Conns \cup {NoConn},
         CreateParallelConnection(c, n, key), UNCHANGED <<srv, serverEnd, sockOf>>
  PROVE  /\ offers' \in [Hosts -> SUBSET Conns]
         /\ dialled' \in [Hosts -> 0..MaxSock]
         /\ to' \in [Socks -> Hosts \cup {NoHost}]
         /\ cli' \in [Socks -> Conns \cup {NoConn}]
         /\ clientEnd' \in [Socks -> {"none", "connecting", "open", "closed"}]
         /\ up' \in [Socks -> BOOLEAN]
         /\ toSrv' \in [Socks -> Seq(Message)]
         /\ toCli' \in [Socks -> Seq(Message)]
         /\ SockShape'
<1>1. TypeOK /\ SockShape /\ c \in Conns /\ HostOf(c) \in Hosts
  BY DEF TInv, Reads, HostOf, Conns
<1>2. CASE DialsDirectly(c)
  <2>1. ConnectToPeer(PeerAddress(c), n) /\ Exchange(c, Nothing) /\ UNCHANGED offers
    BY <1>2 DEF CreateParallelConnection
  <2>2. PeerAddress(c) \in Hosts \cup {NoHost}
    BY <1>1, PeerAddressType
  <2>3. /\ dialled' \in [Hosts -> 0..MaxSock]
        /\ to' \in [Socks -> Hosts \cup {NoHost}]
        /\ cli' \in [Socks -> Conns \cup {NoConn}]
        /\ clientEnd' \in [Socks -> {"none", "connecting", "open", "closed"}]
        /\ up' \in [Socks -> BOOLEAN]
    BY <1>1, <2>1, <2>2, ConnectToPeerType
  <2>4. toSrv' \in [Socks -> Seq(Message)] /\ toCli' \in [Socks -> Seq(Message)]
    BY <1>1, <2>1, NothingType, ExchangeType DEF Reads
  <2>5. SockShape'
    BY <1>1, <2>1, <2>2, ConnectToPeerShape
  <2>6. offers' \in [Hosts -> SUBSET Conns]
    BY <1>1, <2>1 DEF TypeOK
  <2> QED BY <2>3, <2>4, <2>5, <2>6
<1>3. CASE ~DialsDirectly(c)
  <2> DEFINE request == <<RequestOffer(n, key)>>
  <2>1. /\ offers' = [offers EXCEPT ![HostOf(c)] = @ \cup {n}]
        /\ Exchange(c, Only(c, request))
        /\ UNCHANGED <<dialled, to, cli, clientEnd, up>>
    BY <1>3 DEF CreateParallelConnection
  <2>2. request \in Seq(Message)
    <3>1. RequestOffer(n, key) \in Message
      BY MessageTypes
    <3> QED BY <3>1
  <2>3. Only(c, request) \in [Conns -> Seq(Message)]
    BY <1>1, <2>2, OnlyType
  <2> HIDE DEF request
  <2>4. toSrv' \in [Socks -> Seq(Message)] /\ toCli' \in [Socks -> Seq(Message)]
    BY <1>1, <2>1, <2>3, ExchangeType DEF Reads
  <2>5. SockShape'
    BY <2>1, SameShape DEF TInv
  <2>6. offers' \in [Hosts -> SUBSET Conns]
    BY <1>1, <2>1 DEF TypeOK
  <2> QED BY <1>1, <2>1, <2>4, <2>5, <2>6 DEF TypeOK
<1> QED BY <1>2, <1>3

LEMMA LibraryOfferType ==
  ASSUME TInv, NEW c, Reads(c), NEW m \in Message, LibraryOffer(c, m)
  PROVE  TInv'
<1> DEFINE h == HostOf(c)
           fetch == NewConn(h)
<1>1. TypeOK /\ c \in Conns /\ h \in Hosts
  BY DEF TInv, Reads
<1>2. /\ made' \in [Hosts -> 0..MaxConn]
      /\ kind' \in [Conns -> {"none", "control", "collection"}]
      /\ fetch \in Conns /\ HostOf(fetch) = h
  BY <1>1, ConstructType DEF LibraryOffer
<1>3. m.key \in Conns \cup {NoConn}
  BY DEF Message
<1>4. autodel' \in [Conns -> BOOLEAN]
  BY <1>1, <1>2 DEF LibraryOffer, ConnectFinished, TypeOK
<1>5. /\ CreateParallelConnection(c, fetch, m.key)
      /\ UNCHANGED <<toInvite, invites, crashed, ccs, life, outbound, ready,
                     sockOf, tracks, srv, serverEnd, lost>>
  BY DEF LibraryOffer
<1>6. \/ firstKey' = [firstKey EXCEPT ![fetch] = IF @ = NoConn THEN m.key ELSE @]
      \/ UNCHANGED firstKey
  BY DEF LibraryOffer, AcceptOfferMessage
<1> HIDE DEF h, fetch
<1>7. firstKey' \in [Conns -> Conns \cup {NoConn}]
  BY <1>1, <1>2, <1>3, <1>6 DEF TypeOK
<1>8. /\ offers' \in [Hosts -> SUBSET Conns]
      /\ dialled' \in [Hosts -> 0..MaxSock]
      /\ to' \in [Socks -> Hosts \cup {NoHost}]
      /\ cli' \in [Socks -> Conns \cup {NoConn}]
      /\ clientEnd' \in [Socks -> {"none", "connecting", "open", "closed"}]
      /\ up' \in [Socks -> BOOLEAN]
      /\ toSrv' \in [Socks -> Seq(Message)]
      /\ toCli' \in [Socks -> Seq(Message)]
      /\ SockShape'
  BY <1>2, <1>3, <1>5, CreateParallelConnectionType DEF h
<1>9. TypeOK'
  BY <1>1, <1>2, <1>4, <1>5, <1>7, <1>8 DEF TypeOK
<1> QED BY <1>8, <1>9 DEF TInv

LEMMA ReverseOfferRequestType ==
  ASSUME TInv, NEW c, Reads(c), NEW m \in Message, ReverseOfferRequest(c, m)
  PROVE  TInv'
<1> DEFINE h == HostOf(c)
           n == m.offer
<1>1. TypeOK /\ c \in Conns /\ h \in Hosts
  BY DEF TInv, Reads
<1>2. CASE Crash(h)
  <2>1. SockShape'
    BY <1>2, SameShape DEF Crash, TInv, connVars
  <2> QED BY <1>1, <1>2, <2>1, CrashType DEF TInv
<1>3. CASE ~Crash(h) /\ n \notin offers[h]
  <2>1. /\ Exchange(c, Nothing)
        /\ UNCHANGED <<hostVars, connVars, to, cli, srv, clientEnd, serverEnd,
                       up, lost>>
    BY <1>3 DEF ReverseOfferRequest
  <2>2. toSrv' \in [Socks -> Seq(Message)] /\ toCli' \in [Socks -> Seq(Message)]
    BY <1>1, <2>1, NothingType, ExchangeType DEF Reads
  <2>3. TypeOK'
    BY <1>1, <2>1, <2>2 DEF TypeOK, hostVars, connVars
  <2>4. SockShape'
    BY <2>1, SameShape DEF TInv, hostVars, connVars
  <2> QED BY <2>3, <2>4 DEF TInv
<1>4. CASE ~Crash(h) /\ n \in offers[h]
  <2>1. /\ firstKey' = [firstKey EXCEPT ![n] = m.key]
        /\ CreateParallelConnection(c, n, NoConn)
        /\ UNCHANGED <<toInvite, invites, made, crashed, ccs, kind, life,
                       autodel, outbound, ready, sockOf, tracks, srv,
                       serverEnd, lost>>
    BY <1>4 DEF ReverseOfferRequest
  <2>2. n \in Conns
    BY <1>1, <1>4 DEF TypeOK
  <2>3. firstKey' \in [Conns -> Conns \cup {NoConn}]
    BY <1>1, <2>1, <2>2 DEF TypeOK, Message
  <2>4. /\ offers' \in [Hosts -> SUBSET Conns]
        /\ dialled' \in [Hosts -> 0..MaxSock]
        /\ to' \in [Socks -> Hosts \cup {NoHost}]
        /\ cli' \in [Socks -> Conns \cup {NoConn}]
        /\ clientEnd' \in [Socks -> {"none", "connecting", "open", "closed"}]
        /\ up' \in [Socks -> BOOLEAN]
        /\ toSrv' \in [Socks -> Seq(Message)]
        /\ toCli' \in [Socks -> Seq(Message)]
        /\ SockShape'
    BY <2>1, <2>2, CreateParallelConnectionType
  <2> HIDE DEF h, n
  <2>5. TypeOK'
    BY <1>1, <2>1, <2>3, <2>4 DEF TypeOK
  <2> QED BY <2>4, <2>5 DEF TInv
<1> QED BY <1>2, <1>3, <1>4

LEMMA AllTracksType ==
  ASSUME TInv, NEW c, Reads(c), NEW m, AllTracks(c, m)
  PROVE  TInv'
<1> DEFINE from == IF AtClient(c) THEN to[sockOf[c]] ELSE sockOf[c][1]
<1>1. TypeOK /\ c \in Conns /\ sockOf[c] \in Socks
  BY DEF TInv, Reads, TypeOK
<1>2. from \in Hosts \cup {NoHost}
  BY <1>1 DEF TypeOK, Socks
<1>3. tracks' = [tracks EXCEPT ![c] = IF ready[c] THEN @ \cup {from} ELSE @]
  BY DEF AllTracks
<1> HIDE DEF from
<1>4. tracks' \in [Conns -> SUBSET (Hosts \cup {NoHost})]
  BY <1>1, <1>2, <1>3 DEF TypeOK
<1>5. toSrv' \in [Socks -> Seq(Message)] /\ toCli' \in [Socks -> Seq(Message)]
  BY <1>1, NothingType, ExchangeType DEF Reads, AllTracks
<1>6. TypeOK'
  BY <1>1, <1>4, <1>5 DEF AllTracks, TypeOK, hostVars
<1>7. SockShape'
  BY SameShape DEF TInv, AllTracks, hostVars
<1> QED BY <1>6, <1>7 DEF TInv

LEMMA UnhandledType ==
  ASSUME TInv, NEW c, Reads(c), NEW m, Unhandled(c, m)
  PROVE  TInv'
<1>1. TypeOK /\ c \in Conns
  BY DEF TInv, Reads
<1>2. toSrv' \in [Socks -> Seq(Message)] /\ toCli' \in [Socks -> Seq(Message)]
  BY <1>1, NothingType, ExchangeType DEF Reads, Unhandled
<1>3. TypeOK'
  BY <1>1, <1>2 DEF Unhandled, TypeOK, hostVars, connVars
<1>4. SockShape'
  BY SameShape DEF TInv, Unhandled, hostVars, connVars
<1> QED BY <1>3, <1>4 DEF TInv

LEMMA ReadyReadType ==
  ASSUME TInv, NEW c \in Conns, ReadyRead(c)
  PROVE  TInv'
<1> DEFINE m == Head(Inbox(c))
<1>1. Reads(c)
  BY DEF ReadyRead, Reads, HostOf, Conns
<1>2. m \in Message
  BY <1>1, InboxType DEF TInv, Reads
<1>3. \/ AcceptedControlReady(c, m) \/ DialledControlReady(c, m)
      \/ CollectionReady(c, m) \/ LibraryOffer(c, m)
      \/ ReverseOfferRequest(c, m) \/ AllTracks(c, m) \/ Unhandled(c, m)
  BY DEF ReadyRead
<1> HIDE DEF m
<1> QED
  BY <1>1, <1>2, <1>3, AcceptedControlReadyType, DialledControlReadyType,
     CollectionReadyType, LibraryOfferType, ReverseOfferRequestType,
     AllTracksType, UnhandledType

-----------------------------------------------------------------------------
LEMMA InitTInv == Init => TInv
<1> SUFFICES ASSUME Init PROVE TInv
  OBVIOUS
<1>1. <<>> \in Seq(Message)
  OBVIOUS
<1>2. TypeOK
  BY <1>1, ServentAssumption DEF Init, TypeOK
<1>3. SockShape
  BY NoConnNotConn, ServentAssumption
  DEF Init, SockShape, Dialled, Accepted, Socks
<1> QED BY <1>2, <1>3 DEF TInv

LEMMA NextTInv == TInv /\ [Next]_vars => TInv'
<1> SUFFICES ASSUME TInv, [Next]_vars
             PROVE  TInv'
  OBVIOUS
<1>1. CASE UNCHANGED vars
  BY <1>1 DEF vars, hostVars, connVars, sockVars, TInv, TypeOK, SockShape,
              Dialled, Accepted
<1>2. ASSUME NEW d \in Dials, NewJabberPeer(d)
      PROVE  TInv'
  BY <1>2, NewJabberPeerType
<1>3. ASSUME NEW i \in invites, JabberMsg(i)
      PROVE  TInv'
  BY <1>3, JabberMsgType
<1>4. ASSUME NEW s \in Socks, SocketConnected(s)
      PROVE  TInv'
  BY <1>4, SocketConnectedType
<1>5. ASSUME NEW s \in Socks, DialRefused(s) \/ ClientDisconnected(s)
      PROVE  TInv'
  <2>1. clientEnd[s] # "none" /\ SocketError(s)
    BY <1>5 DEF DialRefused, ClientDisconnected
  <2> QED BY <2>1, SocketErrorType
<1>6. ASSUME NEW s \in Socks, IncomingConnection(s)
      PROVE  TInv'
  BY <1>6, IncomingConnectionType
<1>7. ASSUME NEW s \in Socks, ServentReadyRead(s)
      PROVE  TInv'
  BY <1>7, ServentReadyReadType
<1>8. ASSUME NEW s \in Socks, Loss(s)
      PROVE  TInv'
  BY <1>8, LossType
<1>9. ASSUME NEW s \in Socks, ServerDisconnected(s)
      PROVE  TInv'
  BY <1>9, ServerDisconnectedType
<1>10. ASSUME NEW c \in Conns, ReadyRead(c)
       PROVE  TInv'
  BY <1>10, ReadyReadType
<1>11. ASSUME NEW c \in Conns, DeferredDelete(c)
       PROVE  TInv'
  BY <1>11, DeferredDeleteType
<1> QED
  BY <1>1, <1>2, <1>3, <1>4, <1>5, <1>6, <1>7, <1>8, <1>9, <1>10, <1>11
  DEF Next

(* Every reachable state is type-correct, whatever the hosts, dials, losses  *)
(* and bounds: no slot uses a socket or key that does not exist.             *)
THEOREM TypeCorrect == Spec => []TypeOK
<1>1. Init => TInv
  BY InitTInv
<1>2. TInv /\ [Next]_vars => TInv'
  BY NextTInv
<1>3. TInv => TypeOK
  BY DEF TInv
<1> QED BY <1>1, <1>2, <1>3, PTL DEF Spec

-----------------------------------------------------------------------------
(* m_controlconnections *)

(* A Connection not constructed yet has no class, so constructing one cannot *)
(* change what a listed Connection is.                                       *)
Fresh == \A c \in Conns : c[2] > made[c[1]] => kind[c] = "none"

LInv == TInv /\ Fresh /\ ListedUsable

(* A step that constructs and registers nothing. *)
LEMMA KeepListed ==
  ASSUME TypeOK, TypeOK', Fresh, ListedUsable, UNCHANGED <<made, kind>>,
         \A c \in Conns : ready[c] => ready'[c],
         \A c \in Conns : ccs'[c] > 0 =>
            ccs[c] > 0 /\ (life[c] # "deleted" => life'[c] # "deleted")
  PROVE  Fresh' /\ ListedUsable'
  BY DEF Fresh, ListedUsable

LEMMA ConstructListed ==
  ASSUME TypeOK, Fresh, ListedUsable, NEW h \in Hosts,
         NEW class \in {"control", "collection"}, Construct(h, class)
  PROVE  /\ Fresh'
         /\ kind[NewConn(h)] = "none"
         /\ \A c \in Conns : kind[c] # "none" => kind'[c] = kind[c]
<1> DEFINE n == NewConn(h)
<1>1. n \in Conns /\ n[1] = h /\ n[2] = made[h] + 1 /\ made[h] \in Nat
  BY NewConnType, ServentAssumption DEF Construct, NewConn, TypeOK
<1>2. kind[n] = "none"
  BY <1>1 DEF Fresh
<1>3. made' = [made EXCEPT ![h] = @ + 1] /\ kind' = [kind EXCEPT ![n] = class]
  BY DEF Construct
<1> HIDE DEF n
<1>4. \A c \in Conns : c # n => kind'[c] = kind[c]
  BY <1>3 DEF TypeOK
<1>5. ASSUME NEW c \in Conns, c[2] > made'[c[1]]
      PROVE  kind'[c] = "none"
  <2>1. c[1] \in Hosts /\ c[2] \in Nat /\ made[c[1]] \in Nat
    BY ServentAssumption DEF Conns, TypeOK
  <2>2. made'[c[1]] = IF c[1] = h THEN made[c[1]] + 1 ELSE made[c[1]]
    BY <1>3, <2>1 DEF TypeOK
  <2>3. c # n
    BY <1>1, <1>5, <2>1, <2>2
  <2>4. kind[c] = "none"
    BY <1>5, <2>1, <2>2 DEF Fresh
  <2> QED BY <1>4, <2>3, <2>4
<1> QED BY <1>2, <1>4, <1>5 DEF Fresh, n

(* Registering the ready ControlConnection that is reading. *)
LEMMA RegisterListed ==
  ASSUME TypeOK, ListedUsable, NEW c \in Conns, kind[c] = "control",
         life[c] # "deleted", Register(c), UNCHANGED life,
         ready' = [ready EXCEPT ![c] = TRUE],
         \A x \in Conns : kind[x] # "none" => kind'[x] = kind[x]
  PROVE  ListedUsable'
<1> SUFFICES ASSUME NEW x \in Conns, ccs'[x] > 0
             PROVE  kind'[x] = "control" /\ ready'[x] /\ life'[x] # "deleted"
  BY DEF ListedUsable
<1>1. CASE x = c
  BY <1>1 DEF TypeOK
<1>2. CASE x # c
  <2>1. ccs[x] > 0 /\ ready'[x] = ready[x]
    BY <1>2 DEF Register, TypeOK
  <2> QED BY <2>1 DEF ListedUsable
<1> QED BY <1>1, <1>2

LEMMA ReadyReadListed ==
  ASSUME LInv, TInv', NEW c \in Conns, ReadyRead(c)
  PROVE  Fresh' /\ ListedUsable'
<1> DEFINE m == Head(Inbox(c))
           h == HostOf(c)
<1>1. TypeOK /\ TypeOK' /\ Fresh /\ ListedUsable /\ h \in Hosts
  BY DEF LInv, TInv, HostOf, Conns
<1>2. life[c] # "deleted"
  BY DEF ReadyRead
<1> HIDE DEF m, h
<1>3. CASE AcceptedControlReady(c, m)
  <2>1. /\ Construct(h, "collection") /\ Register(c) /\ kind[c] = "control"
        /\ UNCHANGED life /\ ready' = [ready EXCEPT ![c] = TRUE]
    BY <1>3 DEF AcceptedControlReady, h
  <2>2. Fresh' /\ \A x \in Conns : kind[x] # "none" => kind'[x] = kind[x]
    BY <1>1, <2>1, ConstructListed
  <2> QED BY <1>1, <1>2, <2>1, <2>2, RegisterListed
<1>4. CASE DialledControlReady(c, m)
  <2>1. /\ Register(c) /\ kind[c] = "control" /\ UNCHANGED <<made, kind, life>>
        /\ ready' = [ready EXCEPT ![c] = TRUE]
    BY <1>4 DEF DialledControlReady, hostVars
  <2>2. Fresh'
    BY <1>1, <2>1 DEF Fresh
  <2> QED BY <1>1, <1>2, <2>1, <2>2, RegisterListed
<1>5. CASE CollectionReady(c, m)
  <2>1. UNCHANGED <<made, kind, ccs, life>> /\ ready' = [ready EXCEPT ![c] = TRUE]
    BY <1>5 DEF CollectionReady, hostVars
  <2>2. \A x \in Conns : ready[x] => ready'[x]
    BY <1>1, <2>1 DEF TypeOK
  <2> QED BY <1>1, <2>1, <2>2, KeepListed
<1>6. CASE LibraryOffer(c, m)
  <2>1. Construct(h, "collection") /\ UNCHANGED <<ccs, ready, life>>
    BY <1>6 DEF LibraryOffer, h
  <2>2. Fresh' /\ \A x \in Conns : kind[x] # "none" => kind'[x] = kind[x]
    BY <1>1, <2>1, ConstructListed
  <2> QED BY <1>1, <2>1, <2>2 DEF ListedUsable
<1>7. CASE ReverseOfferRequest(c, m) \/ AllTracks(c, m) \/ Unhandled(c, m)
  <2>1. UNCHANGED <<made, kind, ccs, ready, life>>
    BY <1>7 DEF ReverseOfferRequest, AllTracks, Unhandled, Crash, hostVars, connVars
  <2> QED BY <1>1, <2>1, KeepListed
<1> QED BY <1>3, <1>4, <1>5, <1>6, <1>7 DEF ReadyRead, m

LEMMA NextLInv == LInv /\ [Next]_vars => LInv'
<1> SUFFICES ASSUME LInv, [Next]_vars
             PROVE  Fresh' /\ ListedUsable'
  BY NextTInv DEF LInv
<1>1. TInv' /\ TypeOK /\ TypeOK' /\ Fresh /\ ListedUsable
  BY NextTInv DEF LInv, TInv
<1>2. CASE UNCHANGED vars
  BY <1>1, <1>2 DEF vars, hostVars, connVars, Fresh, ListedUsable
<1>3. ASSUME NEW d \in Dials, NewJabberPeer(d)
      PROVE  Fresh' /\ ListedUsable'
  <2>1. d[2] \in Hosts /\ Construct(d[2], "control") /\ UNCHANGED <<ccs, ready, life>>
    BY <1>3, ServentAssumption DEF NewJabberPeer
  <2>2. Fresh' /\ \A x \in Conns : kind[x] # "none" => kind'[x] = kind[x]
    BY <1>1, <2>1, ConstructListed
  <2> QED BY <1>1, <2>1, <2>2 DEF ListedUsable
<1>4. ASSUME NEW i \in invites, JabberMsg(i)
      PROVE  Fresh' /\ ListedUsable'
  <2>1. i[1] \in Hosts /\ Construct(i[1], "control") /\ UNCHANGED <<ccs, ready, life>>
    BY <1>1, <1>4 DEF JabberMsg, TypeOK
  <2>2. Fresh' /\ \A x \in Conns : kind[x] # "none" => kind'[x] = kind[x]
    BY <1>1, <2>1, ConstructListed
  <2> QED BY <1>1, <2>1, <2>2 DEF ListedUsable
<1>5. ASSUME NEW s \in Socks,
             \/ SocketConnected(s) \/ IncomingConnection(s)
             \/ ServentReadyRead(s) \/ Loss(s)
      PROVE  Fresh' /\ ListedUsable'
  <2>1. UNCHANGED <<made, kind, ccs, ready, life>>
    BY <1>5 DEF SocketConnected, IncomingConnection, ServentReadyRead, Loss,
                Crash, hostVars, connVars
  <2> QED BY <1>1, <2>1, KeepListed
<1>6. ASSUME NEW s \in Socks,
             \/ DialRefused(s) \/ ClientDisconnected(s) \/ ServerDisconnected(s)
      PROVE  Fresh' /\ ListedUsable'
  <2>1. /\ UNCHANGED <<made, kind, ccs, ready>>
        /\ \/ UNCHANGED life
           \/ \E x : life' = [life EXCEPT ![x] = "dying"]
           \/ \E x : life' = [life EXCEPT ![x] = IF autodel[x] THEN "dying" ELSE @]
    BY <1>6 DEF DialRefused, ClientDisconnected, ServerDisconnected, SocketError,
                Crash, hostVars, connVars
  <2>2. \A x \in Conns : life[x] # "deleted" => life'[x] # "deleted"
    BY <1>1, <2>1 DEF TypeOK
  <2> QED BY <1>1, <2>1, <2>2, KeepListed
<1>7. ASSUME NEW c \in Conns, ReadyRead(c)
      PROVE  Fresh' /\ ListedUsable'
  BY <1>1, <1>7, ReadyReadListed DEF LInv
<1>8. ASSUME NEW c \in Conns, DeferredDelete(c)
      PROVE  Fresh' /\ ListedUsable'
  <2>1. /\ UNCHANGED <<made, kind, ready>>
        /\ life' = [life EXCEPT ![c] = "deleted"]
        /\ \/ ccs' = [ccs EXCEPT ![c] = 0]
           \/ kind[c] # "control" /\ ccs' = ccs
    BY <1>8 DEF DeferredDelete, Unregister, hostVars
  <2>2. ASSUME NEW x \in Conns, ccs'[x] > 0
        PROVE  ccs[x] > 0 /\ (life[x] # "deleted" => life'[x] # "deleted")
    <3>1. x # c
      BY <1>1, <2>1, <2>2 DEF TypeOK, ListedUsable
    <3> QED BY <1>1, <2>1, <2>2, <3>1 DEF TypeOK
  <2> QED BY <1>1, <2>1, <2>2, KeepListed
<1> QED BY <1>2, <1>3, <1>4, <1>5, <1>6, <1>7, <1>8 DEF Next

(* Whatever links break and whoever dials whom, the list that               *)
(* registerControlConnection sends to holds ready ControlConnections that    *)
(* have not been deleted.                                                    *)
THEOREM ListIsUsable == Spec => []ListedUsable
<1>1. Init => LInv
  BY InitTInv, ServentAssumption DEF LInv, Init, Fresh, ListedUsable
<1>2. LInv /\ [Next]_vars => LInv'
  BY NextLInv
<1>3. LInv => ListedUsable
  BY DEF LInv
<1> QED BY <1>1, <1>2, <1>3, PTL DEF Spec

-----------------------------------------------------------------------------
(***************************************************************************)
(* The handshake and the messages: the inductive invariant                 *)
(***************************************************************************)

(* A Connection that has not been constructed has no state. *)
Blank == \A c \in Conns :
            kind[c] = "none" => firstKey[c] = NoConn /\ ~ready[c] /\ sockOf[c] = NoSock

(* A key names an object of the class that is to present it. *)
KeyKind == \A c \in Conns : firstKey[c] # NoConn => kind[firstKey[c]] = kind[c]

(* A control connection dials once, with a key, ... *)
Dialler(s) ==
    cli[s] \in Conns =>
        /\ kind[cli[s]] # "none" /\ to[s] # s[1]
        /\ kind[cli[s]] = "control" =>
              /\ firstKey[cli[s]] # NoConn
              /\ sockOf[cli[s]] \in {NoSock, s}
              /\ \A t \in Socks : cli[t] = cli[s] => t = s
              /\ ready[cli[s]] => srv[s] \in Conns

(* ... or is accepted once, without a key. *)
Acceptor(s) ==
    srv[s] \in Conns =>
        /\ HostOf(srv[s]) = to[s] /\ kind[srv[s]] = kind[cli[s]]
        /\ kind[srv[s]] = "control" =>
              /\ firstKey[srv[s]] = NoConn /\ sockOf[srv[s]] = s
              /\ ready[srv[s]] => ready[cli[s]]

Offered == \A h \in Hosts : \A c \in offers[h] :
    /\ HostOf(c) = h /\ kind[c] # "none"
    /\ kind[c] = "control" => firstKey[c] = NoConn /\ ~ready[c] /\ sockOf[c] = NoSock

Invited == \A i \in invites : kind[i[2]] = "control" /\ HostOf(i[2]) # i[1]

(* m_outbound tells which end of its socket a Connection is at. *)
Sided == \A c \in Conns : sockOf[c] \in Socks =>
    /\ ~AtClient(c) => ~outbound[c]
    /\ AtClient(c) /\ clientEnd[sockOf[c]] = "open" => outbound[c]

(* What a message under way to the accepting, or to the dialling end says of *)
(* the two objects.                                                          *)
SrvMsg(s, m) ==
    /\ cli[s] \in Conns
    /\ m.type \in {"first", "ready2", "library-offer", "alltracks"}
    /\ m.type = "first" => m.key = NoConn \/ kind[m.key] = kind[cli[s]]
    /\ m.type # "first" => srv[s] \in Conns /\ ready[cli[s]]
    /\ m.type = "library-offer" => m.key \in Conns /\ kind[m.key] = "collection"
    /\ m.type = "ready2" /\ kind[cli[s]] = "control" => ~ready[srv[s]]

CliMsg(s, m) ==
    /\ m.type \in {"ready", "library-offer", "request-offer", "alltracks"}
    /\ srv[s] \in Conns
    /\ m.type # "ready" => ready[cli[s]]
    /\ m.type = "library-offer" => m.key \in Conns /\ kind[m.key] = "collection"
    /\ m.type = "request-offer" =>
          /\ m.offer \in Conns /\ kind[m.offer] = "collection"
          /\ (m.key = NoConn \/ kind[m.key] = "collection")

InSeq(m, q) == \E i \in DOMAIN q : q[i] = m

Messages(s) == \A m \in Message : /\ InSeq(m, toSrv[s]) => SrvMsg(s, m)
                                  /\ InSeq(m, toCli[s]) => CliMsg(s, m)

Once(q) == \A i, j \in DOMAIN q :
              q[i].type = "ready2" /\ q[j].type = "ready2" => i = j
Led(q) == \A i \in DOMAIN q :
              q[i].type = "alltracks" => \E j \in 1..(i - 1) : q[j].type = "ready2"

(* A control connection is greeted once, and tracks follow the greeting. *)
Order(s) ==
    /\ cli[s] \in Conns /\ kind[cli[s]] = "control" => Once(toSrv[s])
    /\ ~(srv[s] \in Conns /\ ready[srv[s]]) => Led(toSrv[s])

Links == \A s \in Socks : Dialler(s) /\ Acceptor(s) /\ Messages(s) /\ Order(s)

HInv == LInv /\ Blank /\ KeyKind /\ Offered /\ Invited /\ Sided /\ Links /\ ListedOnce

-----------------------------------------------------------------------------
(* Sequences of messages *)

LEMMA OnceTail ==
  ASSUME NEW q \in Seq(Message), q # <<>>, Once(q)
  PROVE  /\ Once(Tail(q))
         /\ Head(q).type = "ready2" => \A i \in DOMAIN Tail(q) : Tail(q)[i].type # "ready2"
<1> DEFINE r == Tail(q)
<1>1. /\ Len(q) \in Nat \ {0} /\ DOMAIN q = 1..Len(q) /\ DOMAIN r = 1..(Len(q) - 1)
      /\ \A i \in 1..(Len(q) - 1) : r[i] = q[i + 1] /\ i + 1 \in 1..Len(q)
      /\ Head(q) = q[1] /\ 1 \in 1..Len(q)
  OBVIOUS
<1> HIDE DEF r
<1>2. \A i, j \in DOMAIN q : q[i].type = "ready2" /\ q[j].type = "ready2" => i = j
  BY DEF Once
<1>3. Once(r)
  <2> SUFFICES ASSUME NEW i \in DOMAIN r, NEW j \in DOMAIN r,
                      r[i].type = "ready2", r[j].type = "ready2"
               PROVE  i = j
    BY DEF Once
  <2>1. i + 1 \in DOMAIN q /\ j + 1 \in DOMAIN q /\ r[i] = q[i + 1] /\ r[j] = q[j + 1]
    BY <1>1
  <2>2. i + 1 = j + 1
    BY <1>2, <2>1
  <2> QED BY <1>1, <2>2
<1>4. ASSUME q[1].type = "ready2", NEW i \in DOMAIN r PROVE r[i].type # "ready2"
  <2>1. i + 1 \in DOMAIN q /\ r[i] = q[i + 1] /\ i + 1 # 1 /\ 1 \in DOMAIN q
    BY <1>1
  <2> QED BY <1>2, <1>4, <2>1
<1> QED BY <1>1, <1>3, <1>4 DEF r

LEMMA LedTail ==
  ASSUME NEW q \in Seq(Message), q # <<>>, Led(q), Head(q).type # "ready2"
  PROVE  Led(Tail(q))
<1> DEFINE r == Tail(q)
<1>1. /\ Len(q) \in Nat \ {0} /\ DOMAIN q = 1..Len(q) /\ DOMAIN r = 1..(Len(q) - 1)
      /\ \A i \in 1..(Len(q) - 1) : r[i] = q[i + 1] /\ i + 1 \in 1..Len(q)
      /\ Head(q) = q[1] /\ 1 \in 1..Len(q)
  OBVIOUS
<1> HIDE DEF r
<1> SUFFICES ASSUME NEW i \in DOMAIN r, r[i].type = "alltracks"
             PROVE  \E j \in 1..(i - 1) : r[j].type = "ready2"
  BY DEF Led, r
<1>2. i + 1 \in DOMAIN q /\ q[i + 1].type = "alltracks" /\ (i + 1) - 1 = i
  BY <1>1
<1>3. PICK j \in 1..i : q[j].type = "ready2"
  BY <1>2 DEF Led
<1>4. j # 1 /\ j - 1 \in 1..(i - 1) /\ (j - 1) + 1 = j /\ j - 1 \in 1..(Len(q) - 1)
  BY <1>1, <1>3
<1>5. r[j - 1].type = "ready2"
  BY <1>1, <1>3, <1>4
<1> QED BY <1>4, <1>5

(* What is written behind a sequence keeps both, unless a second ready2, or  *)
(* tracks without a ready2, are written.                                     *)
LEMMA OrderGrows ==
  ASSUME NEW q \in Seq(Message), NEW r \in Seq(Message)
  PROVE  /\ Once(q) /\ (\A i \in DOMAIN r : r[i].type # "ready2") => Once(q \o r)
         /\ Once(r) /\ (\A i \in DOMAIN q : q[i].type # "ready2") => Once(q \o r)
         /\ Led(q) /\ Led(r) => Led(q \o r)
         /\ (\A i \in DOMAIN r : r[i].type # "alltracks") => Led(r)
<1> DEFINE u == q \o r
           k == Len(q)
<1>1. /\ k \in Nat /\ Len(r) \in Nat /\ DOMAIN q = 1..k /\ DOMAIN r = 1..Len(r)
      /\ DOMAIN u = 1..(k + Len(r))
      /\ \A i \in 1..(k + Len(r)) : u[i] = IF i <= k THEN q[i] ELSE r[i - k]
  OBVIOUS
<1> HIDE DEF u, k
<1>2. ASSUME NEW i \in DOMAIN u
      PROVE  \/ i <= k /\ i \in DOMAIN q /\ u[i] = q[i]
             \/ ~(i <= k) /\ i - k \in DOMAIN r /\ u[i] = r[i - k]
  BY <1>1
<1>3. ASSUME Once(q), \A i \in DOMAIN r : r[i].type # "ready2"
      PROVE  Once(u)
  BY <1>2, <1>3 DEF Once
<1>4. ASSUME Once(r), \A i \in DOMAIN q : q[i].type # "ready2"
      PROVE  Once(u)
  <2> SUFFICES ASSUME NEW i \in DOMAIN u, NEW j \in DOMAIN u,
                      u[i].type = "ready2", u[j].type = "ready2"
               PROVE  i = j
    BY DEF Once
  <2>1. i - k = j - k
    BY <1>2, <1>4 DEF Once
  <2> QED BY <1>1, <2>1
<1>5. ASSUME Led(q), Led(r)
      PROVE  Led(u)
  <2> SUFFICES ASSUME NEW i \in DOMAIN u, u[i].type = "alltracks"
               PROVE  \E j \in 1..(i - 1) : u[j].type = "ready2"
    BY DEF Led
  <2>1. CASE i <= k /\ i \in DOMAIN q /\ u[i] = q[i]
    <3>1. PICK j \in 1..(i - 1) : q[j].type = "ready2"
      BY <1>5, <2>1 DEF Led
    <3>2. j \in 1..(k + Len(r)) /\ j <= k
      BY <1>1, <2>1
    <3> QED BY <1>1, <3>1, <3>2
  <2>2. CASE ~(i <= k) /\ i - k \in DOMAIN r /\ u[i] = r[i - k]
    <3>1. PICK j \in 1..((i - k) - 1) : r[j].type = "ready2"
      BY <1>5, <2>2 DEF Led
    <3>2. /\ k + j \in 1..(k + Len(r)) /\ ~(k + j <= k) /\ (k + j) - k = j
          /\ k + j \in 1..(i - 1)
      BY <1>1, <2>2, <3>1
    <3>3. u[k + j].type = "ready2"
      BY <1>1, <3>1, <3>2
    <3> QED BY <3>2, <3>3
  <2> QED BY <1>2, <2>1, <2>2
<1>6. (\A i \in DOMAIN r : r[i].type # "alltracks") => Led(r)
  BY DEF Led
<1> QED BY <1>3, <1>4, <1>5, <1>6 DEF u

LEMMA InConcat ==
  ASSUME NEW q \in Seq(Message), NEW r \in Seq(Message), NEW m, InSeq(m, q \o r)
  PROVE  InSeq(m, q) \/ InSeq(m, r)
<1> DEFINE u == q \o r
<1>1. PICK i \in DOMAIN u : u[i] = m
  BY DEF InSeq
<1>2. /\ Len(q) \in Nat /\ Len(r) \in Nat
      /\ DOMAIN q = 1..Len(q) /\ DOMAIN r = 1..Len(r) /\ DOMAIN u = 1..(Len(q) + Len(r))
      /\ \A j \in 1..(Len(q) + Len(r)) : u[j] = IF j <= Len(q) THEN q[j] ELSE r[j - Len(q)]
  OBVIOUS
<1> HIDE DEF u
<1>3. CASE i <= Len(q)
  <2>1. i \in DOMAIN q /\ q[i] = m
    BY <1>1, <1>2, <1>3
  <2> QED BY <2>1 DEF InSeq
<1>4. CASE ~(i <= Len(q))
  <2>1. i - Len(q) \in DOMAIN r /\ r[i - Len(q)] = m
    BY <1>1, <1>2, <1>4
  <2> QED BY <2>1 DEF InSeq
<1> QED BY <1>3, <1>4

LEMMA InTail ==
  ASSUME NEW q \in Seq(Message), q # <<>>
  PROVE  /\ \A m : InSeq(m, Tail(q)) => InSeq(m, q)
         /\ InSeq(Head(q), q) /\ Head(q) \in Message
<1> DEFINE r == Tail(q)
<1>1. /\ Len(q) \in Nat \ {0} /\ DOMAIN q = 1..Len(q) /\ DOMAIN r = 1..(Len(q) - 1)
      /\ \A i \in 1..(Len(q) - 1) : r[i] = q[i + 1] /\ i + 1 \in 1..Len(q)
      /\ Head(q) = q[1] /\ 1 \in 1..Len(q) /\ q[1] \in Message
  OBVIOUS
<1> HIDE DEF r
<1>2. ASSUME NEW m, InSeq(m, r) PROVE InSeq(m, q)
  <2>1. PICK i \in DOMAIN r : r[i] = m
    BY <1>2 DEF InSeq
  <2>2. i + 1 \in DOMAIN q /\ q[i + 1] = m
    BY <1>1, <2>1
  <2> QED BY <2>2 DEF InSeq
<1>3. InSeq(Head(q), q)
  BY <1>1 DEF InSeq
<1> QED BY <1>1, <1>2, <1>3 DEF r

LEMMA InEmpty == \A m : ~InSeq(m, <<>>)
  BY DEF InSeq

LEMMA InOne == \A m, x : InSeq(m, <<x>>) <=> m = x
<1> SUFFICES ASSUME NEW m, NEW x PROVE InSeq(m, <<x>>) <=> m = x
  OBVIOUS
<1>1. DOMAIN <<x>> = {1} /\ <<x>>[1] = x
  OBVIOUS
<1> QED BY <1>1 DEF InSeq

LEMMA InTyped ==
  ASSUME NEW q \in Seq(Message), NEW i \in DOMAIN q
  PROVE  q[i] \in Message /\ InSeq(q[i], q)
<1>1. q[i] \in Message
  OBVIOUS
<1> QED BY <1>1 DEF InSeq

-----------------------------------------------------------------------------
(* Ends and messages *)

LEMMA HInvParts ==
  HInv => /\ LInv /\ TInv /\ TypeOK /\ SockShape /\ Fresh /\ ListedUsable /\ ListedOnce
          /\ Blank /\ KeyKind /\ Offered /\ Invited /\ Sided /\ Links
  BY DEF HInv, LInv, TInv

(* Which end of s a Connection is that has s. *)
LEMMA EndsOf ==
  ASSUME TInv
  PROVE  /\ \A c \in Conns : sockOf[c] \in Socks =>
               /\ AtClient(c) <=> c = cli[sockOf[c]]
               /\ ~AtClient(c) => c = srv[sockOf[c]]
         /\ \A s \in Socks : srv[s] \in Conns => cli[s] \in Conns
         /\ \A s \in Socks : cli[s] \in Conns => HostOf(cli[s]) = s[1]
         /\ \A c \in Conns : sockOf[c] # NoSock => sockOf[c] \in Socks
<1>1. TypeOK /\ SockShape
  BY DEF TInv
<1>2. \A c \in Conns : sockOf[c] # NoSock => sockOf[c] \in Socks
  BY <1>1 DEF TypeOK
<1>3. ASSUME NEW c \in Conns, sockOf[c] \in Socks
      PROVE  (AtClient(c) <=> c = cli[sockOf[c]]) /\ (~AtClient(c) => c = srv[sockOf[c]])
  BY <1>1, <1>3 DEF SockShape, AtClient
<1>4. ASSUME NEW s \in Socks, srv[s] \in Conns
      PROVE  cli[s] \in Conns
  <2>1. srv[s] # NoConn
    BY <1>4, NoConnNotConn
  <2>2. serverEnd[s] # "none"
    BY <1>1, <2>1 DEF SockShape, Accepted
  <2> QED BY <1>1, <2>2 DEF SockShape, Accepted, Dialled
<1>5. \A s \in Socks : cli[s] \in Conns => HostOf(cli[s]) = s[1]
  BY <1>1 DEF SockShape, Dialled
<1> QED BY <1>2, <1>3, <1>4, <1>5

(* Classes and the ends of a socket are given once, and m_ready is not reset. *)
Grows ==
    /\ \A x \in Conns : kind[x] # "none" => kind'[x] = kind[x]
    /\ \A x \in Conns : ready[x] => ready'[x]
    /\ \A s \in Socks : cli[s] \in Conns => cli'[s] = cli[s]
    /\ \A s \in Socks : srv[s] \in Conns => srv'[s] = srv[s]

LEMMA GrowsAt ==
  ASSUME Grows, NEW x \in Conns
  PROVE  (kind[x] # "none" => kind'[x] = kind[x]) /\ (ready[x] => ready'[x])
<1>1. \A y \in Conns : kind[y] # "none" => kind'[y] = kind[y]
  BY DEF Grows
<1>2. \A y \in Conns : ready[y] => ready'[y]
  BY DEF Grows
<1>3. kind[x] # "none" => kind'[x] = kind[x]
  BY <1>1
<1>4. ready[x] => ready'[x]
  BY <1>2, Zenon
<1> QED BY <1>3, <1>4

LEMMA GrowsEnds ==
  ASSUME Grows, NEW s \in Socks
  PROVE  (cli[s] \in Conns => cli'[s] = cli[s]) /\ (srv[s] \in Conns => srv'[s] = srv[s])
<1>1. \A t \in Socks : cli[t] \in Conns => cli'[t] = cli[t]
  BY DEF Grows
<1>2. \A t \in Socks : srv[t] \in Conns => srv'[t] = srv[t]
  BY DEF Grows
<1> QED BY <1>1, <1>2

LEMMA SrvMsgKept ==
  ASSUME HInv, Grows, NEW s \in Socks, NEW m \in Message, SrvMsg(s, m),
         m.type = "ready2" /\ kind[cli[s]] = "control" => ~ready'[srv[s]]
  PROVE  SrvMsg(s, m)'
<1>1. cli[s] \in Conns /\ kind[cli[s]] # "none"
  BY HInvParts DEF SrvMsg, Links, Dialler
<1>2. cli'[s] = cli[s] /\ kind'[cli[s]] = kind[cli[s]] /\ (ready[cli[s]] => ready'[cli[s]])
  BY <1>1, GrowsAt, GrowsEnds, Zenon
<1>3. m.key \in Conns \cup {NoConn}
  BY DEF Message
<1>4. m.type # "first" => srv[s] \in Conns /\ srv'[s] = srv[s] /\ ready[cli[s]] /\ ready'[cli[s]]
  BY <1>1, <1>2, GrowsEnds, Zenon DEF SrvMsg
<1>5. m.type = "first" => m.key = NoConn \/ kind'[m.key] = kind'[cli[s]]
  BY <1>1, <1>2, <1>3 DEF SrvMsg, Grows
<1>6. m.type = "library-offer" => m.key \in Conns /\ kind'[m.key] = "collection"
  BY DEF SrvMsg, Grows
<1> QED BY <1>1, <1>2, <1>4, <1>5, <1>6 DEF SrvMsg

LEMMA CliMsgKept ==
  ASSUME HInv, Grows, NEW s \in Socks, NEW m \in Message, CliMsg(s, m)
  PROVE  CliMsg(s, m)'
<1>1. srv[s] \in Conns /\ cli[s] \in Conns
  BY HInvParts, EndsOf DEF CliMsg
<1>2. cli'[s] = cli[s] /\ srv'[s] = srv[s] /\ (ready[cli[s]] => ready'[cli[s]])
  BY <1>1, GrowsAt, GrowsEnds, Zenon
<1>3. m.key \in Conns \cup {NoConn}
  BY DEF Message
<1>4. \A x \in Conns : kind[x] = "collection" => kind'[x] = "collection"
  BY DEF Grows
<1> QED BY <1>1, <1>2, <1>3, <1>4 DEF CliMsg

(* A socket that nobody has dialled has no messages for the accepting end. *)
LEMMA NoneYet ==
  ASSUME HInv, NEW s \in Socks, cli[s] \notin Conns, toSrv'[s] = toSrv[s]
  PROVE  Order(s)'
<1>1. toSrv[s] \in Seq(Message) /\ Messages(s)
  BY HInvParts DEF TypeOK, Links
<1>2. \A i \in DOMAIN toSrv[s] : SrvMsg(s, toSrv[s][i])
  BY <1>1, InTyped DEF Messages
<1>3. DOMAIN toSrv[s] = {}
  BY <1>2 DEF SrvMsg
<1> QED BY <1>3 DEF Order, Once, Led

LEMMA MessagesFrom ==
  ASSUME HInv, Grows, NEW s \in Socks,
         \A m \in Message : InSeq(m, toSrv'[s]) =>
            \/ SrvMsg(s, m)'
            \/ /\ InSeq(m, toSrv[s])
               /\ m.type = "ready2" /\ kind[cli[s]] = "control" => ~ready'[srv[s]],
         \A m \in Message : InSeq(m, toCli'[s]) => InSeq(m, toCli[s]) \/ CliMsg(s, m)'
  PROVE  Messages(s)'
<1>1. Messages(s)
  BY HInvParts DEF Links
<1>2. ASSUME NEW m \in Message, InSeq(m, toSrv'[s]) PROVE SrvMsg(s, m)'
  <2>1. InSeq(m, toSrv[s]) => SrvMsg(s, m)
    BY <1>1 DEF Messages
  <2> QED BY <1>2, <2>1, SrvMsgKept
<1>3. ASSUME NEW m \in Message, InSeq(m, toCli'[s]) PROVE CliMsg(s, m)'
  <2>1. InSeq(m, toCli[s]) => CliMsg(s, m)
    BY <1>1 DEF Messages
  <2> QED BY <1>3, <2>1, CliMsgKept
<1> QED BY <1>2, <1>3 DEF Messages

(* What a socket whose queues a step does not write to keeps. *)
LEMMA QueuesKept ==
  ASSUME HInv, TInv', Grows, NEW s \in Socks,
         toSrv'[s] = toSrv[s], toCli'[s] = toCli[s],
         srv'[s] = srv[s], srv[s] \in Conns => ready'[srv[s]] = ready[srv[s]]
  PROVE  Messages(s)' /\ Order(s)'
<1>1. Messages(s) /\ Order(s)
  BY HInvParts DEF Links
<1>2. Messages(s)'
  <2>1. ASSUME NEW m \in Message, InSeq(m, toSrv[s]) PROVE SrvMsg(s, m)'
    <3>1. SrvMsg(s, m)
      BY <1>1, <2>1 DEF Messages
    <3>2. m.type = "ready2" /\ kind[cli[s]] = "control" => ~ready'[srv[s]]
      BY <3>1 DEF SrvMsg
    <3> QED BY <3>1, <3>2, SrvMsgKept
  <2>2. ASSUME NEW m \in Message, InSeq(m, toCli[s]) PROVE CliMsg(s, m)'
    BY <1>1, <2>2, CliMsgKept DEF Messages
  <2> QED BY <2>1, <2>2 DEF Messages
<1>3. Order(s)'
  <2>1. CASE cli[s] \in Conns
    <3>1. cli'[s] = cli[s] /\ kind'[cli[s]] = kind[cli[s]]
      BY <2>1, GrowsAt, GrowsEnds, HInvParts, Zenon DEF Links, Dialler
    <3> QED BY <1>1, <2>1, <3>1 DEF Order
  <2>2. CASE cli[s] \notin Conns
    BY <2>2, NoneYet
  <2> QED BY <2>1, <2>2
<1> QED BY <1>2, <1>3

-----------------------------------------------------------------------------
(* Steps that write and read no message, and construct nothing *)

HNext == /\ Blank' /\ KeyKind' /\ Offered' /\ Invited' /\ Sided' /\ Links' /\ ListedOnce'

LEMMA HNextInv == LInv' /\ HNext => HInv'
  BY DEF HInv, HNext

LEMMA QuietKept ==
  ASSUME HInv,
         UNCHANGED <<invites, offers, kind, firstKey, ready, sockOf, outbound,
                     to, cli, srv, toSrv, toCli>>,
         \A x \in Socks : clientEnd'[x] = "open" => clientEnd[x] = "open",
         \A c \in Conns : ccs'[c] \in {0, ccs[c]}
  PROVE  HNext
<1>1. Blank' /\ KeyKind' /\ Offered' /\ Invited'
  BY HInvParts DEF Blank, KeyKind, Offered, Invited
<1>2. ListedOnce'
  <2>1. \A c \in Conns : ccs[c] <= 1
    BY HInvParts DEF ListedOnce
  <2> QED BY <2>1 DEF ListedOnce
<1>3. Sided'
  BY HInvParts DEF Sided, AtClient
<1>4. Links'
  <2> SUFFICES ASSUME NEW s \in Socks
               PROVE  Dialler(s)' /\ Acceptor(s)' /\ Messages(s)' /\ Order(s)'
    BY DEF Links
  <2>1. Dialler(s) /\ Acceptor(s) /\ Messages(s) /\ Order(s)
    BY HInvParts DEF Links
  <2>2. Dialler(s)'
    BY <2>1 DEF Dialler
  <2>3. Acceptor(s)'
    BY <2>1 DEF Acceptor
  <2>4. Messages(s)'
    BY <2>1 DEF Messages, SrvMsg, CliMsg
  <2>5. Order(s)'
    BY <2>1 DEF Order
  <2> QED BY <2>2, <2>3, <2>4, <2>5
<1> QED BY <1>1, <1>2, <1>3, <1>4 DEF HNext

(* The dialling object takes the socket s. *)
LEMMA TakesSocket ==
  ASSUME HInv, TInv', NEW s \in Socks, cli[s] \in Conns,
         sockOf' = [sockOf EXCEPT ![cli[s]] = s],
         UNCHANGED <<invites, offers, kind, firstKey, ready, ccs, to, cli, srv>>
  PROVE  /\ Blank' /\ KeyKind' /\ Offered' /\ Invited' /\ ListedOnce' /\ Grows
         /\ \A t \in Socks : Dialler(t)' /\ Acceptor(t)'
<1> DEFINE c == cli[s]
<1>1. TypeOK /\ Dialler(s) /\ kind[c] # "none"
  BY HInvParts DEF Links, Dialler
<1>2. sockOf'[c] = s /\ \A x \in Conns : x # c => sockOf'[x] = sockOf[x]
  BY <1>1 DEF TypeOK
<1>3. kind[c] = "control" => firstKey[c] # NoConn
  BY <1>1 DEF Dialler
<1>4. Blank'
  BY <1>1, <1>2, HInvParts DEF Blank
<1>5. KeyKind' /\ Invited' /\ ListedOnce'
  BY HInvParts DEF KeyKind, Invited, ListedOnce
<1>6. Offered'
  BY <1>1, <1>2, <1>3, HInvParts DEF Offered, TypeOK
<1>7. Grows
  BY Zenon DEF Grows
<1>8. ASSUME NEW t \in Socks
      PROVE  Dialler(t)' /\ Acceptor(t)'
  <2>1. Dialler(t) /\ Acceptor(t)
    BY HInvParts DEF Links
  <2>2. Dialler(t)'
    BY <1>1, <1>2, <2>1 DEF Dialler
  <2>3. Acceptor(t)'
    BY <1>1, <1>2, <1>3, <2>1 DEF Acceptor
  <2> QED BY <2>2, <2>3
<1> QED BY <1>4, <1>5, <1>6, <1>7, <1>8

LEMMA SocketErrorKept ==
  ASSUME HInv, TInv', NEW s \in Socks, clientEnd[s] # "none", SocketError(s)
  PROVE  HNext
<1> DEFINE c == cli[s]
<1>1. c \in Conns /\ TypeOK
  BY HInvParts DEF SockShape, Dialled
<1>2. CASE Crash(s[1])
  BY <1>2, QuietKept DEF Crash, connVars
<1>3. CASE ~Crash(s[1])
  <2>1. /\ sockOf' = [sockOf EXCEPT ![c] = s]
        /\ clientEnd' = [clientEnd EXCEPT ![s] = "closed"]
        /\ UNCHANGED <<invites, offers, kind, firstKey, ready, ccs, outbound, to, cli,
                       srv, toSrv, toCli>>
    BY <1>3 DEF SocketError, hostVars
  <2>2. /\ Blank' /\ KeyKind' /\ Offered' /\ Invited' /\ ListedOnce' /\ Grows
        /\ \A t \in Socks : Dialler(t)' /\ Acceptor(t)'
    BY <1>1, <2>1, TakesSocket
  <2>3. Sided'
    <3> SUFFICES ASSUME NEW x \in Conns, sockOf'[x] \in Socks
                 PROVE  /\ ~AtClient(x)' => ~outbound'[x]
                        /\ AtClient(x)' /\ clientEnd'[sockOf'[x]] = "open" => outbound'[x]
      BY DEF Sided
    <3>1. CASE x = c
      BY <1>1, <2>1, <3>1 DEF AtClient, TypeOK
    <3>2. CASE x # c
      <4>1. sockOf'[x] = sockOf[x]
        BY <1>1, <2>1, <3>2 DEF TypeOK
      <4>2. clientEnd'[sockOf[x]] = "open" => clientEnd[sockOf[x]] = "open"
        BY <1>1, <2>1, <4>1 DEF TypeOK
      <4> QED BY <2>1, <4>1, <4>2, HInvParts DEF Sided, AtClient
    <3> QED BY <3>1, <3>2
  <2>4. ASSUME NEW t \in Socks PROVE Messages(t)' /\ Order(t)'
    BY <2>1, <2>2, QueuesKept
  <2> QED BY <2>2, <2>3, <2>4 DEF HNext, Links
<1> QED BY <1>2, <1>3

LEMMA SocketConnectedKept ==
  ASSUME HInv, TInv', NEW s \in Socks, SocketConnected(s)
  PROVE  HNext
<1> DEFINE c == cli[s]
           one == Greeting(c, TRUE)
<1>1. c \in Conns /\ TypeOK /\ clientEnd[s] = "connecting"
  BY HInvParts DEF SockShape, Dialled, SocketConnected
<1>2. CASE Crash(s[1])
  BY <1>2, QuietKept DEF Crash, connVars
<1>3. CASE ~Crash(s[1])
  <2>1. /\ sockOf' = [sockOf EXCEPT ![c] = s]
        /\ outbound' = [outbound EXCEPT ![c] = TRUE]
        /\ clientEnd' = [clientEnd EXCEPT ![s] = "open"]
        /\ toSrv' = [toSrv EXCEPT ![s] = IF up[s] THEN @ \o one ELSE @]
        /\ UNCHANGED <<invites, offers, kind, firstKey, ready, ccs, to, cli, srv, toCli>>
    BY <1>3 DEF SocketConnected, hostVars
  <2>2. /\ Blank' /\ KeyKind' /\ Offered' /\ Invited' /\ ListedOnce' /\ Grows
        /\ \A t \in Socks : Dialler(t)' /\ Acceptor(t)'
    BY <1>1, <2>1, TakesSocket
  <2>3. Sided'
    <3> SUFFICES ASSUME NEW x \in Conns, sockOf'[x] \in Socks
                 PROVE  /\ ~AtClient(x)' => ~outbound'[x]
                        /\ AtClient(x)' /\ clientEnd'[sockOf'[x]] = "open" => outbound'[x]
      BY DEF Sided
    <3>1. CASE x = c
      BY <1>1, <2>1, <3>1 DEF AtClient, TypeOK
    <3>2. CASE x # c
      <4>1. sockOf'[x] = sockOf[x] /\ outbound'[x] = outbound[x]
        BY <1>1, <2>1, <3>2 DEF TypeOK
      <4>2. sockOf[x] # s => clientEnd'[sockOf[x]] = clientEnd[sockOf[x]]
        BY <1>1, <2>1, <4>1 DEF TypeOK
      <4>3. sockOf[x] = s => ~AtClient(x)
        BY <3>2 DEF AtClient
      <4> QED BY <2>1, <4>1, <4>2, <4>3, HInvParts DEF Sided, AtClient
    <3> QED BY <3>1, <3>2
  <2>4. PICK f \in Message : /\ one = <<f>> /\ f.type = "first" /\ f.key = firstKey[c]
    <3>1. MsgKey("first", firstKey[c]) \in Message
      BY <1>1, MessageTypes DEF TypeOK
    <3> QED BY <3>1 DEF Greeting, MsgKey
  <2>5. toSrv[s] \in Seq(Message) /\ <<f>> \in Seq(Message)
    BY <1>1 DEF TypeOK
  <2>6. toSrv'[s] = IF up[s] THEN toSrv[s] \o <<f>> ELSE toSrv[s]
    BY <1>1, <2>1, <2>4 DEF TypeOK
  <2> HIDE DEF one
  <2>7. SrvMsg(s, f)'
    <3>1. f.key = NoConn \/ kind[f.key] = kind[c]
      BY <1>1, <2>4, HInvParts DEF KeyKind
    <3> QED BY <1>1, <2>1, <2>4, <3>1 DEF SrvMsg
  <2>8. Messages(s)'
    <3>1. ASSUME NEW m \in Message, InSeq(m, toSrv'[s]) PROVE InSeq(m, toSrv[s]) \/ SrvMsg(s, m)'
      <4>1. InSeq(m, toSrv[s]) \/ m = f
        <5>1. CASE up[s]
          <6>1. InSeq(m, toSrv[s] \o <<f>>)
            BY <2>6, <3>1, <5>1
          <6>2. InSeq(m, toSrv[s]) \/ InSeq(m, <<f>>)
            BY <2>5, <6>1, InConcat
          <6> QED BY <6>2, InOne
        <5>2. CASE ~up[s]
          BY <2>6, <3>1, <5>2
        <5> QED BY <5>1, <5>2
      <4> QED BY <2>7, <4>1
    <3>2. ASSUME NEW m \in Message, InSeq(m, toSrv[s])
          PROVE  m.type = "ready2" /\ kind[cli[s]] = "control" => ~ready'[srv[s]]
      BY <2>1, <3>2, HInvParts DEF Links, Messages, SrvMsg
    <3> QED BY <2>1, <2>2, <3>1, <3>2, MessagesFrom
  <2>9. Order(s)'
    <3>1. Order(s)
      BY HInvParts DEF Links
    <3>2. \A i \in DOMAIN <<f>> : <<f>>[i].type # "ready2" /\ <<f>>[i].type # "alltracks"
      BY <2>4
    <3> HIDE DEF c
    <3>3. (Once(toSrv[s]) => Once(toSrv'[s])) /\ (Led(toSrv[s]) => Led(toSrv'[s]))
      BY <2>5, <2>6, <3>2, OrderGrows
    <3> QED BY <2>1, <3>1, <3>3 DEF Order
  <2>10. ASSUME NEW t \in Socks PROVE Messages(t)' /\ Order(t)'
    <3>1. t # s => toSrv'[t] = toSrv[t]
      BY <1>1, <2>1 DEF TypeOK
    <3> QED BY <2>1, <2>2, <2>8, <2>9, <3>1, QueuesKept
  <2> QED BY <2>2, <2>3, <2>10 DEF HNext, Links
<1> QED BY <1>2, <1>3

LEMMA ServentReadyReadKept ==
  ASSUME HInv, TInv', NEW s \in Socks, ServentReadyRead(s)
  PROVE  HNext
<1> DEFINE h == to[s]
           c == Head(toSrv[s]).key
           one == Greeting(c, FALSE)
<1>1. /\ h \in Hosts /\ TypeOK /\ SockShape /\ srv[s] \notin Conns
      /\ toSrv[s] \in Seq(Message) /\ toSrv[s] # <<>>
  BY HInvParts, NoConnNotConn DEF SockShape, Accepted, ServentReadyRead, TypeOK
<1>2. \A m \in Message : InSeq(m, toSrv[s]) => SrvMsg(s, m) /\ m.type = "first"
  BY <1>1, HInvParts DEF Links, Messages, SrvMsg
<1>3. \A m \in Message : ~InSeq(m, toCli[s])
  BY <1>1, HInvParts DEF Links, Messages, CliMsg
<1>4. /\ Tail(toSrv[s]) \in Seq(Message)
      /\ \A m \in Message : InSeq(m, Tail(toSrv[s])) => SrvMsg(s, m) /\ m.type = "first"
      /\ SrvMsg(s, Head(toSrv[s])) /\ Head(toSrv[s]).type = "first"
  BY <1>1, <1>2, InTail
<1>5. Once(Tail(toSrv[s])) /\ Led(Tail(toSrv[s]))
  <2> DEFINE q == Tail(toSrv[s])
  <2>1. \A i \in DOMAIN q : q[i].type = "first"
    BY <1>4, InTyped
  <2> HIDE DEF q
  <2>2. Once(q) /\ Led(q)
    BY <2>1 DEF Once, Led
  <2> QED BY <2>2 DEF q
<1>6. ASSUME toSrv' = [toSrv EXCEPT ![s] = Tail(@)], Grows, UNCHANGED ready
      PROVE  /\ Order(s)'
             /\ \A m \in Message : InSeq(m, toSrv'[s]) => SrvMsg(s, m)'
  <2>1. toSrv'[s] = Tail(toSrv[s])
    BY <1>1, <1>6 DEF TypeOK
  <2>2. Order(s)'
    BY <1>5, <2>1 DEF Order
  <2>3. ASSUME NEW m \in Message, InSeq(m, toSrv'[s]) PROVE SrvMsg(s, m)'
    <3>1. SrvMsg(s, m) /\ m.type = "first"
      BY <1>4, <2>1, <2>3
    <3> QED BY <1>6, <3>1, SrvMsgKept
  <2> QED BY <2>2, <2>3
<1>7. CASE c \notin offers[h]
  <2>1. /\ toSrv' = [toSrv EXCEPT ![s] = Tail(@)]
        /\ UNCHANGED <<invites, offers, kind, firstKey, ready, ccs, outbound, sockOf, to,
                       cli, srv, clientEnd, toCli>>
    BY <1>7 DEF ServentReadyRead, hostVars, connVars
  <2>2. /\ Blank' /\ KeyKind' /\ Offered' /\ Invited' /\ ListedOnce' /\ Grows
        /\ Sided'
    <3>1. Blank' /\ KeyKind' /\ Offered' /\ Invited'
      BY <2>1, HInvParts DEF Blank, KeyKind, Offered, Invited
    <3>2. ListedOnce' /\ Sided'
      BY <2>1, HInvParts DEF ListedOnce, Sided, AtClient
    <3>3. Grows
      BY <2>1, Zenon DEF Grows
    <3> QED BY <3>1, <3>2, <3>3
  <2>3. ASSUME NEW t \in Socks PROVE Dialler(t)' /\ Acceptor(t)'
    <3>1. Dialler(t) /\ Acceptor(t)
      BY HInvParts DEF Links
    <3>2. Dialler(t)'
      BY <2>1, <3>1 DEF Dialler
    <3>3. Acceptor(t)'
      BY <2>1, <3>1 DEF Acceptor
    <3> QED BY <3>2, <3>3
  <2>4. Messages(s)'
    BY <1>3, <1>6, <2>1, <2>2 DEF Messages
  <2>5. ASSUME NEW t \in Socks PROVE Messages(t)' /\ Order(t)'
    <3>1. t # s => toSrv'[t] = toSrv[t]
      BY <1>1, <2>1 DEF TypeOK
    <3> QED BY <1>6, <2>1, <2>2, <2>4, <3>1, QueuesKept
  <2> QED BY <2>2, <2>3, <2>5 DEF HNext, Links
<1>8. CASE Crash(h)
  BY <1>8, QuietKept DEF Crash, connVars
<1>9. CASE c \in offers[h] /\ ~Crash(h)
  <2>1. /\ offers' = [offers EXCEPT ![h] = @ \ {c}]
        /\ outbound' = [outbound EXCEPT ![c] = FALSE]
        /\ sockOf' = [sockOf EXCEPT ![c] = s]
        /\ srv' = [srv EXCEPT ![s] = c]
        /\ toSrv' = [toSrv EXCEPT ![s] = Tail(@)]
        /\ toCli' = [toCli EXCEPT ![s] = IF up[s] THEN @ \o one ELSE @]
        /\ UNCHANGED <<invites, kind, firstKey, ready, ccs, to, cli, clientEnd>>
    BY <1>9 DEF ServentReadyRead, OffersAfterUse
  <2>2. /\ c \in Conns /\ HostOf(c) = h /\ kind[c] # "none"
        /\ kind[c] = "control" => firstKey[c] = NoConn /\ ~ready[c] /\ sockOf[c] = NoSock
    BY <1>1, <1>9, HInvParts DEF Offered, TypeOK
  <2>3. cli[s] \in Conns /\ kind[c] = kind[cli[s]] /\ c # cli[s]
    <3>1. cli[s] \in Conns /\ kind[c] = kind[cli[s]]
      BY <1>4, <2>2, NoConnNotConn DEF SrvMsg
    <3>2. Dialler(s) /\ HostOf(cli[s]) = s[1]
      BY <3>1, HInvParts, EndsOf DEF Links
    <3> QED BY <2>2, <3>1, <3>2 DEF Dialler
  <2> HIDE DEF c
  <2>4. /\ sockOf'[c] = s /\ \A x \in Conns : x # c => sockOf'[x] = sockOf[x]
        /\ srv'[s] = c /\ \A t \in Socks : t # s => srv'[t] = srv[t]
        /\ toSrv'[s] = Tail(toSrv[s]) /\ \A t \in Socks : t # s => toSrv'[t] = toSrv[t]
        /\ \A t \in Socks : t # s => toCli'[t] = toCli[t]
    BY <1>1, <2>1, <2>2 DEF TypeOK
  <2>5. Grows
    <3>1. \A t \in Socks : srv[t] \in Conns => srv'[t] = srv[t]
      BY <1>1, <2>4
    <3> QED BY <2>1, <3>1, Zenon DEF Grows
  <2>6. Blank' /\ KeyKind' /\ Invited' /\ ListedOnce'
    <3>1. Blank'
      BY <2>1, <2>2, <2>4, HInvParts DEF Blank
    <3>2. KeyKind' /\ Invited' /\ ListedOnce'
      BY <2>1, HInvParts DEF KeyKind, Invited, ListedOnce
    <3> QED BY <3>1, <3>2
  <2>7. Offered'
    <3> SUFFICES ASSUME NEW g \in Hosts, NEW x \in offers'[g]
                 PROVE  /\ HostOf(x) = g /\ kind[x] # "none"
                        /\ kind[x] = "control" =>
                              firstKey[x] = NoConn /\ ~ready[x] /\ sockOf'[x] = NoSock
      BY <2>1 DEF Offered
    <3>1. x \in offers[g] /\ x \in Conns /\ (g = h => x # c)
      BY <1>1, <2>1 DEF TypeOK
    <3>2. HostOf(x) = g /\ x # c
      BY <2>2, <3>1, HInvParts DEF Offered
    <3> QED BY <2>4, <3>1, <3>2, HInvParts DEF Offered
  <2>8. Sided'
    <3> SUFFICES ASSUME NEW x \in Conns, sockOf'[x] \in Socks
                 PROVE  /\ ~AtClient(x)' => ~outbound'[x]
                        /\ AtClient(x)' /\ clientEnd'[sockOf'[x]] = "open" => outbound'[x]
      BY DEF Sided
    <3>1. CASE x = c
      BY <1>1, <2>1, <2>3, <3>1 DEF AtClient, TypeOK
    <3>2. CASE x # c
      <4>1. sockOf'[x] = sockOf[x] /\ outbound'[x] = outbound[x]
        BY <1>1, <2>1, <3>2 DEF TypeOK
      <4> QED BY <2>1, <4>1, HInvParts DEF Sided, AtClient
    <3> QED BY <3>1, <3>2
  <2>9. ASSUME NEW t \in Socks PROVE Dialler(t)' /\ Acceptor(t)'
    <3>1. Dialler(t) /\ Acceptor(t)
      BY HInvParts DEF Links
    <3>2. Dialler(t)'
      <4>1. cli[t] \in Conns /\ kind[cli[t]] = "control" => sockOf'[cli[t]] = sockOf[cli[t]]
        BY <2>2, <2>4, <3>1 DEF Dialler
      <4>2. srv[t] \in Conns => srv'[t] \in Conns
        BY <2>2, <2>4
      <4> QED BY <2>1, <3>1, <4>1, <4>2 DEF Dialler
    <3>3. Acceptor(t)'
      <4>1. CASE t = s
        BY <2>1, <2>2, <2>3, <2>4, <4>1 DEF Acceptor, h
      <4>2. CASE t # s
        <5>1. srv[t] \in Conns /\ kind[srv[t]] = "control" => sockOf'[srv[t]] = sockOf[srv[t]]
          BY <2>2, <2>4, <3>1, NoConnNotConn DEF Acceptor
        <5> QED BY <2>1, <2>4, <3>1, <4>2, <5>1 DEF Acceptor
      <4> QED BY <4>1, <4>2
    <3> QED BY <3>2, <3>3
  <2>10. Messages(s)'
    <3>1. PICK f \in Message : one = <<f>> /\ f.type = "ready"
      <4>1. Msg("ready") \in Message
        BY <2>2, MessageTypes
      <4> QED BY <4>1 DEF Greeting, Msg
    <3>2. toCli'[s] = IF up[s] THEN toCli[s] \o <<f>> ELSE toCli[s]
      BY <1>1, <2>1, <3>1 DEF TypeOK
    <3>3. CliMsg(s, f)'
      BY <2>2, <2>4, <3>1 DEF CliMsg
    <3>4. ASSUME NEW m \in Message, InSeq(m, toCli'[s]) PROVE CliMsg(s, m)'
      <4>1. CASE up[s]
        <5>1. InSeq(m, toCli[s] \o <<f>>)
          BY <3>2, <3>4, <4>1
        <5>2. toCli[s] \in Seq(Message) /\ <<f>> \in Seq(Message)
          BY <1>1 DEF TypeOK
        <5>3. InSeq(m, toCli[s]) \/ InSeq(m, <<f>>)
          BY <5>1, <5>2, InConcat
        <5>4. m = f
          BY <1>3, <5>3, InOne
        <5> QED BY <3>3, <5>4
      <4>2. CASE ~up[s]
        BY <1>3, <3>2, <3>4, <4>2
      <4> QED BY <4>1, <4>2
    <3> QED BY <1>6, <2>1, <2>5, <3>4 DEF Messages
  <2>11. ASSUME NEW t \in Socks PROVE Messages(t)' /\ Order(t)'
    <3>1. CASE t = s
      BY <1>6, <2>1, <2>5, <2>10, <3>1
    <3>2. CASE t # s
      BY <2>1, <2>4, <2>5, <3>2, QueuesKept
    <3> QED BY <3>1, <3>2
  <2> QED BY <2>6, <2>7, <2>8, <2>9, <2>11 DEF HNext, Links
<1> QED BY <1>7, <1>8, <1>9 DEF ServentReadyRead

-----------------------------------------------------------------------------
(* Steps that construct, dial or offer, and that make a Connection ready *)

(* A Connection may become ready. *)
MayReady(z) ==
    /\ kind[z] # "none"
    /\ kind[z] = "control" =>
          /\ \A h \in Hosts : z \notin offers[h]
          /\ \A t \in Socks : cli[t] = z => srv[t] \in Conns
          /\ \A t \in Socks : srv[t] = z => ready[cli[t]]

(* The step constructs x, offers it, gives it a key or dials u for it, and    *)
(* changes the class, the key and the socket of no other object.              *)
Grown(x, u) ==
    /\ UNCHANGED <<sockOf, srv>>
    /\ \A y \in Conns : y # x => kind'[y] = kind[y] /\ firstKey'[y] = firstKey[y]
    /\ x \in Conns => /\ kind'[x] # "none"
                      /\ kind'[x] = "collection" \/ kind[x] = "none"
                      /\ kind[x] # "none" => kind'[x] = kind[x]
                      /\ firstKey'[x] # NoConn => kind'[firstKey'[x]] = kind'[x]
    /\ \A h \in Hosts : \A y \in offers'[h] :
          \/ y \in offers[h]
          \/ y = x /\ HostOf(x) = h /\ (kind'[x] = "control" => firstKey'[x] = NoConn)
    /\ \A t \in Socks :
          \/ cli'[t] = cli[t] /\ to'[t] = to[t]
          \/ /\ t = u /\ cli[t] \notin Conns /\ srv[t] \notin Conns
             /\ cli'[t] = x /\ to'[t] # t[1]
             /\ kind'[x] = "control" => firstKey'[x] # NoConn

Readied == /\ \A z \in Conns : ready[z] => ready'[z]
           /\ \A z \in Conns : ready'[z] => ready[z] \/ MayReady(z)

(* An object that is not constructed has no socket, and nobody names it. *)
LEMMA Unused ==
  ASSUME HInv, NEW n \in Conns, kind[n] = "none"
  PROVE  /\ firstKey[n] = NoConn /\ ~ready[n] /\ sockOf[n] = NoSock
         /\ \A s \in Socks : cli[s] # n /\ srv[s] # n
         /\ \A h \in Hosts : n \notin offers[h]
         /\ \A y \in Conns : kind[y] # "none" => firstKey[y] # n
<1>1. firstKey[n] = NoConn /\ ~ready[n] /\ sockOf[n] = NoSock
  BY HInvParts DEF Blank
<1>2. ASSUME NEW s \in Socks PROVE cli[s] # n /\ srv[s] # n
  <2>1. Dialler(s) /\ Acceptor(s) /\ (srv[s] \in Conns => cli[s] \in Conns)
    BY HInvParts, EndsOf DEF Links
  <2> QED BY <2>1 DEF Dialler, Acceptor
<1>3. \A h \in Hosts : n \notin offers[h]
  BY HInvParts DEF Offered
<1>4. \A y \in Conns : kind[y] # "none" => firstKey[y] # n
  BY HInvParts, NoConnNotConn DEF KeyKind
<1> QED BY <1>1, <1>2, <1>3, <1>4

LEMMA GrownGrows ==
  ASSUME HInv, NEW x, NEW u, Grown(x, u), Readied
  PROVE  Grows
<1>1. \A y \in Conns : kind[y] # "none" => kind'[y] = kind[y]
  BY DEF Grown
<1>2. \A z \in Conns : ready[z] => ready'[z]
  BY Zenon DEF Readied
<1>3. \A s \in Socks : cli[s] \in Conns => cli'[s] = cli[s]
  BY DEF Grown
<1>4. \A s \in Socks : srv[s] \in Conns => srv'[s] = srv[s]
  BY DEF Grown
<1> QED BY <1>1, <1>2, <1>3, <1>4, Zenon DEF Grows

(* What such a step keeps of the objects. *)
LEMMA GrownKeys ==
  ASSUME HInv, TInv', NEW x, NEW u, Grown(x, u), Readied
  PROVE  Blank' /\ KeyKind' /\ Offered'
<1>1. ASSUME NEW y \in Conns, kind'[y] = "none"
      PROVE  firstKey'[y] = NoConn /\ ~ready'[y] /\ sockOf'[y] = NoSock
  <2>1. y # x /\ kind[y] = "none" /\ firstKey'[y] = firstKey[y] /\ sockOf'[y] = sockOf[y]
    BY <1>1 DEF Grown
  <2>2. firstKey[y] = NoConn /\ ~ready[y] /\ sockOf[y] = NoSock
    BY <2>1, Unused
  <2>3. ~MayReady(y)
    BY <2>1 DEF MayReady
  <2>4. ~ready'[y]
    BY <2>2, <2>3, Zenon DEF Readied
  <2> QED BY <2>1, <2>2, <2>4
<1>2. ASSUME NEW y \in Conns, firstKey'[y] # NoConn
      PROVE  kind'[firstKey'[y]] = kind'[y]
  <2>1. CASE y = x
    BY <1>2, <2>1 DEF Grown
  <2>2. CASE y # x
    <3> DEFINE k == firstKey[y]
    <3>1. firstKey'[y] = k /\ kind'[y] = kind[y] /\ k \in Conns /\ kind[k] = kind[y]
      BY <1>2, <2>2, HInvParts DEF Grown, KeyKind, TypeOK
    <3>2. kind[y] # "none"
      BY <1>2, <3>1, Unused
    <3> HIDE DEF k
    <3>3. kind'[k] = kind[k]
      BY <3>1, <3>2 DEF Grown
    <3> QED BY <3>1, <3>3
  <2> QED BY <2>1, <2>2
<1>3. ASSUME NEW h \in Hosts, NEW y \in offers'[h]
      PROVE  /\ HostOf(y) = h /\ kind'[y] # "none"
             /\ kind'[y] = "control" =>
                   firstKey'[y] = NoConn /\ ~ready'[y] /\ sockOf'[y] = NoSock
  <2>1. y \in Conns
    BY <1>3 DEF TInv, TypeOK
  <2>2. CASE y \in offers[h]
    <3>1. /\ HostOf(y) = h /\ kind[y] # "none" /\ kind'[y] = kind[y]
          /\ kind[y] = "control" =>
                y # x /\ firstKey[y] = NoConn /\ ~ready[y] /\ sockOf[y] = NoSock
      BY <2>1, <2>2, HInvParts DEF Offered, Grown
    <3>2. kind[y] = "control" => ~MayReady(y)
      BY <2>2 DEF MayReady
    <3>3. kind[y] = "control" => ~ready'[y]
      BY <2>1, <3>1, <3>2, Zenon DEF Readied
    <3>4. kind[y] = "control" => firstKey'[y] = NoConn /\ sockOf'[y] = NoSock
      BY <2>1, <3>1 DEF Grown
    <3> QED BY <3>1, <3>3, <3>4
  <2>3. CASE y \notin offers[h]
    <3>1. /\ y = x /\ HostOf(x) = h /\ (kind'[x] = "control" => firstKey'[x] = NoConn)
          /\ kind'[x] # "none" /\ sockOf'[x] = sockOf[x]
          /\ kind'[x] = "control" => kind[x] = "none"
      BY <1>3, <2>1, <2>3 DEF Grown
    <3>2. CASE kind'[x] = "control"
      <4>1. kind[x] = "none" /\ ~ready[x] /\ sockOf[x] = NoSock
        BY <2>1, <3>1, <3>2, Unused
      <4>2. ~MayReady(x)
        BY <4>1 DEF MayReady
      <4>3. ~ready'[x]
        BY <2>1, <3>1, <4>1, <4>2, Zenon DEF Readied
      <4> QED BY <3>1, <4>1, <4>3
    <3>3. CASE kind'[x] # "control"
      BY <3>1, <3>3
    <3> QED BY <3>2, <3>3
  <2> QED BY <2>2, <2>3
<1>4. Blank'
  BY <1>1 DEF Blank
<1>5. KeyKind'
  BY <1>2 DEF KeyKind
<1>6. Offered'
  BY <1>3 DEF Offered
<1> QED BY <1>4, <1>5, <1>6

(* What such a step keeps of the ends of the sockets. *)
LEMMA GrownEnds ==
  ASSUME HInv, TInv', NEW x \in Conns \cup {NoConn}, NEW u, Grown(x, u), Readied,
         NEW t \in Socks
  PROVE  Dialler(t)' /\ Acceptor(t)'
<1>1. /\ Dialler(t) /\ Acceptor(t) /\ srv'[t] = srv[t]
      /\ srv[t] \in Conns => cli[t] \in Conns
      /\ \A v \in Socks : cli[v] \in Conns => cli'[v] = cli[v] /\ to'[v] = to[v]
  BY HInvParts, EndsOf DEF Links, Grown
<1>2. ASSUME NEW y \in Conns, kind[y] = "control"
      PROVE  y # x /\ kind'[y] = "control" /\ firstKey'[y] = firstKey[y] /\ sockOf'[y] = sockOf[y]
  BY <1>2 DEF Grown
<1>3. ASSUME cli[t] \in Conns
      PROVE  Dialler(t)'
  <2> DEFINE c == cli[t]
  <2>1. /\ cli'[t] = c /\ to'[t] = to[t] /\ to[t] # t[1] /\ kind[c] # "none"
        /\ kind'[c] = kind[c] /\ c \in Conns
    BY <1>1, <1>3 DEF Dialler, Grown
  <2>2. CASE kind[c] = "control"
    <3>1. /\ firstKey'[c] # NoConn /\ sockOf'[c] \in {NoSock, t} /\ c # x
      BY <1>1, <1>2, <2>1, <2>2 DEF Dialler
    <3>2. ASSUME NEW v \in Socks, cli'[v] = c PROVE v = t
      <4>1. cli[v] = c
        BY <3>1, <3>2 DEF Grown
      <4> QED BY <1>1, <2>1, <2>2, <4>1 DEF Dialler
    <3>3. ready'[c] => srv'[t] \in Conns
      <4>1. MayReady(c) => srv[t] \in Conns
        BY <2>2 DEF MayReady
      <4>2. ready[c] => srv[t] \in Conns
        BY <1>1, <2>1, <2>2, Zenon DEF Dialler
      <4>3. ready'[c] => srv[t] \in Conns
        BY <2>1, <4>1, <4>2, Zenon DEF Readied
      <4> QED BY <1>1, <4>3
    <3> HIDE DEF c
    <3>4. /\ cli'[t] = c /\ kind'[c] # "none" /\ to'[t] # t[1]
      BY <2>1
    <3> QED BY <3>1, <3>2, <3>3, <3>4 DEF Dialler
  <2>3. CASE kind[c] # "control"
    BY <2>1, <2>3 DEF Dialler
  <2> QED BY <2>2, <2>3
<1>4. ASSUME cli[t] \notin Conns, cli'[t] \in Conns
      PROVE  Dialler(t)'
  <2>1. /\ t = u /\ cli'[t] = x /\ to'[t] # t[1] /\ x \in Conns /\ kind'[x] # "none"
        /\ kind'[x] = "control" => firstKey'[x] # NoConn /\ kind[x] = "none"
    BY <1>4 DEF Grown
  <2>2. CASE kind'[x] = "control"
    <3>1. /\ ~ready[x] /\ sockOf[x] = NoSock /\ (\A s \in Socks : cli[s] # x)
          /\ ~MayReady(x)
      BY <2>1, <2>2, Unused DEF MayReady
    <3>2. ~ready'[x]
      BY <2>1, <3>1, Zenon DEF Readied
    <3>3. ASSUME NEW v \in Socks, cli'[v] = x PROVE v = t
      BY <2>1, <3>1, <3>3 DEF Grown
    <3>4. sockOf'[x] = NoSock
      BY <3>1 DEF Grown
    <3> QED BY <2>1, <2>2, <3>2, <3>3, <3>4 DEF Dialler
  <2>3. CASE kind'[x] # "control"
    BY <2>1, <2>3 DEF Dialler
  <2> QED BY <2>2, <2>3
<1>5. Dialler(t)'
  <2>1. cli'[t] \notin Conns => Dialler(t)'
    BY DEF Dialler
  <2> QED BY <1>3, <1>4, <2>1
<1>6. ASSUME srv[t] \in Conns
      PROVE  Acceptor(t)'
  <2> DEFINE c == srv[t]
             d == cli[t]
  <2>1. /\ c \in Conns /\ d \in Conns /\ cli'[t] = d /\ to'[t] = to[t] /\ srv'[t] = c
        /\ HostOf(c) = to[t] /\ kind[c] = kind[d] /\ kind[d] # "none"
    BY <1>1, <1>6 DEF Acceptor, Dialler
  <2>2. kind'[c] = kind[c] /\ kind'[d] = kind[d]
    BY <2>1 DEF Grown
  <2>3. CASE kind[c] = "control"
    <3>1. /\ firstKey'[c] = NoConn /\ sockOf'[c] = t
      BY <1>1, <1>2, <2>1, <2>3 DEF Acceptor
    <3>2. MayReady(c) => ready[d]
      BY <2>3 DEF MayReady
    <3>3. ready[c] => ready[d]
      BY <1>1, <2>1, <2>3, Zenon DEF Acceptor
    <3>4. ready'[c] => ready[d]
      BY <2>1, <3>2, <3>3, Zenon DEF Readied
    <3>5. ready'[c] => ready'[d]
      BY <2>1, <3>4, Zenon DEF Readied
    <3> HIDE DEF c, d
    <3> QED BY <2>1, <2>2, <3>1, <3>5 DEF Acceptor
  <2>4. CASE kind[c] # "control"
    <3> HIDE DEF c, d
    <3> QED BY <2>1, <2>2, <2>4 DEF Acceptor
  <2> QED BY <2>3, <2>4
<1>7. Acceptor(t)'
  <2>1. srv'[t] \notin Conns => Acceptor(t)'
    BY DEF Acceptor
  <2> QED BY <1>1, <1>6, <2>1
<1> QED BY <1>5, <1>7

LEMMA SidedKept ==
  ASSUME HInv, TInv', NEW x, NEW u, Grown(x, u), UNCHANGED outbound,
         \A t \in Socks : clientEnd'[t] = "open" => clientEnd[t] = "open"
  PROVE  Sided'
<1> SUFFICES ASSUME NEW c \in Conns, sockOf'[c] \in Socks
             PROVE  /\ ~AtClient(c)' => ~outbound'[c]
                    /\ AtClient(c)' /\ clientEnd'[sockOf'[c]] = "open" => outbound'[c]
  BY DEF Sided
<1>1. sockOf'[c] = sockOf[c] /\ sockOf[c] \in Socks
  BY DEF Grown
<1>2. c = cli[sockOf[c]] \/ c = srv[sockOf[c]]
  BY <1>1, HInvParts DEF SockShape
<1>3. cli'[sockOf[c]] = cli[sockOf[c]]
  BY <1>1, <1>2 DEF Grown
<1> QED BY <1>1, <1>3, HInvParts DEF Sided, AtClient

(* What connectToPeer changes. *)
LEMMA DialEffect ==
  ASSUME TInv, NEW c \in Conns, NEW a, ConnectToPeer(a, c)
  PROVE  \E u \in Socks :
           /\ u[1] = HostOf(c) /\ cli[u] \notin Conns /\ srv[u] \notin Conns
           /\ cli'[u] = c /\ to'[u] = a /\ clientEnd'[u] = "connecting"
           /\ \A t \in Socks : t # u => /\ cli'[t] = cli[t] /\ to'[t] = to[t]
                                        /\ clientEnd'[t] = clientEnd[t]
<1> DEFINE h == HostOf(c)
           u == <<h, dialled[h] + 1>>
<1>1. h \in Hosts /\ dialled[h] \in Nat /\ dialled[h] < MaxSock /\ TypeOK /\ SockShape
  BY DEF HostOf, Conns, TypeOK, TInv, ConnectToPeer
<1>2. u \in Socks /\ u[1] = h /\ u[2] = dialled[h] + 1
  BY <1>1, ServentAssumption DEF Socks
<1> HIDE DEF h, u
<1>3. /\ to' = [to EXCEPT ![u] = a]
      /\ cli' = [cli EXCEPT ![u] = c]
      /\ clientEnd' = [clientEnd EXCEPT ![u] = "connecting"]
  BY DEF ConnectToPeer, h, u
<1>4. clientEnd[u] = "none" /\ serverEnd[u] = "none" /\ cli[u] \notin Conns
  BY <1>1, <1>2 DEF SockShape, Dialled, Accepted
<1>5. srv[u] \notin Conns
  BY <1>1, <1>2, <1>4, NoConnNotConn DEF SockShape, Accepted
<1>6. /\ cli'[u] = c /\ to'[u] = a /\ clientEnd'[u] = "connecting"
      /\ \A t \in Socks : t # u => /\ cli'[t] = cli[t] /\ to'[t] = to[t]
                                   /\ clientEnd'[t] = clientEnd[t]
  BY <1>1, <1>2, <1>3 DEF TypeOK
<1> QED BY <1>2, <1>4, <1>5, <1>6 DEF h

LEMMA MadeConn ==
  ASSUME TypeOK, Fresh, ListedUsable, NEW h \in Hosts,
         NEW class \in {"control", "collection"}, Construct(h, class)
  PROVE  /\ NewConn(h) \in Conns /\ HostOf(NewConn(h)) = h
         /\ kind[NewConn(h)] = "none" /\ kind'[NewConn(h)] = class
         /\ \A y \in Conns : y # NewConn(h) => kind'[y] = kind[y]
<1> DEFINE n == NewConn(h)
<1>1. n \in Conns /\ HostOf(n) = h /\ kind[n] = "none"
  BY ConstructType, ConstructListed
<1>2. kind' = [kind EXCEPT ![n] = class]
  BY DEF Construct
<1> HIDE DEF n
<1>3. kind'[n] = class /\ \A y \in Conns : y # n => kind'[y] = kind[y]
  BY <1>1, <1>2 DEF TypeOK
<1> QED BY <1>1, <1>3 DEF n

LEMMA SameReady ==
  ASSUME UNCHANGED ready
  PROVE  Readied
<1>1. \A z \in Conns : ready[z] => ready'[z]
  BY Zenon
<1>2. \A z \in Conns : ready'[z] => ready[z] \/ MayReady(z)
  BY Zenon
<1> QED BY <1>1, <1>2, Zenon DEF Readied

(* The step neither reads nor writes. *)
LEMMA SilentLinks ==
  ASSUME HInv, TInv', NEW x \in Conns \cup {NoConn}, NEW u, Grown(x, u),
         UNCHANGED <<ready, toSrv, toCli>>
  PROVE  Links' /\ Grows
<1>1. Readied /\ Grows
  BY SameReady, GrownGrows
<1>2. ASSUME NEW t \in Socks PROVE Messages(t)' /\ Order(t)'
  <2>1. srv'[t] = srv[t]
    BY DEF Grown
  <2> QED BY <1>1, <2>1, QueuesKept
<1>3. ASSUME NEW t \in Socks PROVE Dialler(t)' /\ Acceptor(t)'
  BY <1>1, GrownEnds
<1> QED BY <1>1, <1>2, <1>3 DEF Links

LEMMA NewJabberPeerKept ==
  ASSUME HInv, TInv', NEW d \in Dials, NewJabberPeer(d)
  PROVE  HNext
<1> DEFINE h == d[2]
           n == NewConn(h)
<1>1. d[1] \in Hosts /\ h \in Hosts /\ d[1] # h /\ TypeOK
  BY ServentAssumption, HInvParts
<1>2. Construct(h, "control")
  BY DEF NewJabberPeer
<1>3. /\ n \in Conns /\ HostOf(n) = h /\ kind[n] = "none" /\ kind'[n] = "control"
      /\ \A y \in Conns : y # n => kind'[y] = kind[y]
  BY <1>1, <1>2, HInvParts, MadeConn
<1>4. /\ offers' = [offers EXCEPT ![h] = @ \cup {n}]
      /\ invites' = invites \cup {<<d[1], n>>}
      /\ UNCHANGED <<ccs, outbound, ready, sockOf, firstKey, to, cli, srv, clientEnd,
                     toSrv, toCli>>
  BY DEF NewJabberPeer, sockVars
<1> HIDE DEF n, h
<1>5. firstKey'[n] = NoConn
  BY <1>3, <1>4, Unused
<1>6. Grown(n, NoSock)
  <2>1. \A g \in Hosts : \A y \in offers'[g] : y \in offers[g] \/ (y = n /\ g = h)
    BY <1>1, <1>4 DEF TypeOK
  <2> QED BY <1>3, <1>4, <1>5, <2>1 DEF Grown
<1>7. Blank' /\ KeyKind' /\ Offered' /\ Sided' /\ Links' /\ Grows
  <2>1. Readied
    BY <1>4, SameReady
  <2>2. Blank' /\ KeyKind' /\ Offered'
    BY <1>6, <2>1, GrownKeys
  <2>3. Sided'
    BY <1>4, <1>6, SidedKept
  <2>4. Links' /\ Grows
    BY <1>3, <1>4, <1>6, SilentLinks
  <2> QED BY <2>2, <2>3, <2>4
<1>8. Invited'
  <2> SUFFICES ASSUME NEW i \in invites'
               PROVE  kind'[i[2]] = "control" /\ HostOf(i[2]) # i[1]
    BY DEF Invited
  <2>1. CASE i \in invites
    <3>1. i[2] \in Conns /\ kind[i[2]] = "control" /\ HostOf(i[2]) # i[1]
      BY <1>1, <2>1, HInvParts DEF Invited, TypeOK
    <3> QED BY <1>3, <3>1
  <2>2. CASE i = <<d[1], n>>
    BY <1>1, <1>3, <2>2
  <2> QED BY <1>4, <2>1, <2>2
<1>9. ListedOnce'
  BY <1>4, HInvParts DEF ListedOnce
<1> QED BY <1>7, <1>8, <1>9 DEF HNext

LEMMA JabberMsgKept ==
  ASSUME HInv, TInv', NEW i \in invites, JabberMsg(i)
  PROVE  HNext
<1> DEFINE h == i[1]
           n == NewConn(h)
           k == i[2]
<1>1. h \in Hosts /\ k \in Conns /\ kind[k] = "control" /\ HostOf(k) # h /\ TypeOK
  BY HInvParts DEF Invited, TypeOK
<1>2. Construct(h, "control") /\ ConnectToPeer(HostOf(k), n)
  BY DEF JabberMsg
<1>3. /\ n \in Conns /\ HostOf(n) = h /\ kind[n] = "none" /\ kind'[n] = "control"
      /\ \A y \in Conns : y # n => kind'[y] = kind[y]
  BY <1>1, <1>2, HInvParts, MadeConn
<1>4. /\ firstKey' = [firstKey EXCEPT ![n] = IF @ = NoConn THEN k ELSE @]
      /\ invites' \subseteq invites
      /\ UNCHANGED <<offers, ccs, outbound, ready, sockOf, srv, toSrv, toCli>>
  BY DEF JabberMsg, AcceptOfferMessage
<1> HIDE DEF n, h, k
<1>5. firstKey'[n] = k /\ \A y \in Conns : y # n => firstKey'[y] = firstKey[y]
  <2>1. firstKey[n] = NoConn
    BY <1>3, Unused
  <2> QED BY <1>1, <1>3, <1>4, <2>1 DEF TypeOK
<1>6. PICK u \in Socks :
           /\ u[1] = HostOf(n) /\ cli[u] \notin Conns /\ srv[u] \notin Conns
           /\ cli'[u] = n /\ to'[u] = HostOf(k) /\ clientEnd'[u] = "connecting"
           /\ \A t \in Socks : t # u => /\ cli'[t] = cli[t] /\ to'[t] = to[t]
                                        /\ clientEnd'[t] = clientEnd[t]
  BY <1>2, <1>3, HInvParts, DialEffect
<1>7. Grown(n, u)
  <2>1. k # n /\ kind'[k] = "control" /\ k # NoConn
    BY <1>1, <1>3, NoConnNotConn
  <2> QED BY <1>1, <1>3, <1>4, <1>5, <1>6, <2>1 DEF Grown
<1>8. Blank' /\ KeyKind' /\ Offered' /\ Sided' /\ Links' /\ Grows
  <2>1. Readied
    BY <1>4, SameReady
  <2>2. Blank' /\ KeyKind' /\ Offered'
    BY <1>7, <2>1, GrownKeys
  <2>3. Sided'
    <3>1. \A t \in Socks : clientEnd'[t] = "open" => clientEnd[t] = "open"
      BY <1>6
    <3> QED BY <1>4, <1>7, <3>1, SidedKept
  <2>4. Links' /\ Grows
    BY <1>3, <1>4, <1>7, SilentLinks
  <2> QED BY <2>2, <2>3, <2>4
<1>9. Invited'
  <2> SUFFICES ASSUME NEW j \in invites'
               PROVE  kind'[j[2]] = "control" /\ HostOf(j[2]) # j[1]
    BY DEF Invited
  <2>1. j[2] \in Conns /\ kind[j[2]] = "control" /\ HostOf(j[2]) # j[1]
    BY <1>1, <1>4, HInvParts DEF Invited, TypeOK
  <2> QED BY <1>3, <2>1
<1>10. ListedOnce'
  BY <1>4, HInvParts DEF ListedOnce
<1> QED BY <1>8, <1>9, <1>10 DEF HNext

-----------------------------------------------------------------------------
(* Connection::readyRead: what is read and written *)

(* What is left and what is written of the messages of s, when c reads its    *)
(* next one and out is written, keeps what the messages say.                  *)
Fits(c, out, s) ==
    /\ \A m \in Message : InSeq(m, Written(out, cli[s], s)) => SrvMsg(s, m)'
    /\ \A m \in Message : InSeq(m, Written(out, srv[s], s)) => CliMsg(s, m)'
    /\ \A m \in Message : InSeq(m, Read(c)[s]) /\ m.type = "ready2" =>
          (kind[cli[s]] = "control" => ~ready'[srv[s]])
    /\ Led(Written(out, cli[s], s))
    /\ cli[s] \in Conns /\ kind[cli[s]] = "control" =>
          \/ \A m \in Message : InSeq(m, Written(out, cli[s], s)) => m.type # "ready2"
          \/ /\ Once(Written(out, cli[s], s))
             /\ \A m \in Message : InSeq(m, toSrv[s]) => m.type # "ready2"
    /\ s = sockOf[c] /\ ~AtClient(c) /\ Head(toSrv[s]).type = "ready2" => ready'[c]

LEMMA ExchangeQueues ==
  ASSUME TInv, NEW c, Reads(c), NEW out \in [Conns -> Seq(Message)], Exchange(c, out),
         NEW s \in Socks
  PROVE  /\ Read(c)[s] \in Seq(Message) /\ ReadAtClient(c)[s] \in Seq(Message)
         /\ \A w : Written(out, w, s) \in Seq(Message)
         /\ toSrv'[s] = Read(c)[s] \o Written(out, cli[s], s)
         /\ toCli'[s] = ReadAtClient(c)[s] \o Written(out, srv[s], s)
         /\ \A m \in Message : InSeq(m, Read(c)[s]) => InSeq(m, toSrv[s])
         /\ \A m \in Message : InSeq(m, ReadAtClient(c)[s]) => InSeq(m, toCli[s])
         /\ IF s = sockOf[c] /\ ~AtClient(c)
            THEN Read(c)[s] = Tail(toSrv[s]) /\ toSrv[s] # <<>>
            ELSE Read(c)[s] = toSrv[s]
<1>1. toSrv[s] \in Seq(Message) /\ toCli[s] \in Seq(Message) /\ TypeOK
  BY DEF TInv, TypeOK
<1>2. /\ s = sockOf[c] /\ ~AtClient(c) => toSrv[s] # <<>>
      /\ s = sockOf[c] /\ AtClient(c) => toCli[s] # <<>>
  BY DEF Inbox, Reads
<1>3. \A q \in Seq(Message) : q # <<>> => Tail(q) \in Seq(Message)
  OBVIOUS
<1>4. Read(c)[s] = IF s = sockOf[c] /\ ~AtClient(c) THEN Tail(toSrv[s]) ELSE toSrv[s]
  BY DEF Read
<1>5. ReadAtClient(c)[s] = IF s = sockOf[c] /\ AtClient(c) THEN Tail(toCli[s]) ELSE toCli[s]
  BY DEF ReadAtClient
<1>6. Read(c)[s] \in Seq(Message) /\ ReadAtClient(c)[s] \in Seq(Message)
  BY <1>1, <1>2, <1>3, <1>4, <1>5
<1>7. ASSUME NEW w PROVE Written(out, w, s) \in Seq(Message)
  <2>1. <<>> \in Seq(Message)
    OBVIOUS
  <2>2. w \in Conns => out[w] \in Seq(Message)
    OBVIOUS
  <2> QED BY <2>1, <2>2 DEF Written
<1>8. ASSUME NEW m \in Message, InSeq(m, Read(c)[s]) PROVE InSeq(m, toSrv[s])
  <2>1. CASE s = sockOf[c] /\ ~AtClient(c)
    <3>1. InSeq(m, Tail(toSrv[s])) /\ toSrv[s] # <<>>
      BY <1>2, <1>4, <1>8, <2>1
    <3> QED BY <1>1, <3>1, InTail
  <2>2. CASE ~(s = sockOf[c] /\ ~AtClient(c))
    BY <1>4, <1>8, <2>2
  <2> QED BY <2>1, <2>2
<1>9. ASSUME NEW m \in Message, InSeq(m, ReadAtClient(c)[s]) PROVE InSeq(m, toCli[s])
  <2>1. CASE s = sockOf[c] /\ AtClient(c)
    <3>1. InSeq(m, Tail(toCli[s])) /\ toCli[s] # <<>>
      BY <1>2, <1>5, <1>9, <2>1
    <3> QED BY <1>1, <3>1, InTail
  <2>2. CASE ~(s = sockOf[c] /\ AtClient(c))
    BY <1>5, <1>9, <2>2
  <2> QED BY <2>1, <2>2
<1>10. /\ toSrv'[s] = Read(c)[s] \o Written(out, cli[s], s)
       /\ toCli'[s] = ReadAtClient(c)[s] \o Written(out, srv[s], s)
  BY DEF Exchange
<1> QED BY <1>2, <1>4, <1>6, <1>7, <1>8, <1>9, <1>10

LEMMA ExchangeMessages ==
  ASSUME HInv, TInv', Grows, NEW c, Reads(c), NEW out \in [Conns -> Seq(Message)],
         Exchange(c, out), NEW s \in Socks, Fits(c, out, s)
  PROVE  Messages(s)'
<1> DEFINE r == Read(c)[s]
           w == Written(out, cli[s], s)
           rc == ReadAtClient(c)[s]
           wc == Written(out, srv[s], s)
<1>1. /\ r \in Seq(Message) /\ w \in Seq(Message) /\ toSrv'[s] = r \o w
      /\ rc \in Seq(Message) /\ wc \in Seq(Message) /\ toCli'[s] = rc \o wc
      /\ \A m \in Message : InSeq(m, r) => InSeq(m, toSrv[s])
      /\ \A m \in Message : InSeq(m, rc) => InSeq(m, toCli[s])
  BY ExchangeQueues, HInvParts
<1>2. /\ \A m \in Message : InSeq(m, w) => SrvMsg(s, m)'
      /\ \A m \in Message : InSeq(m, wc) => CliMsg(s, m)'
      /\ \A m \in Message : InSeq(m, r) /\ m.type = "ready2" =>
            (kind[cli[s]] = "control" => ~ready'[srv[s]])
  BY DEF Fits
<1> HIDE DEF r, w, rc, wc
<1>3. ASSUME NEW m \in Message, InSeq(m, toSrv'[s])
      PROVE  \/ SrvMsg(s, m)'
             \/ /\ InSeq(m, toSrv[s])
                /\ m.type = "ready2" /\ kind[cli[s]] = "control" => ~ready'[srv[s]]
  <2>1. InSeq(m, r \o w)
    BY <1>1, <1>3
  <2>2. InSeq(m, r) \/ InSeq(m, w)
    BY <1>1, <2>1, InConcat
  <2>3. CASE InSeq(m, w)
    BY <1>2, <2>3
  <2>4. CASE InSeq(m, r)
    <3>1. InSeq(m, toSrv[s])
      BY <1>1, <2>4
    <3>2. m.type = "ready2" => (kind[cli[s]] = "control" => ~ready'[srv[s]])
      BY <1>2, <2>4
    <3> QED BY <3>1, <3>2, Zenon
  <2> QED BY <2>2, <2>3, <2>4
<1>4. ASSUME NEW m \in Message, InSeq(m, toCli'[s])
      PROVE  InSeq(m, toCli[s]) \/ CliMsg(s, m)'
  <2>1. InSeq(m, rc \o wc)
    BY <1>1, <1>4
  <2>2. InSeq(m, rc) \/ InSeq(m, wc)
    BY <1>1, <2>1, InConcat
  <2> QED BY <1>1, <1>2, <2>2
<1> QED BY <1>3, <1>4, MessagesFrom

LEMMA ExchangeOrder ==
  ASSUME HInv, TInv', Grows, NEW c, Reads(c), NEW out \in [Conns -> Seq(Message)],
         Exchange(c, out), NEW s \in Socks, Fits(c, out, s)
  PROVE  Order(s)'
<1> DEFINE r == Read(c)[s]
           w == Written(out, cli[s], s)
<1>1. /\ r \in Seq(Message) /\ w \in Seq(Message) /\ toSrv'[s] = r \o w
      /\ \A m \in Message : InSeq(m, r) => InSeq(m, toSrv[s])
      /\ IF s = sockOf[c] /\ ~AtClient(c)
         THEN r = Tail(toSrv[s]) /\ toSrv[s] # <<>>
         ELSE r = toSrv[s]
      /\ toSrv[s] \in Seq(Message) /\ Order(s) /\ Messages(s)
  BY ExchangeQueues, HInvParts DEF Links, TypeOK
<1>2. /\ Led(w)
      /\ cli[s] \in Conns /\ kind[cli[s]] = "control" =>
            \/ \A m \in Message : InSeq(m, w) => m.type # "ready2"
            \/ Once(w) /\ \A m \in Message : InSeq(m, toSrv[s]) => m.type # "ready2"
      /\ s = sockOf[c] /\ ~AtClient(c) /\ Head(toSrv[s]).type = "ready2" => ready'[c]
  BY DEF Fits
<1>3. cli[s] \notin Conns => w = <<>>
  BY DEF Written
<1> HIDE DEF r, w
<1>4. ASSUME cli[s] \notin Conns
      PROVE  Order(s)'
  <2>1. \A m \in Message : ~InSeq(m, toSrv[s])
    BY <1>1, <1>4 DEF Messages, SrvMsg
  <2>2. DOMAIN r = {} /\ w = <<>>
    BY <1>1, <1>3, <1>4, <2>1, InTyped
  <2>3. r = <<>>
    BY <1>1, <2>2
  <2>4. toSrv'[s] = <<>>
    BY <1>1, <2>2, <2>3
  <2> QED BY <2>4 DEF Order, Once, Led
<1>5. ASSUME cli[s] \in Conns
      PROVE  Order(s)'
  <2>1. cli'[s] = cli[s] /\ kind'[cli[s]] = kind[cli[s]]
    BY <1>5, GrowsAt, GrowsEnds, HInvParts, Zenon DEF Links, Dialler
  <2>2. ASSUME kind[cli[s]] = "control" PROVE Once(toSrv'[s])
    <3>1. Once(toSrv[s])
      BY <1>1, <1>5, <2>2 DEF Order
    <3>2. Once(r)
      BY <1>1, <3>1, OnceTail
    <3>3. CASE \A m \in Message : InSeq(m, w) => m.type # "ready2"
      <4>1. \A i \in DOMAIN w : w[i].type # "ready2"
        BY <1>1, <3>3, InTyped
      <4> QED BY <1>1, <3>2, <4>1, OrderGrows
    <3>4. CASE Once(w) /\ \A m \in Message : InSeq(m, toSrv[s]) => m.type # "ready2"
      <4>1. \A i \in DOMAIN r : r[i].type # "ready2"
        BY <1>1, <3>4, InTyped
      <4> QED BY <1>1, <3>4, <4>1, OrderGrows
    <3> QED BY <1>2, <1>5, <2>2, <3>3, <3>4
  <2>3. ASSUME ~(srv'[s] \in Conns /\ ready'[srv'[s]]) PROVE Led(toSrv'[s])
    <3>1. ~(srv[s] \in Conns /\ ready[srv[s]])
      BY <2>3, GrowsAt, GrowsEnds, Zenon
    <3>2. Led(toSrv[s])
      BY <1>1, <3>1, Zenon DEF Order
    <3>3. Led(r)
      <4>1. CASE s = sockOf[c] /\ ~AtClient(c)
        <5>1. c = srv[s] /\ c \in Conns
          BY <4>1, EndsOf, HInvParts DEF Reads
        <5>2. srv'[s] = c
          BY <5>1, GrowsEnds
        <5>3. ~ready'[c]
          BY <2>3, <5>1, <5>2, Zenon
        <5>4. Head(toSrv[s]).type # "ready2"
          BY <1>2, <4>1, <5>3, Zenon
        <5> QED BY <1>1, <3>2, <4>1, <5>4, LedTail
      <4>2. CASE ~(s = sockOf[c] /\ ~AtClient(c))
        BY <1>1, <3>2, <4>2
      <4> QED BY <4>1, <4>2
    <3> QED BY <1>1, <1>2, <3>3, OrderGrows
  <2> QED BY <2>1, <2>2, <2>3, Zenon DEF Order
<1> QED BY <1>4, <1>5

LEMMA ExchangeLinks ==
  ASSUME HInv, TInv', NEW x \in Conns \cup {NoConn}, NEW u, Grown(x, u), Readied,
         NEW c, Reads(c), NEW out \in [Conns -> Seq(Message)], Exchange(c, out),
         \A s \in Socks : Fits(c, out, s)
  PROVE  Links'
<1>1. Grows
  BY GrownGrows
<1>2. ASSUME NEW s \in Socks
      PROVE  Dialler(s)' /\ Acceptor(s)' /\ Messages(s)' /\ Order(s)'
  <2>1. Dialler(s)' /\ Acceptor(s)'
    BY GrownEnds
  <2>2. Fits(c, out, s)
    OBVIOUS
  <2>3. Messages(s)'
    BY <1>1, <2>2, ExchangeMessages
  <2>4. Order(s)'
    BY <1>1, <2>2, ExchangeOrder
  <2> QED BY <2>1, <2>3, <2>4
<1> QED BY <1>2 DEF Links

(* What the message c is about to read says. *)
LEMMA HeadSays ==
  ASSUME HInv, NEW c, Reads(c)
  PROVE  /\ c \in Conns /\ sockOf[c] \in Socks /\ Head(Inbox(c)) \in Message
         /\ IF AtClient(c)
            THEN c = cli[sockOf[c]] /\ CliMsg(sockOf[c], Head(Inbox(c)))
            ELSE /\ c = srv[sockOf[c]] /\ SrvMsg(sockOf[c], Head(Inbox(c)))
                 /\ Head(Inbox(c)) = Head(toSrv[sockOf[c]])
<1> DEFINE s == sockOf[c]
<1>1. c \in Conns /\ s \in Socks /\ TypeOK /\ Inbox(c) # <<>> /\ Messages(s)
  BY HInvParts, EndsOf DEF Reads, Links
<1>2. toSrv[s] \in Seq(Message) /\ toCli[s] \in Seq(Message)
  BY <1>1 DEF TypeOK
<1>3. CASE AtClient(c)
  <2>1. Inbox(c) = toCli[s] /\ toCli[s] # <<>>
    BY <1>1, <1>3 DEF Inbox
  <2>2. InSeq(Head(toCli[s]), toCli[s]) /\ Head(toCli[s]) \in Message
    BY <1>2, <2>1, InTail
  <2>3. CliMsg(s, Head(toCli[s]))
    BY <1>1, <2>2 DEF Messages
  <2> QED BY <1>1, <1>3, <2>1, <2>2, <2>3 DEF AtClient
<1>4. CASE ~AtClient(c)
  <2>1. Inbox(c) = toSrv[s] /\ toSrv[s] # <<>>
    BY <1>1, <1>4 DEF Inbox
  <2>2. InSeq(Head(toSrv[s]), toSrv[s]) /\ Head(toSrv[s]) \in Message
    BY <1>2, <2>1, InTail
  <2>3. SrvMsg(s, Head(toSrv[s]))
    BY <1>1, <2>2 DEF Messages
  <2>4. c = srv[s]
    BY <1>1, <1>4, HInvParts, EndsOf
  <2> QED BY <1>1, <1>4, <2>1, <2>2, <2>3, <2>4
<1> QED BY <1>3, <1>4

LEMMA DistinctEnds ==
  ASSUME HInv, NEW s \in Socks, srv[s] \in Conns
  PROVE  srv[s] # cli[s] /\ cli[s] \in Conns
<1>1. cli[s] \in Conns /\ HostOf(cli[s]) = s[1] /\ Dialler(s) /\ Acceptor(s)
  BY HInvParts, EndsOf DEF Links
<1> QED BY <1>1 DEF Dialler, Acceptor

(* A control connection dials or is accepted, not both, and has one socket. *)
LEMMA ControlEnds ==
  ASSUME HInv, NEW c \in Conns, kind[c] = "control", NEW s \in Socks
  PROVE  /\ cli[s] = c => /\ \A h \in Hosts : c \notin offers[h]
                          /\ \A t \in Socks : srv[t] # c
                          /\ \A t \in Socks : cli[t] = c => t = s
         /\ srv[s] = c => /\ \A h \in Hosts : c \notin offers[h]
                          /\ \A t \in Socks : cli[t] # c
                          /\ \A t \in Socks : srv[t] = c => t = s
<1>1. \A t \in Socks : Dialler(t) /\ Acceptor(t)
  BY HInvParts DEF Links
<1>2. \A t \in Socks : cli[t] = c => firstKey[c] # NoConn /\ \A v \in Socks : cli[v] = c => v = t
  BY <1>1 DEF Dialler
<1>3. \A t \in Socks : srv[t] = c => firstKey[c] = NoConn /\ sockOf[c] = t
  BY <1>1 DEF Acceptor
<1>4. \A h \in Hosts : c \in offers[h] => firstKey[c] = NoConn /\ sockOf[c] = NoSock
  BY HInvParts DEF Offered
<1> QED BY <1>2, <1>3, <1>4, NoConnNotConn

LEMMA OnlyWritten ==
  ASSUME NEW c \in Conns, NEW msgs, NEW w, NEW s
  PROVE  \/ w = c /\ sockOf[c] = s /\ EndOpen(c) /\ Written(Only(c, msgs), w, s) = msgs
         \/ Written(Only(c, msgs), w, s) = <<>>
  BY DEF Written, Only, Writes

LEMMA NothingWritten == \A w, s : Written(Nothing, w, s) = <<>>
  BY DEF Written, Nothing

LEMMA EmptyFits == Led(<<>>) /\ Once(<<>>)
  BY DEF Led, Once

(* What is left to read fits, if no Connection becomes ready and no ready2    *)
(* is read.                                                                  *)
LEMMA RestFits ==
  ASSUME HInv, NEW c, Reads(c), UNCHANGED ready, Head(Inbox(c)).type # "ready2",
         NEW s \in Socks
  PROVE  /\ \A m \in Message : InSeq(m, Read(c)[s]) /\ m.type = "ready2" =>
               (kind[cli[s]] = "control" => ~ready'[srv[s]])
         /\ s = sockOf[c] /\ ~AtClient(c) /\ Head(toSrv[s]).type = "ready2" => ready'[c]
<1>1. ASSUME NEW m \in Message, InSeq(m, Read(c)[s]), m.type = "ready2",
             kind[cli[s]] = "control"
      PROVE  ~ready'[srv[s]]
  <2>1. InSeq(m, toSrv[s])
    <3>1. toSrv[s] \in Seq(Message)
      BY HInvParts DEF TypeOK
    <3>2. CASE s = sockOf[c] /\ ~AtClient(c)
      <4>1. Read(c)[s] = Tail(toSrv[s]) /\ toSrv[s] # <<>>
        BY <3>2 DEF Read, Reads, Inbox
      <4>2. InSeq(m, Tail(toSrv[s]))
        BY <1>1, <4>1
      <4> QED BY <3>1, <4>1, <4>2, InTail
    <3>3. CASE ~(s = sockOf[c] /\ ~AtClient(c))
      <4>1. Read(c)[s] = toSrv[s]
        BY <3>3 DEF Read
      <4> QED BY <1>1, <4>1
    <3> QED BY <3>2, <3>3
  <2>2. SrvMsg(s, m)
    BY <2>1, HInvParts DEF Links, Messages
  <2>3. ~ready[srv[s]]
    BY <1>1, <2>2, Zenon DEF SrvMsg
  <2> QED BY <2>3, Zenon
<1>2. s = sockOf[c] /\ ~AtClient(c) => Head(toSrv[s]).type # "ready2"
  BY HeadSays
<1> QED BY <1>1, <1>2

LEMMA NothingFits ==
  ASSUME HInv, NEW c, Reads(c), UNCHANGED ready, Head(Inbox(c)).type # "ready2"
  PROVE  \A s \in Socks : Fits(c, Nothing, s)
<1> SUFFICES ASSUME NEW s \in Socks PROVE Fits(c, Nothing, s)
  OBVIOUS
<1>1. /\ \A m \in Message : InSeq(m, Read(c)[s]) /\ m.type = "ready2" =>
            (kind[cli[s]] = "control" => ~ready'[srv[s]])
      /\ s = sockOf[c] /\ ~AtClient(c) /\ Head(toSrv[s]).type = "ready2" => ready'[c]
  BY RestFits
<1>2. Written(Nothing, cli[s], s) = <<>> /\ Written(Nothing, srv[s], s) = <<>>
  BY NothingWritten
<1> QED BY <1>1, <1>2, InEmpty, EmptyFits, Zenon DEF Fits

(* A step that constructs, offers and dials nothing. *)
LEMMA NoneGrown ==
  ASSUME TInv, UNCHANGED <<sockOf, srv, kind, firstKey, offers, cli, to>>
  PROVE  Grown(NoConn, NoSock)
<1>1. NoConn \notin Conns
  BY NoConnNotConn
<1> QED BY <1>1 DEF Grown

(* What is not ready is not listed, so registering it lists it once. *)
LEMMA ListedAgain ==
  ASSUME TypeOK, ListedUsable, ListedOnce, NEW c \in Conns, ~ready[c],
         ccs' = [ccs EXCEPT ![c] = @ + 1]
  PROVE  ListedOnce'
<1>1. ~(ccs[c] > 0)
  BY Zenon DEF ListedUsable
<1>2. ccs \in [Conns -> Nat]
  BY DEF TypeOK
<1>3. \A x \in Conns : ccs[x] <= 1
  BY DEF ListedOnce
<1>4. ccs[c] = 0
  BY <1>1, <1>2
<1>5. \A x \in Conns : ccs'[x] <= 1
  BY <1>2, <1>3, <1>4
<1> QED BY <1>5 DEF ListedOnce

(* What is left of a handled message, once the links fit. *)
LEMMA HandledKept ==
  ASSUME HInv, TInv', NEW x \in Conns \cup {NoConn}, NEW u, Grown(x, u), Readied,
         UNCHANGED <<invites, outbound>>, ListedOnce', Links',
         \A t \in Socks : clientEnd'[t] = "open" => clientEnd[t] = "open"
  PROVE  HNext
<1>1. Blank' /\ KeyKind' /\ Offered'
  BY GrownKeys
<1>2. Sided'
  BY SidedKept
<1>3. Invited'
  <2> SUFFICES ASSUME NEW j \in invites
               PROVE  kind'[j[2]] = "control" /\ HostOf(j[2]) # j[1]
    BY DEF Invited
  <2>1. j[2] \in Conns /\ kind[j[2]] = "control" /\ HostOf(j[2]) # j[1]
    BY HInvParts DEF Invited, TypeOK
  <2>2. Grows
    BY GrownGrows
  <2>3. kind'[j[2]] = kind[j[2]]
    BY <2>1, <2>2, GrowsAt
  <2> QED BY <2>1, <2>3
<1> QED BY <1>1, <1>2, <1>3 DEF HNext

LEMMA OnlyReadKept ==
  ASSUME HInv, TInv', NEW c, Reads(c), NEW m, m = Head(Inbox(c)),
         AllTracks(c, m) \/ Unhandled(c, m)
  PROVE  HNext
<1>1. /\ Exchange(c, Nothing) /\ m.type # "ready2"
      /\ UNCHANGED <<sockOf, srv, kind, firstKey, offers, cli, to, ready, invites,
                     outbound, ccs, clientEnd>>
  BY DEF AllTracks, Unhandled, hostVars, connVars
<1>2. Grown(NoConn, NoSock) /\ Readied
  BY <1>1, NoneGrown, SameReady, HInvParts
<1>3. \A s \in Socks : Fits(c, Nothing, s)
  BY <1>1, NothingFits
<1>4. Links'
  BY <1>1, <1>2, <1>3, NothingType, ExchangeLinks
<1>5. ListedOnce'
  BY <1>1, HInvParts DEF ListedOnce
<1> QED BY <1>1, <1>2, <1>4, <1>5, HandledKept

LEMMA CollectionReadyKept ==
  ASSUME HInv, TInv', NEW c, Reads(c), NEW m, m = Head(Inbox(c)), CollectionReady(c, m)
  PROVE  HNext
<1> DEFINE all == <<Msg("alltracks")>>
           msgs == IF outbound[c] THEN Ready2Then(all) ELSE all
           out == Only(c, msgs)
           s0 == sockOf[c]
<1>1. /\ Exchange(c, out) /\ kind[c] = "collection" /\ (IsReady2(c, m) \/ IsReady(c, m))
      /\ ready' = [ready EXCEPT ![c] = TRUE]
      /\ UNCHANGED <<sockOf, srv, kind, firstKey, offers, cli, to, invites, outbound,
                     ccs, clientEnd>>
  BY DEF CollectionReady, hostVars
<1>2. /\ c \in Conns /\ s0 \in Socks /\ TypeOK
      /\ IF AtClient(c) THEN c = cli[s0] /\ CliMsg(s0, m)
                        ELSE c = srv[s0] /\ SrvMsg(s0, m)
  BY HeadSays, HInvParts
<1>3. PICK r \in Message, a \in Message :
           /\ r.type = "ready2" /\ a.type = "alltracks"
           /\ outbound[c] => /\ msgs \in Seq(Message) /\ DOMAIN msgs = 1..2
                             /\ msgs[1] = r /\ msgs[2] = a
           /\ ~outbound[c] => msgs = <<a>>
  <2>1. Msg("ready2") \in Message /\ Msg("alltracks") \in Message
    BY <1>2, MessageTypes
  <2>2. \A p, q \in Message : /\ <<p>> \o <<q>> \in Seq(Message)
                              /\ DOMAIN (<<p>> \o <<q>>) = 1..2
                               /\ (<<p>> \o <<q>>)[1] = p /\ (<<p>> \o <<q>>)[2] = q
    OBVIOUS
  <2> QED BY <2>1, <2>2 DEF Ready2Then, Msg
<1> HIDE DEF msgs
<1>4. msgs \in Seq(Message) /\ out \in [Conns -> Seq(Message)]
  <2>1. msgs \in Seq(Message)
    <3>1. <<a>> \in Seq(Message)
      OBVIOUS
    <3> QED BY <1>3, <3>1, Zenon
  <2> QED BY <1>2, <2>1, OnlyType
<1> HIDE DEF out, s0
<1>5. ready'[c] /\ \A z \in Conns : z # c => (ready'[z] <=> ready[z])
  BY <1>1, <1>2 DEF TypeOK
<1>6. Grown(NoConn, NoSock) /\ Readied
  <2>1. MayReady(c)
    BY <1>1 DEF MayReady
  <2>2. Readied
    BY <1>5, <2>1, Zenon DEF Readied
  <2> QED BY <1>1, <2>2, NoneGrown, HInvParts
<1>7. ASSUME NEW s \in Socks, cli[s] = c, s0 = s, EndOpen(c)
      PROVE  /\ DOMAIN msgs = 1..2 /\ msgs[1] = r /\ msgs[2] = a
             /\ SrvMsg(s, r)' /\ SrvMsg(s, a)'
  <2>1. AtClient(c) /\ srv[s] \in Conns
    BY <1>2, <1>7 DEF AtClient, CliMsg, s0
  <2>2. clientEnd[s] = "open" /\ outbound[c]
    BY <1>2, <1>7, <2>1, HInvParts DEF EndOpen, Sided, s0
  <2>3. DOMAIN msgs = 1..2 /\ msgs[1] = r /\ msgs[2] = a
    BY <1>3, <2>2
  <2>4. /\ cli'[s] = c /\ c \in Conns /\ srv'[s] \in Conns /\ ready'[c]
        /\ kind'[c] # "control"
    BY <1>1, <1>2, <1>5, <1>7, <2>1
  <2>5. SrvMsg(s, r)' /\ SrvMsg(s, a)'
    BY <1>3, <2>4 DEF SrvMsg
  <2> QED BY <2>3, <2>5
<1>8. ASSUME NEW s \in Socks, srv[s] = c, s0 = s, EndOpen(c)
      PROVE  msgs = <<a>> /\ CliMsg(s, a)'
  <2>1. ~AtClient(c)
    BY <1>2, <1>8, DistinctEnds DEF AtClient, s0
  <2>2. ~outbound[c] /\ SrvMsg(s, m) /\ m.type = "ready2"
    BY <1>1, <1>2, <1>8, <2>1, HInvParts DEF Sided, s0, IsReady, IsReady2
  <2>3. cli[s] \in Conns /\ ready[cli[s]]
    BY <2>2, Zenon DEF SrvMsg
  <2>4. ready'[cli[s]]
    BY <1>6, <2>3, Zenon DEF Readied
  <2>5. cli'[s] = cli[s] /\ srv'[s] \in Conns
    BY <1>1, <1>2, <1>8
  <2>6. CliMsg(s, a)'
    BY <1>3, <2>4, <2>5 DEF CliMsg
  <2> QED BY <1>3, <2>2, <2>6
<1>9. ASSUME NEW s \in Socks PROVE Fits(c, out, s)
  <2> DEFINE w == Written(out, cli[s], s)
             wc == Written(out, srv[s], s)
  <2>1. w = <<>> \/ (w = msgs /\ cli[s] = c /\ s0 = s /\ EndOpen(c))
    BY <1>2, OnlyWritten DEF out, s0
  <2>2. wc = <<>> \/ (wc = msgs /\ srv[s] = c /\ s0 = s /\ EndOpen(c))
    BY <1>2, OnlyWritten DEF out, s0
  <2> HIDE DEF w, wc
  <2>3. ASSUME NEW x \in Message, InSeq(x, w) PROVE SrvMsg(s, x)'
    <3>1. w = msgs /\ cli[s] = c /\ s0 = s /\ EndOpen(c)
      BY <2>1, <2>3, InEmpty
    <3>2. DOMAIN w = 1..2 /\ w[1] = r /\ w[2] = a /\ SrvMsg(s, r)' /\ SrvMsg(s, a)'
      BY <1>7, <3>1
    <3>3. PICK i \in DOMAIN w : w[i] = x
      BY <2>3 DEF InSeq
    <3>4. x = r \/ x = a
      BY <3>2, <3>3
    <3> QED BY <3>2, <3>4
  <2>4. ASSUME NEW x \in Message, InSeq(x, wc) PROVE CliMsg(s, x)'
    <3>1. wc = msgs /\ srv[s] = c /\ s0 = s /\ EndOpen(c)
      BY <2>2, <2>4, InEmpty
    <3>2. wc = <<a>> /\ CliMsg(s, a)'
      BY <1>8, <3>1
    <3>3. x = a
      BY <2>4, <3>2, InOne
    <3> QED BY <3>2, <3>3
  <2>5. ASSUME NEW x \in Message, InSeq(x, Read(c)[s]), x.type = "ready2",
               kind[cli[s]] = "control"
        PROVE  ~ready'[srv[s]]
    <3>1. InSeq(x, toSrv[s])
      BY <1>4, <2>5, <1>1, ExchangeQueues, HInvParts
    <3>2. SrvMsg(s, x) /\ Acceptor(s)
      BY <3>1, HInvParts DEF Links, Messages
    <3>3. srv[s] \in Conns /\ kind[srv[s]] = "control"
      BY <2>5, <3>2 DEF SrvMsg, Acceptor
    <3>4. ~ready[srv[s]]
      BY <2>5, <3>2, Zenon DEF SrvMsg
    <3>5. srv[s] # c
      BY <1>1, <3>3
    <3> QED BY <1>5, <3>3, <3>4, <3>5, Zenon
  <2>6. Led(w)
    <3>1. CASE w = <<>>
      BY <3>1, EmptyFits
    <3>2. CASE w # <<>>
      <4>1. DOMAIN w = 1..2 /\ w[1] = r /\ w[2] = a
        BY <1>7, <2>1, <3>2
      <4>2. ASSUME NEW i \in 1..2, w[i].type = "alltracks"
            PROVE  \E j \in 1..(i - 1) : w[j].type = "ready2"
        <5>1. i = 2 /\ 1 \in 1..(i - 1)
          BY <1>3, <4>1, <4>2
        <5> QED BY <1>3, <4>1, <5>1
      <4> QED BY <4>1, <4>2 DEF Led
    <3> QED BY <3>1, <3>2
  <2>7. ASSUME kind[cli[s]] = "control"
        PROVE  \A x \in Message : InSeq(x, w) => x.type # "ready2"
    BY <1>1, <2>1, <2>7, InEmpty
  <2>8. Fits(c, out, s)
    BY <1>5, <2>3, <2>4, <2>5, <2>6, <2>7, Zenon DEF Fits, w, wc
  <2> QED BY <2>8
<1>10. Links'
  BY <1>1, <1>4, <1>6, <1>9, ExchangeLinks
<1>11. ListedOnce'
  BY <1>1, HInvParts DEF ListedOnce
<1> QED BY <1>1, <1>6, <1>10, <1>11, HandledKept

(* The dialling control connection answers the first "ready". *)
LEMMA DialledControlReadyKept ==
  ASSUME HInv, TInv', NEW c, Reads(c), NEW m, m = Head(Inbox(c)), DialledControlReady(c, m)
  PROVE  HNext
<1> DEFINE out == Only(c, Ready2Then(<<>>))
           s0 == sockOf[c]
<1>1. /\ Exchange(c, out) /\ kind[c] = "control" /\ ~ready[c] /\ m.type = "ready"
      /\ ready' = [ready EXCEPT ![c] = TRUE] /\ ccs' = [ccs EXCEPT ![c] = @ + 1]
      /\ UNCHANGED <<sockOf, srv, kind, firstKey, offers, cli, to, invites, outbound,
                     clientEnd>>
  BY DEF DialledControlReady, Register, IsReady, hostVars
<1>2. /\ c \in Conns /\ s0 \in Socks /\ TypeOK /\ AtClient(c) /\ c = cli[s0]
      /\ srv[s0] \in Conns
  BY <1>1, HeadSays, HInvParts DEF SrvMsg, CliMsg
<1>3. PICK r \in Message : r.type = "ready2" /\ Ready2Then(<<>>) = <<r>>
  <2>1. Msg("ready2") \in Message
    BY <1>2, MessageTypes
  <2>2. <<Msg("ready2")>> \o <<>> = <<Msg("ready2")>>
    BY <2>1
  <2> QED BY <2>1, <2>2 DEF Ready2Then, Msg
<1>4. out \in [Conns -> Seq(Message)]
  <2>1. <<r>> \in Seq(Message)
    OBVIOUS
  <2> QED BY <1>2, <1>3, <2>1, OnlyType
<1>5. ready'[c] /\ \A z \in Conns : z # c => (ready'[z] <=> ready[z])
  BY <1>1, <1>2 DEF TypeOK
<1>6. /\ \A h \in Hosts : c \notin offers[h]
      /\ \A t \in Socks : srv[t] # c
      /\ \A t \in Socks : cli[t] = c => t = s0
  BY <1>1, <1>2, ControlEnds
<1>7. Grown(NoConn, NoSock) /\ Readied
  <2>1. MayReady(c)
    BY <1>1, <1>2, <1>6 DEF MayReady
  <2>2. Readied
    BY <1>5, <2>1, Zenon DEF Readied
  <2> QED BY <1>1, <2>2, NoneGrown, HInvParts
<1> HIDE DEF out, s0
<1>8. ASSUME NEW s \in Socks, s = s0
      PROVE  SrvMsg(s, r)'
  <2>1. /\ srv[s] \in Conns /\ srv[s] # c /\ kind[srv[s]] = kind[c] /\ Acceptor(s)
        /\ cli[s] = c
    BY <1>2, <1>8, DistinctEnds, HInvParts DEF Links, Acceptor
  <2>2. ~ready[srv[s]]
    BY <1>1, <2>1, Zenon DEF Acceptor
  <2>3. ~ready'[srv[s]]
    BY <1>5, <2>1, <2>2, Zenon
  <2>4. cli'[s] = c /\ srv'[s] = srv[s]
    BY <1>1, <2>1
  <2> QED BY <1>2, <1>3, <1>5, <2>1, <2>3, <2>4 DEF SrvMsg
<1>9. ASSUME NEW s \in Socks PROVE Fits(c, out, s)
  <2> DEFINE w == Written(out, cli[s], s)
             wc == Written(out, srv[s], s)
  <2>1. w = <<>> \/ (w = <<r>> /\ s = s0)
    BY <1>2, <1>3, OnlyWritten DEF out, s0
  <2>2. wc = <<>>
    BY <1>2, <1>6, OnlyWritten DEF out
  <2> HIDE DEF w, wc
  <2>3. ASSUME NEW x \in Message, InSeq(x, w) PROVE SrvMsg(s, x)'
    <3>1. w = <<r>> /\ s = s0
      BY <2>1, <2>3, InEmpty
    <3>2. x = r
      BY <2>3, <3>1, InOne
    <3> QED BY <1>8, <3>1, <3>2
  <2>4. \A x \in Message : InSeq(x, wc) => CliMsg(s, x)'
    BY <2>2, InEmpty
  <2>5. ASSUME NEW x \in Message, InSeq(x, Read(c)[s]), x.type = "ready2",
               kind[cli[s]] = "control"
        PROVE  ~ready'[srv[s]]
    <3>1. InSeq(x, toSrv[s])
      BY <1>4, <2>5, <1>1, ExchangeQueues, HInvParts
    <3>2. SrvMsg(s, x)
      BY <3>1, HInvParts DEF Links, Messages
    <3>3. srv[s] \in Conns /\ srv[s] # c
      BY <1>6, <2>5, <3>2 DEF SrvMsg
    <3>4. ~ready[srv[s]]
      BY <2>5, <3>2, Zenon DEF SrvMsg
    <3> QED BY <1>5, <3>3, <3>4, Zenon
  <2>6. DOMAIN <<r>> = {1} /\ <<r>>[1] = r
    OBVIOUS
  <2>7. Led(w) /\ Once(w)
    <3>1. Led(<<r>>) /\ Once(<<r>>)
      BY <1>3, <2>6 DEF Led, Once
    <3> QED BY <2>1, <3>1, EmptyFits
  <2>8. \/ \A x \in Message : InSeq(x, w) => x.type # "ready2"
        \/ Once(w) /\ \A x \in Message : InSeq(x, toSrv[s]) => x.type # "ready2"
    <3>1. CASE w = <<>>
      BY <3>1, InEmpty
    <3>2. CASE s = s0
      <4>1. ASSUME NEW x \in Message, InSeq(x, toSrv[s]) PROVE x.type # "ready2"
        <5>1. SrvMsg(s, x)
          BY <4>1, HInvParts DEF Links, Messages
        <5>2. ~ready[cli[s]]
          BY <1>1, <1>2, <3>2
        <5> QED BY <5>1, <5>2 DEF SrvMsg
      <4> QED BY <2>7, <4>1
    <3> QED BY <2>1, <3>1, <3>2
  <2> QED BY <1>5, <2>3, <2>4, <2>5, <2>7, <2>8, Zenon DEF Fits, w, wc
<1>10. Links'
  BY <1>1, <1>4, <1>7, <1>9, ExchangeLinks
<1>11. ListedOnce'
  BY <1>1, <1>2, ListedAgain, HInvParts DEF Register
<1> QED BY <1>1, <1>7, <1>10, <1>11, HandledKept

(* The accepting control connection offers our library to all that are listed. *)
LEMMA AcceptedControlReadyKept ==
  ASSUME HInv, TInv', NEW c, Reads(c), NEW m, m = Head(Inbox(c)), AcceptedControlReady(c, m)
  PROVE  HNext
<1> DEFINE h == HostOf(c)
           n == NewConn(h)
           o == MsgKey("library-offer", n)
           out == [w \in Conns |->
                     IF HostOf(w) = h
                     THEN [i \in 1..ccs'[w] |-> MsgKey("library-offer", n)]
                     ELSE <<>>]
           s0 == sockOf[c]
<1>1. /\ Exchange(c, out) /\ kind[c] = "control" /\ m.type = "ready2"
      /\ Construct(h, "collection")
      /\ ready' = [ready EXCEPT ![c] = TRUE] /\ ccs' = [ccs EXCEPT ![c] = @ + 1]
      /\ offers' = [offers EXCEPT ![h] = @ \cup {n}]
      /\ UNCHANGED <<sockOf, srv, firstKey, cli, to, invites, outbound, clientEnd>>
  BY DEF AcceptedControlReady, Register, IsReady2
<1>2. /\ c \in Conns /\ h \in Hosts /\ s0 \in Socks /\ TypeOK /\ ~AtClient(c)
      /\ c = srv[s0] /\ SrvMsg(s0, m) /\ m = Head(toSrv[s0]) /\ m \in Message
  BY <1>1, HeadSays, HInvParts DEF SrvMsg, CliMsg, Reads
<1>3. /\ n \in Conns /\ HostOf(n) = h /\ kind[n] = "none" /\ kind'[n] = "collection"
      /\ \A y \in Conns : y # n => kind'[y] = kind[y]
  BY <1>1, <1>2, HInvParts, MadeConn
<1>4. o \in Message /\ o.type = "library-offer" /\ o.key = n
  BY <1>3, MessageTypes DEF MsgKey
<1>5. ASSUME NEW w \in Conns
      PROVE  /\ out[w] \in Seq(Message)
             /\ \A x : InSeq(x, out[w]) => x = o /\ ccs'[w] > 0
  <2> HIDE DEF o
  <2>1. ccs'[w] \in Nat
    BY <1>1, <1>2 DEF TypeOK
  <2>2. out[w] = <<>> \/ out[w] = [i \in 1..ccs'[w] |-> o]
    BY DEF o
  <2> DEFINE q == [i \in 1..ccs'[w] |-> o]
  <2>3. q \in Seq(Message) /\ DOMAIN q = 1..ccs'[w]
    BY <1>4, <2>1
  <2>4. ASSUME NEW x, InSeq(x, q) PROVE x = o /\ ccs'[w] > 0
    <3>1. PICK i \in DOMAIN q : q[i] = x
      BY <2>4 DEF InSeq
    <3> QED BY <2>1, <3>1
  <2> HIDE DEF q, out
  <2>5. <<>> \in Seq(Message)
    OBVIOUS
  <2> QED BY <2>2, <2>3, <2>4, <2>5, InEmpty DEF q
<1>6. out \in [Conns -> Seq(Message)]
  <2>1. out = [w \in Conns |-> out[w]]
    OBVIOUS
  <2> HIDE DEF out
  <2> QED BY <1>5, <2>1
<1> HIDE DEF out, s0, o, n, h
<1>7. ready'[c] /\ \A z \in Conns : z # c => (ready'[z] <=> ready[z])
  BY <1>1, <1>2 DEF TypeOK
<1>8. /\ \A g \in Hosts : c \notin offers[g]
      /\ \A t \in Socks : cli[t] # c
      /\ \A t \in Socks : srv[t] = c => t = s0
  BY <1>1, <1>2, ControlEnds
<1>9. cli[s0] \in Conns /\ ready[cli[s0]] /\ kind[cli[s0]] = "control" /\ ~ready[c]
  <2>1. cli[s0] \in Conns /\ kind[cli[s0]] = "control"
    BY <1>1, <1>2, HInvParts DEF SrvMsg, Links, Acceptor
  <2>2. ready[cli[s0]]
    BY <1>1, <1>2, Zenon DEF SrvMsg
  <2>3. ~ready[c]
    BY <1>1, <1>2, <2>1, Zenon DEF SrvMsg
  <2> QED BY <2>1, <2>2, <2>3
<1>10. Grown(n, NoSock)
  <2>1. firstKey'[n] = NoConn
    BY <1>1, <1>3, Unused
  <2>2. \A g \in Hosts : \A y \in offers'[g] : y \in offers[g] \/ (y = n /\ g = h)
    BY <1>1, <1>2 DEF TypeOK
  <2> QED BY <1>1, <1>3, <2>1, <2>2 DEF Grown
<1>11. Readied
  <2>1. \A t \in Socks : srv[t] = c => ready[cli[t]]
    BY <1>8, <1>9
  <2>2. MayReady(c)
    BY <1>1, <1>8, <2>1 DEF MayReady
  <2> QED BY <1>7, <2>2, Zenon DEF Readied
(* Whom the offer is written to. *)
<1>12. ASSUME NEW w \in Conns, ccs'[w] > 0, w # c
       PROVE  kind[w] = "control" /\ ready[w]
  <2>1. ccs[w] > 0
    BY <1>1, <1>2, <1>12 DEF TypeOK
  <2> QED BY <2>1, HInvParts, Zenon DEF ListedUsable
<1>13. ASSUME NEW s \in Socks, NEW x \in Message, InSeq(x, Written(out, cli[s], s))
       PROVE  x.type = "library-offer" /\ SrvMsg(s, x)'
  <2> DEFINE w == cli[s]
  <2>1. w \in Conns /\ InSeq(x, out[w])
    BY <1>13, InEmpty DEF Written
  <2>2. x = o /\ w # c /\ kind[w] = "control" /\ ready[w]
    <3>1. x = o /\ ccs'[w] > 0
      BY <1>5, <2>1
    <3>2. w # c
      BY <1>8
    <3> QED BY <1>12, <2>1, <3>1, <3>2
  <2>3. srv[s] \in Conns
    <3>1. Dialler(s)
      BY HInvParts DEF Links
    <3> QED BY <2>1, <2>2, <3>1, Zenon DEF Dialler
  <2>4. cli'[s] = w /\ srv'[s] = srv[s] /\ ready'[w]
    BY <1>1, <1>7, <2>1, <2>2
  <2> HIDE DEF w
  <2>5. x.type = "library-offer" /\ x.key = n
    BY <1>4, <2>2
  <2> QED BY <1>3, <2>1, <2>3, <2>4, <2>5 DEF SrvMsg
<1>14. ASSUME NEW s \in Socks, NEW x \in Message, InSeq(x, Written(out, srv[s], s))
       PROVE  CliMsg(s, x)'
  <2> DEFINE w == srv[s]
  <2>1. w \in Conns /\ InSeq(x, out[w])
    BY <1>14, InEmpty DEF Written
  <2>2. x = o /\ (w # c => kind[w] = "control" /\ ready[w])
    <3>1. x = o /\ ccs'[w] > 0
      BY <1>5, <2>1
    <3> QED BY <1>12, <2>1, <3>1
  <2>3. cli[s] \in Conns /\ ready[cli[s]]
    <3>1. CASE w = c
      BY <1>8, <1>9, <3>1
    <3>2. CASE w # c
      <4>1. Acceptor(s) /\ cli[s] \in Conns
        BY <2>1, DistinctEnds, HInvParts DEF Links
      <4> QED BY <2>1, <2>2, <3>2, <4>1, Zenon DEF Acceptor
    <3> QED BY <3>1, <3>2
  <2>4. cli'[s] = cli[s] /\ srv'[s] = w
    BY <1>1
  <2>5. ready'[cli[s]]
    BY <1>11, <2>3, Zenon DEF Readied
  <2> HIDE DEF w
  <2>6. x.type = "library-offer" /\ x.key = n
    BY <1>4, <2>2
  <2> QED BY <1>3, <2>1, <2>3, <2>4, <2>5, <2>6 DEF CliMsg
<1>15. ASSUME NEW s \in Socks PROVE Fits(c, out, s)
  <2> DEFINE w == Written(out, cli[s], s)
  <2>1. w \in Seq(Message) /\ \A x \in Message : InSeq(x, w) => x.type = "library-offer"
    BY <1>1, <1>6, <1>13, ExchangeQueues, HInvParts
  <2> HIDE DEF w
  <2>2. Led(w)
    <3>1. \A i \in DOMAIN w : w[i].type # "alltracks"
      BY <2>1, InTyped
    <3> QED BY <3>1 DEF Led
  <2>3. ASSUME NEW x \in Message, InSeq(x, Read(c)[s]), x.type = "ready2",
               kind[cli[s]] = "control"
        PROVE  ~ready'[srv[s]]
    <3>1. toSrv[s] \in Seq(Message) /\ InSeq(x, toSrv[s])
      BY <1>1, <1>6, <2>3, ExchangeQueues, HInvParts DEF TypeOK
    <3>2. SrvMsg(s, x) /\ Order(s)
      BY <3>1, HInvParts DEF Links, Messages
    <3>3. srv[s] \in Conns /\ cli[s] \in Conns
      BY <2>3, <3>2 DEF SrvMsg
    <3>4. ~ready[srv[s]]
      BY <2>3, <3>2, Zenon DEF SrvMsg
    <3>5. srv[s] # c
      <4> SUFFICES ASSUME srv[s] = c PROVE FALSE
        OBVIOUS
      <4>1. s = s0
        BY <1>8
      <4>2. Read(c)[s] = Tail(toSrv[s]) /\ toSrv[s] # <<>> /\ Head(toSrv[s]) = m
        BY <1>1, <1>2, <1>6, <4>1, ExchangeQueues, HInvParts DEF s0
      <4>3. Once(toSrv[s])
        BY <2>3, <3>2, <3>3 DEF Order
      <4>4. \A i \in DOMAIN Tail(toSrv[s]) : Tail(toSrv[s])[i].type # "ready2"
        BY <1>1, <3>1, <4>2, <4>3, OnceTail
      <4>5. InSeq(x, Tail(toSrv[s]))
        BY <2>3, <4>2
      <4> QED BY <2>3, <4>4, <4>5 DEF InSeq
    <3> QED BY <1>7, <3>3, <3>4, <3>5, Zenon
  <2>4. \A x \in Message : InSeq(x, w) => x.type # "ready2"
    BY <2>1
  <2> QED BY <1>7, <1>13, <1>14, <2>2, <2>3, <2>4, Zenon DEF Fits, w
<1>16. Links'
  BY <1>1, <1>3, <1>6, <1>10, <1>11, <1>15, ExchangeLinks
<1>17. ListedOnce'
  BY <1>1, <1>2, <1>9, ListedAgain, HInvParts
<1> QED BY <1>1, <1>3, <1>10, <1>11, <1>16, <1>17, HandledKept

(* A request-offer goes to the end that dialled, which is ready. *)
LEMMA RequestFits ==
  ASSUME HInv, NEW c, Reads(c), UNCHANGED <<ready, srv>>, Grows,
         Head(Inbox(c)).type \in {"library-offer", "request-offer"}, ~outbound[c],
         NEW n \in Conns, kind'[n] = "collection",
         NEW key \in Conns \cup {NoConn},
         ~AtClient(c) => key \in Conns /\ kind'[key] = "collection"
  PROVE  /\ Only(c, <<RequestOffer(n, key)>>) \in [Conns -> Seq(Message)]
         /\ \A s \in Socks : Fits(c, Only(c, <<RequestOffer(n, key)>>), s)
<1> DEFINE f == RequestOffer(n, key)
           out == Only(c, <<f>>)
           s0 == sockOf[c]
<1>1. f \in Message /\ f.type = "request-offer" /\ f.key = n /\ f.offer = key
  BY MessageTypes DEF RequestOffer
<1>2. /\ c \in Conns /\ s0 \in Socks
      /\ ~AtClient(c) => c = srv[s0] /\ SrvMsg(s0, Head(Inbox(c)))
      /\ AtClient(c) => c = cli[s0]
  BY HeadSays
<1> HIDE DEF f
<1>3. <<f>> \in Seq(Message)
  BY <1>1
<1>4. out \in [Conns -> Seq(Message)]
  BY <1>2, <1>3, OnlyType
<1>5. EndOpen(c) => ~AtClient(c)
  BY <1>2, HInvParts DEF EndOpen, Sided
<1> HIDE DEF s0, out
<1>6. ASSUME NEW s \in Socks PROVE Fits(c, out, s)
  <2> DEFINE w == Written(out, cli[s], s)
             wc == Written(out, srv[s], s)
  <2>1. w = <<>>
    <3>1. w = <<>> \/ (cli[s] = c /\ s0 = s /\ EndOpen(c))
      BY <1>2, OnlyWritten DEF out, s0
    <3>2. cli[s] = c /\ s0 = s => AtClient(c)
      BY DEF AtClient, s0
    <3> QED BY <1>5, <3>1, <3>2
  <2>2. wc = <<>> \/ (wc = <<f>> /\ srv[s] = c /\ s0 = s /\ EndOpen(c))
    BY <1>2, OnlyWritten DEF out, s0
  <2>3. /\ \A x \in Message : InSeq(x, Read(c)[s]) /\ x.type = "ready2" =>
              (kind[cli[s]] = "control" => ~ready'[srv[s]])
        /\ s = sockOf[c] /\ ~AtClient(c) /\ Head(toSrv[s]).type = "ready2" => ready'[c]
    <3>1. Head(Inbox(c)).type # "ready2"
      OBVIOUS
    <3> QED BY <3>1, RestFits
  <2> HIDE DEF w, wc
  <2>4. ASSUME NEW x \in Message, InSeq(x, wc) PROVE CliMsg(s, x)'
    <3>1. wc = <<f>> /\ srv[s] = c /\ s0 = s /\ ~AtClient(c)
      BY <1>5, <2>2, <2>4, InEmpty
    <3>2. x = f
      BY <2>4, <3>1, InOne
    <3>3. cli[s] \in Conns /\ ready[cli[s]]
      <4>1. SrvMsg(s, Head(Inbox(c))) /\ Head(Inbox(c)).type # "first"
        BY <1>2, <3>1
      <4> QED BY <4>1, Zenon DEF SrvMsg
    <3>4. cli'[s] = cli[s] /\ srv'[s] = c /\ ready'[cli[s]]
      BY <3>1, <3>3, GrowsAt, GrowsEnds
    <3>5. key \in Conns /\ kind'[key] = "collection" /\ kind'[n] = "collection"
      BY <3>1
    <3> QED BY <1>1, <1>2, <3>2, <3>4, <3>5 DEF CliMsg
  <2>5. Led(w) /\ \A x \in Message : ~InSeq(x, w)
    BY <2>1, EmptyFits, InEmpty
  <2> QED BY <2>3, <2>4, <2>5, Zenon DEF Fits, w, wc
<1> QED BY <1>4, <1>6 DEF out, f

(* createParallelConnection for the collection connection n, once its key is  *)
(* set, as both of its callers use it.                                        *)
LEMMA ParallelKept ==
  ASSUME HInv, TInv', NEW c, Reads(c), NEW n \in Conns, NEW key \in Conns \cup {NoConn},
         CreateParallelConnection(c, n, key), kind[c] = "control",
         Head(Inbox(c)).type \in {"library-offer", "request-offer"},
         ~AtClient(c) => key \in Conns /\ kind'[key] = "collection",
         UNCHANGED <<ready, srv, sockOf, outbound, ccs, invites>>,
         \A y \in Conns : y # n => kind'[y] = kind[y] /\ firstKey'[y] = firstKey[y],
         kind'[n] = "collection", kind[n] \in {"none", "collection"},
         firstKey'[n] # NoConn => kind'[firstKey'[n]] = "collection",
         HostOf(n) = HostOf(c)
  PROVE  HNext
<1> DEFINE s0 == sockOf[c]
<1>1. /\ c \in Conns /\ s0 \in Socks /\ TypeOK
      /\ AtClient(c) => c = cli[s0]
      /\ HostOf(c) \in Hosts
  BY HeadSays, HInvParts DEF Reads
<1>2. Readied
  BY SameReady
<1>3. ListedOnce'
  BY HInvParts DEF ListedOnce
<1>4. CASE DialsDirectly(c)
  <2>1. ConnectToPeer(PeerAddress(c), n) /\ Exchange(c, Nothing) /\ UNCHANGED offers
    BY <1>4 DEF CreateParallelConnection
  <2>2. PICK u \in Socks :
           /\ u[1] = HostOf(n) /\ cli[u] \notin Conns /\ srv[u] \notin Conns
           /\ cli'[u] = n /\ to'[u] = PeerAddress(c) /\ clientEnd'[u] = "connecting"
           /\ \A t \in Socks : t # u => /\ cli'[t] = cli[t] /\ to'[t] = to[t]
                                        /\ clientEnd'[t] = clientEnd[t]
    BY <2>1, HInvParts, DialEffect
  <2>3. PeerAddress(c) # HostOf(c)
    <3>1. CASE EndOpen(c)
      <4>1. AtClient(c)
        BY <1>1, <1>4, HInvParts DEF Sided, DialsDirectly
      <4>2. c = cli[s0] /\ Dialler(s0) /\ HostOf(cli[s0]) = s0[1]
        BY <1>1, <4>1, HInvParts, EndsOf DEF Links
      <4>3. PeerAddress(c) = to[s0]
        BY <3>1 DEF PeerAddress
      <4> QED BY <1>1, <4>2, <4>3 DEF Dialler
    <3>2. CASE ~EndOpen(c)
      BY <1>1, <3>2, ServentAssumption DEF PeerAddress
    <3> QED BY <3>1, <3>2
  <2>4. Grown(n, u)
    BY <2>1, <2>2, <2>3 DEF Grown
  <2>5. \A s \in Socks : Fits(c, Nothing, s)
    <3>1. Head(Inbox(c)).type # "ready2"
      OBVIOUS
    <3> QED BY <3>1, NothingFits
  <2>6. Links'
    BY <1>2, <2>1, <2>4, <2>5, NothingType, ExchangeLinks
  <2>7. \A t \in Socks : clientEnd'[t] = "open" => clientEnd[t] = "open"
    BY <2>2
  <2> QED BY <1>2, <1>3, <2>4, <2>6, <2>7, HandledKept
<1>5. CASE ~DialsDirectly(c)
  <2> DEFINE out == Only(c, <<RequestOffer(n, key)>>)
  <2>1. /\ offers' = [offers EXCEPT ![HostOf(c)] = @ \cup {n}]
        /\ Exchange(c, out)
        /\ UNCHANGED <<to, cli, clientEnd>>
    BY <1>5 DEF CreateParallelConnection
  <2> HIDE DEF out
  <2>2. \A g \in Hosts : \A y \in offers'[g] :
           y \in offers[g] \/ (y = n /\ g = HostOf(c))
    BY <1>1, <2>1 DEF TypeOK
  <2>3. Grown(n, NoSock)
    BY <2>1, <2>2 DEF Grown
  <2>4. Grows
    BY <1>2, <2>3, GrownGrows
  <2>5. out \in [Conns -> Seq(Message)] /\ \A s \in Socks : Fits(c, out, s)
    BY <1>5, <2>4, RequestFits DEF out, DialsDirectly
  <2>6. Links'
    BY <1>2, <2>1, <2>3, <2>5, ExchangeLinks
  <2> QED BY <1>2, <1>3, <2>1, <2>3, <2>6, HandledKept
<1> QED BY <1>4, <1>5

LEMMA LibraryOfferKept ==
  ASSUME HInv, TInv', NEW c, Reads(c), NEW m, m = Head(Inbox(c)), LibraryOffer(c, m)
  PROVE  HNext
<1> DEFINE h == HostOf(c)
           n == NewConn(h)
<1>1. /\ kind[c] = "control" /\ m.type = "library-offer" /\ Construct(h, "collection")
      /\ CreateParallelConnection(c, n, m.key)
      /\ \/ firstKey' = [firstKey EXCEPT ![n] = IF @ = NoConn THEN m.key ELSE @]
         \/ UNCHANGED firstKey
      /\ UNCHANGED <<invites, ccs, outbound, ready, sockOf, srv>>
  BY DEF LibraryOffer, AcceptOfferMessage
<1>2. /\ c \in Conns /\ h \in Hosts /\ m.key \in Conns /\ kind[m.key] = "collection" /\ TypeOK
  BY <1>1, HeadSays, HInvParts DEF SrvMsg, CliMsg, Reads
<1>3. /\ n \in Conns /\ HostOf(n) = h /\ kind[n] = "none" /\ kind'[n] = "collection"
      /\ \A y \in Conns : y # n => kind'[y] = kind[y]
  BY <1>1, <1>2, HInvParts, MadeConn
<1> HIDE DEF n
<1>4. kind'[m.key] = "collection" /\ firstKey[n] = NoConn
  BY <1>2, <1>3, Unused
<1>5. /\ \A y \in Conns : y # n => firstKey'[y] = firstKey[y]
      /\ firstKey'[n] \in {NoConn, m.key}
  BY <1>1, <1>2, <1>3, <1>4 DEF TypeOK
<1> QED BY <1>1, <1>2, <1>3, <1>4, <1>5, ParallelKept

LEMMA ReverseOfferRequestKept ==
  ASSUME HInv, TInv', NEW c, Reads(c), NEW m, m = Head(Inbox(c)), ReverseOfferRequest(c, m)
  PROVE  HNext
<1> DEFINE h == HostOf(c)
           n == m.offer
<1>1. kind[c] = "control" /\ m.type = "request-offer"
  BY DEF ReverseOfferRequest
<1>2. /\ c \in Conns /\ TypeOK /\ h \in Hosts /\ AtClient(c)
      /\ n \in Conns /\ kind[n] = "collection"
      /\ m.key \in Conns \cup {NoConn} /\ (m.key = NoConn \/ kind[m.key] = "collection")
  <2>1. c \in Conns /\ TypeOK /\ h \in Hosts /\ AtClient(c) /\ m \in Message
    BY <1>1, HeadSays, HInvParts DEF SrvMsg, Reads
  <2>2. CliMsg(sockOf[c], m)
    BY <2>1, HeadSays
  <2>3. m.key \in Conns \cup {NoConn}
    BY <2>1 DEF Message
  <2> QED BY <1>1, <2>1, <2>2, <2>3 DEF CliMsg
<1>3. CASE Crash(h)
  BY <1>3, QuietKept DEF Crash, connVars
<1>4. CASE ~Crash(h) /\ n \notin offers[h]
  <2>1. /\ Exchange(c, Nothing) /\ m.type # "ready2"
        /\ UNCHANGED <<sockOf, srv, kind, firstKey, offers, cli, to, ready, invites,
                       outbound, ccs, clientEnd>>
    BY <1>1, <1>4 DEF ReverseOfferRequest, hostVars, connVars
  <2>2. Grown(NoConn, NoSock) /\ Readied
    BY <2>1, NoneGrown, SameReady, HInvParts
  <2>3. \A s \in Socks : Fits(c, Nothing, s)
    BY <2>1, NothingFits
  <2>4. Links'
    BY <2>1, <2>2, <2>3, NothingType, ExchangeLinks
  <2>5. ListedOnce'
    BY <2>1, HInvParts DEF ListedOnce
  <2> QED BY <2>1, <2>2, <2>4, <2>5, HandledKept
<1>5. CASE ~Crash(h) /\ n \in offers[h]
  <2>1. /\ firstKey' = [firstKey EXCEPT ![n] = m.key]
        /\ CreateParallelConnection(c, n, NoConn)
        /\ UNCHANGED <<invites, ccs, kind, outbound, ready, sockOf, srv>>
    BY <1>5 DEF ReverseOfferRequest
  <2>2. HostOf(n) = h
    BY <1>2, <1>5, HInvParts DEF Offered
  <2> HIDE DEF n
  <2>3. /\ firstKey'[n] = m.key
        /\ \A y \in Conns : y # n => firstKey'[y] = firstKey[y]
    BY <1>2, <2>1 DEF TypeOK
  <2> QED BY <1>1, <1>2, <2>1, <2>2, <2>3, ParallelKept
<1> QED BY <1>3, <1>4, <1>5 DEF ReverseOfferRequest

LEMMA ReadyReadKept ==
  ASSUME HInv, TInv', NEW c \in Conns, ReadyRead(c)
  PROVE  HNext
<1> DEFINE m == Head(Inbox(c))
<1>1. Reads(c)
  BY DEF ReadyRead, Reads, HostOf, Conns
<1>2. \/ AcceptedControlReady(c, m) \/ DialledControlReady(c, m)
      \/ CollectionReady(c, m) \/ LibraryOffer(c, m)
      \/ ReverseOfferRequest(c, m) \/ AllTracks(c, m) \/ Unhandled(c, m)
  BY DEF ReadyRead
<1> QED
  BY <1>1, <1>2, AcceptedControlReadyKept, DialledControlReadyKept, CollectionReadyKept,
     LibraryOfferKept, ReverseOfferRequestKept, OnlyReadKept

-----------------------------------------------------------------------------
(* Every step keeps the invariant. *)

LEMMA ServerDisconnectedKept ==
  ASSUME HInv, TInv', NEW s \in Socks, ServerDisconnected(s)
  PROVE  HNext
<1>1. UNCHANGED <<invites, offers, kind, firstKey, ready, sockOf, outbound, to, cli, srv,
                  toSrv, toCli, ccs>>
  BY DEF ServerDisconnected, hostVars, connVars
<1>2. \/ UNCHANGED clientEnd
      \/ \E m : clientEnd' = [clientEnd EXCEPT ![m] = "closed"]
      \/ \E m : clientEnd' = [clientEnd EXCEPT ![m] = @]
  BY DEF ServerDisconnected
<1>3. \A x \in Socks : clientEnd'[x] = "open" => clientEnd[x] = "open"
  BY <1>2, HInvParts DEF TypeOK
<1> QED BY <1>1, <1>3, QuietKept

LEMMA InitHInv == Init => HInv
<1> SUFFICES ASSUME Init PROVE HInv
  OBVIOUS
<1>1. LInv
  BY InitTInv, ServentAssumption DEF LInv, Init, Fresh, ListedUsable
<1>2. Blank /\ KeyKind /\ Offered /\ Invited /\ ListedOnce
  BY DEF Init, Blank, KeyKind, Offered, Invited, ListedOnce
<1>3. Sided
  BY NoConnNotConn DEF Init, Sided
<1>4. ASSUME NEW s \in Socks
      PROVE  Dialler(s) /\ Acceptor(s) /\ Messages(s) /\ Order(s)
  <2>1. cli[s] \notin Conns /\ srv[s] \notin Conns /\ toSrv[s] = <<>> /\ toCli[s] = <<>>
    BY NoConnNotConn DEF Init
  <2>2. Messages(s)
    BY <2>1, InEmpty DEF Messages
  <2>3. Order(s)
    BY <2>1, EmptyFits DEF Order
  <2> QED BY <2>1, <2>2, <2>3 DEF Dialler, Acceptor
<1> QED BY <1>1, <1>2, <1>3, <1>4 DEF HInv, Links

LEMMA NextHInv == HInv /\ [Next]_vars => HInv'
<1> SUFFICES ASSUME HInv, [Next]_vars
             PROVE  HNext
  BY NextLInv, HInvParts, HNextInv
<1>1. TInv'
  BY NextTInv, HInvParts
<1>2. CASE UNCHANGED vars
  BY <1>2, QuietKept DEF vars, hostVars, connVars, sockVars
<1>3. ASSUME NEW d \in Dials, NewJabberPeer(d)
      PROVE  HNext
  BY <1>1, <1>3, NewJabberPeerKept
<1>4. ASSUME NEW i \in invites, JabberMsg(i)
      PROVE  HNext
  BY <1>1, <1>4, JabberMsgKept
<1>5. ASSUME NEW s \in Socks, SocketConnected(s)
      PROVE  HNext
  BY <1>1, <1>5, SocketConnectedKept
<1>6. ASSUME NEW s \in Socks, DialRefused(s) \/ ClientDisconnected(s)
      PROVE  HNext
  <2>1. clientEnd[s] # "none" /\ SocketError(s)
    BY <1>6 DEF DialRefused, ClientDisconnected
  <2> QED BY <1>1, <2>1, SocketErrorKept
<1>7. ASSUME NEW s \in Socks, IncomingConnection(s) \/ Loss(s)
      PROVE  HNext
  BY <1>7, QuietKept DEF IncomingConnection, Loss, hostVars, connVars
<1>8. ASSUME NEW s \in Socks, ServentReadyRead(s)
      PROVE  HNext
  BY <1>1, <1>8, ServentReadyReadKept
<1>9. ASSUME NEW s \in Socks, ServerDisconnected(s)
      PROVE  HNext
  BY <1>1, <1>9, ServerDisconnectedKept
<1>10. ASSUME NEW c \in Conns, ReadyRead(c)
       PROVE  HNext
  BY <1>1, <1>10, ReadyReadKept
<1>11. ASSUME NEW c \in Conns, DeferredDelete(c)
       PROVE  HNext
  <2>1. /\ UNCHANGED <<invites, offers, kind, firstKey, ready, sockOf, outbound, to, cli,
                       srv, toSrv, toCli, clientEnd>>
        /\ ccs' = [ccs EXCEPT ![c] = 0] \/ ccs' = ccs
    BY <1>11 DEF DeferredDelete, Unregister, hostVars, sockVars
  <2>2. \A x \in Conns : ccs'[x] \in {0, ccs[x]}
    BY <2>1, HInvParts DEF TypeOK
  <2> QED BY <2>1, <2>2, QuietKept
<1> QED
  BY <1>2, <1>3, <1>4, <1>5, <1>6, <1>7, <1>8, <1>9, <1>10, <1>11 DEF Next

-----------------------------------------------------------------------------
(* What the invariant says of the properties *)

LEMMA HInvHandshake ==
  ASSUME HInv
  PROVE  ControlHandshake
<1> SUFFICES ASSUME NEW s \in Socks, srv[s] # NoConn, kind[srv[s]] = "control", ready[srv[s]]
             PROVE  cli[s] \in Conns /\ kind[cli[s]] = "control" /\ ready[cli[s]]
  BY DEF ControlHandshake
<1>1. srv[s] \in Conns
  BY HInvParts DEF TypeOK
<1>2. cli[s] \in Conns /\ Acceptor(s)
  BY <1>1, HInvParts, EndsOf DEF Links
<1>3. kind[cli[s]] = "control"
  BY <1>1, <1>2 DEF Acceptor
<1>4. ready[cli[s]]
  BY <1>1, <1>2, Zenon DEF Acceptor
<1> QED BY <1>2, <1>3, <1>4

LEMMA HInvRequests ==
  ASSUME HInv
  PROVE  RequestsReachDialler
<1> SUFFICES ASSUME NEW c \in Conns, EndOpen(c), NEW i \in DOMAIN Inbox(c),
                    Inbox(c)[i].type = "request-offer"
             PROVE  AtClient(c) /\ outbound[c]
  BY DEF RequestsReachDialler
<1> DEFINE s == sockOf[c]
<1>1. s \in Socks /\ toSrv[s] \in Seq(Message) /\ Messages(s)
  BY HInvParts, EndsOf DEF EndOpen, TypeOK, Links
<1>2. AtClient(c)
  <2> SUFFICES ASSUME ~AtClient(c) PROVE FALSE
    OBVIOUS
  <2>1. Inbox(c) = toSrv[s]
    BY DEF Inbox
  <2> DEFINE m == toSrv[s][i]
  <2>2. i \in DOMAIN toSrv[s] /\ m.type = "request-offer"
    BY <2>1
  <2>3. m \in Message /\ InSeq(m, toSrv[s])
    BY <1>1, <2>2, InTyped
  <2>4. SrvMsg(s, m)
    BY <1>1, <2>3 DEF Messages
  <2> QED BY <2>2, <2>4 DEF SrvMsg
<1>3. outbound[c]
  BY <1>1, <1>2, HInvParts DEF EndOpen, Sided
<1> QED BY <1>2, <1>3

LEMMA HInvTracks ==
  ASSUME HInv
  PROVE  TracksFindCollection
<1> SUFFICES ASSUME NEW c \in Conns, EndOpen(c), Inbox(c) # <<>>,
                    Head(Inbox(c)).type = "alltracks", ~ready[c]
             PROVE  FALSE
  BY DEF TracksFindCollection
<1> DEFINE s == sockOf[c]
<1>1. Reads(c)
  BY DEF Reads, EndOpen, HostOf, Conns
<1>2. /\ c \in Conns /\ s \in Socks
      /\ IF AtClient(c) THEN c = cli[s] /\ CliMsg(s, Head(Inbox(c)))
                        ELSE c = srv[s] /\ Head(Inbox(c)) = Head(toSrv[s])
  BY <1>1, HeadSays
<1>3. CASE AtClient(c)
  <2>1. ready[cli[s]]
    BY <1>2, <1>3, Zenon DEF CliMsg
  <2> QED BY <1>2, <1>3, <2>1
<1>4. CASE ~AtClient(c)
  <2> DEFINE q == toSrv[s]
  <2>1. q \in Seq(Message) /\ q # <<>> /\ Head(q).type = "alltracks" /\ Order(s)
    BY <1>2, <1>4, HInvParts DEF TypeOK, Inbox, Links
  <2>2. Led(q)
    BY <1>2, <1>4, <2>1, Zenon DEF Order
  <2> HIDE DEF q
  <2>3. 1 \in DOMAIN q /\ q[1] = Head(q)
    BY <2>1
  <2>4. \E j \in 1..(1 - 1) : q[j].type = "ready2"
    BY <2>1, <2>2, <2>3 DEF Led
  <2> QED BY <2>4
<1> QED BY <1>3, <1>4

(* No control connection is registered twice, however often "ready2" is      *)
(* handled: at most one is ever sent to an accepted ControlConnection.       *)
THEOREM ListsOnce == Spec => []ListedOnce
<1>1. HInv => ListedOnce
  BY HInvParts
<1> QED BY <1>1, InitHInv, NextHInv, PTL DEF Spec

(* The accepting end of a control link is ready only after the end that      *)
(* dialled it, which is a ready ControlConnection.                           *)
THEOREM HandshakeOrder == Spec => []ControlHandshake
<1>1. HInv => ControlHandshake
  BY HInvHandshake
<1> QED BY <1>1, InitHInv, NextHInv, PTL DEF Spec

(* Only the end that dialled a control link has a request-offer to read.     *)
THEOREM DiallerIsAsked == Spec => []RequestsReachDialler
<1>1. HInv => RequestsReachDialler
  BY HInvRequests
<1> QED BY <1>1, InitHInv, NextHInv, PTL DEF Spec

(* A track list reaches a RemoteCollectionConnection only when it is ready   *)
(* and has a RemoteCollection to give it to.                                 *)
THEOREM NoTracksDropped == Spec => []TracksFindCollection
<1>1. HInv => TracksFindCollection
  BY HInvTracks
<1> QED BY <1>1, InitHInv, NextHInv, PTL DEF Spec

-----------------------------------------------------------------------------
(***************************************************************************)
(* What m_offers holds                                                     *)
(***************************************************************************)

(* An object not yet constructed lives; one that is offered has been given   *)
(* to no accepted socket, and lives unless it has dialled.                   *)
Unclaimed ==
    /\ \A c \in Conns : kind[c] = "none" => life[c] = "live"
    /\ \A h \in Hosts : \A c \in offers[h] :
          /\ \A s \in Socks : srv[s] # c
          /\ life[c] # "live" => \E s \in Socks : cli[s] = c

(* A step that offers no object but a new one n, leaves the accepted sockets *)
(* alone, and ends the life only of objects that have a socket.              *)
LEMMA OffersKept ==
  ASSUME HInv, Unclaimed, UNCHANGED srv, NEW n,
         n \in Conns => kind[n] = "none",
         \A h \in Hosts : \A c \in offers'[h] : c \in offers[h] \/ (c = n /\ n \in Conns),
         \A s \in Socks : cli'[s] = cli[s] \/ cli[s] \notin Conns,
         \A c \in Conns : kind'[c] = "none" => kind[c] = "none",
         \A c \in Conns : \/ life'[c] = life[c] \/ life[c] = "dying"
                          \/ \E s \in Socks : c = cli[s] \/ c = srv[s]
  PROVE  Unclaimed'
<1>1. \A h \in Hosts : offers[h] \subseteq Conns
  BY HInvParts DEF TypeOK
<1>2. ASSUME NEW c \in Conns, kind[c] = "none"
      PROVE  life'[c] = "live" /\ \A s \in Socks : srv[s] # c
  <2>1. life[c] = "live" /\ \A s \in Socks : cli[s] # c /\ srv[s] # c
    BY <1>2, Unused DEF Unclaimed
  <2> QED BY <2>1
<1>3. ASSUME NEW h \in Hosts, NEW c \in offers'[h]
      PROVE  /\ \A s \in Socks : srv'[s] # c
             /\ life'[c] # "live" => \E s \in Socks : cli'[s] = c
  <2>1. CASE c \in offers[h]
    <3>1. c \in Conns /\ \A s \in Socks : srv[s] # c
      BY <1>1, <2>1 DEF Unclaimed
    <3>2. life[c] # "live" => \E s \in Socks : cli[s] = c
      BY <2>1 DEF Unclaimed
    <3>3. life'[c] # "live" => \E s \in Socks : cli[s] = c
      BY <3>1, <3>2
    <3> QED BY <3>1, <3>3
  <2>2. CASE c \notin offers[h]
    BY <1>2, <1>3, <2>2
  <2> QED BY <2>1, <2>2
<1> QED BY <1>2, <1>3 DEF Unclaimed

(* A step that constructs, dials and offers nothing. *)
LEMMA QuietOffers ==
  ASSUME HInv, Unclaimed, UNCHANGED <<offers, kind, cli, srv>>,
         \A c \in Conns : \/ life'[c] = life[c] \/ life[c] = "dying"
                          \/ \E s \in Socks : c = cli[s] \/ c = srv[s]
  PROVE  Unclaimed'
<1>1. NoConn \notin Conns
  BY NoConnNotConn
<1> QED BY <1>1, OffersKept, Zenon

LEMMA NewJabberPeerOffers ==
  ASSUME HInv, Unclaimed, NEW d \in Dials, NewJabberPeer(d)
  PROVE  Unclaimed'
<1> DEFINE h == d[2]
           n == NewConn(h)
<1>1. h \in Hosts /\ TypeOK /\ Construct(h, "control")
  BY ServentAssumption, HInvParts DEF NewJabberPeer
<1>2. /\ n \in Conns /\ kind[n] = "none" /\ kind'[n] = "control"
      /\ \A y \in Conns : y # n => kind'[y] = kind[y]
  BY <1>1, HInvParts, MadeConn
<1>3. /\ offers' = [offers EXCEPT ![h] = @ \cup {n}]
      /\ UNCHANGED <<life, cli, srv>>
  BY DEF NewJabberPeer, sockVars
<1> HIDE DEF n, h
<1>4. \A g \in Hosts : \A c \in offers'[g] : c \in offers[g] \/ (c = n /\ n \in Conns)
  BY <1>1, <1>2, <1>3 DEF TypeOK
<1> QED BY <1>2, <1>3, <1>4, OffersKept

LEMMA JabberMsgOffers ==
  ASSUME HInv, Unclaimed, NEW i \in invites, JabberMsg(i)
  PROVE  Unclaimed'
<1> DEFINE h == i[1]
           n == NewConn(h)
<1>1. h \in Hosts /\ TInv /\ Construct(h, "control") /\ ConnectToPeer(HostOf(i[2]), n)
  BY HInvParts DEF TypeOK, JabberMsg
<1>2. /\ n \in Conns /\ kind[n] = "none" /\ kind'[n] = "control"
      /\ \A y \in Conns : y # n => kind'[y] = kind[y]
  BY <1>1, HInvParts, MadeConn
<1>3. UNCHANGED <<offers, life, srv>>
  BY DEF JabberMsg
<1> HIDE DEF n, h
<1>4. \A t \in Socks : cli'[t] = cli[t] \/ cli[t] \notin Conns
  BY <1>1, <1>2, DialEffect
<1> QED BY <1>2, <1>3, <1>4, OffersKept

LEMMA SocketErrorOffers ==
  ASSUME HInv, Unclaimed, NEW s \in Socks, SocketError(s)
  PROVE  Unclaimed'
<1>1. CASE Crash(s[1])
  BY <1>1, QuietOffers DEF Crash, connVars
<1>2. CASE ~Crash(s[1])
  <2>1. /\ UNCHANGED <<offers, kind, cli, srv>>
        /\ life' = [life EXCEPT ![cli[s]] = IF autodel[cli[s]] THEN "dying" ELSE @]
    BY <1>2 DEF SocketError, hostVars
  <2>2. \A c \in Conns : life'[c] = life[c] \/ c = cli[s]
    BY <2>1, HInvParts DEF TypeOK
  <2> QED BY <2>1, <2>2, QuietOffers
<1> QED BY <1>1, <1>2

LEMMA ServerDisconnectedOffers ==
  ASSUME HInv, Unclaimed, NEW s \in Socks, ServerDisconnected(s)
  PROVE  Unclaimed'
<1>1. UNCHANGED <<offers, kind, cli, srv>>
  BY DEF ServerDisconnected, hostVars, connVars
<1>2. life' = life \/ life' = [life EXCEPT ![srv[s]] = "dying"]
  BY DEF ServerDisconnected, connVars
<1>3. \A c \in Conns : life'[c] = life[c] \/ c = srv[s]
  BY <1>2, HInvParts DEF TypeOK
<1> QED BY <1>1, <1>3, QuietOffers

LEMMA DeferredDeleteOffers ==
  ASSUME HInv, Unclaimed, NEW c \in Conns, DeferredDelete(c)
  PROVE  Unclaimed'
<1>1. UNCHANGED <<offers, kind, cli, srv>>
  BY DEF DeferredDelete, hostVars, sockVars
<1>2. life[c] = "dying" /\ life' = [life EXCEPT ![c] = "deleted"]
  BY DEF DeferredDelete
<1>3. \A x \in Conns : life'[x] = life[x] \/ life[x] = "dying"
  BY <1>2, HInvParts DEF TypeOK
<1> QED BY <1>1, <1>3, QuietOffers

(* An object is given to an accepted socket and leaves m_offers in one step. *)
LEMMA ServentReadyReadOffers ==
  ASSUME HInv, Unclaimed, NEW s \in Socks, ServentReadyRead(s)
  PROVE  Unclaimed'
<1> DEFINE h == to[s]
           c == Head(toSrv[s]).key
<1>1. h \in Hosts /\ TypeOK
  BY HInvParts, NoConnNotConn DEF SockShape, Accepted, ServentReadyRead, TypeOK
<1>2. CASE Crash(h)
  BY <1>2, QuietOffers DEF Crash, connVars
<1>3. CASE ~Crash(h) /\ c \notin offers[h]
  <2>1. UNCHANGED <<offers, kind, cli, srv, life>>
    BY <1>3 DEF ServentReadyRead, hostVars, connVars
  <2> QED BY <2>1, QuietOffers
<1>4. CASE ~Crash(h) /\ c \in offers[h]
  <2>1. /\ offers' = [offers EXCEPT ![h] = @ \ {c}]
        /\ srv' = [srv EXCEPT ![s] = c]
        /\ UNCHANGED <<kind, cli, life>>
    BY <1>4 DEF ServentReadyRead, OffersAfterUse
  <2>2. HostOf(c) = h
    BY <1>1, <1>4, HInvParts DEF Offered
  <2> HIDE DEF c, h
  <2>3. \A t \in Socks : srv'[t] = srv[t] \/ srv'[t] = c
    BY <1>1, <2>1 DEF TypeOK
  <2>4. \A g \in Hosts : offers'[g] \subseteq offers[g] /\ c \notin offers'[g]
    <3>1. \A g \in Hosts : c \in offers[g] => g = h
      BY <1>1, <2>2, HInvParts DEF Offered
    <3> QED BY <1>1, <2>1, <3>1 DEF TypeOK
  <2> QED BY <2>1, <2>3, <2>4 DEF Unclaimed
<1> QED BY <1>2, <1>3, <1>4

LEMMA AcceptedControlReadyOffers ==
  ASSUME HInv, Unclaimed, NEW c, Reads(c), NEW m, AcceptedControlReady(c, m)
  PROVE  Unclaimed'
<1> DEFINE h == HostOf(c)
           n == NewConn(h)
<1>1. h \in Hosts /\ TypeOK /\ Construct(h, "collection")
  BY HInvParts DEF Reads, AcceptedControlReady
<1>2. /\ n \in Conns /\ kind[n] = "none" /\ kind'[n] = "collection"
      /\ \A y \in Conns : y # n => kind'[y] = kind[y]
  BY <1>1, HInvParts, MadeConn
<1>3. /\ offers' = [offers EXCEPT ![h] = @ \cup {n}]
      /\ UNCHANGED <<life, cli, srv>>
  BY DEF AcceptedControlReady
<1> HIDE DEF n, h
<1>4. \A g \in Hosts : \A x \in offers'[g] : x \in offers[g] \/ (x = n /\ n \in Conns)
  BY <1>1, <1>2, <1>3 DEF TypeOK
<1> QED BY <1>2, <1>3, <1>4, OffersKept

(* The fetching object is new, whether it dials or is registered. *)
LEMMA LibraryOfferOffers ==
  ASSUME HInv, Unclaimed, NEW c, Reads(c), NEW m, LibraryOffer(c, m)
  PROVE  Unclaimed'
<1> DEFINE h == HostOf(c)
           n == NewConn(h)
<1>1. /\ h \in Hosts /\ TInv /\ TypeOK
      /\ Construct(h, "collection") /\ CreateParallelConnection(c, n, m.key)
      /\ UNCHANGED <<life, srv>>
  BY HInvParts DEF Reads, LibraryOffer
<1>2. /\ n \in Conns /\ kind[n] = "none" /\ kind'[n] = "collection"
      /\ \A y \in Conns : y # n => kind'[y] = kind[y]
  BY <1>1, HInvParts, MadeConn
<1> HIDE DEF n
<1>3. CASE ConnectToPeer(PeerAddress(c), n) /\ UNCHANGED offers
  <2>1. \A t \in Socks : cli'[t] = cli[t] \/ cli[t] \notin Conns
    BY <1>1, <1>2, <1>3, DialEffect
  <2> QED BY <1>1, <1>2, <1>3, <2>1, OffersKept
<1>4. CASE offers' = [offers EXCEPT ![h] = @ \cup {n}] /\ UNCHANGED cli
  <2> HIDE DEF h
  <2>1. \A g \in Hosts : \A x \in offers'[g] : x \in offers[g] \/ (x = n /\ n \in Conns)
    BY <1>1, <1>2, <1>4 DEF TypeOK
  <2> QED BY <1>1, <1>2, <1>4, <2>1, OffersKept
<1> QED BY <1>1, <1>3, <1>4 DEF CreateParallelConnection

(* The object is registered already; at most it is dialled out with. *)
LEMMA ReverseOfferRequestOffers ==
  ASSUME HInv, Unclaimed, NEW c, Reads(c), NEW m, ReverseOfferRequest(c, m)
  PROVE  Unclaimed'
<1> DEFINE h == HostOf(c)
           n == m.offer
<1>1. CASE Crash(h) \/ n \notin offers[h]
  <2>1. UNCHANGED <<offers, kind, cli, srv, life>>
    BY <1>1 DEF ReverseOfferRequest, Crash, hostVars, connVars
  <2> QED BY <2>1, QuietOffers
<1>2. CASE ~Crash(h) /\ n \in offers[h]
  <2>1. CreateParallelConnection(c, n, NoConn) /\ UNCHANGED <<kind, life, srv>>
    BY <1>2 DEF ReverseOfferRequest
  <2>2. h \in Hosts /\ n \in Conns /\ TInv /\ TypeOK
    BY <1>2, HInvParts DEF TypeOK, Reads
  <2> HIDE DEF n
  <2>3. \/ ConnectToPeer(PeerAddress(c), n) /\ UNCHANGED offers
        \/ offers' = [offers EXCEPT ![h] = @ \cup {n}] /\ UNCHANGED cli
    <3>1. CASE DialsDirectly(c)
      BY <2>1, <3>1, Zenon DEF CreateParallelConnection
    <3>2. CASE ~DialsDirectly(c)
      <4>1. /\ offers' = [offers EXCEPT ![HostOf(c)] = @ \cup {n}]
            /\ UNCHANGED <<dialled, to, cli, clientEnd, up>>
        BY <2>1, <3>2, Zenon DEF CreateParallelConnection
      <4> QED BY <4>1
    <3> QED BY <3>1, <3>2
  <2> HIDE DEF h
  <2>4. \A t \in Socks : cli'[t] = cli[t] \/ cli[t] \notin Conns
    BY <2>2, <2>3, DialEffect
  <2>5. \A g \in Hosts : \A x \in offers'[g] : x \in offers[g]
    <3>1. offers \in [Hosts -> SUBSET Conns] /\ n \in offers[h]
      BY <1>2, <2>2 DEF TypeOK
    <3>2. CASE UNCHANGED offers
      BY <3>2
    <3>3. CASE offers' = [offers EXCEPT ![h] = @ \cup {n}]
      BY <2>2, <3>1, <3>3
    <3> QED BY <2>3, <3>2, <3>3
  <2>6. NoConn \notin Conns
    BY NoConnNotConn
  <2> QED BY <2>1, <2>4, <2>5, <2>6, OffersKept
<1> QED BY <1>1, <1>2

LEMMA ReadyReadOffers ==
  ASSUME HInv, Unclaimed, NEW c \in Conns, ReadyRead(c)
  PROVE  Unclaimed'
<1> DEFINE m == Head(Inbox(c))
<1>1. Reads(c)
  BY DEF ReadyRead, Reads, HostOf, Conns
<1>2. CASE \/ DialledControlReady(c, m) \/ CollectionReady(c, m)
           \/ AllTracks(c, m) \/ Unhandled(c, m)
  <2>1. UNCHANGED <<offers, kind, cli, srv, life>>
    BY <1>2 DEF DialledControlReady, CollectionReady, AllTracks, Unhandled, hostVars, connVars
  <2> QED BY <2>1, QuietOffers
<1>3. CASE AcceptedControlReady(c, m)
  BY <1>1, <1>3, AcceptedControlReadyOffers
<1>4. CASE LibraryOffer(c, m)
  BY <1>1, <1>4, LibraryOfferOffers
<1>5. CASE ReverseOfferRequest(c, m)
  BY <1>1, <1>5, ReverseOfferRequestOffers
<1> QED BY <1>2, <1>3, <1>4, <1>5 DEF ReadyRead

LEMMA NextOffers == HInv /\ Unclaimed /\ [Next]_vars => Unclaimed'
<1> SUFFICES ASSUME HInv, Unclaimed, [Next]_vars
             PROVE  Unclaimed'
  OBVIOUS
<1>1. CASE UNCHANGED vars
  BY <1>1, QuietOffers DEF vars, hostVars, connVars, sockVars
<1>2. ASSUME NEW d \in Dials, NewJabberPeer(d)
      PROVE  Unclaimed'
  BY <1>2, NewJabberPeerOffers
<1>3. ASSUME NEW i \in invites, JabberMsg(i)
      PROVE  Unclaimed'
  BY <1>3, JabberMsgOffers
<1>4. ASSUME NEW s \in Socks, ServentReadyRead(s) \/ ServerDisconnected(s)
      PROVE  Unclaimed'
  BY <1>4, ServentReadyReadOffers, ServerDisconnectedOffers
<1>5. ASSUME NEW s \in Socks, DialRefused(s) \/ ClientDisconnected(s)
      PROVE  Unclaimed'
  BY <1>5, SocketErrorOffers DEF DialRefused, ClientDisconnected
<1>6. ASSUME NEW s \in Socks, SocketConnected(s) \/ IncomingConnection(s) \/ Loss(s)
      PROVE  Unclaimed'
  <2>1. UNCHANGED <<offers, kind, cli, srv, life>>
    BY <1>6 DEF SocketConnected, IncomingConnection, Loss, Crash, hostVars, connVars
  <2> QED BY <2>1, QuietOffers
<1>7. ASSUME NEW c \in Conns, ReadyRead(c) \/ DeferredDelete(c)
      PROVE  Unclaimed'
  BY <1>7, ReadyReadOffers, DeferredDeleteOffers
<1> QED BY <1>1, <1>2, <1>3, <1>4, <1>5, <1>6, <1>7 DEF Next

(* For any hosts and dials, whatever links break: a key outlives its object   *)
(* only if the object was dialled out with in answer to a request-offer.     *)
THEOREM KeyOutlivesOnlyReversed == Spec => []StaleOnlyReversed
<1>1. Init => Unclaimed
  BY NoConnNotConn DEF Init, Unclaimed
<1>2. Unclaimed => StaleOnlyReversed
  BY DEF Unclaimed, StaleOnlyReversed
<1> QED BY <1>1, <1>2, InitHInv, NextHInv, NextOffers, PTL DEF Spec

=============================================================================
