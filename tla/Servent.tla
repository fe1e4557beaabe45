------------------------------- MODULE Servent -------------------------------
(***************************************************************************)
(* The servents of several hosts and the Connection objects they own: who  *)
(* offers what, who dials whom, which object an accepted socket is given   *)
(* to, and what becomes of the objects when a link breaks.  Messages are   *)
(* whole here; that framing delivers them whole and in order is what       *)
(* module Connection shows.                                                *)
(*                                                                         *)
(* Each host is one Qt event loop, so a slot runs to its end: one action   *)
(* per slot.  Hosts interleave, and so do the signals of different sockets.*)
(*                                                                         *)
(* A Connection is <<h, n>>, the n-th one host h constructs; a socket is   *)
(* <<h, n>>, the n-th one host h dials.  An offer key is a fresh uuid that *)
(* names one object, so it is represented by that object.                  *)
(***************************************************************************)
EXTENDS Integers, Sequences, FiniteSets

CONSTANTS Hosts,
          NoHost,       \* the null QHostAddress
          Dials,        \* <<dialler, listener>>: who is told to dial whom
          MaxConn,      \* bound: Connections one host constructs
          MaxSock,      \* bound: sockets one host dials
          MaxLoss       \* bound: links that break and dials that fail

ASSUME ServentAssumption ==
    /\ NoHost \notin Hosts
    /\ Dials \subseteq Hosts \X Hosts
    /\ \A d \in Dials : d[1] # d[2]
    /\ MaxConn \in Nat /\ MaxSock \in Nat /\ MaxLoss \in Nat

Conns == Hosts \X (1..MaxConn)
Socks == Hosts \X (1..MaxSock)
NoConn == <<NoHost, 0>>
NoSock == <<NoHost, 0>>

VARIABLES
  (* per host *)
  toInvite,     \* pairs of Dials whose listener has not seen the peer online yet
  invites,      \* <<dialler, key>>: offers under way by XMPP
  made,         \* Connections constructed
  dialled,      \* sockets dialled
  offers,       \* m_offers: the objects registered under a key
  crashed,      \* hosts that used a deleted object
  (* per Connection *)
  ccs,          \* how often its host lists it in m_controlconnections
  kind,         \* its class, or "none" before it is constructed
  life,         \* "live"; "dying": deleteLater() posted; "deleted"
  autodel,      \* finished() is connected to deleteLater()
  outbound,     \* m_outbound
  ready,        \* m_ready
  sockOf,       \* m_sock
  firstKey,     \* the key in m_firstmsg
  tracks,       \* the hosts whose alltracks it received
  (* per socket *)
  to,           \* the address it dials
  cli,          \* _conn of the dialling side
  srv,          \* the Connection the accepting Servent gave it to
  clientEnd,    \* "none", "connecting", "open", "closed"
  serverEnd,    \* "none", "servent", "conn", "closed"
  up,           \* TCP still carries data
  toSrv, toCli, \* messages written and not yet read
  lost          \* links broken and dials failed so far

hostVars == <<toInvite, invites, made, dialled, offers, crashed>>
connVars == <<ccs, kind, life, autodel, outbound, ready, sockOf, firstKey, tracks>>
sockVars == <<to, cli, srv, clientEnd, serverEnd, up, toSrv, toCli, lost>>
vars == <<hostVars, connVars, sockVars>>

Message == [type : {"first", "ready", "ready2", "library-offer",
                    "request-offer", "alltracks"},
            key : Conns \cup {NoConn}, offer : Conns \cup {NoConn}]

Msg(t) == [type |-> t, key |-> NoConn, offer |-> NoConn]
MsgKey(t, k) == [type |-> t, key |-> k, offer |-> NoConn]
RequestOffer(k, o) == [type |-> "request-offer", key |-> k, offer |-> o]

HostOf(c) == c[1]

-----------------------------------------------------------------------------
(* What a Connection sees of its socket *)

AtClient(c) == cli[sockOf[c]] = c

EndOpen(c) ==
    /\ sockOf[c] # NoSock
    /\ IF AtClient(c) THEN clientEnd[sockOf[c]] = "open"
                      ELSE serverEnd[sockOf[c]] = "conn"

Inbox(c) == IF AtClient(c) THEN toCli[sockOf[c]] ELSE toSrv[sockOf[c]]

(* What c->sendMsg() writes reaches the wire. *)
Writes(c) == EndOpen(c) /\ up[sockOf[c]]

(* c->socket()->peerAddress(): null once the socket has disconnected. *)
PeerAddress(c) == IF EndOpen(c) THEN to[sockOf[c]] ELSE NoHost

(* c takes its next message off its socket, and each Connection w writes the *)
(* messages out[w].                                                          *)
Read(c) ==
    [s \in Socks |-> IF s = sockOf[c] /\ ~AtClient(c) THEN Tail(toSrv[s]) ELSE toSrv[s]]
ReadAtClient(c) ==
    [s \in Socks |-> IF s = sockOf[c] /\ AtClient(c) THEN Tail(toCli[s]) ELSE toCli[s]]

Written(out, w, s) ==
    IF w \in Conns /\ sockOf[w] = s /\ Writes(w) THEN out[w] ELSE <<>>

Exchange(c, out) ==
    /\ toSrv' = [s \in Socks |-> Read(c)[s] \o Written(out, cli[s], s)]
    /\ toCli' = [s \in Socks |-> ReadAtClient(c)[s] \o Written(out, srv[s], s)]

(* Only w writes, or nobody. *)
Only(w, msgs) == [x \in Conns |-> IF x = w THEN msgs ELSE <<>>]
Nothing == [x \in Conns |-> <<>>]

-----------------------------------------------------------------------------
Init ==
    /\ toInvite = Dials
    /\ invites = {}
    /\ made = [h \in Hosts |-> 0]
    /\ dialled = [h \in Hosts |-> 0]
    /\ offers = [h \in Hosts |-> {}]
    /\ crashed = {}
    /\ ccs = [c \in Conns |-> 0]
    /\ kind = [c \in Conns |-> "none"]
    /\ life = [c \in Conns |-> "live"]
    /\ autodel = [c \in Conns |-> FALSE]
    /\ outbound = [c \in Conns |-> FALSE]
    /\ ready = [c \in Conns |-> FALSE]
    /\ sockOf = [c \in Conns |-> NoSock]
    /\ firstKey = [c \in Conns |-> NoConn]
    /\ tracks = [c \in Conns |-> {}]
    /\ to = [s \in Socks |-> NoHost]
    /\ cli = [s \in Socks |-> NoConn]
    /\ srv = [s \in Socks |-> NoConn]
    /\ clientEnd = [s \in Socks |-> "none"]
    /\ serverEnd = [s \in Socks |-> "none"]
    /\ up = [s \in Socks |-> FALSE]
    /\ toSrv = [s \in Socks |-> <<>>]
    /\ toCli = [s \in Socks |-> <<>>]
    /\ lost = 0

(* Host h uses an object it has deleted: the process dies, and with it its  *)
(* sockets.                                                                 *)
Crash(h) ==
    /\ crashed' = crashed \cup {h}
    /\ up' = [s \in Socks |-> up[s] /\ s[1] # h /\ to[s] # h]
    /\ UNCHANGED <<toInvite, invites, made, dialled, offers, connVars,
                   to, cli, srv, clientEnd, serverEnd, toSrv, toCli, lost>>

(* A definition Slip_D is a plausible slip in the code D models; no action    *)
(* uses it.  The README says which property each slip breaks.                *)

(* new SomeConnection(...) on host h *)
NewConn(h) == <<h, made[h] + 1>>

Construct(h, class) ==
    /\ made[h] < MaxConn
    /\ made' = [made EXCEPT ![h] = @ + 1]
    /\ kind' = [kind EXCEPT ![NewConn(h)] = class]

Slip_ConnectFinished(c) == autodel' = autodel

(* connect(conn, SIGNAL(finished()), conn, SLOT(deleteLater())) *)
ConnectFinished(c) == autodel' = [autodel EXCEPT ![c] = TRUE]

(* Servent::connectToPeer on the host of c, the key already in m_firstmsg. *)
ConnectToPeer(address, c) ==
    LET h == HostOf(c)
        s == <<h, dialled[h] + 1>>
    IN  /\ dialled[h] < MaxSock
        /\ dialled' = [dialled EXCEPT ![h] = @ + 1]
        /\ to' = [to EXCEPT ![s] = address]
        /\ cli' = [cli EXCEPT ![s] = c]
        /\ clientEnd' = [clientEnd EXCEPT ![s] = "connecting"]
        /\ up' = [up EXCEPT ![s] = TRUE]

(* connectToPeer gives m_firstmsg the key unless it already has one. *)
AcceptOfferMessage(c, key) ==
    firstKey' = [firstKey EXCEPT ![c] = IF @ = NoConn THEN key ELSE @]

-----------------------------------------------------------------------------
(* The XMPP side: conjist::newJabberPeer on the listener and                *)
(* conjist::jabberMsg on the dialler.                                       *)

NewJabberPeer(d) ==
    LET h == d[2]
    IN  /\ d \in toInvite /\ h \notin crashed
        /\ toInvite' = toInvite \ {d}
        /\ Construct(h, "control")
        /\ offers' = [offers EXCEPT ![h] = @ \cup {NewConn(h)}]
        /\ invites' = invites \cup {<<d[1], NewConn(h)>>}
        /\ UNCHANGED <<dialled, crashed, ccs, life, autodel, outbound, ready,
                       sockOf, firstKey, tracks, sockVars>>

JabberMsg(i) ==
    LET h == i[1]
    IN  /\ i \in invites /\ h \notin crashed
        /\ invites' = invites \ {i}
        /\ Construct(h, "control")
        /\ ConnectToPeer(HostOf(i[2]), NewConn(h))
        /\ AcceptOfferMessage(NewConn(h), i[2])
        /\ UNCHANGED <<toInvite, offers, crashed, ccs, life, autodel, outbound,
                       ready, sockOf, tracks, srv, serverEnd, toSrv, toCli, lost>>

-----------------------------------------------------------------------------
(* Sockets *)

Slip_Greeting(c, out) == IF out THEN <<MsgKey("first", firstKey[c]), Msg("ready2")>>
                                ELSE <<Msg("ready")>>

(* What Connection::start() writes. *)
Greeting(c, out) == IF out THEN <<MsgKey("first", firstKey[c])>>
                           ELSE <<Msg("ready")>>

SocketConnected(s) ==
    LET c == cli[s]
    IN  /\ clientEnd[s] = "connecting" /\ s[1] \notin crashed
        /\ to[s] \in Hosts \ crashed
        /\ \/ life[c] = "deleted" /\ Crash(s[1])
           \/ /\ life[c] # "deleted"
              /\ clientEnd' = [clientEnd EXCEPT ![s] = "open"]
              /\ outbound' = [outbound EXCEPT ![c] = TRUE]
              /\ sockOf' = [sockOf EXCEPT ![c] = s]
              /\ ConnectFinished(c)
              /\ toSrv' = [toSrv EXCEPT ![s] =
                              IF up[s] THEN @ \o Greeting(c, TRUE) ELSE @]
              /\ UNCHANGED <<hostVars, ccs, kind, life, ready, firstKey, tracks,
                             to, cli, srv, serverEnd, up, toCli, lost>>

(* error() on the dialled socket s: the Connection takes it, fails and shuts *)
(* down.  A Connection nobody connected to deleteLater() stays.              *)
SocketError(s) ==
    LET c == cli[s]
    IN  \/ life[c] = "deleted" /\ Crash(s[1])
        \/ /\ life[c] # "deleted"
           /\ sockOf' = [sockOf EXCEPT ![c] = s]
           /\ life' = [life EXCEPT ![c] = IF autodel[c] THEN "dying" ELSE @]
           /\ clientEnd' = [clientEnd EXCEPT ![s] = "closed"]
           /\ up' = [up EXCEPT ![s] = FALSE]
           /\ UNCHANGED <<hostVars, ccs, kind, autodel, outbound, ready,
                          firstKey, tracks, to, cli, srv, serverEnd, toSrv,
                          toCli, lost>>

(* The dial cannot succeed: a null address, or a host that is gone. *)
DialRefused(s) ==
    /\ clientEnd[s] = "connecting" /\ s[1] \notin crashed
    /\ to[s] \notin Hosts \ crashed
    /\ SocketError(s)

IncomingConnection(s) ==
    /\ serverEnd[s] = "none" /\ clientEnd[s] # "none" /\ up[s]
    /\ to[s] \in Hosts \ crashed
    /\ serverEnd' = [serverEnd EXCEPT ![s] = "servent"]
    /\ UNCHANGED <<hostVars, connVars, to, cli, srv, clientEnd, up, toSrv,
                   toCli, lost>>

Slip_OffersAfterUse(h, c) == offers[h]

(* Servent::readyRead: the first message on an accepted socket names an      *)
(* offer, which every peer uses once (no offer of this module is reusable).  *)
OffersAfterUse(h, c) == offers[h] \ {c}

ServentReadyRead(s) ==
    LET h == to[s]
        c == Head(toSrv[s]).key
    IN  /\ serverEnd[s] = "servent" /\ toSrv[s] # <<>> /\ h \notin crashed
        /\ \/ /\ c \notin offers[h]
              /\ serverEnd' = [serverEnd EXCEPT ![s] = "closed"]
              /\ up' = [up EXCEPT ![s] = FALSE]
              /\ toSrv' = [toSrv EXCEPT ![s] = Tail(@)]
              /\ UNCHANGED <<hostVars, connVars, to, cli, srv, clientEnd,
                             toCli, lost>>
           \/ c \in offers[h] /\ life[c] = "deleted" /\ Crash(h)
           \/ /\ c \in offers[h] /\ life[c] # "deleted"
              /\ offers' = [offers EXCEPT ![h] = OffersAfterUse(h, c)]
              /\ outbound' = [outbound EXCEPT ![c] = FALSE]
              /\ sockOf' = [sockOf EXCEPT ![c] = s]
              /\ ConnectFinished(c)
              /\ srv' = [srv EXCEPT ![s] = c]
              /\ serverEnd' = [serverEnd EXCEPT ![s] = "conn"]
              /\ toSrv' = [toSrv EXCEPT ![s] = Tail(@)]
              /\ toCli' = [toCli EXCEPT ![s] =
                              IF up[s] THEN @ \o Greeting(c, FALSE) ELSE @]
              /\ UNCHANGED <<toInvite, invites, made, dialled, crashed, ccs,
                             kind, life, ready, firstKey, tracks, to, cli,
                             clientEnd, up, lost>>

(* The link of s breaks; or its dial fails. *)
Loss(s) ==
    /\ lost < MaxLoss /\ up[s]
    /\ lost' = lost + 1
    /\ up' = [up EXCEPT ![s] = FALSE]
    /\ UNCHANGED <<hostVars, connVars, to, cli, srv, clientEnd, serverEnd,
                   toSrv, toCli>>

(* The dialling side notices that the link is gone: error(), then            *)
(* disconnected(), whose shutdown() changes nothing more.                    *)
ClientDisconnected(s) ==
    /\ clientEnd[s] \in {"connecting", "open"} /\ ~up[s] /\ s[1] \notin crashed
    /\ SocketError(s)

(* The accepting side notices.  shutdown() disconnects m_sock, whichever     *)
(* socket that is by now.                                                    *)
ServerDisconnected(s) ==
    LET c == srv[s]
        m == sockOf[c]
    IN  /\ ~up[s] /\ to[s] \notin crashed
        /\ \/ /\ \/ serverEnd[s] = "servent"
                 \/ serverEnd[s] = "conn" /\ life[c] = "deleted"
              /\ serverEnd' = [serverEnd EXCEPT ![s] = "closed"]
              /\ UNCHANGED <<hostVars, connVars, to, cli, srv, clientEnd, up,
                             toSrv, toCli, lost>>
           \/ /\ serverEnd[s] = "conn" /\ life[c] # "deleted"
              /\ life' = [life EXCEPT ![c] = "dying"]
              /\ serverEnd' = [serverEnd EXCEPT ![s] = "closed",
                                  ![m] = IF AtClient(c) THEN @ ELSE "closed"]
              /\ clientEnd' = [clientEnd EXCEPT
                                  ![m] = IF AtClient(c) THEN "closed" ELSE @]
              /\ up' = [up EXCEPT ![m] = FALSE]
              /\ UNCHANGED <<hostVars, ccs, kind, autodel, outbound, ready, sockOf,
                             firstKey, tracks, to, cli, srv, toSrv, toCli, lost>>

Slip_Unregister(c) == ccs' = ccs
Slip_UnregisterOne(c) == ccs' = [ccs EXCEPT ![c] = @ - 1]

(* Servent::unregisterControlConnection *)
Unregister(c) == ccs' = [ccs EXCEPT ![c] = 0]

(* The event loop deletes c; ~ControlConnection unregisters it. *)
DeferredDelete(c) ==
    /\ life[c] = "dying" /\ HostOf(c) \notin crashed
    /\ life' = [life EXCEPT ![c] = "deleted"]
    /\ \/ kind[c] = "control" /\ Unregister(c)
       \/ kind[c] # "control" /\ UNCHANGED ccs
    /\ UNCHANGED <<hostVars, kind, autodel, outbound, ready, sockOf, firstKey, tracks, sockVars>>

-----------------------------------------------------------------------------
(* Connection::readyRead: c handles the message m it has just read. *)

(* The tests of Connection::readyRead. *)
IsReady2(c, m) == ~outbound[c] /\ m.type = "ready2"
IsReady(c, m) == outbound[c] /\ ~ready[c] /\ m.type = "ready"

Slip_Ready2Then(msgs) == msgs
Slip_Ready2ThenTwice(msgs) == <<Msg("ready2"), Msg("ready2")>> \o msgs
Slip_Ready2ThenLate(msgs) == msgs \o <<Msg("ready2")>>

(* The dialling end answers "ready" before setup() writes msgs. *)
Ready2Then(msgs) == <<Msg("ready2")>> \o msgs

(* m_controlconnections.append(this) *)
Register(c) == ccs' = [ccs EXCEPT ![c] = @ + 1]

(* The accepting ControlConnection is ready: setup() registers it, and       *)
(* registerControlConnection offers our library to every control connection. *)
AcceptedControlReady(c, m) ==
    LET h == HostOf(c)
        share == NewConn(h)
    IN  /\ kind[c] = "control" /\ IsReady2(c, m)
        /\ ready' = [ready EXCEPT ![c] = TRUE]
        /\ Register(c)
        /\ Construct(h, "collection")
        /\ ConnectFinished(share)
        /\ offers' = [offers EXCEPT ![h] = @ \cup {share}]
        /\ Exchange(c, [w \in Conns |->
              IF HostOf(w) = h
              THEN [i \in 1..ccs'[w] |-> MsgKey("library-offer", share)]
              ELSE <<>>])
        /\ UNCHANGED <<toInvite, invites, dialled, crashed, life, outbound,
                       sockOf, firstKey, tracks, to, cli, srv, clientEnd,
                       serverEnd, up, lost>>

(* The dialling ControlConnection is ready: "ready2" goes out before setup(). *)
DialledControlReady(c, m) ==
    /\ kind[c] = "control" /\ IsReady(c, m)
    /\ ready' = [ready EXCEPT ![c] = TRUE]
    /\ Register(c)
    /\ Exchange(c, Only(c, Ready2Then(<<>>)))
    /\ UNCHANGED <<hostVars, kind, life, autodel, outbound, sockOf, firstKey,
                   tracks, to, cli, srv, clientEnd, serverEnd, up, lost>>

(* RemoteCollectionConnection::setup() sends all our tracks. *)
CollectionReady(c, m) ==
    LET all == <<Msg("alltracks")>>
    IN  /\ kind[c] = "collection" /\ (IsReady2(c, m) \/ IsReady(c, m))
        /\ ready' = [ready EXCEPT ![c] = TRUE]
        /\ Exchange(c, Only(c, IF outbound[c] THEN Ready2Then(all) ELSE all))
        /\ UNCHANGED <<hostVars, ccs, kind, life, autodel, outbound, sockOf,
                       firstKey, tracks, to, cli, srv, clientEnd, serverEnd,
                       up, lost>>

Slip_DialsDirectly(c) == ~outbound[c]

(* We dialled the peer of c, so we can reach it. *)
DialsDirectly(c) == outbound[c]

(* Servent::createParallelConnection(c, n, key): dial the peer of c if we    *)
(* dialled it before, else register n and ask the peer to dial us.  (A       *)
(* second key of one object is not told apart from the first.)               *)
CreateParallelConnection(c, n, key) ==
    \/ /\ DialsDirectly(c)
       /\ ConnectToPeer(PeerAddress(c), n)
       /\ Exchange(c, Nothing)
       /\ UNCHANGED offers
    \/ /\ ~DialsDirectly(c)
       /\ offers' = [offers EXCEPT ![HostOf(c)] = @ \cup {n}]
       /\ Exchange(c, Only(c, <<RequestOffer(n, key)>>))
       /\ UNCHANGED <<dialled, to, cli, clientEnd, up>>

(* Servent::createRemoteCollection; connectToPeer writes the first message. *)
LibraryOffer(c, m) ==
    LET fetch == NewConn(HostOf(c))
    IN  /\ kind[c] = "control" /\ m.type = "library-offer"
        /\ Construct(HostOf(c), "collection")
        /\ ConnectFinished(fetch)
        /\ CreateParallelConnection(c, fetch, m.key)
        /\ \/ DialsDirectly(c) /\ AcceptOfferMessage(fetch, m.key)
           \/ ~DialsDirectly(c) /\ UNCHANGED firstKey
        /\ UNCHANGED <<toInvite, invites, crashed, ccs, life, outbound, ready,
                       sockOf, tracks, srv, serverEnd, lost>>

(* Servent::reverseOfferRequest: the object the offer names is to present    *)
(* the key it was asked with.  The offer stays registered.                   *)
ReverseOfferRequest(c, m) ==
    LET h == HostOf(c)
        n == m.offer
    IN  /\ kind[c] = "control" /\ m.type = "request-offer"
        /\ \/ /\ n \notin offers[h]
              /\ Exchange(c, Nothing)
              /\ UNCHANGED <<hostVars, connVars, to, cli, srv, clientEnd,
                             serverEnd, up, lost>>
           \/ n \in offers[h] /\ life[n] = "deleted" /\ Crash(h)
           \/ /\ n \in offers[h] /\ life[n] # "deleted"
              /\ firstKey' = [firstKey EXCEPT ![n] = m.key]
              /\ CreateParallelConnection(c, n, NoConn)
              /\ UNCHANGED <<toInvite, invites, made, crashed, ccs, kind, life,
                             autodel, outbound, ready, sockOf, tracks, srv,
                             serverEnd, lost>>

(* RemoteCollection::connAllTracks, by way of the allTracks signal, which    *)
(* only a RemoteCollection made by setup() is connected to.                  *)
AllTracks(c, m) ==
    /\ kind[c] = "collection" /\ m.type = "alltracks"
    /\ tracks' = [tracks EXCEPT ![c] =
          IF ready[c] THEN @ \cup {IF AtClient(c) THEN to[sockOf[c]]
                                                  ELSE sockOf[c][1]}
                      ELSE @]
    /\ Exchange(c, Nothing)
    /\ UNCHANGED <<hostVars, ccs, kind, life, autodel, outbound, ready, sockOf,
                   firstKey, to, cli, srv, clientEnd, serverEnd, up, lost>>

(* A "ready" to an end that is ready already is an unhandled message. *)
Unhandled(c, m) ==
    /\ m.type = "ready" /\ outbound[c] /\ ready[c]
    /\ Exchange(c, Nothing)
    /\ UNCHANGED <<hostVars, connVars, to, cli, srv, clientEnd, serverEnd, up,
                   lost>>

(* A pending timer lets c read on after its socket disconnected. *)
ReadyRead(c) ==
    LET m == Head(Inbox(c))
    IN  /\ kind[c] # "none" /\ life[c] # "deleted" /\ HostOf(c) \notin crashed
        /\ sockOf[c] # NoSock /\ Inbox(c) # <<>>
        /\ EndOpen(c) \/ life[c] = "dying"
        /\ \/ AcceptedControlReady(c, m)
           \/ DialledControlReady(c, m)
           \/ CollectionReady(c, m)
           \/ LibraryOffer(c, m)
           \/ ReverseOfferRequest(c, m)
           \/ AllTracks(c, m)
           \/ Unhandled(c, m)

-----------------------------------------------------------------------------
Next ==
    \/ \E d \in Dials : NewJabberPeer(d)
    \/ \E i \in invites : JabberMsg(i)
    \/ \E s \in Socks : \/ SocketConnected(s)
                        \/ DialRefused(s)
                        \/ IncomingConnection(s)
                        \/ ServentReadyRead(s)
                        \/ Loss(s)
                        \/ ClientDisconnected(s)
                        \/ ServerDisconnected(s)
    \/ \E c \in Conns : ReadyRead(c) \/ DeferredDelete(c)

(* Every event loop keeps running and TCP and XMPP deliver; a link need not  *)
(* break.                                                                    *)
Fairness ==
    /\ \A d \in Dials : WF_vars(NewJabberPeer(d))
    /\ \A i \in Hosts \X Conns : WF_vars(JabberMsg(i))
    /\ \A s \in Socks : /\ WF_vars(SocketConnected(s))
                        /\ WF_vars(DialRefused(s))
                        /\ WF_vars(IncomingConnection(s))
                        /\ WF_vars(ServentReadyRead(s))
                        /\ WF_vars(ClientDisconnected(s))
                        /\ WF_vars(ServerDisconnected(s))
    /\ \A c \in Conns : WF_vars(ReadyRead(c)) /\ WF_vars(DeferredDelete(c))

Spec == Init /\ [][Next]_vars /\ Fairness
-----------------------------------------------------------------------------
(* Properties *)

TypeOK ==
    /\ toInvite \subseteq Dials
    /\ invites \subseteq Hosts \X Conns
    /\ made \in [Hosts -> 0..MaxConn]
    /\ dialled \in [Hosts -> 0..MaxSock]
    /\ offers \in [Hosts -> SUBSET Conns]
    /\ crashed \subseteq Hosts
    /\ ccs \in [Conns -> Nat]
    /\ kind \in [Conns -> {"none", "control", "collection"}]
    /\ life \in [Conns -> {"live", "dying", "deleted"}]
    /\ autodel \in [Conns -> BOOLEAN]
    /\ outbound \in [Conns -> BOOLEAN]
    /\ ready \in [Conns -> BOOLEAN]
    /\ sockOf \in [Conns -> Socks \cup {NoSock}]
    /\ firstKey \in [Conns -> Conns \cup {NoConn}]
    /\ tracks \in [Conns -> SUBSET (Hosts \cup {NoHost})]
    /\ to \in [Socks -> Hosts \cup {NoHost}]
    /\ cli \in [Socks -> Conns \cup {NoConn}]
    /\ srv \in [Socks -> Conns \cup {NoConn}]
    /\ clientEnd \in [Socks -> {"none", "connecting", "open", "closed"}]
    /\ serverEnd \in [Socks -> {"none", "servent", "conn", "closed"}]
    /\ up \in [Socks -> BOOLEAN]
    /\ toSrv \in [Socks -> Seq(Message)]
    /\ toCli \in [Socks -> Seq(Message)]
    /\ lost \in 0..MaxLoss

(* registerControlConnection sends to every pointer in m_controlconnections  *)
(* without looking at it: each is a ready ControlConnection that has not     *)
(* been deleted (servent.cpp:60-63,77-82, controlconnection.cpp:9-26).       *)
ListedUsable ==
    \A c \in Conns :
        ccs[c] > 0 => kind[c] = "control" /\ ready[c] /\ life[c] # "deleted"

(* No control connection is registered twice, which would send it every      *)
(* offer twice.  Connection::readyRead does not ask !m_ready before it runs  *)
(* setup() on "ready2" (connection.cpp:104-110), so this rests on what the   *)
(* other end sends.                                                          *)
ListedOnce == \A c \in Conns : ccs[c] <= 1

(* The accepting end of a control link is ready, and so may offer our        *)
(* library over it, only after the end that dialled is, which is a           *)
(* ControlConnection too and will act on the offer (connection.cpp:104-118,  *)
(* servent.cpp:135-171).                                                     *)
ControlHandshake ==
    \A s \in Socks :
        srv[s] # NoConn /\ kind[srv[s]] = "control" /\ ready[srv[s]] =>
            cli[s] \in Conns /\ kind[cli[s]] = "control" /\ ready[cli[s]]

(* An object dies with a socket of its own and leaves m_offers when an       *)
(* accepted socket takes it, so that its key cannot outlive it unless the    *)
(* object was dialled out with, in answer to a request-offer, which leaves   *)
(* the key where it is (servent.cpp:151-171,223,256).                        *)
StaleOnlyReversed ==
    \A h \in Hosts : \A c \in offers[h] :
        life[c] # "live" => \E s \in Socks : cli[s] = c

(* A track list never reaches a RemoteCollectionConnection that has no       *)
(* RemoteCollection yet, which would drop it for good                        *)
(* (remotecollectionconnection.h:63, remotecollection.cpp:8).           *)
TracksFindCollection ==
    \A c \in Conns :
        /\ kind[c] = "collection" /\ EndOpen(c) /\ Inbox(c) # <<>>
        /\ Head(Inbox(c)).type = "alltracks"
        => ready[c]

(* Only the end that dialled a control link is asked to reverse an offer:    *)
(* reverseOfferRequest then dials, and two hosts can never keep passing a    *)
(* request-offer to each other (servent.cpp:188-202, servent.cpp:265).       *)
RequestsReachDialler ==
    \A c \in Conns :
        kind[c] = "control" /\ EndOpen(c) =>
            \A i \in DOMAIN Inbox(c) :
                Inbox(c)[i].type = "request-offer" => AtClient(c) /\ outbound[c]

(* "Their shares appear on your machine" (src/README.txt:6), and ours on   *)
(* theirs: unless a link is lost, each side of every dial ends up with the   *)
(* tracks of the other.                                                      *)
HasTracks(h, p) == \E c \in Conns : HostOf(c) = h /\ p \in tracks[c]
SharesAppear ==
    \A d \in Dials :
        <>(lost > 0 \/ (HasTracks(d[1], d[2]) /\ HasTracks(d[2], d[1])))

(* A control connection whose link is gone leaves the list, so that no later *)
(* offer is written to it (servent.cpp:60-63,77-82).                         *)
LostLinkUnlisted ==
    \A c \in Conns :
        (ccs[c] > 0 /\ ~up[sockOf[c]]) ~> (ccs[c] = 0 \/ HostOf(c) \in crashed)

(* An accepted or established link that breaks frees the objects at both     *)
(* ends (servent.cpp:167,214).                                               *)
BrokenLinkFreed ==
    \A s \in Socks : \A c \in Conns :
        (~up[s] /\ ((srv[s] = c /\ serverEnd[s] = "conn")
                    \/ (cli[s] = c /\ clientEnd[s] = "open")))
            ~> (life[c] = "deleted" \/ HostOf(c) \in crashed)

=============================================================================
