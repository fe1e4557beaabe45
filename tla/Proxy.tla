--------------------------------- MODULE Proxy ---------------------------------
(***************************************************************************)
(* A DAAP session through a peer.  A DAAP client connects to the port of a *)
(* ProxyListener; the ProxyConnectionListener "L" it makes is joined by a  *)
(* parallel connection to a ProxyConnection "P" of the peer, which         *)
(* connects to the DAAP server it stands for.  Messages between L and P    *)
(* are whole and in order (module Connection).                             *)
(*                                                                         *)
(* What an end of the connection is (at): "none"; "unset", while it has no *)
(* socket; "linked", start() has run; "ready"; "finished", shutdown() has  *)
(* run and deleteLater() is posted; "failed", its dial failed, and nothing *)
(* deletes it; "deleted".                                                  *)
(***************************************************************************)
EXTENDS Integers, Sequences, SequencesExt

CONSTANT MaxSent        \* bound: bytes that client and server write each

ASSUME ProxyAssumption == MaxSent \in Nat

Sides == {"L", "P"}
Peer(e) == IF e = "L" THEN "P" ELSE "L"

VARIABLES dialler,      \* the end that dials: L, or P if the control connection came
                        \* from the peer, which is asked to dial
          at,
          link,         \* the TCP connection between L and P: "none", "up", "broken"
          wire,         \* wire[e]: messages to e that it has not read
          m_psock,      \* L's socket to the client: "none", "open", "closed"
          m_buf,        \* what the client wrote before L was ready, read by read
          fromClient,   \* bytes L has not read
          m_proxysocket, \* P's socket: "none", "connecting", "open", "closed"
          m_sendbuffer, m_dead,
          fromServer,
          sent, got,    \* by "client" and "server", as in Pipe
          crashed       \* a process used a pointer that nothing set

clientVars == <<m_psock, m_buf, fromClient>>
serverVars == <<m_proxysocket, m_sendbuffer, m_dead, fromServer>>
proxyVars == <<dialler, at, link, wire, clientVars, serverVars, sent, got, crashed>>

InitProxy ==
    /\ dialler \in Sides
    /\ at = [e \in Sides |-> "none"] /\ link = "none" /\ wire = [e \in Sides |-> <<>>]
    /\ m_psock = "none" /\ m_buf = <<>> /\ fromClient = <<>>
    /\ m_proxysocket = "none" /\ m_sendbuffer = <<>> /\ m_dead = FALSE /\ fromServer = <<>>
    /\ sent = [e \in {"client", "server"} |-> <<>>] /\ got = sent
    /\ crashed = FALSE

Msg(t) == [type |-> t, data |-> <<>>]
Data(bytes) == [type |-> "data", data |-> bytes]

(* sendMsg of end e, seen from the other end's wire w. *)
Sends(e, w, messages) ==
    IF link = "up" /\ at[e] \in {"linked", "ready"} THEN w \o messages ELSE w

-----------------------------------------------------------------------------
(* ProxyListener::incomingConnection: L is made, and createParallelConnection *)
(* dials or asks the peer to, which offers P.                                *)
IncomingClient ==
    /\ at["L"] = "none"
    /\ at' = [e \in Sides |-> "unset"] /\ m_psock' = "open"
    /\ UNCHANGED <<dialler, link, wire, m_buf, fromClient, serverVars, sent, got, crashed>>

(* Servent::socketConnected *)
SocketConnected ==
    /\ link = "none" /\ at[dialler] = "unset"
    /\ link' = "up" /\ at' = [at EXCEPT ![dialler] = "linked"]
    /\ wire' = [wire EXCEPT ![Peer(dialler)] = <<Msg("first")>>]
    /\ UNCHANGED <<dialler, clientVars, serverVars, sent, got, crashed>>

(* Servent::socketError: the dial failed. *)
SocketError ==
    /\ link = "none" /\ at[dialler] = "unset"
    /\ link' = "broken" /\ at' = [at EXCEPT ![dialler] = "failed"]
    /\ UNCHANGED <<dialler, wire, clientVars, serverVars, sent, got, crashed>>

(* Servent::readyRead gives the accepted socket to the other end. *)
TakeSocket ==
    LET e == Peer(dialler) IN
    /\ at[e] = "unset" /\ wire[e] # <<>>
    /\ at' = [at EXCEPT ![e] = "linked"]
    /\ wire' = [wire EXCEPT ![e] = Tail(@), ![dialler] = IF link = "up" THEN Append(@, Msg("ready")) ELSE @]
    /\ UNCHANGED <<dialler, link, clientVars, serverVars, sent, got, crashed>>

-----------------------------------------------------------------------------
(* Connection::readyRead *)

Slip_Flushed == Reverse(m_buf)
(* flushBuffer *)
Flushed == m_buf

(* "ready" at the dialling end, "ready2" at the other: setup(), and what is   *)
(* connected to ready().                                                     *)
BecomeReady(e) ==
    LET reply == IF e = dialler THEN <<Msg("ready2")>> ELSE <<>>
        flush == IF e = "L" THEN [i \in DOMAIN Flushed |-> Data(Flushed[i])] ELSE <<>>
    IN  /\ wire[e] # <<>> /\ Head(wire[e]).type \in {"ready", "ready2"}
        /\ at[e] \in {"linked", "finished"}
        /\ at' = [at EXCEPT ![e] = IF @ = "linked" THEN "ready" ELSE @]
        /\ wire' = [wire EXCEPT ![e] = Tail(@), ![Peer(e)] = Sends(e, @, reply \o flush)]
        /\ m_proxysocket' = IF e = "P" THEN "connecting" ELSE m_proxysocket
        /\ UNCHANGED <<dialler, link, clientVars, m_sendbuffer, m_dead, fromServer, sent, got, crashed>>

(* ProxyConnectionListener::handleMsg *)
HandleMsgL ==
    /\ at["L"] \in {"ready", "finished"} /\ wire["L"] # <<>> /\ Head(wire["L"]).type = "data"
    /\ wire' = [wire EXCEPT !["L"] = Tail(@)]
    /\ got' = IF m_psock = "open" THEN [got EXCEPT !["client"] = @ \o Head(wire["L"]).data] ELSE got
    /\ UNCHANGED <<dialler, at, link, clientVars, serverVars, sent, crashed>>

(* ProxyConnection::handleMsg: once dead it shuts down. *)
HandleMsgP ==
    /\ at["P"] \in {"ready", "finished"} /\ wire["P"] # <<>> /\ Head(wire["P"]).type = "data"
    /\ wire' = [wire EXCEPT !["P"] = Tail(@)]
    /\ IF m_proxysocket = "open"
       THEN got' = [got EXCEPT !["server"] = @ \o Head(wire["P"]).data] /\ UNCHANGED m_sendbuffer
       ELSE m_sendbuffer' = Append(m_sendbuffer, Head(wire["P"]).data) /\ UNCHANGED got
    /\ at' = IF m_dead THEN [at EXCEPT !["P"] = "finished"] ELSE at
    /\ link' = IF m_dead THEN "broken" ELSE link
    /\ UNCHANGED <<dialler, clientVars, m_proxysocket, m_dead, fromServer, sent, crashed>>

(* The connection breaks, at any moment. *)
BreakLink ==
    /\ link = "up" /\ link' = "broken"
    /\ UNCHANGED <<dialler, at, wire, clientVars, serverVars, sent, got, crashed>>

(* disconnected() is connected to shutdown(). *)
Disconnected(e) ==
    /\ link = "broken" /\ at[e] \in {"linked", "ready"}
    /\ at' = [at EXCEPT ![e] = "finished"]
    /\ UNCHANGED <<dialler, link, wire, clientVars, serverVars, sent, got, crashed>>

Slip_Closes(sock) == sock
(* The destructors close their socket if it is open. *)
Closes(sock) == IF sock = "none" THEN "none" ELSE "closed"

DeferredDelete(e) ==
    /\ at[e] = "finished"
    /\ at' = [at EXCEPT ![e] = "deleted"]
    /\ m_psock' = IF e = "L" THEN Closes(m_psock) ELSE m_psock
    /\ m_proxysocket' = IF e = "P" THEN Closes(m_proxysocket) ELSE m_proxysocket
    /\ UNCHANGED <<dialler, link, wire, m_buf, fromClient, m_sendbuffer, m_dead, fromServer, sent, got, crashed>>

-----------------------------------------------------------------------------
(* The DAAP client and L *)

ClientWrites ==
    /\ m_psock = "open" /\ Len(sent["client"]) < MaxSent
    /\ LET b == Len(sent["client"]) + 1 IN
       sent' = [sent EXCEPT !["client"] = Append(@, b)] /\ fromClient' = Append(fromClient, b)
    /\ UNCHANGED <<dialler, at, link, wire, m_psock, m_buf, serverVars, got, crashed>>

(* ProxyConnectionListener::proxyReadyRead *)
ProxyReadyReadL ==
    /\ m_psock = "open" /\ at["L"] # "deleted"
    /\ \E n \in 1..Len(fromClient) :
          LET ba == SubSeq(fromClient, 1, n) IN
          /\ fromClient' = SubSeq(fromClient, n + 1, Len(fromClient))
          /\ IF at["L"] = "ready"
             THEN wire' = [wire EXCEPT !["P"] = Sends("L", @, <<Data(ba)>>)] /\ UNCHANGED m_buf
             ELSE m_buf' = Append(m_buf, ba) /\ UNCHANGED wire
    /\ UNCHANGED <<dialler, at, link, m_psock, serverVars, sent, got, crashed>>

(* The client leaves: shutdown().  It reads m_sock, which nothing has set     *)
(* before L has a socket; what it finds may be taken for null.  After a      *)
(* failed dial the socket is closed already.                                 *)
ClientLeaves ==
    /\ m_psock = "open" /\ m_psock' = "closed"
    /\ \/ /\ at["L"] = "unset" /\ crashed' \in BOOLEAN /\ UNCHANGED <<dialler, at, link>>
       \/ /\ at["L"] \in {"linked", "ready", "finished"}
          /\ at' = [at EXCEPT !["L"] = "finished"] /\ link' = "broken" /\ UNCHANGED crashed
       \/ at["L"] = "failed" /\ UNCHANGED <<dialler, at, link, crashed>>
    /\ UNCHANGED <<dialler, wire, m_buf, fromClient, serverVars, sent, got>>

-----------------------------------------------------------------------------
(* P and the DAAP server *)

(* proxyConnected *)
ProxyConnected ==
    /\ m_proxysocket = "connecting" /\ m_proxysocket' = "open"
    /\ got' = [got EXCEPT !["server"] = @ \o FlattenSeq(m_sendbuffer)]
    /\ m_sendbuffer' = <<>>
    /\ UNCHANGED <<dialler, at, link, wire, clientVars, m_dead, fromServer, sent, crashed>>

(* The connection is refused: nothing is connected to error(). *)
ProxyRefused ==
    /\ m_proxysocket = "connecting" /\ m_proxysocket' = "closed"
    /\ UNCHANGED <<dialler, at, link, wire, clientVars, m_sendbuffer, m_dead, fromServer, sent, got, crashed>>

ServerWrites ==
    /\ m_proxysocket = "open" /\ Len(sent["server"]) < MaxSent
    /\ LET b == Len(sent["server"]) + 1 IN
       sent' = [sent EXCEPT !["server"] = Append(@, b)] /\ fromServer' = Append(fromServer, b)
    /\ UNCHANGED <<dialler, at, link, wire, clientVars, m_proxysocket, m_sendbuffer, m_dead, got, crashed>>

(* ProxyConnection::proxyReadyRead *)
ProxyReadyReadP ==
    /\ m_proxysocket = "open" /\ at["P"] # "deleted"
    /\ \E n \in 1..Len(fromServer) :
          /\ fromServer' = SubSeq(fromServer, n + 1, Len(fromServer))
          /\ wire' = [wire EXCEPT !["L"] = Sends("P", @, <<Data(SubSeq(fromServer, 1, n))>>)]
    /\ UNCHANGED <<dialler, at, link, clientVars, m_proxysocket, m_sendbuffer, m_dead, sent, got, crashed>>

(* The server closes; if it aborts, what P has not read is lost:              *)
(* proxyDisconnected.                                                        *)
ServerCloses ==
    /\ m_proxysocket = "open"
    /\ m_proxysocket' = "closed" /\ m_dead' = TRUE
    /\ UNCHANGED <<dialler, at, link, wire, clientVars, m_sendbuffer, fromServer, sent, got, crashed>>

-----------------------------------------------------------------------------
Relays ==
    ~crashed /\
    ( \/ SocketConnected \/ TakeSocket \/ HandleMsgL \/ HandleMsgP
      \/ ProxyReadyReadL \/ ProxyReadyReadP \/ ProxyConnected
      \/ \E e \in Sides : BecomeReady(e) \/ Disconnected(e) \/ DeferredDelete(e) )

(* What need not happen: use, and failures. *)
Disturbs ==
    ~crashed /\
    ( \/ ClientWrites \/ ClientLeaves \/ ServerWrites \/ ServerCloses
      \/ SocketError \/ BreakLink \/ ProxyRefused )

-----------------------------------------------------------------------------
(* While nothing has failed or left. *)
Healthy ==
    /\ link # "broken" /\ ~crashed /\ m_psock # "closed" /\ m_proxysocket # "closed"

(* L and P together are a Pipe: bytes written before the parallel connection  *)
(* is ready, or before P reaches its server, are kept, and come first.       *)
Tunnel == INSTANCE Pipe WITH Bytes <- 1..MaxSent, sent <- sent, got <- got, open <- Healthy
TunnelIsPipe == Tunnel!Spec

(* Once both ends have their sockets, whatever ends the session ends it for   *)
(* both: if the link breaks or the client leaves, client and server see      *)
(* their connection closed.  (If the server closes, nobody is told before    *)
(* the client writes again.)                                                 *)
Teardown ==
    ( /\ \A e \in Sides : at[e] \in {"linked", "ready", "finished"}
      /\ link = "broken" )
    ~> ( crashed \/ (m_psock = "closed" /\ m_proxysocket \in {"none", "closed"}) )

=============================================================================
