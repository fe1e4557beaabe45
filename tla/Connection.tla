------------------------------ MODULE Connection ------------------------------
(***************************************************************************)
(* One TCP connection between two servents, at the level of the bytes      *)
(* QTcpSocket delivers: the length-prefixed framing of Connection::sendMsg *)
(* and Connection::readyRead, the first message read by Servent::readyRead *)
(* and the hand-over of the accepted socket to a Connection, the           *)
(* first / ready / ready2 handshake, and what happens when the link breaks *)
(* in the middle of any of it.                                             *)
(*                                                                         *)
(* End "out" is the Connection of the side that dialled, end "in" the      *)
(* accepting side: first the Servent's own QTcpSocketExtra, then the       *)
(* Connection the socket is handed to.                                     *)
(***************************************************************************)
EXTENDS Integers, SequencesExt

CONSTANTS First,        \* the dialler's first message (the accept-offer JSON)
          Ready,        \* "{ \"ready\" : true }"
          Ready2,       \* "{ \"ready2\" : true }"
          Payloads,     \* messages of the upper layer (sequences of bytes)
          MaxSend       \* MaxSend[e], a bound: the payloads end e sends

Ends == {"out", "in"}
Peer(e) == IF e = "out" THEN "in" ELSE "out"

Byte == 0..255
MaxInt == 2147483647    \* QByteArray::size() is an int
IsMessage(m) == m \in Seq(Byte) /\ m # <<>> /\ Len(m) <= MaxInt

ASSUME HandshakeAssumption ==
    /\ IsMessage(First) /\ IsMessage(Ready) /\ IsMessage(Ready2)
    /\ \A m \in Payloads : IsMessage(m)
    /\ Ready # Ready2 /\ {Ready, Ready2} \cap Payloads = {}
    /\ MaxSend \in [Ends -> Nat]

VARIABLES wire,         \* wire[e]: bytes written, not yet read into end e's socket
          rbuf,         \* rbuf[e]: the read buffer of end e's QTcpSocket
          bs,           \* bs[e]: _bs of the Servent's socket, then m_bs of the Connection
          timers,       \* timers[e]: singleShot(0, readyRead) calls pending
          owner,        \* owner[e]: who reads end e's socket
          ready,        \* ready[e]: m_ready; set together with the call of setup()
          sent,         \* sent[e]: payloads handed to sendMsg at end e
          handled,      \* handled[e]: messages passed to handleMsg at end e
          linkUp        \* FALSE once the TCP connection is broken

vars == <<wire, rbuf, bs, timers, owner, ready, sent, handled, linkUp>>

(* "none": no handler connected yet; "servent": Servent::readyRead;          *)
(* "conn": a Connection; "finished": its shutdown() ran and deleteLater() is *)
(* posted; "deleted": the object and its socket are gone.                    *)
Owners == {"none", "servent", "conn", "finished", "deleted"}

-----------------------------------------------------------------------------
(* Framing *)

HdrLen == 4             \* sizeof(quint32)

BigEndian(n) ==
    <<n \div (256 * 256 * 256), (n \div (256 * 256)) % 256, (n \div 256) % 256, n % 256>>
FromBigEndian(b) == ((b[1] * 256 + b[2]) * 256 + b[3]) * 256 + b[4]

Frame(m) == BigEndian(Len(m)) \o m

(* A definition Slip_D is a plausible slip in the code D models; no action    *)
(* uses it.  The README says which property each slip breaks.                *)
Slip_AfterMessage(need) == need

(* What remains to be read of a message of the length just read. *)
Unread(need) == need

(* m_bs after a message has been read. *)
AfterMessage(need) == 0

(* What one run of a readyRead slot does to a socket holding b, with h the   *)
(* length it has already read (0: none yet): the bytes left, the length now  *)
(* remembered, and the message read, if a whole one was there.               *)
ReadFrame(b, h) ==
    LET header == h = 0 /\ Len(b) >= HdrLen
        need == IF header THEN FromBigEndian(b) ELSE h
        rest == IF header THEN SubSeq(b, HdrLen + 1, Len(b)) ELSE b
        whole == (header \/ h # 0) /\ Len(rest) >= need
    IN  [buf  |-> IF whole THEN SubSeq(rest, need + 1, Len(rest)) ELSE rest,
         bs   |-> IF whole THEN AfterMessage(need) ELSE Unread(need),
         msgs |-> IF whole THEN <<SubSeq(rest, 1, need)>> ELSE <<>>]

(* sendMsg at end e, seen from the other end's incoming bytes w. *)
Written(w, m) == IF linkUp THEN w \o Frame(m) ELSE w

-----------------------------------------------------------------------------
Init ==
    /\ wire = [e \in Ends |-> <<>>]
    /\ rbuf = [e \in Ends |-> <<>>]
    /\ bs = [e \in Ends |-> 0]
    /\ timers = [e \in Ends |-> 0]
    /\ owner = [e \in Ends |-> "none"]
    /\ ready = [e \in Ends |-> FALSE]
    /\ sent = [e \in Ends |-> <<>>]
    /\ handled = [e \in Ends |-> <<>>]
    /\ linkUp = TRUE

(* Servent::socketConnected: the dialling Connection takes the socket and    *)
(* start() sends the first message.                                          *)
SocketConnected ==
    /\ owner["out"] = "none"
    /\ owner' = [owner EXCEPT !["out"] = "conn"]
    /\ wire' = [wire EXCEPT !["in"] = Written(@, First)]
    /\ UNCHANGED <<rbuf, bs, timers, ready, sent, handled, linkUp>>

(* Servent::incomingConnection: the accepted socket is read by the Servent. *)
IncomingConnection ==
    /\ owner["in"] = "none"
    /\ owner' = [owner EXCEPT !["in"] = "servent"]
    /\ UNCHANGED <<wire, rbuf, bs, timers, ready, sent, handled, linkUp>>

(* Servent::readyRead on the bytes w left on the wire and b in the socket:   *)
(* with the whole first message there, the socket is handed to a Connection  *)
(* (its own m_bs is 0), whose start() sends "ready".                         *)
ServentReadyRead(w, b) ==
    LET f == ReadFrame(b, bs["in"]) IN
    /\ rbuf' = [rbuf EXCEPT !["in"] = f.buf]
    /\ bs' = [bs EXCEPT !["in"] = f.bs]
    /\ \/ /\ f.msgs = <<>>
          /\ wire' = [wire EXCEPT !["in"] = w]
          /\ UNCHANGED owner
       \/ /\ f.msgs # <<>>
          /\ wire' = [wire EXCEPT !["in"] = w, !["out"] = Written(@, Ready)]
          /\ owner' = [owner EXCEPT !["in"] = "conn"]
    /\ UNCHANGED <<timers, ready, sent, handled, linkUp>>

(* The tests of Connection::readyRead that pick what a message m means. *)
IsReady2At(e, m) == e = "in" /\ m = Ready2
IsReadyAt(e, m) == e = "out" /\ ~ready[e] /\ m = Ready

Slip_Rescheduled(f, t) == t

(* singleShot(0, readyRead) after a message, if the socket has more bytes. *)
Rescheduled(f, t) == IF f.msgs # <<>> /\ f.buf # <<>> THEN t + 1 ELSE t

(* Connection::readyRead at end e on wire w, buffer b and t pending timers. *)
ConnReadyRead(e, w, b, t) ==
    LET f == ReadFrame(b, bs[e]) IN
    /\ rbuf' = [rbuf EXCEPT ![e] = f.buf]
    /\ bs' = [bs EXCEPT ![e] = f.bs]
    /\ timers' = [timers EXCEPT ![e] = Rescheduled(f, t)]
    /\ \/ /\ f.msgs = <<>>
          /\ wire' = [wire EXCEPT ![e] = w]
          /\ UNCHANGED <<ready, handled>>
       \/ \E m \in Range(f.msgs) :
             \/ /\ IsReady2At(e, m)
                /\ ready' = [ready EXCEPT ![e] = TRUE]
                /\ wire' = [wire EXCEPT ![e] = w]
                /\ UNCHANGED handled
             \/ /\ IsReadyAt(e, m)
                /\ ready' = [ready EXCEPT ![e] = TRUE]
                /\ wire' = [wire EXCEPT ![e] = w, ![Peer(e)] = Written(@, Ready2)]
                /\ UNCHANGED handled
             \/ /\ ~IsReady2At(e, m) /\ ~IsReadyAt(e, m)
                /\ handled' = [handled EXCEPT ![e] = Append(@, m)]
                /\ wire' = [wire EXCEPT ![e] = w]
                /\ UNCHANGED ready
    /\ UNCHANGED <<owner, sent, linkUp>>

(* The network delivers the next n bytes to end e; QTcpSocket emits          *)
(* readyRead and the connected slot runs at once.                            *)
Arrive(e) ==
    \E n \in 1..Len(wire[e]) :
        LET w == SubSeq(wire[e], n + 1, Len(wire[e]))
            b == rbuf[e] \o SubSeq(wire[e], 1, n)
        IN  \/ owner[e] = "conn" /\ ConnReadyRead(e, w, b, timers[e])
            \/ owner[e] = "servent" /\ ServentReadyRead(w, b)

(* A pending QTimer::singleShot(0, this, readyRead) fires; it may still fire *)
(* between shutdown() and the deferred delete.                               *)
Timeout(e) ==
    /\ owner[e] \in {"conn", "finished"}
    /\ timers[e] > 0
    /\ ConnReadyRead(e, wire[e], rbuf[e], timers[e] - 1)

(* The upper layer calls sendMsg, which it does from setup() on. *)
Send(e) ==
    /\ owner[e] = "conn" /\ ready[e]
    /\ Len(sent[e]) < MaxSend[e]
    /\ \E m \in Payloads :
          /\ sent' = [sent EXCEPT ![e] = Append(@, m)]
          /\ wire' = [wire EXCEPT ![Peer(e)] = Written(@, m)]
    /\ UNCHANGED <<rbuf, bs, timers, owner, ready, handled, linkUp>>

(* The TCP connection breaks, at any point after the dial. *)
Break ==
    /\ linkUp
    /\ owner["out"] # "none"
    /\ linkUp' = FALSE
    /\ UNCHANGED <<wire, rbuf, bs, timers, owner, ready, sent, handled>>

Slip_ShutsDown(e) == owner[e] = "conn" /\ ready[e]

(* start() has connected disconnected() to shutdown(). *)
ShutsDown(e) == owner[e] = "conn"

(* The socket's disconnected() signal (and, on the dialling side, error()    *)
(* before it): shutdown() emits finished(), which posts deleteLater(); a     *)
(* socket nobody has taken over deletes itself.                              *)
Disconnected(e) ==
    /\ ~linkUp
    /\ \/ ShutsDown(e) /\ owner' = [owner EXCEPT ![e] = "finished"]
       \/ owner[e] = "servent" /\ owner' = [owner EXCEPT ![e] = "deleted"]
    /\ UNCHANGED <<wire, rbuf, bs, timers, ready, sent, handled, linkUp>>

(* The event loop runs the deferred delete; ~Connection drops the socket,    *)
(* and a timer aimed at the object dies with it.                             *)
DeferredDelete(e) ==
    /\ owner[e] = "finished"
    /\ owner' = [owner EXCEPT ![e] = "deleted"]
    /\ timers' = [timers EXCEPT ![e] = 0]
    /\ UNCHANGED <<wire, rbuf, bs, ready, sent, handled, linkUp>>

Next ==
    \/ SocketConnected
    \/ IncomingConnection
    \/ Break
    \/ \E e \in Ends : \/ Arrive(e)
                       \/ Timeout(e)
                       \/ Send(e)
                       \/ Disconnected(e)
                       \/ DeferredDelete(e)

(* The Qt event loop of each process serves its sockets, timers and deferred *)
(* deletes, and TCP delivers what was written while the link holds.  Nothing *)
(* forces a payload to be sent or the link to break.                         *)
Fairness ==
    /\ WF_vars(SocketConnected)
    /\ WF_vars(IncomingConnection)
    /\ \A e \in Ends : /\ WF_vars(Arrive(e))
                       /\ WF_vars(Timeout(e))
                       /\ WF_vars(Disconnected(e))
                       /\ WF_vars(DeferredDelete(e))

Spec == Init /\ [][Next]_vars /\ Fairness

-----------------------------------------------------------------------------
(* Properties *)

(* Whatever way TCP cuts the stream, handleMsg is given the payloads the     *)
(* other end sent, whole, in order and once each: a handshake message never  *)
(* reaches handleMsg, and a broken link loses a suffix only                  *)
(* (connection.cpp:80-123).                                                  *)
PayloadsInOrder == \A e \in Ends : IsPrefix(handled[e], sent[Peer(e)])

(* readyRead returns with bytes in the socket only when they are too few to  *)
(* act on, or when it has a timer to come back for them: no message waits in *)
(* a buffer for a signal that will not come.  This is what makes it safe for *)
(* Servent::readyRead to hand the socket over without looking at the bytes   *)
(* behind the first message (connection.cpp:121-122, servent.cpp:163-171).   *)
NothingStranded ==
    \A e \in Ends :
        owner[e] \in {"servent", "conn"} /\ timers[e] = 0 =>
            Len(rbuf[e]) < IF bs[e] = 0 THEN HdrLen ELSE bs[e]

(* A Connection is a ReadyLink: the same ready, sent and handled, with the    *)
(* bytes on the way, the buffers and the owners hidden.                      *)
Link == INSTANCE ReadyLink WITH Payloads <- Payloads, ready <- ready, sent <- sent,
                                handled <- handled, linkUp <- linkUp
IsReadyLink == Link!Spec

(* A broken link is noticed and both objects are freed (finished() is        *)
(* connected to deleteLater(), servent.cpp:167,214).                         *)
BrokenLinkFreed ==
    \A e \in Ends : (~linkUp /\ owner[e] = "conn") ~> owner[e] = "deleted"
=============================================================================
