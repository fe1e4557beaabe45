------------------------------ MODULE XmppStream ------------------------------
(***************************************************************************)
(* The XMPP client: QXmppStream logs in to a server, element by element of *)
(* what it reads, and then takes part in presence and roster.  The server  *)
(* answers what it is sent; what it writes comes in reads that begin and   *)
(* end anywhere, and a read is parsed by itself.                           *)
(***************************************************************************)
EXTENDS Integers, FiniteSets, Sequences, SequencesExt

CONSTANTS Contacts,     \* bare jids of the roster
          MaxPushes,    \* bound: stanzas the server sends unasked
          MaxSplits     \* bound: reads that end inside an element

VARIABLES server,       \* [offers, binds, accepts]: its features before and after the
                        \* client is authenticated, whether it lets it in; and at
          sent,         \* what the client wrote and the server has not read
          wire,         \* the elements the server wrote and the client has not read
          cut,          \* half of the first of them has been read
          socket,       \* "none", "connecting", "open", "encrypting", "encrypted", "lost"
          m_sessionAvaliable,
          roster,       \* entries of the roster, by contact
          told,         \* all the client ever wrote
          dropped,      \* a read did not parse
          pushes, splits

(* An element is the sequence of what it has for the client: the children of  *)
(* features, in the order of the document, or the one thing it is.  These,   *)
(* and pushes about a contact:                                               *)
Kinds == {"header", "starttls", "mechanisms", "bind", "session", "proceed", "success",
          "failure", "bind result", "session result", "roster result", "presence",
          "ping", "message", "subscribe"}

(* Features name a starttls that is required, mechanisms of authentication or *)
(* both, in the server's order.                                              *)
Offers == {<<"mechanisms">>, <<"starttls">>, <<"starttls", "mechanisms">>,
           <<"mechanisms", "starttls">>}
Binds == {<<"bind">>, <<"bind", "session">>, <<"session", "bind">>}

ASSUME ContactsAssumption == Contacts \cap Kinds = {}

xmppVars == <<server, sent, wire, cut, socket, m_sessionAvaliable, roster, told,
              dropped, pushes, splits>>

InitXmpp(s) ==
    /\ server = s /\ sent = <<>> /\ wire = <<>> /\ cut = FALSE
    /\ socket = "none" /\ m_sessionAvaliable = FALSE
    /\ roster = [c \in Contacts |-> "unknown"]
    /\ told = <<>> /\ dropped = FALSE /\ pushes = 0 /\ splits = 0

(* sendToServer *)
Writes(out) == sent' = sent \o out /\ told' = told \o out

-----------------------------------------------------------------------------
(* The server *)

Features ==
    CASE server.at = "new"       -> server.offers
      [] server.at = "encrypted" -> <<"mechanisms">>
      [] OTHER                   -> server.binds

(* Who requires encryption takes no password before it. *)
Requires == "starttls" \in Range(server.offers)
LetsIn == server.accepts /\ ~(server.at = "new" /\ Requires)

Answer(request) ==
    CASE request = "stream"   -> <<<<"header">>, Features>>
      [] request = "starttls" -> <<<<"proceed">>>>
      [] request = "auth"     -> <<IF LetsIn THEN <<"success">> ELSE <<"failure">>>>
      [] request = "bind"     -> <<<<"bind result">>>>
      [] request = "session"  -> <<<<"session result">>>>
      [] request = "roster"   -> <<<<"roster result">>>>
      [] request = "presence" -> <<<<"presence">>>>
      [] OTHER -> <<>>

ServerReads ==
    /\ sent # <<>> /\ socket # "lost"
    /\ sent' = Tail(sent)
    /\ wire' = wire \o Answer(Head(sent))
    /\ server' = CASE Head(sent) = "starttls" -> [server EXCEPT !.at = "encrypted"]
                   [] Head(sent) = "auth" /\ LetsIn -> [server EXCEPT !.at = "authenticated"]
                   [] Head(sent) = "bind" -> [server EXCEPT !.at = "bound"]
                   [] OTHER -> server
    /\ UNCHANGED <<cut, socket, m_sessionAvaliable, roster, told, dropped, pushes, splits>>

(* A ping, which is an iq the client does not know, a message, a request for  *)
(* subscription, or a contact: a push that adds it to the roster with the    *)
(* subscription "from".                                                      *)
Unasked == {"ping", "message", "subscribe"} \cup Contacts

ServerPushes ==
    /\ server.at = "bound" /\ pushes < MaxPushes /\ pushes' = pushes + 1 /\ socket # "lost"
    /\ \E e \in Unasked : wire' = Append(wire, <<e>>)
    /\ UNCHANGED <<server, sent, cut, socket, m_sessionAvaliable, roster, told, dropped, splits>>

-----------------------------------------------------------------------------
(* The client: [out, session, roster, socket] while a read is parsed,    *)
(* over: parser() has returned.                                              *)

Out(x, m) == [x EXCEPT !.out = @ \o m]

Slip_BindReply(x) == x
(* processBindIq *)
BindReply(x) == IF x.session THEN Out(x, <<"session">>) ELSE x

(* QXmppRoster enters what it is told, and replies to a push. *)
rosterIqReceived(x, entries, reply) ==
    [Out(x, reply) EXCEPT
        !.roster = [c \in Contacts |-> IF c \in DOMAIN entries THEN entries[c] ELSE @[c]]]

(* processRosterIq: a contact that subscribed is asked for a subscription in  *)
(* turn.                                                                     *)
RosterPush(x, c) ==
    Out(rosterIqReceived(x, [d \in {c} |-> "from"], <<"iq result">>), <<"subscribe">>)

(* processPresence: requests for subscription are accepted. *)
Subscribe(x) == Out(x, <<"subscribed">>)

Slip_Required(x) == Out(x, <<"starttls">>)
(* A required starttls: parser() returns, what follows it is not looked at. *)
Required(x) == [Out(x, <<"starttls">>) EXCEPT !.over = TRUE]

Part(x, p) ==
    IF x.over THEN x
    ELSE CASE p = "starttls"       -> Required(x)
           [] p = "mechanisms"     -> Out(x, <<"auth">>)
           [] p = "bind"           -> Out(x, <<"bind">>)
           [] p = "session"        -> [x EXCEPT !.session = TRUE]
           [] p = "proceed"        -> [x EXCEPT !.socket = "encrypting", !.over = TRUE]
           [] p = "success"        -> Out(x, <<"stream">>)
           [] p = "session result" -> Out(x, <<"roster", "presence">>)
           [] p = "bind result"    -> BindReply(x)
           [] p = "roster result"  -> rosterIqReceived(x, [c \in Contacts |-> "both"], <<>>)
           [] p \in Contacts        -> RosterPush(x, p)
           [] p = "ping"           -> Out(x, <<"iq error">>)
           [] p = "subscribe"      -> Subscribe(x)
           [] OTHER                -> x    \* header, failure, presence, message: only signals

(* One element of a read, its children one after the other. *)
Element(x, e) == FoldLeft(Part, x, e)

(* socketReadyRead: n elements and perhaps half of another.  What does not    *)
(* parse is not kept.                                                        *)
Read ==
    /\ socket \in {"open", "encrypted"} /\ wire # <<>>
    /\ \E n \in 0..Len(wire), half \in BOOLEAN :
          /\ n + (IF half THEN 1 ELSE 0) \in 1..Len(wire)
          /\ half => splits < MaxSplits
          /\ splits' = IF half THEN splits + 1 ELSE splits
          /\ wire' = SubSeq(wire, n + 1, Len(wire)) /\ cut' = half
          /\ IF cut \/ half
             THEN /\ dropped' = TRUE
                  /\ UNCHANGED <<sent, told, socket, m_sessionAvaliable, roster>>
             ELSE LET x == FoldLeft(Element,
                              [out |-> <<>>, session |-> m_sessionAvaliable,
                               roster |-> roster, socket |-> socket, over |-> FALSE],
                              SubSeq(wire, 1, n))
                  IN  /\ Writes(x.out) /\ m_sessionAvaliable' = x.session
                      /\ roster' = x.roster /\ socket' = x.socket /\ UNCHANGED dropped
    /\ UNCHANGED <<server, pushes>>

(* socketConnected and socketEncrypted *)
Opened ==
    /\ \/ socket = "connecting" /\ socket' = "open"
       \/ socket = "encrypting" /\ socket' = "encrypted"
    /\ Writes(<<"stream">>)
    /\ UNCHANGED <<server, wire, cut, m_sessionAvaliable, roster, dropped, pushes, splits>>

(* socketDisconnected and socketError: it is logged, nothing connects again. *)
Disconnected ==
    /\ socket \notin {"none", "lost"} /\ socket' = "lost"
    /\ UNCHANGED <<server, sent, wire, cut, m_sessionAvaliable, roster, told, dropped, pushes, splits>>

Streams == ServerReads \/ Read \/ Opened

-----------------------------------------------------------------------------
Login == <<"stream", "auth", "stream", "bind", "session", "roster", "presence">>
Own == Range(Login) \cup {"starttls"}

(* What comes before the login if encryption is required: the password too,   *)
(* if the mechanisms are named before starttls.                              *)
Encrypts(offers) ==
    CASE offers = <<"mechanisms">>             -> <<>>
      [] offers = <<"mechanisms", "starttls">> -> <<"stream", "auth", "starttls">>
      [] OTHER                                 -> <<"stream", "starttls">>

(* What the client writes of its own is its login, in order and once, after   *)
(* the encryption if the server requires it; presence, which makes peers see *)
(* this host, is last.  A server that names its mechanisms first is sent the *)
(* password before the encryption it requires, and again after it.           *)
LoginInOrder ==
    LET plan == Encrypts(server.offers) \o Login
        number(i) == Cardinality({j \in 1..i : told[j] \in Own})
    IN  \A i \in DOMAIN told :
            told[i] \in Own => number(i) <= Len(plan) /\ told[i] = plan[number(i)]

Online == Contains(told, "presence")

=============================================================================
