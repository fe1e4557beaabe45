-------------------------------- MODULE Startup --------------------------------
(***************************************************************************)
(* conjist::setup: the command line, the port forward and the login, on    *)
(* the one main thread.  Nothing of the XMPP connection is served before   *)
(* setup() has come back to the event loop.                                *)
(***************************************************************************)
EXTENDS Options, Igd, XmppStream

CONSTANTS Starts,       \* set of [line, net, server]
          Number(_),    \* what toInt() makes of a text: 0 if it is no number
          Port16        \* a port number is unsigned short: modulo Port16

ASSUME StartsAssumption ==
    /\ {"user", "pass", "domain", "listenport"} \subseteq Valued /\ "noupnp" \in Switches
    /\ \A s \in Starts :
          /\ s.line \in Seq(Arguments)
          /\ s.server \in [offers : Offers, binds : Binds, accepts : BOOLEAN, at : {"new"}]
          /\ \A d \in Devices : NULL \notin s.net[d].online

CONJISTPORT == 5

VARIABLES at,           \* where setup() is: "parse", "forward", "serving", "exited"
          m_port,
          external      \* [address, port] if the Servent is visible externally, or None

vars == <<optionVars, igdVars, xmppVars, at, m_port, external>>

Init ==
    /\ \E s \in Starts : InitOptions(s.line) /\ InitIgd(s.net) /\ InitXmpp(s.server)
    /\ at = "parse" /\ m_port = CONJISTPORT /\ external = None

ParseStep ==
    /\ at = "parse" /\ Parse
    /\ UNCHANGED <<igdVars, xmppVars, at, m_port, external>>

(* "You must supply your jabber details." *)
Detailed == \A o \in {"user", "pass", "domain"} : value[o] \notin {None, ""}

Reject ==
    /\ at = "parse" /\ parsed # "no" /\ ~(parsed = "ok" /\ Detailed)
    /\ at' = "exited"
    /\ UNCHANGED <<optionVars, igdVars, xmppVars, m_port, external>>

PortOf(text) ==
    IF text = None \/ Number(text) = 0 THEN CONJISTPORT ELSE Number(text)

(* connectToServer, and startServent begins. *)
Connect ==
    /\ at = "parse" /\ parsed = "ok" /\ Detailed
    /\ m_port' = PortOf(value["listenport"])
    /\ socket' = "connecting"
    /\ at' = "forward"
    /\ UNCHANGED <<optionVars, igdVars, server, sent, wire, cut, m_sessionAvaliable, roster, told,
                   dropped, pushes, splits, external>>

ForwardStep ==
    /\ at = "forward" /\ ~value["noupnp"] /\ Forwards(m_port % Port16)
    /\ UNCHANGED <<optionVars, xmppVars, at, m_port, external>>

(* The Servent is made, and told an address if the port was forwarded: an     *)
(* empty one if the gateway did not say.                                     *)
StartServent ==
    /\ at = "forward"
    /\ value["noupnp"] \/ portfwd \in {"added", "failed"}
    /\ external' = IF ~value["noupnp"] /\ portfwd = "added"
                   THEN [address |-> m_externalip, port |-> m_port] ELSE None
    /\ at' = "serving"
    /\ UNCHANGED <<optionVars, igdVars, xmppVars, m_port>>

StreamStep ==
    /\ at = "serving" /\ Streams
    /\ UNCHANGED <<optionVars, igdVars, at, m_port, external>>

(* What no one need do: the server pushes a stanza, the connection breaks. *)
Environment ==
    /\ at = "serving" /\ (ServerPushes \/ Disconnected)
    /\ UNCHANGED <<optionVars, igdVars, at, m_port, external>>

Runs == ParseStep \/ Reject \/ Connect \/ ForwardStep \/ StartServent \/ StreamStep

Next == Runs \/ Environment

(* setup() runs to its end, and then the client, the server and the network   *)
(* between them do what they can; no part of Runs can go on for ever.        *)
Fairness == WF_vars(Runs)

Spec == Init /\ [][Next]_vars /\ Fairness

-----------------------------------------------------------------------------
(* The host runs only with the details it needs, the gateway was chosen      *)
(* rightly, and what the host tells its peers of itself is what the gateway  *)
(* forwards and says, if no request failed.                                  *)
VisibleRight ==
    LET meant(o) == Meant(Words, o) IN
    /\ GatewayRight
    /\ at = "serving" => \A o \in {"user", "pass", "domain"} : meant(o) \notin {None, ""}
    /\ at = "serving" /\ external # None =>
          /\ ~meant("noupnp") /\ external.address = m_externalip
          /\ faults = 0 /\ urls.url # NULL =>
                \E m \in mappings : /\ m.dev = urls.dev /\ m.to = net[urls.dev].lan
                                    /\ m.port = external.port % Port16

(* "Usage: conjist.exe --user larry --domain gmail.com --pass 123             *)
(* --server talk.google.com --port 5222"                                     *)
Usage ==
    LET bare(option) == [kind |-> "long", name |-> option, more |-> None]
        text(t) == [kind |-> "text", name |-> t, more |-> None]
    IN  <<bare("user"), text("larry"), bare("domain"), text("gmail.com"), bare("pass"), text("123"),
          bare("server"), text("talk.google.com"), bare("port"), text("5222")>>

(* A host that is started as the usage text and README.txt say is not turned  *)
(* away for want of its details.                                             *)
UsageAccepted == args = Usage => at # "exited"

(* Started with its details, the host comes online, unless the process died,  *)
(* the connection broke, the server refused it or offers no session, or a    *)
(* read ended inside an element.                                             *)
ComesOnline ==
    <>(\/ at = "exited" \/ portfwd = "crashed" \/ socket = "lost" \/ dropped
       \/ ~server.accepts \/ server.binds = <<"bind">> \/ Online)

=============================================================================
