------------------------------- MODULE MCStartup -------------------------------
(* Either many command lines and no UPnP device, or one command line and the  *)
(* networks, or one that skips UPnP and the servers.                         *)
EXTENDS Startup

CONSTANTS d1, d2

MCSwitches == {"noupnp", "xmpplog"}
MCValued == {"domain", "user", "pass", "server", "jabberport", "listenport"}
MCShort == ("d" :> "domain") @@ ("u" :> "user") @@ ("p" :> "pass") @@ ("s" :> "server")
           @@ ("r" :> "jabberport") @@ ("l" :> "listenport")
MCNumber(text) == CASE text = "7" -> 7 [] text = "20" -> 20 [] OTHER -> 0

Text(t) == [kind |-> "text", name |-> t, more |-> None]
Bare(k, n) == [kind |-> k, name |-> n, more |-> None]
With(k, n, a) == [kind |-> k, name |-> n, more |-> a]
DashDash == Bare("end", "")

Login3 == <<With("long", "user", Text("us")), With("short", "p", Text("pw")), Bare("long", "domain"), Text("dom")>>
Quick == Append(Login3, Bare("long", "noupnp"))

Values == {Text("us"), Text("7"), Text(""), Bare("short", "x"), Bare("short", "u"), DashDash,
           With("short", "l", Text("20"))}
Deep == With("long", "noupnp", With("long", "xmpplog", With("short", "l", Text("20"))))
Pieces == {<<With("long", "user", v)>> : v \in Values} \cup {<<Bare("short", "p"), v>> : v \in Values}
          \cup {<<With("short", "l", v)>> : v \in Values} \cup {<<With("long", "noupnp", v)>> : v \in Values}
          \cup {<<v>> : v \in Values} \cup {<<Bare("long", "upnp"), Text("7")>>, <<Bare("short", "l")>>, <<Deep>>}
Lines == {<<>>} \cup {p \o Quick : p \in Pieces} \cup {Quick \o p : p \in Pieces}
         \cup {Tail(Quick) \o p : p \in Pieces}

MCArguments ==
    LET attached(S) == S \cup {a.more : a \in {b \in S : b.more # None}}
    IN  attached(attached(attached(UNION {Range(l) : l \in Lines \cup {Usage}})))
MCLength(a) == LET length[b \in MCArguments] == IF b.more = None THEN 1 ELSE 1 + length[b.more]
               IN  length[a]

Service(type, url) == <<[type |-> type, url |-> url]>>
Device(targets, xml, online, lan) ==
    [targets |-> targets, served |-> TRUE, xml |-> xml, online |-> online, lan |-> lan, refuses |-> FALSE]

Everything == {"InternetGatewayDevice", "WANIPConnection", "WANPPPConnection", "rootdevice"}
Gateway == Service(CIF, "/cif") \o Service("WANIPConnection", "/ip")
Up == Device({"InternetGatewayDevice", "rootdevice"}, Gateway, {"/ip"}, "lan1")
Down == Device({"WANIPConnection"}, Service(CIF, NULL) \o Service("WANIPConnection", "/ip"), {}, "lan2")
Both == Device({"InternetGatewayDevice"}, Gateway \o Service("WANPPPConnection", "/ppp"), {"/ip"}, "lan1")
Player == Device({"rootdevice"}, Service("AVTransport", "/av"), {}, "lan2")
Mute == [Up EXCEPT !.served = FALSE, !.lan = "lan2"]
Miser == [Up EXCEPT !.refuses = TRUE]
Nothing == Device({}, <<>>, {}, "lan1")

Nets == {(d1 :> x) @@ (d2 :> y) : x \in {Up, Both, Miser, Nothing}, y \in {Down, Player, Mute, Nothing}}
NoNet == (d1 :> Nothing) @@ (d2 :> Nothing)
Servers == [offers : Offers, binds : Binds, accepts : BOOLEAN, at : {"new"}]
Plain == [offers |-> <<"mechanisms">>, binds |-> <<"bind", "session">>, accepts |-> TRUE, at |-> "new"]
Silent == [Plain EXCEPT !.accepts = FALSE]

(* The usage, and a command line that is accepted. *)
UsageStarts == [line : {Usage, Quick}, net : {NoNet}, server : {Silent}]
MCStarts == [line : Lines, net : {NoNet}, server : {Silent}]
            \cup [line : {Append(Login3, With("short", "l", Text("20")))}, net : Nets, server : {Silent}]
            \cup [line : {Quick}, net : {NoNet}, server : Servers]
=============================================================================
