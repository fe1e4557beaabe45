------------------------------- MODULE DaapSharing -------------------------------
(***************************************************************************)
(* DAAP between the local network and a peer, as one Servent does it: it   *)
(* follows the services there are (Bonjour), and for each "daap-offer" of  *)
(* a peer it opens a ProxyListener and advertises its port.  A client of   *)
(* what is advertised gets a session through the peer (Proxy).             *)
(***************************************************************************)
EXTENDS Bonjour, Proxy

CONSTANTS Offers,       \* keys of the daap-offers that peers make
          Uses          \* what a behaviour is about: "browsing" or "proxying"

VARIABLES use,
          listener      \* listener[o]: "none", "listening", "closed"

vars == <<bonjourVars, proxyVars, use, listener>>

Init ==
    /\ use \in Uses
    /\ InitBonjour(IF use = "browsing" THEN 0 ELSE MaxChanges)
    /\ InitProxy
    /\ listener = [o \in Offers |-> "none"]

(* createDaapListener: only the first name is advertised. *)
CreateDaapListener(o) ==
    /\ use = "proxying" /\ listener[o] = "none"
    /\ listener' = [listener EXCEPT ![o] = "listening"]
    /\ Registers(o)
    /\ UNCHANGED <<lan, told, bonjourRecords, m_bonjourrecords, resolveRef, answers, bonjourPort,
                   lookups, cleanups, resolved, twice, changes, answered, proxyVars, use>>

(* The control connection of the offer ends: ProxyListener::shutdown. *)
ListenerShutdown(o) ==
    /\ listener[o] = "listening" /\ listener' = [listener EXCEPT ![o] = "closed"]
    /\ UNCHANGED <<bonjourVars, proxyVars, use>>

(* A client connects to the port advertised, if anything still listens. *)
Accept ==
    /\ registerRef # None /\ listener[registerRef] = "listening"
    /\ IncomingClient
    /\ UNCHANGED <<bonjourVars, use, listener>>

RelayStep == Relays /\ UNCHANGED <<bonjourVars, use, listener>>
DisturbStep == Disturbs /\ UNCHANGED <<bonjourVars, use, listener>>

BonjourStep ==
    /\ LanChanges \/ Browsed \/ ResolveReply \/ FinishConnect \/ CleanupResolve
    /\ UNCHANGED <<proxyVars, use, listener>>

Next ==
    \/ \E o \in Offers : CreateDaapListener(o) \/ ListenerShutdown(o)
    \/ Accept \/ RelayStep \/ DisturbStep \/ BonjourStep

(* The event loops of both servents serve their sockets; nobody need connect, *)
(* write, leave or fail.                                                     *)
Fairness == WF_vars(RelayStep)

Spec == Init /\ [][Next]_vars /\ Fairness
=============================================================================
