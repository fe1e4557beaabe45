---------------------------------- MODULE Igd ----------------------------------
(***************************************************************************)
(* Finding the Internet gateway and forwarding a port on it: Portfwd and   *)
(* the part of miniupnpc it calls.  All of it runs in one blocking call    *)
(* from the main thread; what is not its own step is the network's: which  *)
(* devices answer and when, which requests fail.                           *)
(***************************************************************************)
EXTENDS Integers, FiniteSets, Sequences, SequencesExt

CONSTANTS NULL,
          Devices,      \* UPnP devices, and what each is in a network:
                        \* [targets: the searches it answers, served: its description
                        \* can be fetched, xml: the services in it, online: the URLs
                        \* of connections that are up, lan: our address towards it,
                        \* refuses: it forwards no port]
          MaxReplies,   \* bound: answers to M-SEARCH
          MaxFaults     \* bound: requests the network fails

ASSUME IgdAssumption == IsFiniteSet(Devices) /\ NULL # 718 /\ NULL # "Connected"

VARIABLES net,          \* net[d]
          portfwd,      \* where init() and add() are
          deviceIndex, devlist,   \* upnpDiscover
          state, nth,   \* the loops of UPNP_GetValidIGD
          urls, data,   \* of the device chosen: [dev, url] or NULL, IGDdatas
          lanaddr,
          m_externalip,
          mappings,     \* [dev, port, to]: the ports gateways forward
          replies, faults

igdVars == <<net, portfwd, deviceIndex, devlist, state, nth, urls, data, lanaddr,
             m_externalip, mappings, replies, faults>>

deviceList == <<"InternetGatewayDevice", "WANIPConnection", "WANPPPConnection", "rootdevice">>

NoData == [cif |-> NULL, type |-> NULL, url |-> NULL]

InitIgd(n) ==
    /\ net = n /\ portfwd = "ssdpd"
    /\ deviceIndex = 1 /\ devlist = <<>> /\ state = 0 /\ nth = 0
    /\ urls = NULL /\ data = NoData /\ lanaddr = NULL /\ m_externalip = NULL
    /\ mappings = {} /\ replies = 0 /\ faults = 0

Fault == faults < MaxFaults /\ faults' = faults + 1
Fine == UNCHANGED faults

-----------------------------------------------------------------------------
(* upnpDiscover *)

Answering(i) == {d \in Devices : deviceList[i] \in net[d].targets}
AsList(i, s) == [k \in DOMAIN s |-> [dev |-> s[k], st |-> deviceList[i]]]

(* getDevicesFromMiniSSDPD, if the daemon runs, for one type after the other  *)
(* until one is known; root devices alone are not enough.                    *)
AskDaemon ==
    /\ portfwd = "ssdpd"
    /\ \E s \in SetToAllKPermutations(Answering(deviceIndex)) :
          LET last == deviceIndex = Len(deviceList) IN
          /\ devlist' = AsList(deviceIndex, s)
          /\ deviceIndex' = IF s # <<>> \/ last THEN 1 ELSE deviceIndex + 1
          /\ portfwd' = IF s # <<>> /\ ~last THEN "describe" ELSE IF last THEN "send" ELSE "ssdpd"
    /\ UNCHANGED <<net, state, nth, urls, data, lanaddr, m_externalip, mappings, replies, faults>>

Discovered(list) == devlist' = list /\ portfwd' = IF list = <<>> THEN "failed" ELSE "describe"

(* The next M-SEARCH.  Before the first the socket is made, and without one   *)
(* what the daemon said is forgotten; a send that fails ends the search.     *)
Search ==
    /\ portfwd = "send"
    /\ \/ Fine /\ portfwd' = "receive" /\ deviceIndex' = deviceIndex + 1 /\ UNCHANGED devlist
       \/ Fault /\ Discovered(devlist) /\ UNCHANGED deviceIndex
       \/ Fault /\ deviceIndex = 1 /\ Discovered(<<>>) /\ UNCHANGED deviceIndex
    /\ UNCHANGED <<net, state, nth, urls, data, lanaddr, m_externalip, mappings, replies>>

(* An answer to any search so far; another is waited for as long again. *)
Reply ==
    /\ portfwd = "receive" /\ replies < MaxReplies /\ replies' = replies + 1
    /\ \E i \in 1..deviceIndex - 1 : \E d \in Answering(i) :
          devlist' = AsList(i, <<d>>) \o devlist
    /\ UNCHANGED <<net, portfwd, deviceIndex, state, nth, urls, data, lanaddr, m_externalip, mappings, faults>>

SearchedAll == devlist # <<>> \/ deviceIndex > Len(deviceList)

(* Nothing came for the delay, or recv() failed. *)
Silence ==
    /\ portfwd = "receive"
    /\ \/ Fine /\ SearchedAll /\ Discovered(devlist)
       \/ Fine /\ ~SearchedAll /\ portfwd' = "send" /\ UNCHANGED devlist
       \/ Fault /\ Discovered(devlist)
    /\ UNCHANGED <<net, deviceIndex, state, nth, urls, data, lanaddr, m_externalip, mappings, replies>>

-----------------------------------------------------------------------------
(* Descriptions *)

CIF == "WANCommonInterfaceConfig"

(* The handlers of igd_desc_parse.c: each starts a service afresh, collects    *)
(* its type and its control URL (NULL if it has none), and at its end files  *)
(* them, over those of an earlier one.  Of the common interface the type is  *)
(* what counts, servicetype_CIF.                                             *)
IGDservice(d, s) ==
    CASE s.type = CIF -> [d EXCEPT !.cif = s.type]
      [] s.type \in {"WANIPConnection", "WANPPPConnection"} -> [d EXCEPT !.type = s.type, !.url = s.url]
      [] OTHER -> d

parserootdesc(xml, d) == FoldLeft(IGDservice, d, xml)

GetUPNPUrls(dev, d) == [dev |-> dev, url |-> d.url]

(* miniwget: the description, if there is one and the network lets it by. *)
Fetches(dev) == net[dev].served /\ Fine
FetchFails(dev) == (~net[dev].served /\ Fine) \/ Fault

(* What Portfwd::init makes of the first gateway, or else of the first device. *)
Describe ==
    LET gateways == {i \in DOMAIN devlist : devlist[i].st = "InternetGatewayDevice"}
        i == IF gateways = {} THEN 1 ELSE CHOOSE j \in gateways : \A k \in gateways : j <= k
        dev == devlist[i].dev
    IN  /\ portfwd = "describe" /\ portfwd' = "valid" /\ state' = 1 /\ nth' = 1
        /\ \/ /\ Fetches(dev)
              /\ data' = parserootdesc(net[dev].xml, NoData)
              /\ urls' = GetUPNPUrls(dev, data')
           \/ FetchFails(dev) /\ UNCHANGED <<data, urls>>
        /\ UNCHANGED <<net, deviceIndex, devlist, lanaddr, m_externalip, mappings, replies>>

-----------------------------------------------------------------------------
(* SOAP *)

(* What a gateway answers: names and values. *)
Refusal == <<"errorCode", 718>>
StatusReply(u) == << <<"NewConnectionStatus", IF u.url \in net[u.dev].online THEN "Connected" ELSE "Disconnected">> >>
AddressReply(u) == IF u.url \in net[u.dev].online THEN << <<"NewExternalIPAddress", u.dev>> >> ELSE <<Refusal>>
MappingReply(u) == IF net[u.dev].refuses THEN <<Refusal>> ELSE <<>>

(* An uninitialized buffer, which may hold the reply to an earlier request. *)
Garbage == {<<>>, <<Refusal>>, << <<"NewConnectionStatus", "Connected">> >>, << <<"NewExternalIPAddress", NULL>> >>}

(* soapPostSubmit fails, or the answer does not come in time. *)
Unsent(read) == read \in Garbage

(* simpleUPnPcommand, followed by ParseNameValue: what is read, and whether   *)
(* the gateway did what was asked.  A URL that is no control URL is answered *)
(* by a page without names.  No caller looks at its result: a connection     *)
(* that cannot be made leaves an empty buffer, a request that cannot be sent *)
(* one that was never written, and an answer may be late or cut short.       *)
Command(u, answer, read, done) ==
    \/ Fine /\ read = (IF u.url = NULL THEN <<>> ELSE answer) /\ done = (u.url # NULL)
    \/ Fault /\ read = <<>> /\ done \in {FALSE, u.url # NULL}
    \/ Fault /\ Unsent(read) /\ done = FALSE

(* GetValueFromNameValueList: the last of that name. *)
GetValue(read, name) ==
    LET is == {i \in DOMAIN read : read[i][1] = name} IN
    IF is = {} THEN NULL ELSE read[CHOOSE i \in is : \A j \in is : j <= i][2]

Reads(answer) == Garbage \cup {answer}

-----------------------------------------------------------------------------
(* UPNP_GetValidIGD *)

(* The next device of this round, the next round, or no gateway at all. *)
NextDevice ==
    IF nth < Len(devlist) THEN portfwd' = portfwd /\ nth' = nth + 1 /\ UNCHANGED state
    ELSE IF state < 3 THEN portfwd' = portfwd /\ nth' = 1 /\ state' = state + 1
    ELSE portfwd' = "status" /\ UNCHANGED <<nth, state>>

Usable(d) == d.cif = CIF \/ state >= 3

Slip_Suffices(connected) == state >= 1 \/ connected
UPNPIGD_IsConnected(read) == GetValue(read, "NewConnectionStatus") = "Connected"
(* "(state >= 2) || UPNPIGD_IsConnected(urls, data)" *)
Suffices(connected) == state >= 2 \/ connected

Try ==
    /\ portfwd = "valid"
    /\ LET dev == devlist[nth].dev
           d == parserootdesc(net[dev].xml, NoData)
           u == GetUPNPUrls(dev, d)
           Taken(connected) ==
              /\ lanaddr' = net[dev].lan
              /\ IF Usable(d) /\ Suffices(connected)
                 THEN urls' = u /\ data' = d /\ portfwd' = "status" /\ UNCHANGED <<nth, state>>
                 ELSE urls' = NULL /\ data' = NoData /\ NextDevice
       IN  \/ net[dev].served /\ (~Usable(d) \/ state >= 2) /\ Fine /\ Taken(TRUE)
           \/ /\ net[dev].served /\ Usable(d) /\ state = 1
              /\ \E read \in Reads(StatusReply(u)), done \in BOOLEAN :
                    /\ Command(u, StatusReply(u), read, done)
                    /\ Taken(UPNPIGD_IsConnected(read))
           \/ /\ FetchFails(dev) /\ NextDevice
              /\ lanaddr' \in {NULL, net[dev].lan}
              /\ UNCHANGED <<urls, data>>
    /\ UNCHANGED <<net, deviceIndex, devlist, m_externalip, mappings, replies>>

-----------------------------------------------------------------------------
(* Portfwd *)

(* get_status: the external address, empty without a gateway or an answer. *)
GetStatus ==
    /\ portfwd = "status" /\ portfwd' = "inited"
    /\ IF urls = NULL THEN Fine /\ UNCHANGED m_externalip
       ELSE \E read \in Reads(AddressReply(urls)), done \in BOOLEAN :
               /\ Command(urls, AddressReply(urls), read, done)
               /\ m_externalip' = IF GetValue(read, "errorCode") # NULL THEN NULL
                                  ELSE GetValue(read, "NewExternalIPAddress")
    /\ UNCHANGED <<net, deviceIndex, devlist, state, nth, urls, data, lanaddr, mappings, replies>>

(* No error code is success. *)
Added(read) == GetValue(read, "errorCode") = NULL

(* add(): without control URL it reads through a null pointer. *)
Add(port) ==
    /\ portfwd = "inited"
    /\ IF urls = NULL THEN Fine /\ portfwd' = "crashed" /\ UNCHANGED mappings
       ELSE \E read \in Reads(MappingReply(urls)), done \in BOOLEAN :
               /\ Command(urls, MappingReply(urls), read, done)
               /\ mappings' = IF done /\ ~net[urls.dev].refuses
                              THEN mappings \cup {[dev |-> urls.dev, port |-> port, to |-> lanaddr]}
                              ELSE mappings
               /\ portfwd' = IF Added(read) THEN "added" ELSE "failed"
    /\ UNCHANGED <<net, deviceIndex, devlist, state, nth, urls, data, lanaddr, m_externalip, replies>>

Forwards(port) == AskDaemon \/ Search \/ Reply \/ Silence \/ Describe \/ Try \/ GetStatus \/ Add(port)

-----------------------------------------------------------------------------
(* A gateway is a device whose description has the common interface, best one *)
(* whose last WAN connection is up.                                          *)
Rank(dev) ==
    LET d == parserootdesc(net[dev].xml, NoData) IN
    IF d.cif # CIF THEN 3 ELSE IF d.url \in net[dev].online THEN 1 ELSE 2
Described == {i \in DOMAIN devlist : net[devlist[i].dev].served}
Best == CHOOSE i \in Described :
          \A j \in Described : LET r == Rank(devlist[i].dev) s == Rank(devlist[j].dev)
                               IN  r < s \/ (r = s /\ i <= j)

(* If no request fails, the gateway taken is the first of the best found,     *)
(* whatever was found before it, and the address that the port is forwarded  *)
(* to is the one by which that gateway is reached; and it does forward it if *)
(* it is a gateway with a WAN connection.                                    *)
GatewayRight ==
    portfwd \in {"inited", "added", "failed"} /\ Described # {} /\ faults = 0 =>
       /\ urls.dev = devlist[Best].dev /\ lanaddr = net[urls.dev].lan
       /\ portfwd = "added" /\ urls.url # NULL =>
             \E m \in mappings : m.dev = urls.dev /\ m.to = lanaddr

(* "Return values : 0 : SUCCESS, NON ZERO : ERROR" of AddPortMapping: add()   *)
(* returns true only if the gateway forwards the port to this host.          *)
MappingMade ==
    portfwd = "added" => \E m \in mappings : m.dev = urls.dev /\ m.to = lanaddr

=============================================================================
