---------------------------- MODULE NetworkMapping ----------------------------
(***************************************************************************)
(* From the network cards of a source VM to the networks and interfaces of *)
(* the KubeVirt VM: the checks of the network mapping                      *)
(* (preFlightChecks of pkg/controllers/migration/virtualmachine.go and     *)
(* PreFlightChecks of the clients), generateNetworkInfos of the clients    *)
(* and MapNetworks and GenerateNetworkInterfaceConfigs of                  *)
(* pkg/source/network.go, loop by loop.                                    *)
(*                                                                         *)
(* The name of a source network is a sequence of path elements.  Entry j   *)
(* of the mapping leads to destination network j.                          *)
(*                                                                         *)
(* checkAnyMapping, keepModel and configsMapped are variants for the       *)
(* mutation runs.                                                          *)
(***************************************************************************)
EXTENDS Orders, Sequences

CONSTANTS
    Kinds,       \* the kinds of source of this instance
    Names,       \* the names of networks
    MaxCards,    \* the number of network cards of the source VM
    MaxMappings  \* the number of entries of the network mapping

ASSUME NetworkAssumption ==
    /\ Kinds \subseteq {"vmware", "openstack", "ova"}
    /\ MaxCards \in Nat /\ MaxMappings \in Nat

VARIABLES
    kind,        \* the kind of the source
    inventory,   \* the networks the source knows by name
    cards,       \* the cards the source reports
    mapping,     \* spec.networkMapping
    skip,        \* spec.skipPreflightChecks
    pc,          \* where the import stands
    infos,       \* []NetworkInfo of the client
    i, j,        \* the loops of MapNetworks: the card and the entry handled last
    ni,          \* the loop variable of MapNetworks
    result,      \* []NetworkInfo of MapNetworks
    networks,    \* networks of the VM: a destination or "pod"
    interfaces   \* interfaces of the VM

input == <<kind, inventory, cards, mapping, skip>>
loops == <<i, j, ni, result>>
vars  == <<input, pc, infos, loops, networks, interfaces>>

Default == "default"
NoModel == "unset"
Unnamed == <<"DVSwitch">>  \* the summary of a card on a distributed switch

Source == {<<n>> : n \in Names} \cup {<<"network", n>> : n \in Names}
Entry  == [source : Source, model : {NoModel, "custom"}]
SeqUpTo(S, n) == UNION {[1..m -> S] : m \in 0..n}

\* What is reported as a card: by VMware a device, which may be of another type;
\* by OpenStack an address of a card; in an OVF an item.
VmwareCard    == [type : {"vmxnet3", "e1000", "other"},
                  backing : {"portgroup", "network", "opaque"}, net : Names]
OpenstackCard == [net : Names, mac : 1..MaxCards]
OvaCard       == [type : {"unset", "e1000", "other"}, net : Names]

Card(k) == CASE k = "vmware"    -> VmwareCard
             [] k = "openstack" -> OpenstackCard
             [] k = "ova"       -> OvaCard

None == [net |-> <<>>, mac |-> 0, mapped |-> 0, model |-> NoModel]

Init ==
    /\ kind \in Kinds /\ inventory \in SUBSET Names
    /\ cards \in SeqUpTo(Card(kind), MaxCards)
    /\ mapping \in SeqUpTo(Entry, MaxMappings) /\ skip \in BOOLEAN
    /\ pc = "check" /\ infos = <<>>
    /\ i = 0 /\ j = 0 /\ ni = None /\ result = <<>>
    /\ networks = <<>> /\ interfaces = <<>>

Goto(p) == pc' = p

-----------------------------------------------------------------------------
(***************************************************************************)
(* The checks before the import                                            *)
(***************************************************************************)
Duplicates == \E a, b \in DOMAIN mapping : a # b /\ mapping[a].source = mapping[b].source

checkAnyMapping ==
    /\ pc = "check"
    /\ \/ Goto("source")
       \/ Goto("rejected")
    /\ UNCHANGED <<input, infos, loops, networks, interfaces>>

\* A source network appears once, and every destination network exists.
preFlightChecks ==
    /\ pc = "check"
    /\ \/ ~Duplicates /\ Goto("source")
       \/ Goto("rejected")
    /\ UNCHANGED <<input, infos, loops, networks, interfaces>>

\* The last element of the path is a network of the cluster.
vmwarePreFlightChecks ==
    \A e \in DOMAIN mapping : mapping[e].source[Len(mapping[e].source)] \in inventory

\* There is a network of that name.
openstackPreFlightChecks ==
    \A e \in DOMAIN mapping : mapping[e].source \in {<<n>> : n \in inventory}

ovaPreFlightChecks == TRUE

\* The user may have the checks of the source skipped.
PreFlightChecks ==
    /\ pc = "source"
    /\ LET passed == CASE kind = "vmware"    -> vmwarePreFlightChecks
                       [] kind = "openstack" -> openstackPreFlightChecks
                       [] kind = "ova"       -> ovaPreFlightChecks
       IN Goto(IF skip \/ passed THEN "generate" ELSE "rejected")
    /\ UNCHANGED <<input, infos, loops, networks, interfaces>>

-----------------------------------------------------------------------------
(***************************************************************************)
(* generateNetworkInfos                                                    *)
(***************************************************************************)
\* A card on a distributed switch is looked up by its port group, and an
\* unknown port group has no name.
identifyNetworkName(c) ==
    CASE c.backing = "portgroup" -> IF c.net \in inventory THEN <<c.net>> ELSE <<>>
      [] c.backing = "network"   -> <<c.net>>
      [] c.backing = "opaque"    -> <<>>

Summary(c) == IF c.backing = "portgroup" THEN Unnamed ELSE <<c.net>>

NetworkName(c) == IF identifyNetworkName(c) = <<>> THEN Summary(c) ELSE identifyNetworkName(c)

Info(net, mac, model) == [net |-> net, mac |-> mac, mapped |-> 0, model |-> model]

\* Card n has the MAC address n; devices that are no network card of a known
\* type are passed over.
vmwareNetworkInfos ==
    LET known    == {n \in DOMAIN cards : cards[n].type # "other"}
        model(t) == IF t = "vmxnet3" THEN "virtio" ELSE t
    IN {[k \in DOMAIN o |-> Info(NetworkName(cards[o[k]]), o[k], model(cards[o[k]].type))] :
            o \in Ordered(known)}

\* Every address is reported with its network and MAC address; one entry for
\* each MAC address is kept.  Maps are walked through in any order.
openstackNetworkInfos ==
    LET macs    == {cards[k].mac : k \in DOMAIN cards}
        nets(m) == {cards[k].net : k \in {a \in DOMAIN cards : cards[a].mac = m}}
        orders  == {o \in [1..Cardinality(macs) -> macs] : \A a, b \in DOMAIN o : a # b => o[a] # o[b]}
        kept    == {f \in [macs -> Names] : \A m \in macs : f[m] \in nets(m)}
    IN {[k \in DOMAIN o |-> Info(<<f[o[k]]>>, o[k], Default)] : o \in orders, f \in kept}

\* An unknown type of card gets the default model.
ovaNetworkInfos ==
    {[k \in DOMAIN cards |-> Info(<<cards[k].net>>, k,
                                  IF cards[k].type = "e1000" THEN "e1000" ELSE Default)]}

generateNetworkInfos ==
    /\ pc = "generate"
    /\ \/ kind = "vmware" /\ infos' \in vmwareNetworkInfos
       \/ kind = "openstack" /\ infos' \in openstackNetworkInfos
       \/ kind = "ova" /\ infos' \in ovaNetworkInfos
    /\ Goto("map")
    /\ UNCHANGED <<input, loops, networks, interfaces>>

-----------------------------------------------------------------------------
(***************************************************************************)
(* MapNetworks                                                             *)
(***************************************************************************)

\* The outer loop: the next card.
nextCard ==
    /\ pc = "map" /\ i < Len(infos)
    /\ i' = i + 1 /\ j' = 0 /\ ni' = infos[i + 1] /\ Goto("entries")
    /\ UNCHANGED <<input, infos, result, networks, interfaces>>

ModelOf(e, card) == IF e.model # NoModel THEN e.model ELSE card.model

keepModel ==
    /\ pc = "entries" /\ j < Len(mapping)
    /\ j' = j + 1
    /\ IF mapping[j + 1].source = ni.net
       THEN result' = Append(result, [ni EXCEPT !.mapped = j + 1])
       ELSE result' = result
    /\ UNCHANGED <<input, pc, infos, i, ni, networks, interfaces>>

\* The inner loop: an entry for the network of the card is applied to the loop
\* variable and a copy of it is appended.
nextEntry ==
    /\ pc = "entries" /\ j < Len(mapping)
    /\ j' = j + 1
    /\ LET e == mapping[j + 1] IN
       IF e.source = ni.net
       THEN /\ ni' = [ni EXCEPT !.mapped = j + 1, !.model = ModelOf(e, ni)]
            /\ result' = Append(result, ni')
       ELSE UNCHANGED <<ni, result>>
    /\ UNCHANGED <<input, pc, infos, i, networks, interfaces>>

cardDone ==
    /\ pc = "entries" /\ j = Len(mapping)
    /\ Goto("map")
    /\ UNCHANGED <<input, infos, loops, networks, interfaces>>

MapNetworks == nextCard \/ nextEntry \/ cardDone

-----------------------------------------------------------------------------
(***************************************************************************)
(* GenerateNetworkInterfaceConfigs                                         *)
(***************************************************************************)
configsMapped ==
    /\ pc = "map" /\ i = Len(infos)
    /\ networks'   = [k \in DOMAIN result |-> [name |-> k, to |-> result[k].mapped]]
    /\ interfaces' = [k \in DOMAIN result |-> [name |-> k, mac |-> result[k].mac, model |-> result[k].model]]
    /\ Goto("done")
    /\ UNCHANGED <<input, infos, loops>>

\* Network and interface of a pair have the same name; without any, the VM is
\* attached to the pod network.
GenerateNetworkInterfaceConfigs ==
    /\ pc = "map" /\ i = Len(infos)
    /\ IF result = <<>>
       THEN /\ networks'   = <<[name |-> 0, to |-> 0]>>
            /\ interfaces' = <<[name |-> 0, mac |-> 0, model |-> Default]>>
       ELSE /\ networks'   = [k \in DOMAIN result |-> [name |-> k, to |-> result[k].mapped]]
            /\ interfaces' = [k \in DOMAIN result |->
                                 [name |-> k, mac |-> result[k].mac, model |-> result[k].model]]
    /\ Goto("done")
    /\ UNCHANGED <<input, infos, loops>>

Next ==
    \/ preFlightChecks \/ PreFlightChecks \/ generateNetworkInfos
    \/ MapNetworks \/ GenerateNetworkInterfaceConfigs

Spec == Init /\ [][Next]_vars

-----------------------------------------------------------------------------
(***************************************************************************)
(* Properties                                                              *)
(***************************************************************************)

\* One entry leads each card on: the loops of MapNetworks add a card once.
EntriesOf(c) == {e \in DOMAIN mapping : mapping[e].source = c.net}
Attached(c) == LET e == CHOOSE x \in EntriesOf(c) : TRUE IN
               [c EXCEPT !.mapped = e, !.model = ModelOf(mapping[e], c)]
Mapped == {c \in DOMAIN infos : EntriesOf(infos[c]) # {}}

\* What the nested loops with their changing loop variable compute: the cards
\* an entry names, in their order, each once and with the model of its entry.
MapsEachCardOnce == pc = "done" =>
    \E o \in Ordered(Mapped) : result = [k \in DOMAIN o |-> Attached(infos[o[k]])]

\* A card of the source VM is at most one interface of the new one, whichever
\* addresses it has and whichever way the mapping names its network.
CardsStayApart ==
    \A a, b \in DOMAIN result : a # b => result[a].mac # result[b].mac

\* KubeVirt needs a network for every interface and an interface for every
\* network, and the VM cannot boot without any.
NetworksAndInterfacesPair ==
    pc = "done" =>
        /\ networks # <<>>
        /\ DOMAIN networks = DOMAIN interfaces
        /\ \A k \in DOMAIN networks : networks[k].name = interfaces[k].name
        /\ \A a, b \in DOMAIN networks : a # b => networks[a].name # networks[b].name
        /\ \A k \in DOMAIN networks :
              networks[k].to # 0 =>
                  \E c \in DOMAIN infos : /\ infos[c].mac = interfaces[k].mac
                                          /\ mapping[networks[k].to].source = infos[c].net
=============================================================================
