--------------------------- MODULE TranslationProofs ---------------------------
(***************************************************************************)
(* Proofs about Translation: what MapNetworks makes of the cards, which    *)
(* size and bus a VMware disk gets, and what GenerateVirtualMachine makes  *)
(* of firmware and disks, for sources with any number of devices.          *)
(***************************************************************************)
EXTENDS Translation, FiniteSetTheorems, SequenceTheorems, TLAPS

-----------------------------------------------------------------------------
(***************************************************************************)
(* Lists in order                                                          *)
(***************************************************************************)

\* A sequence has finitely many places, and so has any part of it.
LEMMA PlacesFinite ==
    ASSUME NEW n \in Nat, NEW S \in SUBSET (1..n)
    PROVE  IsFiniteSet(S) /\ Cardinality(S) \in Nat
<1>1. IsFiniteSet(1..n)
  BY FS_Interval
<1>2. IsFiniteSet(S)
  BY <1>1, FS_Subset
<1> QED BY <1>2, FS_CardinalityType

\* An increasing enumeration takes no element twice.
LEMMA OrderedInjective ==
    ASSUME NEW S \in SUBSET Nat, IsFiniteSet(S), NEW o \in Ordered(S),
           NEW a \in DOMAIN o, NEW b \in DOMAIN o, a # b
    PROVE  o[a] # o[b]
<1>1. Cardinality(S) \in Nat
  BY FS_CardinalityType
<1>2. a \in Nat /\ b \in Nat /\ o[a] \in Nat /\ o[b] \in Nat
  <2>1. o \in [1..Cardinality(S) -> S]
    BY DEF Ordered
  <2>2. a \in 1..Cardinality(S) /\ b \in 1..Cardinality(S) /\ o[a] \in S /\ o[b] \in S
    BY <2>1
  <2>3. o[a] \in Nat /\ o[b] \in Nat
    BY <2>2
  <2>4. \A k \in 1..Cardinality(S) : k \in Nat
    BY <1>1
  <2> QED BY <2>2, <2>3, <2>4
<1>3. a < b => o[a] < o[b]
  BY DEF Ordered
<1>4. b < a => o[b] < o[a]
  BY DEF Ordered
<1> QED BY <1>2, <1>3, <1>4

\* Nothing has one enumeration.
LEMMA OrderedNothing == Ordered({}) = {<<>>}
<1>1. Cardinality({}) = 0 /\ 1..0 = {}
  BY FS_EmptySet
<1>2. \A o \in Ordered({}) : o = <<>>
  BY <1>1 DEF Ordered
<1>3. <<>> \in [1..0 -> {}] /\ DOMAIN <<>> = {}
  BY <1>1
<1>4. <<>> \in Ordered({})
  BY <1>1, <1>3 DEF Ordered
<1> QED BY <1>2, <1>4

\* An element above all others goes to the end.
LEMMA OrderedAppend ==
    ASSUME NEW S \in SUBSET Nat, IsFiniteSet(S), NEW o \in Ordered(S),
           NEW n \in Nat, \A s \in S : s < n
    PROVE  Append(o, n) \in Ordered(S \cup {n})
<1> DEFINE c == Cardinality(S)  p == Append(o, n)
<1>1. c \in Nat /\ n \notin S
  BY FS_CardinalityType
<1>2. Cardinality(S \cup {n}) = c + 1
  BY <1>1, FS_AddElement
<1>3. o \in [1..c -> S]
  BY DEF Ordered
<1>4. o \in Seq(S) /\ Len(o) = c
  BY <1>1, <1>3
<1>5. /\ p \in Seq(S \cup {n}) /\ Len(p) = c + 1
      /\ \A k \in 1..c : p[k] = o[k]
      /\ p[c + 1] = n
  BY <1>1, <1>4
<1>6. p \in [1..(c + 1) -> S \cup {n}]
  <2>1. DOMAIN p = 1..(c + 1)
    BY <1>1, <1>5
  <2>2. \A k \in 1..(c + 1) : p[k] \in S \cup {n}
    BY <1>1, <1>3, <1>5
  <2>3. p = [k \in 1..(c + 1) |-> p[k]]
    BY <1>5, <2>1, LenProperties
  <2> HIDE DEF p
  <2> QED BY <2>2, <2>3
<1>7. ASSUME NEW a \in 1..(c + 1), NEW b \in 1..(c + 1), a < b
      PROVE  p[a] < p[b]
  <2>1. a \in 1..c /\ p[a] = o[a]
    BY <1>1, <1>5, <1>7
  <2>2. o[a] \in S
    BY <2>1, <1>3
  <2>3. CASE b = c + 1
    BY <2>1, <2>2, <2>3, <1>5
  <2>4. CASE b \in 1..c
    BY <2>1, <2>4, <1>3, <1>5, <1>7 DEF Ordered
  <2>5. b = c + 1 \/ b \in 1..c
    BY <1>1
  <2> HIDE DEF p
  <2> QED BY <2>3, <2>4, <2>5
<1> QED BY <1>2, <1>6, <1>7 DEF Ordered

-----------------------------------------------------------------------------
(***************************************************************************)
(* The network cards                                                       *)
(***************************************************************************)
Nets     == Seq(Names \cup {"DVSwitch"})
Models   == {"virtio", "e1000", "other", "default"}
CardInfo == [net : Nets, mac : Nat, mapped : {0}, model : Models]

NetworkTypeOK ==
    /\ kind \in Kinds /\ cards \in SeqUpTo(Card(kind), MaxCards) /\ mapping \in Seq(Entry)
    /\ pc \in {"check", "source", "generate", "map", "entries", "done", "rejected"}
    /\ infos \in Seq(CardInfo) /\ i \in 0..Len(infos) /\ j \in 0..Len(mapping)

\* What passed the first check names no source network twice.
NamesNoNetworkTwice == pc \notin {"check", "rejected"} => ~Duplicates

MacsDiffer == \A a, b \in DOMAIN infos : a # b => infos[a].mac # infos[b].mac

\* The cards that MapNetworks has added: in the inner loop the present one is
\* among them if an entry handled so far is for its network.
Matched == \E e \in 1..j : mapping[e].source = infos[i].net
Added   == {c \in Mapped : c < i \/ (c = i /\ (pc = "entries" => Matched))}

\* Attached, with the mapping as a parameter.
AttachedBy(m, c) == LET e == CHOOSE x \in {y \in DOMAIN m : m[y].source = c.net} : TRUE IN
                    [c EXCEPT !.mapped = e, !.model = ModelOf(m[e], c)]

AddedInOrder == \E o \in Ordered(Added) :
    result = [k \in DOMAIN o |-> AttachedBy(mapping, infos[o[k]])]

LoopVariable == pc = "entries" =>
    /\ i \in 1..Len(infos)
    /\ ni = IF Matched THEN AttachedBy(mapping, infos[i]) ELSE infos[i]

Before == pc \in {"check", "source", "generate", "rejected"} => i = 0 /\ infos = <<>>

Generated == pc = "done" =>
    /\ i = Len(infos)
    /\ networks = IF result = <<>> THEN <<[name |-> 0, to |-> 0]>>
                  ELSE [k \in DOMAIN result |-> [name |-> k, to |-> result[k].mapped]]
    /\ interfaces = IF result = <<>> THEN <<[name |-> 0, mac |-> 0, model |-> Default]>>
                    ELSE [k \in DOMAIN result |->
                            [name |-> k, mac |-> result[k].mac, model |-> result[k].model]]

NetworkInv == /\ NetworkTypeOK /\ NamesNoNetworkTwice /\ MacsDiffer /\ AddedInOrder
              /\ LoopVariable /\ Before /\ Generated

\* A list of bounded length is a sequence.
LEMMA SeqUpToIsSeq ==
    ASSUME NEW S, NEW n \in Nat, NEW s \in SeqUpTo(S, n)
    PROVE  s \in Seq(S) /\ Len(s) \in Nat /\ DOMAIN s = 1..Len(s)
<1>1. PICK m \in 0..n : s \in [1..m -> S]
  BY DEF SeqUpTo
<1>2. s \in Seq(S)
  BY <1>1
<1> QED BY <1>2, LenProperties

\* Before the first card nothing is added.
LEMMA NothingAdded ==
    ASSUME i = 0, pc # "entries", infos \in Seq(CardInfo)
    PROVE  Added = {}
BY DEF Added, Mapped

LEMMA NetworkInitially == Init => NetworkInv
<1> SUFFICES ASSUME Init PROVE NetworkInv
  OBVIOUS
<1>1. NetworkTypeOK
  <2>1. mapping \in Seq(Entry) /\ Len(mapping) \in Nat
    BY NetworkAssumption, SeqUpToIsSeq DEF Init
  <2>2. <<>> \in Seq(CardInfo) /\ Len(<<>>) = 0
    OBVIOUS
  <2> QED BY <2>1, <2>2 DEF Init, NetworkTypeOK
<1>2. Added = {}
  BY <1>1, NothingAdded DEF Init, NetworkTypeOK
<1>3. AddedInOrder
  <2>1. <<>> \in Ordered(Added)
    BY <1>2, OrderedNothing
  <2>2. <<>> = [k \in DOMAIN <<>> |-> AttachedBy(mapping, infos[<<>>[k]])]
    OBVIOUS
  <2> QED BY <2>1, <2>2 DEF AddedInOrder, Init
<1> QED BY <1>1, <1>3 DEF NetworkInv, Init, NamesNoNetworkTwice, MacsDiffer, LoopVariable, Before, Generated

\* The places of the cards that an entry leads on.
LEMMA MappedPlaces ==
    ASSUME NetworkTypeOK
    PROVE  /\ Mapped \in SUBSET (1..Len(infos)) /\ Added \in SUBSET (1..Len(infos))
           /\ Added \in SUBSET Nat /\ IsFiniteSet(Added) /\ IsFiniteSet(Mapped)
<1>1. DOMAIN infos = 1..Len(infos) /\ Len(infos) \in Nat
  BY LenProperties DEF NetworkTypeOK
<1>2. Mapped \in SUBSET (1..Len(infos)) /\ Added \in SUBSET (1..Len(infos))
  BY <1>1 DEF Mapped, Added
<1>3. IsFiniteSet(Added) /\ IsFiniteSet(Mapped)
  BY <1>1, <1>2, PlacesFinite
<1> QED BY <1>1, <1>2, <1>3

\* What is added stays so in a step that adds nothing.
LEMMA AddedStays ==
    ASSUME AddedInOrder, UNCHANGED <<mapping, infos, result>>, Added' = Added
    PROVE  AddedInOrder'
<1>1. PICK o \in Ordered(Added) : result = [k \in DOMAIN o |-> AttachedBy(mapping, infos[o[k]])]
  BY DEF AddedInOrder
<1>2. result' = [k \in DOMAIN o |-> AttachedBy(mapping', infos'[o[k]])]
  BY <1>1
<1>3. o \in Ordered(Added')
  OBVIOUS
<1> QED BY <1>2, <1>3 DEF AddedInOrder

\* What the mapping leads on keeps its MAC address, and the entry is its own.
LEMMA AttachedIs ==
    ASSUME NEW m \in Seq(Entry), NEW c \in CardInfo
    PROVE  /\ AttachedBy(m, c).mac = c.mac
           /\ (\E y \in DOMAIN m : m[y].source = c.net) =>
                 /\ AttachedBy(m, c).mapped \in DOMAIN m
                 /\ m[AttachedBy(m, c).mapped].source = c.net
<1> DEFINE e == CHOOSE x \in {y \in DOMAIN m : m[y].source = c.net} : TRUE
<1>1. AttachedBy(m, c) = [c EXCEPT !.mapped = e, !.model = ModelOf(m[e], c)]
  BY DEF AttachedBy
<1>2. (\E y \in DOMAIN m : m[y].source = c.net) => e \in DOMAIN m /\ m[e].source = c.net
  OBVIOUS
<1> HIDE DEF e
<1> QED BY <1>1, <1>2 DEF CardInfo

\* The loop variable after the one entry for the network of its card.
LEMMA AttachedByEntry ==
    ASSUME NEW m \in Seq(Entry), NEW c \in CardInfo, NEW e \in DOMAIN m, m[e].source = c.net,
           \A y \in DOMAIN m : m[y].source = c.net => y = e
    PROVE  AttachedBy(m, c) = [c EXCEPT !.mapped = e, !.model = ModelOf(m[e], c)]
<1>1. {y \in DOMAIN m : m[y].source = c.net} = {e}
  OBVIOUS
<1>2. (CHOOSE x \in {e} : TRUE) = e
  OBVIOUS
<1> QED BY Zenon, <1>1, <1>2 DEF AttachedBy

-----------------------------------------------------------------------------
(***************************************************************************)
(* generateNetworkInfos: every card has a MAC address of its own           *)
(***************************************************************************)
LEMMA VmwareInfos ==
    ASSUME NetworkTypeOK, kind = "vmware", NEW f \in vmwareNetworkInfos
    PROVE  /\ f \in Seq(CardInfo)
           /\ \A a, b \in DOMAIN f : a # b => f[a].mac # f[b].mac
<1> DEFINE known == {n \in DOMAIN cards : cards[n].type # "other"}
           model(t) == IF t = "vmxnet3" THEN "virtio" ELSE t
<1>1. /\ cards \in Seq(VmwareCard) /\ Len(cards) \in Nat /\ DOMAIN cards = 1..Len(cards)
      /\ \A n \in DOMAIN cards : cards[n] \in VmwareCard
  <2>1. Card(kind) = VmwareCard
    BY DEF Card
  <2>2. cards \in Seq(VmwareCard) /\ Len(cards) \in Nat /\ DOMAIN cards = 1..Len(cards)
    BY <2>1, NetworkAssumption, SeqUpToIsSeq DEF NetworkTypeOK
  <2> QED BY <2>2
<1>2. /\ known \in SUBSET (1..Len(cards)) /\ known \in SUBSET Nat
      /\ IsFiniteSet(known) /\ Cardinality(known) \in Nat
  <2>1. known \in SUBSET (1..Len(cards)) /\ known \in SUBSET Nat
    BY <1>1
  <2> HIDE DEF known
  <2> QED BY <2>1, <1>1, PlacesFinite
<1>3. PICK o \in Ordered(known) :
          f = [k \in DOMAIN o |-> Info(NetworkName(cards[o[k]]), o[k], model(cards[o[k]].type))]
  BY DEF vmwareNetworkInfos
<1>4. o \in [1..Cardinality(known) -> known]
  BY DEF Ordered
<1>5. ASSUME NEW k \in DOMAIN o PROVE f[k] \in CardInfo /\ f[k].mac = o[k]
  <2>1. o[k] \in known /\ o[k] \in Nat /\ cards[o[k]] \in VmwareCard
    BY <1>1, <1>2, <1>4
  <2>2. model(cards[o[k]].type) \in Models
    BY <2>1 DEF VmwareCard, Models
  <2>3. NetworkName(cards[o[k]]) \in Nets
    <3>1. cards[o[k]].net \in Names /\ Unnamed \in Nets /\ <<>> \in Nets
      BY <2>1 DEF VmwareCard, Nets, Unnamed
    <3>2. <<cards[o[k]].net>> \in Nets
      BY <3>1 DEF Nets
    <3>3. Summary(cards[o[k]]) \in Nets
      BY <3>1, <3>2 DEF Summary
    <3>4. identifyNetworkName(cards[o[k]]) \in Nets
      BY <2>1, <3>1, <3>2 DEF VmwareCard, identifyNetworkName
    <3> QED BY <3>3, <3>4 DEF NetworkName
  <2>4. f[k] = Info(NetworkName(cards[o[k]]), o[k], model(cards[o[k]].type))
    BY <1>3
  <2> HIDE DEF model
  <2> QED BY <2>1, <2>2, <2>3, <2>4 DEF Info, CardInfo
<1>6. f \in Seq(CardInfo) /\ DOMAIN f = DOMAIN o
  <2>1. f \in [1..Cardinality(known) -> CardInfo]
    BY <1>3, <1>4, <1>5
  <2>2. DOMAIN f = DOMAIN o
    BY <1>3
  <2> HIDE DEF known
  <2> QED BY <2>1, <2>2, <1>2
<1>7. ASSUME NEW a \in DOMAIN f, NEW b \in DOMAIN f, a # b PROVE f[a].mac # f[b].mac
  <2>1. o[a] # o[b]
    BY <1>2, <1>6, <1>7, OrderedInjective
  <2> QED BY <2>1, <1>5, <1>6
<1> QED BY <1>6, <1>7

LEMMA OpenstackInfos ==
    ASSUME NetworkTypeOK, kind = "openstack", NEW f \in openstackNetworkInfos
    PROVE  /\ f \in Seq(CardInfo)
           /\ \A a, b \in DOMAIN f : a # b => f[a].mac # f[b].mac
<1> DEFINE macs    == {cards[k].mac : k \in DOMAIN cards}
           nets(m) == {cards[k].net : k \in {a \in DOMAIN cards : cards[a].mac = m}}
           orders  == {o \in [1..Cardinality(macs) -> macs] : \A a, b \in DOMAIN o : a # b => o[a] # o[b]}
           kept    == {g \in [macs -> Names] : \A m \in macs : g[m] \in nets(m)}
<1>1. \A n \in DOMAIN cards : cards[n] \in OpenstackCard
  <2>1. Card(kind) = OpenstackCard
    BY DEF Card
  <2>2. cards \in Seq(OpenstackCard) /\ Len(cards) \in Nat /\ DOMAIN cards = 1..Len(cards)
    BY <2>1, NetworkAssumption, SeqUpToIsSeq DEF NetworkTypeOK
  <2> QED BY <2>2
<1>2. macs \in SUBSET (1..MaxCards) /\ macs \in SUBSET Nat /\ Cardinality(macs) \in Nat
  <2>1. macs \in SUBSET (1..MaxCards) /\ macs \in SUBSET Nat
    BY <1>1, NetworkAssumption DEF OpenstackCard
  <2> HIDE DEF macs
  <2> QED BY <2>1, NetworkAssumption, PlacesFinite
<1>3. PICK o \in orders, g \in kept : f = [k \in DOMAIN o |-> Info(<<g[o[k]]>>, o[k], Default)]
  <2>1. f \in {[k \in DOMAIN o |-> Info(<<g[o[k]]>>, o[k], Default)] : o \in orders, g \in kept}
    <3>1. openstackNetworkInfos = {[k \in DOMAIN o |-> Info(<<g[o[k]]>>, o[k], Default)] : o \in orders, g \in kept}
      BY DEF openstackNetworkInfos
    <3> HIDE DEF macs, orders, kept
    <3> QED BY <3>1
  <2> HIDE DEF orders, kept
  <2> QED BY <2>1
<1>4. /\ o \in [1..Cardinality(macs) -> macs] /\ g \in [macs -> Names]
      /\ \A a, b \in DOMAIN o : a # b => o[a] # o[b]
  OBVIOUS
<1> HIDE DEF macs, orders, kept
<1>5. ASSUME NEW k \in DOMAIN o PROVE f[k] \in CardInfo /\ f[k].mac = o[k]
  <2>1. o[k] \in Nat /\ g[o[k]] \in Names
    BY <1>2, <1>4
  <2>2. <<g[o[k]]>> \in Nets
    BY <2>1 DEF Nets
  <2>3. f[k] = Info(<<g[o[k]]>>, o[k], Default)
    BY <1>3
  <2> QED BY <2>1, <2>2, <2>3 DEF Info, CardInfo, Default, Models
<1>6. f \in Seq(CardInfo) /\ DOMAIN f = DOMAIN o
  <2>1. f \in [1..Cardinality(macs) -> CardInfo]
    BY <1>3, <1>4, <1>5
  <2> QED BY <2>1, <1>2, <1>4
<1> QED BY <1>4, <1>5, <1>6

LEMMA OvaInfos ==
    ASSUME NetworkTypeOK, kind = "ova", NEW f \in ovaNetworkInfos
    PROVE  /\ f \in Seq(CardInfo)
           /\ \A a, b \in DOMAIN f : a # b => f[a].mac # f[b].mac
<1>1. /\ Len(cards) \in Nat /\ DOMAIN cards = 1..Len(cards)
      /\ \A n \in DOMAIN cards : cards[n] \in OvaCard
  <2>1. Card(kind) = OvaCard
    BY DEF Card
  <2>2. cards \in Seq(OvaCard) /\ Len(cards) \in Nat /\ DOMAIN cards = 1..Len(cards)
    BY <2>1, NetworkAssumption, SeqUpToIsSeq DEF NetworkTypeOK
  <2> QED BY <2>2
<1> DEFINE model(c) == IF c.type = "e1000" THEN "e1000" ELSE Default
<1>2. f = [k \in DOMAIN cards |-> Info(<<cards[k].net>>, k, model(cards[k]))]
  BY DEF ovaNetworkInfos
<1>3. ASSUME NEW k \in DOMAIN cards PROVE f[k] \in CardInfo /\ f[k].mac = k
  <2>1. <<cards[k].net>> \in Nets /\ k \in Nat /\ model(cards[k]) \in Models
    BY <1>1 DEF Nets, OvaCard, Default, Models
  <2>2. f[k] = Info(<<cards[k].net>>, k, model(cards[k]))
    BY <1>2
  <2> HIDE DEF model
  <2> QED BY <2>1, <2>2 DEF Info, CardInfo
<1>4. f \in [1..Len(cards) -> CardInfo] /\ DOMAIN f = DOMAIN cards
  BY <1>1, <1>2, <1>3
<1> QED BY <1>1, <1>3, <1>4

-----------------------------------------------------------------------------
(***************************************************************************)
(* The loops of MapNetworks                                                *)
(***************************************************************************)

\* The checks change only where the import stands; there is no card yet.
LEMMA ChecksKeep ==
    ASSUME NetworkInv, preFlightChecks \/ PreFlightChecks
    PROVE  NetworkInv'
<1>1. /\ UNCHANGED <<kind, cards, mapping, infos, i, j, result>>
      /\ pc \in {"check", "source"} /\ pc' \in {"source", "generate", "rejected"}
      /\ pc' \in {"source", "generate"} => ~Duplicates
  BY DEF preFlightChecks, PreFlightChecks, Goto, input, loops, NetworkInv, NamesNoNetworkTwice
<1>2. NetworkTypeOK'
  BY <1>1 DEF NetworkInv, NetworkTypeOK
<1>3. i = 0 /\ infos = <<>> /\ Added' = {} /\ Added = {}
  <2>1. i = 0 /\ infos = <<>> /\ i' = 0 /\ infos' = <<>>
    BY <1>1 DEF NetworkInv, Before
  <2> QED BY <2>1 DEF Added, Mapped
<1>4. AddedInOrder'
  BY <1>1, <1>3, AddedStays DEF NetworkInv
<1>5. NamesNoNetworkTwice'
  BY <1>1 DEF NamesNoNetworkTwice, Duplicates
<1> QED BY <1>1, <1>2, <1>3, <1>4, <1>5
        DEF NetworkInv, MacsDiffer, LoopVariable, Before, Generated

LEMMA InfosKeep ==
    ASSUME NetworkInv, generateNetworkInfos
    PROVE  NetworkInv'
<1>1. /\ UNCHANGED <<kind, cards, mapping, i, j, result>> /\ pc = "generate" /\ pc' = "map"
      /\ NetworkTypeOK /\ i = 0 /\ infos = <<>>
  BY DEF generateNetworkInfos, Goto, input, loops, NetworkInv, Before
<1>2. /\ infos' \in Seq(CardInfo)
      /\ \A a, b \in DOMAIN infos' : a # b => infos'[a].mac # infos'[b].mac
  <2>1. CASE kind = "vmware" /\ infos' \in vmwareNetworkInfos
    BY <1>1, <2>1, VmwareInfos
  <2>2. CASE kind = "openstack" /\ infos' \in openstackNetworkInfos
    BY <1>1, <2>2, OpenstackInfos
  <2>3. CASE kind = "ova" /\ infos' \in ovaNetworkInfos
    BY <1>1, <2>3, OvaInfos
  <2> QED BY <2>1, <2>2, <2>3 DEF generateNetworkInfos
<1>3. Len(infos') \in Nat /\ DOMAIN infos' = 1..Len(infos')
  BY <1>2, LenProperties
<1>4. NetworkTypeOK'
  BY <1>1, <1>2, <1>3 DEF NetworkTypeOK
<1>5. Added' = {} /\ Added = {}
  BY <1>1, <1>3 DEF Added, Mapped
<1>6. AddedInOrder'
  <2>1. PICK o \in Ordered({}) : result = [k \in DOMAIN o |-> AttachedBy(mapping, infos[o[k]])]
    BY <1>5 DEF NetworkInv, AddedInOrder
  <2>2. o = <<>> /\ result' = <<>>
    BY <1>1, <2>1, OrderedNothing
  <2>3. o \in Ordered(Added') /\ result' = [k \in DOMAIN o |-> AttachedBy(mapping', infos'[o[k]])]
    BY <1>5, <2>2
  <2> QED BY <2>3 DEF AddedInOrder
<1>7. NamesNoNetworkTwice'
  BY <1>1 DEF NetworkInv, NamesNoNetworkTwice, Duplicates
<1> QED BY <1>1, <1>2, <1>4, <1>6, <1>7
        DEF NetworkInv, MacsDiffer, LoopVariable, Before, Generated

\* The next card comes without an entry.
LEMMA NextCardKeeps ==
    ASSUME NetworkInv, nextCard
    PROVE  NetworkInv'
<1>1. /\ UNCHANGED <<kind, cards, mapping, infos, result>> /\ pc = "map" /\ pc' = "entries"
      /\ i < Len(infos) /\ i' = i + 1 /\ j' = 0 /\ ni' = infos[i + 1]
  BY DEF nextCard, Goto, input
<1>2. Len(infos) \in Nat /\ DOMAIN infos = 1..Len(infos) /\ i \in Nat /\ Len(mapping) \in Nat
  BY LenProperties DEF NetworkInv, NetworkTypeOK
<1>3. NetworkTypeOK'
  BY <1>1, <1>2 DEF NetworkInv, NetworkTypeOK
<1>4. ~Matched'
  BY <1>1 DEF Matched
<1>5. Mapped' = Mapped /\ Mapped \in SUBSET (1..Len(infos))
  BY <1>1, MappedPlaces DEF Mapped, EntriesOf, NetworkInv
<1>6. Added' = Added
  <2>1. Added' = {c \in Mapped : c < i'}
    BY <1>1, <1>4, <1>5 DEF Added
  <2>2. Added = {c \in Mapped : c < i \/ c = i}
    BY <1>1 DEF Added
  <2>3. \A c \in Mapped : c < i' <=> c < i \/ c = i
    BY <1>1, <1>2, <1>5
  <2> QED BY <2>1, <2>2, <2>3
<1>7. AddedInOrder'
  BY <1>1, <1>6, AddedStays DEF NetworkInv
<1>8. LoopVariable'
  BY <1>1, <1>2, <1>4 DEF LoopVariable
<1>9. NamesNoNetworkTwice'
  BY <1>1 DEF NetworkInv, NamesNoNetworkTwice, Duplicates
<1> QED BY <1>1, <1>3, <1>7, <1>8, <1>9 DEF NetworkInv, MacsDiffer, Before, Generated

\* The entry for the network of the card adds it; no other entry does.
LEMMA NextEntryKeeps ==
    ASSUME NetworkInv, nextEntry
    PROVE  NetworkInv'
<1> DEFINE e == mapping[j + 1]
<1>1. /\ UNCHANGED <<kind, cards, mapping, infos, i>> /\ pc = "entries" /\ pc' = "entries"
      /\ j < Len(mapping) /\ j' = j + 1
  BY DEF nextEntry, input
<1>2. /\ Len(infos) \in Nat /\ DOMAIN infos = 1..Len(infos) /\ i \in 1..Len(infos)
      /\ j \in Nat /\ Len(mapping) \in Nat /\ DOMAIN mapping = 1..Len(mapping)
      /\ mapping \in Seq(Entry) /\ infos[i] \in CardInfo /\ j + 1 \in DOMAIN mapping
  BY <1>1, LenProperties DEF NetworkInv, NetworkTypeOK, LoopVariable
<1>3. NetworkTypeOK'
  BY <1>1, <1>2 DEF NetworkInv, NetworkTypeOK
<1>4. NamesNoNetworkTwice' /\ ~Duplicates
  BY <1>1 DEF NetworkInv, NamesNoNetworkTwice, Duplicates
<1>5. ni.net = infos[i].net /\ (~Matched => ni = infos[i])
  <2>1. AttachedBy(mapping, infos[i]).net = infos[i].net
    BY <1>2 DEF AttachedBy, CardInfo
  <2> QED BY <1>1, <2>1 DEF NetworkInv, LoopVariable
<1>6. Mapped' = Mapped /\ Mapped \in SUBSET (1..Len(infos))
  BY <1>1, MappedPlaces DEF Mapped, EntriesOf, NetworkInv
<1>7. Matched' <=> (Matched \/ e.source = infos[i].net)
  <2>1. 1..(j + 1) = (1..j) \cup {j + 1}
    BY <1>2
  <2> QED BY <1>1, <2>1 DEF Matched
<1>8. CASE e.source # ni.net
  <2>1. UNCHANGED <<ni, result>> /\ (Matched' <=> Matched)
    BY <1>5, <1>7, <1>8 DEF nextEntry
  <2>2. Added' = Added
    BY <1>1, <1>6, <2>1 DEF Added
  <2>3. AddedInOrder'
    BY <1>1, <2>1, <2>2, AddedStays DEF NetworkInv
  <2>4. LoopVariable'
    BY <1>1, <2>1 DEF NetworkInv, LoopVariable
  <2> QED BY <1>1, <1>3, <1>4, <2>3, <2>4 DEF NetworkInv, MacsDiffer, Before, Generated
<1>9. CASE e.source = ni.net
  <2>1. \A y \in DOMAIN mapping : mapping[y].source = infos[i].net => y = j + 1
    BY <1>2, <1>4, <1>5, <1>9 DEF Duplicates
  <2>2. ~Matched /\ Matched' /\ ni = infos[i]
    <3>1. ASSUME NEW y \in 1..j PROVE mapping[y].source # infos[i].net
      BY <1>2, <2>1
    <3>2. ~Matched
      BY <3>1 DEF Matched
    <3> QED BY <1>5, <1>7, <1>9, <3>2
  <2>3. /\ ni' = [ni EXCEPT !.mapped = j + 1, !.model = ModelOf(e, ni)]
        /\ result' = Append(result, ni')
    BY <1>9 DEF nextEntry
  <2>4. ni' = AttachedBy(mapping, infos[i])
    <3>1. mapping[j + 1].source = infos[i].net
      BY <1>5, <1>9
    <3>2. AttachedBy(mapping, infos[i])
             = [infos[i] EXCEPT !.mapped = j + 1, !.model = ModelOf(e, infos[i])]
      BY <1>2, <2>1, <3>1, AttachedByEntry
    <3> QED BY <2>2, <2>3, <3>2
  <2>5. i \in Mapped
    BY <1>2, <1>5, <1>9 DEF Mapped, EntriesOf
  <2>6. Added' = Added \cup {i} /\ \A c \in Added : c < i
    <3>1. Added' = {c \in Mapped : c < i \/ c = i}
      BY <1>1, <1>6, <2>2 DEF Added
    <3>2. Added = {c \in Mapped : c < i}
      BY <1>1, <2>2 DEF Added
    <3> QED BY <2>5, <3>1, <3>2
  <2>7. AddedInOrder'
    <3>1. PICK o \in Ordered(Added) : result = [k \in DOMAIN o |-> AttachedBy(mapping, infos[o[k]])]
      BY DEF NetworkInv, AddedInOrder
    <3>2. Added \in SUBSET Nat /\ IsFiniteSet(Added) /\ i \in Nat
      BY <1>2, MappedPlaces DEF NetworkInv
    <3>3. Append(o, i) \in Ordered(Added')
      BY <2>6, <3>2, OrderedAppend
    <3>4. result' = [k \in DOMAIN Append(o, i) |-> AttachedBy(mapping', infos'[Append(o, i)[k]])]
      <4>1. Cardinality(Added) \in Nat /\ o \in [1..Cardinality(Added) -> Added]
        BY <3>2, FS_CardinalityType DEF Ordered
      <4> DEFINE n == Cardinality(Added)  At(c) == AttachedBy(mapping, infos[c])
      <4> HIDE DEF n, At
      <4>2. n \in Nat /\ o \in [1..n -> Added] /\ result = [k \in 1..n |-> At(o[k])]
        BY <3>1, <4>1 DEF n, At
      <4>3. ni' = At(i)
        BY <2>4 DEF At
      <4>4. result' = [k \in DOMAIN Append(o, i) |-> At(Append(o, i)[k])]
        BY <2>3, <4>2, <4>3
      <4> QED BY <1>1, <4>4 DEF At
    <3> QED BY <3>3, <3>4 DEF AddedInOrder
  <2>8. LoopVariable'
    BY <1>1, <1>2, <2>2, <2>4 DEF LoopVariable
  <2> QED BY <1>1, <1>3, <1>4, <2>7, <2>8 DEF NetworkInv, MacsDiffer, Before, Generated
<1> QED BY <1>8, <1>9

\* All entries are handled: the card is added if one of them is for its network.
LEMMA CardDoneKeeps ==
    ASSUME NetworkInv, cardDone
    PROVE  NetworkInv'
<1>1. /\ UNCHANGED <<kind, cards, mapping, infos, i, j, result>> /\ pc = "entries" /\ pc' = "map"
      /\ j = Len(mapping)
  BY DEF cardDone, Goto, input, loops
<1>2. /\ DOMAIN infos = 1..Len(infos) /\ i \in 1..Len(infos) /\ DOMAIN mapping = 1..Len(mapping)
  BY <1>1, LenProperties DEF NetworkInv, NetworkTypeOK, LoopVariable
<1>3. NetworkTypeOK'
  BY <1>1 DEF NetworkInv, NetworkTypeOK
<1>4. i \in Mapped <=> Matched
  BY <1>1, <1>2 DEF Matched, Mapped, EntriesOf
<1>5. Mapped' = Mapped
  BY <1>1 DEF Mapped, EntriesOf
<1>6. Added' = Added
  <2>1. Added' = {c \in Mapped : c < i \/ c = i}
    BY <1>1, <1>5 DEF Added
  <2>2. Added = {c \in Mapped : c < i \/ (c = i /\ i \in Mapped)}
    BY <1>1, <1>4 DEF Added
  <2> QED BY <2>1, <2>2
<1>7. AddedInOrder'
  BY <1>1, <1>6, AddedStays DEF NetworkInv
<1>8. NamesNoNetworkTwice'
  BY <1>1 DEF NetworkInv, NamesNoNetworkTwice, Duplicates
<1> QED BY <1>1, <1>3, <1>7, <1>8 DEF NetworkInv, MacsDiffer, LoopVariable, Before, Generated

LEMMA ConfigsKeep ==
    ASSUME NetworkInv, GenerateNetworkInterfaceConfigs
    PROVE  NetworkInv'
<1>1. /\ UNCHANGED <<kind, cards, mapping, infos, i, j, result>> /\ pc = "map" /\ pc' = "done"
      /\ i = Len(infos)
  BY DEF GenerateNetworkInterfaceConfigs, Goto, input, loops
<1>2. NetworkTypeOK'
  BY <1>1 DEF NetworkInv, NetworkTypeOK
<1>3. Added' = Added
  BY <1>1 DEF Added, Mapped, EntriesOf
<1>4. AddedInOrder'
  BY <1>1, <1>3, AddedStays DEF NetworkInv
<1>5. NamesNoNetworkTwice'
  BY <1>1 DEF NetworkInv, NamesNoNetworkTwice, Duplicates
<1>6. Generated'
  BY <1>1 DEF GenerateNetworkInterfaceConfigs, Generated
<1> QED BY <1>1, <1>2, <1>4, <1>5, <1>6 DEF NetworkInv, MacsDiffer, LoopVariable, Before

LEMMA NetworkStutters ==
    ASSUME NetworkInv, UNCHANGED vars
    PROVE  NetworkInv'
<1>1. UNCHANGED <<kind, cards, mapping, pc, infos, i, j, ni, result, networks, interfaces>>
  BY DEF vars, input, loops
<1>2. Added' = Added
  BY <1>1 DEF Added, Mapped, EntriesOf, Matched
<1>3. AddedInOrder'
  BY <1>1, <1>2, AddedStays DEF NetworkInv
<1>4. LoopVariable'
  BY <1>1 DEF NetworkInv, LoopVariable, Matched
<1>5. NetworkTypeOK' /\ NamesNoNetworkTwice'
  BY <1>1 DEF NetworkInv, NetworkTypeOK, NamesNoNetworkTwice, Duplicates
<1> QED BY <1>1, <1>3, <1>4, <1>5 DEF NetworkInv, MacsDiffer, Before, Generated

LEMMA NetworkStep ==
    ASSUME NetworkInv, Next
    PROVE  NetworkInv'
<1>1. CASE preFlightChecks \/ PreFlightChecks
  BY <1>1, ChecksKeep
<1>2. CASE generateNetworkInfos
  BY <1>2, InfosKeep
<1>3. CASE nextCard
  BY <1>3, NextCardKeeps
<1>4. CASE nextEntry
  BY <1>4, NextEntryKeeps
<1>5. CASE cardDone
  BY <1>5, CardDoneKeeps
<1>6. CASE GenerateNetworkInterfaceConfigs
  BY <1>6, ConfigsKeep
<1> QED BY <1>1, <1>2, <1>3, <1>4, <1>5, <1>6 DEF Next, MapNetworks

\* The elements of the result, each with its card.
LEMMA ResultCards ==
    ASSUME NetworkInv
    PROVE  \E o \in Ordered(Added) :
              /\ result = [k \in DOMAIN o |-> AttachedBy(mapping, infos[o[k]])]
              /\ \A k \in DOMAIN o : o[k] \in Mapped /\ infos[o[k]] \in CardInfo
              /\ \A a, b \in DOMAIN o : a # b => o[a] # o[b]
<1>1. PICK o \in Ordered(Added) : result = [k \in DOMAIN o |-> AttachedBy(mapping, infos[o[k]])]
  BY DEF NetworkInv, AddedInOrder
<1>2. Added \in SUBSET Nat /\ IsFiniteSet(Added) /\ Mapped \in SUBSET (1..Len(infos))
  BY MappedPlaces DEF NetworkInv
<1>3. \A k \in DOMAIN o : o[k] \in Added
  BY DEF Ordered
<1>4. infos \in Seq(CardInfo) /\ \A c \in Mapped : infos[c] \in CardInfo
  <2>1. infos \in Seq(CardInfo) /\ DOMAIN infos = 1..Len(infos)
    BY LenProperties DEF NetworkInv, NetworkTypeOK
  <2> QED BY <2>1, <1>2
<1>5. \A k \in DOMAIN o : o[k] \in Mapped
  BY <1>3 DEF Added
<1>6. \A a, b \in DOMAIN o : a # b => o[a] # o[b]
  BY <1>2, OrderedInjective
<1> QED BY <1>1, <1>4, <1>5, <1>6

LEMMA NetworkMapsEachCardOnce ==
    ASSUME NetworkInv
    PROVE  MapsEachCardOnce
<1> SUFFICES ASSUME pc = "done"
             PROVE  \E o \in Ordered(Mapped) : result = [k \in DOMAIN o |-> Attached(infos[o[k]])]
  BY DEF MapsEachCardOnce
<1>1. Added = Mapped
  <2>1. i = Len(infos) /\ Mapped \in SUBSET (1..Len(infos)) /\ Len(infos) \in Nat
    BY MappedPlaces, LenProperties DEF NetworkInv, Generated, NetworkTypeOK
  <2>2. \A c \in Mapped : c < i \/ c = i
    BY <2>1
  <2> QED BY <2>2 DEF Added
<1>2. PICK o \in Ordered(Added) : result = [k \in DOMAIN o |-> AttachedBy(mapping, infos[o[k]])]
  BY DEF NetworkInv, AddedInOrder
<1>3. ASSUME NEW c PROVE AttachedBy(mapping, c) = Attached(c)
  BY Zenon DEF AttachedBy, Attached, EntriesOf
<1>4. result = [k \in DOMAIN o |-> Attached(infos[o[k]])]
  BY <1>2, <1>3
<1> QED BY <1>1, <1>4

LEMMA NetworkCardsStayApart ==
    ASSUME NetworkInv
    PROVE  CardsStayApart
<1>1. PICK o \in Ordered(Added) :
          /\ result = [k \in DOMAIN o |-> AttachedBy(mapping, infos[o[k]])]
          /\ \A k \in DOMAIN o : o[k] \in Mapped /\ infos[o[k]] \in CardInfo
          /\ \A a, b \in DOMAIN o : a # b => o[a] # o[b]
  BY ResultCards
<1>2. \A k \in DOMAIN o : result[k].mac = infos[o[k]].mac /\ o[k] \in DOMAIN infos
  BY <1>1, AttachedIs DEF NetworkInv, NetworkTypeOK, Mapped
<1>3. DOMAIN result = DOMAIN o
  BY <1>1
<1> QED BY <1>1, <1>2, <1>3 DEF NetworkInv, MacsDiffer, CardsStayApart

LEMMA NetworkPairs ==
    ASSUME NetworkInv
    PROVE  NetworksAndInterfacesPair
<1> SUFFICES ASSUME pc = "done" PROVE NetworksAndInterfacesPair
  BY DEF NetworksAndInterfacesPair
<1>1. CASE result = <<>>
  <2>1. networks = <<[name |-> 0, to |-> 0]>> /\ interfaces = <<[name |-> 0, mac |-> 0, model |-> Default]>>
    BY <1>1 DEF NetworkInv, Generated
  <2>2. /\ networks # <<>> /\ DOMAIN networks = {1} /\ DOMAIN interfaces = {1}
        /\ networks[1].name = interfaces[1].name /\ networks[1].to = 0
    BY <2>1
  <2> QED BY <2>2 DEF NetworksAndInterfacesPair
<1>2. CASE result # <<>>
  <2>1. PICK o \in Ordered(Added) :
            /\ result = [k \in DOMAIN o |-> AttachedBy(mapping, infos[o[k]])]
            /\ \A k \in DOMAIN o : o[k] \in Mapped /\ infos[o[k]] \in CardInfo
    BY ResultCards
  <2>2. /\ networks = [k \in DOMAIN result |-> [name |-> k, to |-> result[k].mapped]]
        /\ interfaces = [k \in DOMAIN result |->
                            [name |-> k, mac |-> result[k].mac, model |-> result[k].model]]
    BY <1>2 DEF NetworkInv, Generated
  <2>3. DOMAIN result # {}
    BY <1>2, <2>1
  <2>4. ASSUME NEW k \in DOMAIN result
        PROVE  /\ networks[k].name = k /\ interfaces[k].name = k
               /\ \E c \in DOMAIN infos : /\ infos[c].mac = interfaces[k].mac
                                          /\ mapping[networks[k].to].source = infos[c].net
    <3>1. o[k] \in Mapped /\ o[k] \in DOMAIN infos /\ infos[o[k]] \in CardInfo
      BY <2>1 DEF Mapped
    <3>2. \E y \in DOMAIN mapping : mapping[y].source = infos[o[k]].net
      BY <3>1 DEF Mapped, EntriesOf
    <3>3. /\ result[k].mac = infos[o[k]].mac
          /\ mapping[result[k].mapped].source = infos[o[k]].net
      BY <2>1, <3>1, <3>2, AttachedIs DEF NetworkInv, NetworkTypeOK
    <3> QED BY <2>2, <3>1, <3>3
  <2>5. DOMAIN networks = DOMAIN result /\ DOMAIN interfaces = DOMAIN result /\ networks # <<>>
    BY <2>2, <2>3
  <2> QED BY <2>4, <2>5 DEF NetworksAndInterfacesPair
<1> QED BY <1>1, <1>2

-----------------------------------------------------------------------------
(***************************************************************************)
(* The disks of a VMware VM                                                *)
(***************************************************************************)
\* Bus and unit of a device, and its entry in diskByBusUnit.
AddressOf(h) == <<Controllers[h.controller].bus, h.unit>>
EntryOf(h)   == [bus |-> Controllers[h.controller].bus, unit |-> h.unit, disk |-> h.disk]

\* The disks of the N devices are the numbers 1 to N.
DevicesOK ==
    /\ hardware \in Seq(D!Disk) /\ readable \subseteq 1..Len(hardware)
    /\ \A a, b \in 1..Len(hardware) : a # b => hardware[a].disk # hardware[b].disk
    /\ \A a \in 1..Len(hardware) : hardware[a].disk \in 1..Len(hardware)

DisksTypeOK ==
    /\ dpc \in {"controllers", "devices", "items"} /\ dnext \in 0..Len(hardware)
    /\ dpc = "controllers" => dnext = 0 /\ diskByBusUnit = {}
    /\ dpc # "controllers" => controllerBus = [c \in DOMAIN Controllers |-> Controllers[c].bus]
    /\ \E S : listed \in Seq(S)
    /\ Len(listed) = IF dpc = "items" THEN dnext ELSE 0

\* The devices the second loop has handled, and the map made of them.
HandledDevices == 1..(IF dpc = "items" THEN Len(hardware) ELSE dnext)
MapOK ==
    /\ \A e \in diskByBusUnit : \E k \in HandledDevices : e = EntryOf(hardware[k])
    /\ \A k \in HandledDevices : \E e \in diskByBusUnit :
           e.bus = Controllers[hardware[k].controller].bus /\ e.unit = hardware[k].unit

\* Item m is about the device whose disk is m.
ItemOK(m, k) ==
    /\ listed[m].disk = m
    /\ listed[m].bus = D!detectDiskBusType(Contains[Controllers[hardware[k].controller].type])
    /\ (\A p \in 1..Len(hardware) : p # k => AddressOf(hardware[p]) # AddressOf(hardware[k])) =>
           listed[m].size = IF m \in readable THEN m ELSE 0
ItemsOK == \A m \in 1..Len(listed), k \in 1..Len(hardware) : hardware[k].disk = m => ItemOK(m, k)

DisksInv == DevicesOK /\ DisksTypeOK /\ MapOK /\ ItemsOK

LEMMA DisksInitially == D!Init => DisksInv
<1> SUFFICES ASSUME D!Init PROVE DisksInv
  OBVIOUS
<1>1. PICK m \in 0..MaxDisks : hardware \in [1..m -> D!Disk]
  BY DEF D!Init
<1>2. hardware \in Seq(D!Disk) /\ Len(hardware) = m /\ m \in Nat
  BY <1>1, TranslationAssumption
<1>3. \A a \in 1..Len(hardware) : hardware[a].disk \in 1..MaxDisks
  BY <1>1, <1>2 DEF D!Disk
<1>4. DevicesOK
  BY <1>2, <1>3, TranslationAssumption DEF D!Init, D!N, DevicesOK
<1>5. listed = <<>> /\ dpc = "controllers" /\ dnext = 0 /\ diskByBusUnit = {}
  BY DEF D!Init
<1>6. DisksTypeOK
  <2>1. <<>> \in Seq({}) /\ Len(<<>>) = 0
    OBVIOUS
  <2> QED BY <1>2, <1>5, <2>1 DEF DisksTypeOK
<1> QED BY <1>4, <1>5, <1>6 DEF DisksInv, MapOK, ItemsOK, HandledDevices

\* The disk of a number: each number up to N is that of one device.
LEMMA DeviceOfDisk ==
    ASSUME DevicesOK, NEW m \in 1..Len(hardware)
    PROVE  \E k \in 1..Len(hardware) : hardware[k].disk = m /\ D!Of(m) = hardware[k]
<1> DEFINE n == Len(hardware)  f == [k \in 1..n |-> hardware[k].disk]
<1>1. n \in Nat
  BY LenProperties DEF DevicesOK
<1>2. f \in Injection(1..n, 1..n)
  BY DEF DevicesOK, Injection, IsInjective
<1>3. IsFiniteSet(1..n)
  BY <1>1, FS_Interval
<1>4. f \in Surjection(1..n, 1..n)
  <2> HIDE DEF f, n
  <2> QED BY <1>2, <1>3, FS_Injection
<1>5. PICK k \in 1..n : f[k] = m
  BY <1>4 DEF Surjection
<1>6. hardware[k].disk = m
  BY <1>5
<1>7. D!Of(m) = hardware[k]
  <2>1. \A h \in {hardware[a] : a \in 1..n} : h.disk = m => h = hardware[k]
    BY <1>6 DEF DevicesOK
  <2>2. hardware[k] \in {hardware[a] : a \in 1..n}
    OBVIOUS
  <2> QED BY <1>6, <2>1, <2>2 DEF D!Of, D!N
<1> QED BY <1>6, <1>7

LEMMA OfDevice ==
    ASSUME DevicesOK, NEW k \in 1..Len(hardware)
    PROVE  D!Of(hardware[k].disk) = hardware[k]
<1>1. hardware[k].disk \in 1..Len(hardware)
  BY DEF DevicesOK
<1>2. PICK a \in 1..Len(hardware) :
          hardware[a].disk = hardware[k].disk /\ D!Of(hardware[k].disk) = hardware[a]
  BY <1>1, DeviceOfDisk
<1> QED BY <1>2 DEF DevicesOK

\* The second loop keeps a disk for every address it has met.
LEMMA NextDeviceKeeps ==
    ASSUME DisksInv, D!nextDevice
    PROVE  DisksInv'
<1> DEFINE h == hardware[dnext + 1]  key == D!diskKey(h)
<1>1. /\ UNCHANGED <<hardware, readable, dpc, controllerBus, listed>> /\ dpc = "devices"
      /\ dnext < Len(hardware) /\ dnext' = dnext + 1
      /\ diskByBusUnit' = {e \in diskByBusUnit : ~D!HasKey(e, key)}
                          \cup {[bus |-> key.bus, unit |-> key.unit, disk |-> h.disk]}
  BY DEF D!nextDevice, D!N
<1>2. /\ Len(hardware) \in Nat /\ dnext \in Nat /\ dnext + 1 \in 1..Len(hardware)
      /\ \A k \in 1..Len(hardware) : hardware[k] \in D!Disk
  <2>1. hardware \in Seq(D!Disk) /\ DOMAIN hardware = 1..Len(hardware) /\ Len(hardware) \in Nat
    BY LenProperties DEF DisksInv, DevicesOK
  <2> QED BY <1>1, <2>1 DEF DisksInv, DisksTypeOK
<1>3. key = [bus |-> Controllers[h.controller].bus, unit |-> h.unit]
  BY <1>1, <1>2 DEF DisksInv, DisksTypeOK, D!diskKey, D!Disk
<1>4. EntryOf(h) \in diskByBusUnit'
  BY <1>1, <1>3 DEF EntryOf
<1>5. DevicesOK' /\ DisksTypeOK' /\ ItemsOK'
  BY <1>1, <1>2 DEF DisksInv, DevicesOK, DisksTypeOK, ItemsOK, ItemOK
<1>6. HandledDevices = 1..dnext /\ HandledDevices' = 1..(dnext + 1)
  BY <1>1 DEF HandledDevices
<1>7. ASSUME NEW e \in diskByBusUnit'
      PROVE  \E k \in 1..(dnext + 1) : e = EntryOf(hardware[k])
  <2>1. CASE e \in diskByBusUnit
    <3>1. \E k \in HandledDevices : e = EntryOf(hardware[k])
      BY <2>1 DEF DisksInv, MapOK
    <3>2. HandledDevices \subseteq 1..(dnext + 1)
      BY <1>2, <1>6
    <3> QED BY <3>1, <3>2
  <2>2. CASE e = EntryOf(h)
    BY <1>2, <2>2
  <2>3. e \in diskByBusUnit \/ e = EntryOf(h)
    BY <1>1, <1>3 DEF EntryOf
  <2> QED BY <2>1, <2>2, <2>3
<1>8. ASSUME NEW k \in 1..(dnext + 1)
      PROVE  \E e \in diskByBusUnit' : e.bus = Controllers[hardware[k].controller].bus
                                       /\ e.unit = hardware[k].unit
  <2>1. CASE AddressOf(hardware[k]) = AddressOf(h)
    BY <1>4, <2>1 DEF AddressOf, EntryOf
  <2>2. CASE AddressOf(hardware[k]) # AddressOf(h)
    <3>1. k \in HandledDevices
      BY <1>2, <1>6, <2>2
    <3>2. PICK e \in diskByBusUnit : /\ e.bus = Controllers[hardware[k].controller].bus
                                     /\ e.unit = hardware[k].unit
      BY <3>1 DEF DisksInv, MapOK
    <3>3. ~D!HasKey(e, key)
      BY <1>3, <2>2, <3>2 DEF D!HasKey, AddressOf
    <3> QED BY <1>1, <3>2, <3>3
  <2> QED BY <2>1, <2>2
<1>9. MapOK'
  <2>1. \A e \in diskByBusUnit' : \E k \in HandledDevices' : e = EntryOf(hardware'[k])
    BY <1>1, <1>6, <1>7
  <2>2. \A k \in HandledDevices' : \E e \in diskByBusUnit' :
            e.bus = Controllers[hardware'[k].controller].bus /\ e.unit = hardware'[k].unit
    BY <1>1, <1>6, <1>8
  <2> QED BY <2>1, <2>2 DEF MapOK, EntryOf
<1> QED BY <1>5, <1>9 DEF DisksInv

\* The size of an item whose address no other disk has.
LEMMA SizeFound ==
    ASSUME DisksInv, dpc = "items", NEW k \in 1..Len(hardware),
           \A p \in 1..Len(hardware) : p # k => AddressOf(hardware[p]) # AddressOf(hardware[k])
    PROVE  D!diskSize(hardware[k].disk)
              = IF hardware[k].disk \in readable THEN hardware[k].disk ELSE 0
<1> DEFINE d == hardware[k].disk  id == D!parseDeviceId(d)
           found == {e \in diskByBusUnit : id.ok /\ D!HasKey(e, id.key)}
<1>1. \A e : e \in found <=> /\ e \in diskByBusUnit /\ d \in readable
                            /\ e.bus = Controllers[hardware[k].controller].bus
                            /\ e.unit = hardware[k].unit
  <2>1. D!Of(d) = hardware[k]
    BY OfDevice DEF DisksInv
  <2>2. /\ id.ok <=> d \in readable
        /\ id.key.bus = Controllers[hardware[k].controller].bus /\ id.key.unit = hardware[k].unit
    BY <2>1 DEF D!parseDeviceId
  <2> HIDE DEF id
  <2> QED BY <2>2 DEF D!HasKey
<1>2. D!diskSize(d) = IF found = {} THEN 0 ELSE (CHOOSE e \in found : TRUE).disk
  BY DEF D!diskSize
<1>3. CASE d \notin readable
  <2>1. found = {}
    BY <1>1, <1>3
  <2> HIDE DEF found
  <2> QED BY <1>2, <1>3, <2>1
<1>4. CASE d \in readable
  <2>1. PICK e \in diskByBusUnit : /\ e.bus = Controllers[hardware[k].controller].bus
                                   /\ e.unit = hardware[k].unit
    BY DEF DisksInv, MapOK, HandledDevices
  <2>2. e \in found
    BY <1>1, <1>4, <2>1
  <2>3. ASSUME NEW g \in found PROVE g.disk = d
    <3>1. PICK p \in 1..Len(hardware) : g = EntryOf(hardware[p])
      BY <1>1, <2>3 DEF DisksInv, MapOK, HandledDevices
    <3>2. AddressOf(hardware[p]) = AddressOf(hardware[k])
      BY <1>1, <2>3, <3>1 DEF AddressOf, EntryOf
    <3> QED BY <3>1, <3>2 DEF EntryOf
  <2>4. found # {} /\ (CHOOSE g \in found : TRUE).disk = d
    <3> HIDE DEF found, d
    <3> QED BY <2>2, <2>3
  <2> HIDE DEF found
  <2> QED BY <1>2, <1>4, <2>4
<1> QED BY <1>3, <1>4

\* An item is listed with the size and the bus of its own disk.
LEMMA ItemListed ==
    ASSUME DisksInv, D!nextItem
    PROVE  DisksInv'
<1> DEFINE d == dnext + 1  new == [disk |-> d, size |-> D!diskSize(d), bus |-> D!BusOf(d)]
<1>1. /\ UNCHANGED <<hardware, readable, dpc, controllerBus, diskByBusUnit>> /\ dpc = "items"
      /\ dnext < Len(hardware) /\ dnext' = dnext + 1 /\ listed' = Append(listed, new)
  BY DEF D!nextItem, D!N
<1>2. Len(hardware) \in Nat /\ dnext \in Nat /\ d \in 1..Len(hardware) /\ Len(listed) = dnext
  <2>1. Len(hardware) \in Nat
    BY LenProperties DEF DisksInv, DevicesOK
  <2> QED BY <1>1, <2>1 DEF DisksInv, DisksTypeOK
<1>3. PICK S : listed \in Seq(S)
  BY DEF DisksInv, DisksTypeOK
<1> HIDE DEF new
<1>4. /\ listed' \in Seq(S \cup {new}) /\ Len(listed') = dnext + 1 /\ listed'[d] = new
      /\ \A m \in 1..dnext : listed'[m] = listed[m]
  <2>1. listed \in Seq(S \cup {new}) /\ new \in S \cup {new}
    BY <1>3
  <2> QED BY <1>1, <1>2, <2>1
<1>5. DisksTypeOK'
  <2>1. \E T : listed' \in Seq(T)
    BY <1>4
  <2> QED BY <1>1, <1>2, <1>4, <2>1 DEF DisksInv, DisksTypeOK
<1>6. DevicesOK' /\ MapOK'
  BY <1>1 DEF DisksInv, DevicesOK, MapOK, HandledDevices
<1>7. ASSUME NEW m \in 1..(dnext + 1), NEW k \in 1..Len(hardware), hardware[k].disk = m
      PROVE  /\ listed'[m].disk = m
             /\ listed'[m].bus = D!detectDiskBusType(Contains[Controllers[hardware[k].controller].type])
             /\ (\A p \in 1..Len(hardware) : p # k => AddressOf(hardware[p]) # AddressOf(hardware[k])) =>
                    listed'[m].size = IF m \in readable THEN m ELSE 0
  <2>1. CASE m \in 1..dnext
    <3>1. ItemOK(m, k)
      BY <1>2, <1>7, <2>1 DEF DisksInv, ItemsOK
    <3> QED BY <1>4, <2>1, <3>1 DEF ItemOK
  <2>2. CASE m = d
    <3>1. D!Of(d) = hardware[k]
      BY <1>7, <2>2, OfDevice DEF DisksInv
    <3>2. D!BusOf(d) = D!detectDiskBusType(Contains[Controllers[hardware[k].controller].type])
      BY Zenon, <3>1 DEF D!BusOf
    <3>3. new.disk = d /\ new.size = D!diskSize(d) /\ new.bus = D!BusOf(d)
      BY DEF new
    <3>4. (\A p \in 1..Len(hardware) : p # k => AddressOf(hardware[p]) # AddressOf(hardware[k])) =>
              D!diskSize(d) = IF d \in readable THEN d ELSE 0
      BY <1>1, <1>7, <2>2, SizeFound
    <3> QED BY <1>4, <2>2, <3>2, <3>3, <3>4
  <2> QED BY <1>2, <2>1, <2>2
<1>8. ItemsOK'
  <2>1. ASSUME NEW m \in 1..Len(listed'), NEW k \in 1..Len(hardware'), hardware'[k].disk = m
        PROVE  ItemOK(m, k)'
    <3>1. m \in 1..(dnext + 1) /\ k \in 1..Len(hardware) /\ hardware[k].disk = m
      BY <1>1, <1>4, <2>1
    <3> QED BY <1>1, <1>7, <3>1 DEF ItemOK, AddressOf
  <2> QED BY <2>1 DEF ItemsOK
<1> QED BY <1>5, <1>6, <1>8 DEF DisksInv

LEMMA DisksStep ==
    ASSUME DisksInv, D!Next \/ UNCHANGED disksVars
    PROVE  DisksInv'
<1>1. ASSUME D!mapControllers PROVE DisksInv'
  <2>1. /\ UNCHANGED <<hardware, readable, dnext, diskByBusUnit, listed>>
        /\ dpc = "controllers" /\ dpc' = "devices"
        /\ controllerBus' = [c \in DOMAIN Controllers |-> Controllers[c].bus]
    BY <1>1 DEF D!mapControllers
  <2>2. HandledDevices' = HandledDevices
    BY <2>1 DEF HandledDevices
  <2>3. DisksTypeOK' /\ DevicesOK'
    BY <2>1 DEF DisksInv, DisksTypeOK, DevicesOK
  <2> QED BY <2>1, <2>2, <2>3 DEF DisksInv, MapOK, ItemsOK, ItemOK
<1>2. CASE D!nextDevice
  BY <1>2, NextDeviceKeeps
<1>3. ASSUME D!devicesDone PROVE DisksInv'
  <2>1. /\ UNCHANGED <<hardware, readable, controllerBus, diskByBusUnit, listed>>
        /\ dpc = "devices" /\ dnext = Len(hardware) /\ dpc' = "items" /\ dnext' = 0
    BY <1>3 DEF D!devicesDone, D!N
  <2>2. HandledDevices' = HandledDevices
    BY <2>1 DEF HandledDevices
  <2>3. Len(hardware) \in Nat
    BY LenProperties DEF DisksInv, DevicesOK
  <2>4. DisksTypeOK' /\ DevicesOK'
    BY <2>1, <2>3 DEF DisksInv, DisksTypeOK, DevicesOK
  <2> QED BY <2>1, <2>2, <2>4 DEF DisksInv, MapOK, ItemsOK, ItemOK
<1>4. CASE D!nextItem
  BY <1>4, ItemListed
<1>5. CASE UNCHANGED disksVars
  BY <1>5 DEF DisksInv, DisksTypeOK, DevicesOK, MapOK, HandledDevices, ItemsOK, ItemOK, disksVars
<1> QED BY <1>1, <1>2, <1>3, <1>4, <1>5 DEF D!Next

\* An item that is listed, with its device.
LEMMA ListedItem ==
    ASSUME DisksInv, NEW m \in 1..Len(listed)
    PROVE  \E k \in 1..Len(hardware) :
              hardware[k].disk = m /\ D!Of(m) = hardware[k] /\ ItemOK(m, k)
<1>1. m \in 1..Len(hardware)
  <2>1. Len(hardware) \in Nat
    BY LenProperties DEF DisksInv, DevicesOK
  <2> QED BY <2>1 DEF DisksInv, DisksTypeOK
<1>2. PICK k \in 1..Len(hardware) : hardware[k].disk = m /\ D!Of(m) = hardware[k]
  BY <1>1, DeviceOfDisk DEF DisksInv
<1> QED BY <1>2 DEF DisksInv, ItemsOK

LEMMA DisksSizedByAddress ==
    ASSUME DisksInv
    PROVE  D!SizedByAddress
<1> SUFFICES ASSUME NEW m \in 1..Len(listed),
                    \A d \in 1..D!N : d # listed[m].disk => D!Address(d) # D!Address(listed[m].disk)
             PROVE  listed[m].size = IF listed[m].disk \in readable THEN listed[m].disk ELSE 0
  BY DEF D!SizedByAddress
<1>1. PICK k \in 1..Len(hardware) :
          hardware[k].disk = m /\ D!Of(m) = hardware[k] /\ ItemOK(m, k)
  BY ListedItem
<1>2. listed[m].disk = m
  BY <1>1 DEF ItemOK
<1>3. ASSUME NEW p \in 1..Len(hardware), p # k
      PROVE  AddressOf(hardware[p]) # AddressOf(hardware[k])
  <2>1. D!Of(hardware[p].disk) = hardware[p] /\ hardware[p].disk # m
        /\ hardware[p].disk \in 1..Len(hardware)
    BY <1>1, <1>3, OfDevice DEF DisksInv, DevicesOK
  <2>2. D!Address(hardware[p].disk) # D!Address(m)
    BY <1>2, <2>1 DEF D!N
  <2> QED BY <1>1, <2>1, <2>2 DEF D!Address, AddressOf
<1> QED BY <1>1, <1>2, <1>3 DEF ItemOK

\* The first rule comes before all others.
LEMMA ParavirtualOnSata ==
    ASSUME NEW words, "paravirtualscsi" \in words
    PROVE  D!detectDiskBusType(words) = "sata"
<1>1. DOMAIN D!BusRules = 1..5 /\ D!BusRules[1] = D!Rule({"paravirtualscsi"}, "sata")
  BY DEF D!BusRules
<1>2. 1 \in D!Hits(words) /\ \A k \in D!Hits(words) : k \in 1..5
  BY <1>1 DEF D!Hits, D!Rule
<1>3. \A k \in D!Hits(words) : (\A m \in D!Hits(words) : k <= m) <=> k = 1
  BY <1>2
<1>4. (CHOOSE k \in D!Hits(words) : \A m \in D!Hits(words) : k <= m) = 1
  BY <1>2, <1>3
<1>5. D!Hits(words) # {}
  BY <1>2
<1>6. D!detectDiskBusType(words) = D!BusRules[1].bus
  BY Zenon, <1>4, <1>5 DEF D!detectDiskBusType
<1> QED BY <1>1, <1>6 DEF D!Rule

LEMMA DisksNoParavirtualOnSCSI ==
    ASSUME DisksInv
    PROVE  D!NoParavirtualOnSCSI
<1> SUFFICES ASSUME NEW m \in 1..Len(listed),
                    "paravirtualscsi" \in Contains[Controllers[D!Of(listed[m].disk).controller].type]
             PROVE  listed[m].bus # "scsi"
  BY DEF D!NoParavirtualOnSCSI
<1>1. PICK k \in 1..Len(hardware) :
          hardware[k].disk = m /\ D!Of(m) = hardware[k] /\ ItemOK(m, k)
  BY ListedItem
<1>2. listed[m].disk = m
        /\ listed[m].bus = D!detectDiskBusType(Contains[Controllers[hardware[k].controller].type])
  BY <1>1 DEF ItemOK
<1>3. listed[m].bus = "sata"
  BY <1>1, <1>2, ParavirtualOnSata
<1> QED BY <1>3

-----------------------------------------------------------------------------
(***************************************************************************)
(* Firmware and disks of the guest                                         *)
(***************************************************************************)
GuestTypeOK ==
    /\ gkind \in {"vmware", "openstack", "ova"}
    /\ gkind = "openstack" => guest \in OpenstackGuests
    /\ gkind = "ova" => guest \in OvaGuests
    /\ gpc \in {"parse", "apply", "done", "error", "panic"}

\* The image found so far is that of the last bootable volume, then its firmware.
LastBootable(k, n) == /\ k \in G!BootVolumes /\ k <= n
                      /\ \A m \in G!BootVolumes : m <= n => m <= k
FirmwareOf(image) == [UEFI |-> image.efi, TPM |-> image.tpm, SecureBoot |-> image.secureBoot]
FirmwareFound ==
    \/ G!BootVolumes = {} /\ fw.UEFI = FALSE
    \/ \E k \in G!BootVolumes : /\ LastBootable(k, Len(guest.volumes))
                                /\ guest.volumes[k].image \in DOMAIN guest.image
                                /\ fw = FirmwareOf(guest.image[guest.volumes[k].image])
ImageFound ==
    /\ gnext \in 0..Len(guest.volumes)
    /\ gpc = "parse" =>
          /\ fw.UEFI = FALSE
          /\ \/ imageID = "none" /\ \A k \in 1..gnext : ~guest.volumes[k].bootable
             \/ \E k \in G!BootVolumes :
                   LastBootable(k, gnext) /\ imageID = guest.volumes[k].image
    /\ gpc = "apply" => FirmwareFound

\* Disk d is the drive's, and the first item with the ID the drive refers to is
\* a SCSI controller.
OnScsi(drive, d) ==
    /\ \E k \in 1..Len(guest.items) :
          /\ guest.items[k].id = drive.parent /\ G!FirstOf(k)
          /\ guest.items[k].type = "ParallelScsiHba" /\ guest.items[k].subtype = {}
    /\ guest.disks[d].id = drive.disk /\ guest.disks[d].ref \in guest.references

Puts(list, drive) == \A d \in 1..Len(guest.disks) : OnScsi(drive, d) =>
    \E n \in 1..Len(list) :
       /\ list[n].name = guest.disks[d].ref /\ list[n].bus = "scsi"
       /\ list[n].size = G!parseCapacity(guest.disks[d])

\* The first n items and storage items have put their disks in a list.
AllPut(list, n) ==
    /\ \A k \in 1..Len(guest.items) :
          k <= n /\ guest.items[k].type = "DiskDrive" => Puts(list, guest.items[k])
    /\ \A k \in 1..Len(guest.storage) :
          Len(guest.items) + k <= n => Puts(list, guest.storage[k])

ListIsSeq(list) == \E S : list \in Seq(S)
ItemCount    == Len(guest.items)
StorageCount == Len(guest.storage)
Total        == ItemCount + StorageCount

DrivesHandled ==
    /\ gnext \in 0..Total /\ (gpc \in {"apply", "done"} => gnext = Total)
    /\ ListIsSeq(dis) /\ (gpc # "panic" => AllPut(dis, gnext))

GuestInv ==
    /\ GuestTypeOK /\ G!GuestCanStart /\ G!FirmwareOfBootImage
    /\ gkind = "openstack" => ImageFound
    /\ gkind = "ova" => DrivesHandled

LEMMA GuestInitially == G!Init => GuestInv
<1> SUFFICES ASSUME G!Init PROVE GuestInv
  OBVIOUS
<1>1. GuestTypeOK /\ gpc = "parse" /\ gnext = 0 /\ imageID = "none" /\ fw.UEFI = FALSE /\ dis = <<>>
  BY DEF G!Init, GuestTypeOK, G!NewFirmware
<1>2. ASSUME gkind = "openstack" PROVE ImageFound
  <2>1. Len(guest.volumes) \in Nat
    BY <1>1, <1>2, TranslationAssumption DEF GuestTypeOK
  <2> QED BY <1>1, <2>1 DEF ImageFound
<1>3. ASSUME gkind = "ova" PROVE DrivesHandled
  <2>1. Len(guest.items) \in Nat /\ Len(guest.storage) \in Nat
    BY <1>1, <1>3, TranslationAssumption DEF GuestTypeOK
  <2>2. ListIsSeq(dis)
    <3>1. <<>> \in Seq({})
      OBVIOUS
    <3> QED BY <1>1, <3>1 DEF ListIsSeq
  <2>3. 0 \in 0..Total
    <3>1. ItemCount \in Nat /\ StorageCount \in Nat
      BY <2>1 DEF ItemCount, StorageCount
    <3> QED BY <3>1 DEF Total
  <2>4. AllPut(dis, 0)
    BY <2>1 DEF AllPut
  <2> QED BY <1>1, <2>2, <2>3, <2>4 DEF DrivesHandled
<1> QED BY <1>1, <1>2, <1>3 DEF GuestInv, G!GuestCanStart, G!FirmwareOfBootImage

\* Firmware is applied as a whole or not at all.
LEMMA SpecApplied ==
    ASSUME G!GenerateVirtualMachine
    PROVE  /\ fw.UEFI \in BOOLEAN => spec'.efi = fw.UEFI
           /\ spec'.secureBoot => spec'.efi /\ spec'.smm
           /\ spec'.tpm => spec'.efi
           /\ fw.UEFI = TRUE => spec'.secureBoot = fw.SecureBoot /\ spec'.tpm = fw.TPM
BY DEF G!GenerateVirtualMachine, G!ApplyFirmwareSettings, G!NewVirtualMachineSpec, G!NoSpec

\* An enumeration reaches every element.
LEMMA OrderedCovers ==
    ASSUME NEW S \in SUBSET Nat, IsFiniteSet(S), NEW o \in Ordered(S), NEW s \in S
    PROVE  \E a \in DOMAIN o : o[a] = s
<1> DEFINE c == Cardinality(S)
<1>1. c \in Nat /\ o \in [1..c -> S]
  BY FS_CardinalityType DEF Ordered
<1>2. o \in Injection(1..c, S)
  BY <1>1, OrderedInjective DEF Injection, IsInjective
<1>3. IsFiniteSet(1..c) /\ Cardinality(1..c) = c
  BY <1>1, FS_Interval
<1>4. o \in Surjection(1..c, S)
  BY <1>2, <1>3, FS_Injection
<1> QED BY <1>1, <1>4 DEF Surjection

\* The first item with the drive's parent as ID is the one that is found.
LEMMA BusIsScsi ==
    ASSUME NEW drive, NEW d, OnScsi(drive, d), Len(guest.items) \in Nat
    PROVE  G!BusOf(drive) = "scsi"
<1>1. PICK k \in 1..Len(guest.items) :
          /\ guest.items[k].id = drive.parent /\ G!FirstOf(k)
          /\ guest.items[k].type = "ParallelScsiHba" /\ guest.items[k].subtype = {}
  BY DEF OnScsi
<1> DEFINE hits == {m \in 1..Len(guest.items) : guest.items[m].id = drive.parent}
<1>2. k \in hits /\ \A m \in hits : k <= m
  BY <1>1 DEF G!FirstOf
<1>3. \A x \in hits : (\A m \in hits : x <= m) <=> x = k
  BY <1>2
<1>4. (CHOOSE x \in hits : \A m \in hits : x <= m) = k
  <2> HIDE DEF hits
  <2> QED BY <1>2, <1>3
<1>5. G!findResourceAllocationSettingData(drive.parent) = {guest.items[k]}
  <2>1. hits # {}
    BY <1>2
  <2> QED BY Zenon, <2>1, <1>4 DEF G!findResourceAllocationSettingData
<1>6. G!detectDiskBusType(guest.items[k]) = "scsi"
  BY <1>1 DEF G!detectDiskBusType
<1>7. {G!detectDiskBusType(x) : x \in G!findResourceAllocationSettingData(drive.parent)} = {"scsi"}
  BY <1>5, <1>6
<1>8. ~({"scsi"} \subseteq {"none"}) /\ (CHOOSE b \in {"scsi"} : TRUE) = "scsi"
  OBVIOUS
<1> QED BY Zenon, <1>7, <1>8 DEF G!BusOf

\* A drive puts its disks at the end of the list.
LEMMA DrivePutsDisks ==
    ASSUME NEW drive, G!addDrive(drive), ~G!Panics(drive), NEW S, dis \in Seq(S),
           Len(guest.items) \in Nat, Len(guest.disks) \in Nat
    PROVE  /\ ListIsSeq(dis')
           /\ \A n \in 1..Len(dis) : n \in 1..Len(dis') /\ dis'[n] = dis[n]
           /\ Puts(dis', drive)
<1> DEFINE U == G!Usable(drive)  info(d) == G!DiskInfo(drive, guest.disks[d])
<1>1. U \in SUBSET (1..Len(guest.disks)) /\ U \in SUBSET Nat
      /\ IsFiniteSet(U) /\ Cardinality(U) \in Nat
  <2>1. U \in SUBSET (1..Len(guest.disks)) /\ U \in SUBSET Nat
    BY DEF G!Usable, G!Described
  <2> QED BY <2>1, PlacesFinite
<1>2. PICK infos_ \in G!DiskInfos(drive) : dis' = dis \o infos_
  BY DEF G!addDrive
<1>3. PICK o \in Ordered(U) : infos_ = [k \in DOMAIN o |-> info(o[k])]
  <2>1. PICK o \in G!Ordered(U) : infos_ = [k \in DOMAIN o |-> info(o[k])]
    BY DEF G!DiskInfos
  <2>2. G!Ordered(U) = Ordered(U)
    BY Zenon DEF G!Ordered, Ordered, G!Cardinality, Cardinality
  <2> QED BY <2>1, <2>2
<1> DEFINE c == Cardinality(U)  R == {infos_[k] : k \in 1..c}
<1>4. c \in Nat /\ o \in [1..c -> U] /\ DOMAIN infos_ = 1..c
  BY <1>1, <1>3 DEF Ordered
<1>5. infos_ \in Seq(S \cup R) /\ Len(infos_) = c /\ dis \in Seq(S \cup R)
  <2>1. infos_ \in [1..c -> S \cup R]
    BY <1>3, <1>4
  <2> QED BY <1>4, <2>1
<1> HIDE DEF U, c, R
<1>6. /\ dis' \in Seq(S \cup R) /\ Len(dis') = Len(dis) + c /\ Len(dis) \in Nat
      /\ \A n \in 1..Len(dis) : dis'[n] = dis[n]
      /\ \A k \in 1..c : dis'[Len(dis) + k] = infos_[k]
  BY <1>2, <1>4, <1>5
<1>7. ASSUME NEW d \in 1..Len(guest.disks), OnScsi(drive, d)
      PROVE  \E n \in 1..Len(dis') :
                /\ dis'[n].name = guest.disks[d].ref /\ dis'[n].bus = "scsi"
                /\ dis'[n].size = G!parseCapacity(guest.disks[d])
  <2>1. d \in U
    BY <1>7 DEF OnScsi, U, G!Usable, G!Described, G!resolveReference
  <2>2. PICK a \in DOMAIN o : o[a] = d
    BY <1>1, <2>1, OrderedCovers
  <2>3. a \in 1..c /\ infos_[a] = info(d)
    BY <1>3, <1>4, <2>2
  <2>4. /\ info(d).name = guest.disks[d].ref /\ info(d).bus = "scsi"
        /\ info(d).size = G!parseCapacity(guest.disks[d])
    BY <1>7, BusIsScsi DEF G!DiskInfo
  <2>5. Len(dis) + a \in 1..Len(dis') /\ dis'[Len(dis) + a] = infos_[a]
    BY <1>4, <1>6, <2>3
  <2> QED BY <2>3, <2>4, <2>5
<1>8. \A n \in 1..Len(dis) : n \in 1..Len(dis')
  BY <1>4, <1>6
<1> QED BY <1>6, <1>7, <1>8 DEF Puts, ListIsSeq

\* A longer list keeps what drives have put in it.
LEMMA PutsStays ==
    ASSUME NEW list, NEW longer, NEW drive, Puts(list, drive),
           \A n \in 1..Len(list) : n \in 1..Len(longer) /\ longer[n] = list[n]
    PROVE  Puts(longer, drive)
BY DEF Puts

\* The envelope stays the same, so a list is judged in the same way before and
\* after a step.
LEMMA SameEnvelope ==
    ASSUME UNCHANGED guest, AllPut(dis', gnext')
    PROVE  AllPut(dis, gnext)'
<1>1. ASSUME NEW drive, NEW d, OnScsi(drive, d)' PROVE OnScsi(drive, d)
  BY <1>1 DEF OnScsi, G!FirstOf
<1>2. ASSUME NEW drive, Puts(dis', drive) PROVE Puts(dis, drive)'
  BY <1>1, <1>2 DEF Puts
<1>3. ASSUME NEW k \in 1..Len(guest'.items), k <= gnext', guest'.items[k].type = "DiskDrive"
      PROVE  Puts(dis, guest.items[k])'
  BY <1>2, <1>3 DEF AllPut
<1>4. ASSUME NEW k \in 1..Len(guest'.storage), Len(guest'.items) + k <= gnext'
      PROVE  Puts(dis, guest.storage[k])'
  BY <1>2, <1>4 DEF AllPut
<1> QED BY <1>3, <1>4 DEF AllPut

\* One step of the loops over the items and storage items of an envelope.
LEMMA OneMoreHandled ==
    ASSUME DrivesHandled, UNCHANGED guest, gpc = "parse", gnext < Total, gnext' = gnext + 1,
           Len(guest.items) \in Nat, Len(guest.storage) \in Nat,
           ListIsSeq(dis'), \A n \in 1..Len(dis) : n \in 1..Len(dis') /\ dis'[n] = dis[n],
           gpc' = "parse",
           gnext < Len(guest.items) /\ guest.items[gnext + 1].type = "DiskDrive" =>
               Puts(dis', guest.items[gnext + 1]),
           gnext >= Len(guest.items) => Puts(dis', guest.storage[gnext + 1 - Len(guest.items)])
    PROVE  DrivesHandled'
<1>1. gnext \in Nat /\ Total \in Nat
  <2>1. ItemCount \in Nat /\ StorageCount \in Nat
    BY DEF ItemCount, StorageCount
  <2> QED BY <2>1 DEF DrivesHandled, Total
<1>2. AllPut(dis, gnext)
  BY DEF DrivesHandled
<1>3. ASSUME NEW k \in 1..Len(guest.items), k <= gnext + 1, guest.items[k].type = "DiskDrive"
      PROVE  Puts(dis', guest.items[k])
  <2>1. CASE k = gnext + 1
    BY <1>1, <1>3, <2>1
  <2>2. CASE k <= gnext
    <3>1. Puts(dis, guest.items[k])
      BY <1>2, <1>3, <2>2 DEF AllPut
    <3> QED BY <3>1, PutsStays
  <2> QED BY <1>1, <1>3, <2>1, <2>2
<1>4. ASSUME NEW k \in 1..Len(guest.storage), Len(guest.items) + k <= gnext + 1
      PROVE  Puts(dis', guest.storage[k])
  <2>1. CASE Len(guest.items) + k = gnext + 1
    <3>1. gnext + 1 - Len(guest.items) = k /\ gnext >= Len(guest.items)
      BY <1>1, <2>1
    <3> QED BY <3>1
  <2>2. CASE Len(guest.items) + k <= gnext
    <3>1. Puts(dis, guest.storage[k])
      BY <1>2, <1>4, <2>2 DEF AllPut
    <3> QED BY <3>1, PutsStays
  <2>3. Len(guest.items) + k = gnext + 1 \/ Len(guest.items) + k <= gnext
    <3>1. Len(guest.items) \in Nat /\ Len(guest.storage) \in Nat /\ k \in Nat
      OBVIOUS
    <3> QED BY <1>1, <1>4, <3>1
  <2> QED BY <2>1, <2>2, <2>3
<1>5. AllPut(dis', gnext + 1)
  BY <1>3, <1>4 DEF AllPut
<1>6. AllPut(dis, gnext)'
  BY <1>5, SameEnvelope
<1>7. Total' = Total /\ gnext' \in 0..Total
  <2>1. Total' = Total
    BY DEF Total, ItemCount, StorageCount
  <2> QED BY <1>1, <2>1
<1>8. ListIsSeq(dis)'
  BY DEF ListIsSeq
<1> QED BY <1>6, <1>7, <1>8 DEF DrivesHandled

LEMMA ItemKeeps ==
    ASSUME GuestInv, G!nextItem
    PROVE  GuestInv'
<1> DEFINE item == guest.items[gnext + 1]
<1>1. /\ UNCHANGED <<gkind, guest, spec>> /\ gkind = "ova" /\ gpc = "parse"
      /\ gnext < Len(guest.items) /\ gnext' = gnext + 1
      /\ IF item.type = "DiskDrive" THEN G!addDrive(item) ELSE UNCHANGED <<gpc, dis>>
  BY DEF G!nextItem, G!input
<1>2. /\ Len(guest.items) \in Nat /\ Len(guest.storage) \in Nat /\ Len(guest.disks) \in Nat
  BY <1>1, TranslationAssumption DEF GuestInv, GuestTypeOK
<1>3. DrivesHandled /\ gnext \in Nat /\ gnext < Total
  <2>1. ItemCount \in Nat /\ StorageCount \in Nat /\ gnext < ItemCount
    BY <1>1, <1>2 DEF ItemCount, StorageCount
  <2> QED BY <1>1, <2>1 DEF GuestInv, DrivesHandled, Total
<1>4. PICK S : dis \in Seq(S)
  BY <1>3 DEF DrivesHandled, ListIsSeq
<1>5. ASSUME DrivesHandled', gpc' \in {"parse", "panic"} PROVE GuestInv'
  BY <1>1, <1>5 DEF GuestInv, GuestTypeOK, G!GuestCanStart, G!FirmwareOfBootImage
<1>6. CASE item.type = "DiskDrive" /\ ~G!Panics(item)
  <2>1. G!addDrive(item)
    BY <1>1, <1>6
  <2>2. gpc' = "parse"
    BY <1>1, <1>6, <2>1 DEF G!addDrive
  <2>3. /\ ListIsSeq(dis') /\ Puts(dis', item)
        /\ \A n \in 1..Len(dis) : n \in 1..Len(dis') /\ dis'[n] = dis[n]
    BY <1>2, <1>4, <1>6, <2>1, DrivePutsDisks
  <2>4. ~(gnext >= Len(guest.items))
    BY <1>1, <1>2, <1>3
  <2>5. DrivesHandled'
    BY <1>1, <1>2, <1>3, <2>2, <2>3, <2>4, OneMoreHandled
  <2> QED BY <1>5, <2>2, <2>5
<1>7. CASE item.type = "DiskDrive" /\ G!Panics(item)
  <2>1. gpc' = "panic" /\ dis' = dis
    BY <1>1, <1>7 DEF G!addDrive
  <2>2. DrivesHandled'
    <3>1. Total' = Total /\ Total \in Nat
      <4>1. ItemCount \in Nat /\ StorageCount \in Nat
        BY <1>2 DEF ItemCount, StorageCount
      <4>2. UNCHANGED <<ItemCount, StorageCount>>
        BY <1>1 DEF ItemCount, StorageCount
      <4> QED BY <4>1, <4>2 DEF Total
    <3>2. ListIsSeq(dis)'
      BY <1>3, <2>1 DEF DrivesHandled, ListIsSeq
    <3> QED BY <1>1, <1>3, <2>1, <3>1, <3>2 DEF DrivesHandled
  <2> QED BY <1>5, <2>1, <2>2
<1>8. CASE item.type # "DiskDrive"
  <2>1. gpc' = "parse" /\ dis' = dis
    BY <1>1, <1>8
  <2>2. ListIsSeq(dis') /\ ~(gnext >= Len(guest.items))
    BY <1>1, <1>2, <1>3, <2>1 DEF DrivesHandled
  <2>3. \A n \in 1..Len(dis) : n \in 1..Len(dis') /\ dis'[n] = dis[n]
    BY <2>1
  <2>4. DrivesHandled'
    BY <1>1, <1>2, <1>3, <1>8, <2>1, <2>2, <2>3, OneMoreHandled
  <2> QED BY <1>5, <2>1, <2>4
<1> QED BY <1>6, <1>7, <1>8

LEMMA StorageItemKeeps ==
    ASSUME GuestInv, G!nextStorageItem
    PROVE  GuestInv'
<1> DEFINE item == guest.storage[gnext + 1 - Len(guest.items)]
<1>1. /\ UNCHANGED <<gkind, guest, spec>> /\ gkind = "ova" /\ gpc = "parse"
      /\ gnext >= Len(guest.items) /\ gnext - Len(guest.items) < Len(guest.storage)
      /\ gnext' = gnext + 1 /\ G!addDrive(guest.storage[(gnext - Len(guest.items)) + 1])
  BY DEF G!nextStorageItem, G!input, G!Handled
<1>2. /\ Len(guest.items) \in Nat /\ Len(guest.storage) \in Nat /\ Len(guest.disks) \in Nat
  BY <1>1, TranslationAssumption DEF GuestInv, GuestTypeOK
<1>3. DrivesHandled /\ gnext \in Nat /\ gnext < Total
  <2>1. ItemCount \in Nat /\ StorageCount \in Nat /\ gnext - ItemCount < StorageCount
    BY <1>1, <1>2 DEF ItemCount, StorageCount
  <2> QED BY <1>1, <2>1 DEF GuestInv, DrivesHandled, Total
<1>4. PICK S : dis \in Seq(S)
  BY <1>3 DEF DrivesHandled, ListIsSeq
<1>5. ASSUME DrivesHandled', gpc' \in {"parse", "panic"} PROVE GuestInv'
  BY <1>1, <1>5 DEF GuestInv, GuestTypeOK, G!GuestCanStart, G!FirmwareOfBootImage
<1>6. G!addDrive(item)
  <2>1. (gnext - Len(guest.items)) + 1 = gnext + 1 - Len(guest.items)
    BY <1>2, <1>3
  <2> QED BY <1>1, <2>1
<1> HIDE DEF item
<1>7. CASE ~G!Panics(item)
  <2>1. gpc' = "parse"
    BY <1>1, <1>6, <1>7 DEF G!addDrive
  <2>2. /\ ListIsSeq(dis') /\ Puts(dis', item)
        /\ \A n \in 1..Len(dis) : n \in 1..Len(dis') /\ dis'[n] = dis[n]
    BY <1>2, <1>4, <1>6, <1>7, DrivePutsDisks
  <2>3. ~(gnext < Len(guest.items))
    BY <1>1, <1>2, <1>3
  <2>4. DrivesHandled'
    BY <1>1, <1>2, <1>3, <2>1, <2>2, <2>3, OneMoreHandled DEF item
  <2> QED BY <1>5, <2>1, <2>4
<1>8. CASE G!Panics(item)
  <2>1. gpc' = "panic" /\ dis' = dis
    BY <1>6, <1>8 DEF G!addDrive
  <2>2. Total' = Total /\ Total \in Nat
    <3>1. ItemCount \in Nat /\ StorageCount \in Nat
      BY <1>2 DEF ItemCount, StorageCount
    <3>2. UNCHANGED <<ItemCount, StorageCount>>
      BY <1>1 DEF ItemCount, StorageCount
    <3> QED BY <3>1, <3>2 DEF Total
  <2>3. ListIsSeq(dis)'
    BY <1>3, <2>1 DEF DrivesHandled, ListIsSeq
  <2>4. DrivesHandled'
    BY <1>1, <1>3, <2>1, <2>2, <2>3 DEF DrivesHandled
  <2> QED BY <1>5, <2>1, <2>4
<1> QED BY <1>7, <1>8

\* Nothing that DrivesHandled is about but the place where the import stands.
LEMMA DrivesStay ==
    ASSUME DrivesHandled, UNCHANGED <<guest, dis, gnext>>, gpc \in {"parse", "apply", "done"} \/ gpc' = gpc,
           gpc' \in {"apply", "done"} => gnext = Total
    PROVE  DrivesHandled'
<1>1. Total' = Total /\ ListIsSeq(dis)'
  BY DEF Total, ItemCount, StorageCount, DrivesHandled, ListIsSeq
<1>2. ASSUME AllPut(dis, gnext) PROVE AllPut(dis, gnext)'
  <2>1. AllPut(dis', gnext')
    BY <1>2
  <2> QED BY <2>1, SameEnvelope
<1> QED BY <1>1, <1>2 DEF DrivesHandled

LEMMA EnvelopeDoneKeeps ==
    ASSUME GuestInv, G!envelopeDone
    PROVE  GuestInv'
<1>1. /\ UNCHANGED <<gkind, guest, gnext, dis, spec>> /\ gkind = "ova" /\ gpc = "parse"
      /\ gpc' = "apply" /\ gnext = Total
  BY DEF G!envelopeDone, G!input, Total, ItemCount, StorageCount
<1>2. DrivesHandled'
  BY <1>1, DrivesStay DEF GuestInv
<1> QED BY <1>1, <1>2 DEF GuestInv, GuestTypeOK, G!GuestCanStart, G!FirmwareOfBootImage

LEMMA VolumeKeeps ==
    ASSUME GuestInv, G!nextVolume
    PROVE  GuestInv'
<1>1. /\ UNCHANGED <<gkind, guest, gpc, fw, spec>> /\ gkind = "openstack" /\ gpc = "parse"
      /\ gnext < Len(guest.volumes) /\ gnext' = gnext + 1
      /\ imageID' = IF guest.volumes[gnext + 1].bootable THEN guest.volumes[gnext + 1].image
                    ELSE imageID
  BY DEF G!nextVolume, G!input
<1>2. Len(guest.volumes) \in Nat
  BY <1>1, TranslationAssumption DEF GuestInv, GuestTypeOK
<1>3. /\ gnext \in 0..Len(guest.volumes) /\ fw.UEFI = FALSE
      /\ \/ imageID = "none" /\ \A k \in 1..gnext : ~guest.volumes[k].bootable
         \/ \E k \in G!BootVolumes : LastBootable(k, gnext) /\ imageID = guest.volumes[k].image
  BY <1>1 DEF GuestInv, ImageFound
<1>4. gnext + 1 \in 1..Len(guest.volumes)
  BY <1>1, <1>2, <1>3
<1>5. \/ imageID' = "none" /\ \A k \in 1..(gnext + 1) : ~guest.volumes[k].bootable
      \/ \E k \in G!BootVolumes : LastBootable(k, gnext + 1) /\ imageID' = guest.volumes[k].image
  <2>1. CASE guest.volumes[gnext + 1].bootable
    <3>1. gnext + 1 \in G!BootVolumes /\ imageID' = guest.volumes[gnext + 1].image
      BY <1>1, <1>4, <2>1 DEF G!BootVolumes
    <3>2. LastBootable(gnext + 1, gnext + 1)
      BY <1>4, <3>1 DEF LastBootable
    <3> QED BY <3>1, <3>2
  <2>2. CASE ~guest.volumes[gnext + 1].bootable
    <3>1. imageID' = imageID
      BY <1>1, <2>2
    <3>2. \A k \in 1..(gnext + 1) : k \in 1..gnext \/ k = gnext + 1
      BY <1>2, <1>3
    <3>3. ASSUME NEW k \in G!BootVolumes, LastBootable(k, gnext) PROVE LastBootable(k, gnext + 1)
      <4>1. G!BootVolumes \subseteq Nat /\ gnext \in Nat /\ gnext + 1 \notin G!BootVolumes
        BY <1>3, <2>2 DEF G!BootVolumes
      <4>2. \A m \in G!BootVolumes : m <= gnext + 1 => m <= gnext
        BY <4>1
      <4> QED BY <3>3, <4>1, <4>2 DEF LastBootable
    <3> QED BY <1>3, <2>2, <3>1, <3>2, <3>3
  <2> QED BY <2>1, <2>2
<1>6. gnext + 1 \in 0..Len(guest.volumes)
  BY <1>2, <1>4
<1>7. ImageFound'
  BY <1>1, <1>3, <1>5, <1>6 DEF ImageFound, LastBootable, G!BootVolumes
<1> QED BY <1>1, <1>7 DEF GuestInv, GuestTypeOK, G!GuestCanStart, G!FirmwareOfBootImage

\* The firmware is that of the image found, or the image has no properties.
LEMMA SettingsKeep ==
    ASSUME GuestInv, G!openstackGetFirmwareSettings
    PROVE  GuestInv'
<1>1. /\ UNCHANGED <<gkind, guest, gnext, imageID, spec>> /\ gkind = "openstack" /\ gpc = "parse"
      /\ gnext = Len(guest.volumes)
  BY DEF G!openstackGetFirmwareSettings, G!input
<1>2. guest \in OpenstackGuests
  BY <1>1 DEF GuestInv, GuestTypeOK
<1>3. /\ gnext \in 0..Len(guest.volumes) /\ fw.UEFI = FALSE
      /\ \/ imageID = "none" /\ \A k \in 1..gnext : ~guest.volumes[k].bootable
         \/ \E k \in G!BootVolumes : LastBootable(k, gnext) /\ imageID = guest.volumes[k].image
  BY <1>1 DEF GuestInv, ImageFound
<1>4. /\ "none" \notin DOMAIN guest.image
      /\ \A k \in G!BootVolumes : guest.volumes[k].image # "none"
  BY <1>2, TranslationAssumption DEF G!BootVolumes
<1>5. /\ gpc' \in {"apply", "error"}
      /\ gpc' = "apply" =>
            \/ G!BootVolumes = {} /\ fw'.UEFI = FALSE
            \/ \E k \in G!BootVolumes :
                  /\ LastBootable(k, Len(guest.volumes))
                  /\ guest.volumes[k].image \in DOMAIN guest.image
                  /\ fw' = FirmwareOf(guest.image[guest.volumes[k].image])
  <2>1. CASE imageID \in DOMAIN guest.image /\ gpc' = "apply"
                /\ fw' = [UEFI |-> guest.image[imageID].efi, TPM |-> guest.image[imageID].tpm,
                          SecureBoot |-> guest.image[imageID].secureBoot]
    <3>1. PICK k \in G!BootVolumes : LastBootable(k, gnext) /\ imageID = guest.volumes[k].image
      BY <1>3, <1>4, <2>1
    <3>2. fw' = FirmwareOf(guest.image[imageID])
      BY <2>1 DEF FirmwareOf
    <3> QED BY <1>1, <2>1, <3>1, <3>2
  <2>2. CASE gpc' = "error"
    BY <2>2
  <2>3. CASE imageID = "none" /\ gpc' = "apply" /\ UNCHANGED fw
    <3>1. G!BootVolumes = {}
      BY <1>1, <1>3, <1>4, <2>3 DEF G!BootVolumes
    <3> QED BY <1>3, <2>3, <3>1
  <2> QED BY <2>1, <2>2, <2>3 DEF G!openstackGetFirmwareSettings
<1>6. ImageFound'
  <2>1. G!BootVolumes' = G!BootVolumes
    BY <1>1 DEF G!BootVolumes
  <2>2. ASSUME gpc' = "apply" PROVE FirmwareFound'
    <3>1. CASE G!BootVolumes = {} /\ fw'.UEFI = FALSE
      BY <2>1, <3>1 DEF FirmwareFound
    <3>2. ASSUME NEW k \in G!BootVolumes, LastBootable(k, Len(guest.volumes)),
                 guest.volumes[k].image \in DOMAIN guest.image,
                 fw' = FirmwareOf(guest.image[guest.volumes[k].image])
          PROVE  FirmwareFound'
      <4>1. \A m \in G!BootVolumes : m <= Len(guest.volumes) => m <= k
        BY <3>2 DEF LastBootable
      <4> QED BY <1>1, <2>1, <3>2, <4>1 DEF FirmwareFound, LastBootable, FirmwareOf
    <3> QED BY <1>5, <2>2, <3>1, <3>2
  <2> QED BY <1>1, <1>3, <1>5, <2>2 DEF ImageFound
<1> QED BY <1>1, <1>5, <1>6 DEF GuestInv, GuestTypeOK, G!GuestCanStart, G!FirmwareOfBootImage

LEMMA GuestGenerated ==
    ASSUME GuestInv, G!GenerateVirtualMachine
    PROVE  GuestInv'
<1>1. /\ UNCHANGED <<gkind, guest, gnext, imageID, fw, dis>> /\ gpc = "apply" /\ gpc' = "done"
  BY DEF G!GenerateVirtualMachine, G!input
<1>2. G!GuestCanStart'
  BY SpecApplied DEF G!GuestCanStart
<1>3. ASSUME gkind = "openstack" PROVE ImageFound' /\ G!FirmwareOfBootImage'
  <2>1. ImageFound /\ guest \in OpenstackGuests
    BY <1>3 DEF GuestInv, GuestTypeOK
  <2>2. FirmwareFound
    BY <1>1, <2>1 DEF ImageFound
  <2>3. G!BootVolumes' = G!BootVolumes
    BY <1>1 DEF G!BootVolumes
  <2>4. CASE G!BootVolumes = {} /\ fw.UEFI = FALSE
    <3>1. ~spec'.efi
      BY <2>4, SpecApplied
    <3> QED BY <1>1, <2>1, <2>3, <2>4, <3>1 DEF G!FirmwareOfBootImage, ImageFound
  <2>5. ASSUME NEW k \in G!BootVolumes, LastBootable(k, Len(guest.volumes)),
               guest.volumes[k].image \in DOMAIN guest.image,
               fw = FirmwareOf(guest.image[guest.volumes[k].image])
        PROVE  G!FirmwareOfBootImage'
    <3> DEFINE image == guest.image[guest.volumes[k].image]
    <3>1. fw.UEFI = image.efi /\ fw.SecureBoot = image.secureBoot /\ fw.TPM = image.tpm
      BY <2>5 DEF FirmwareOf
    <3>2. image.efi \in BOOLEAN
      BY <2>1, <2>5, TranslationAssumption
    <3>3. /\ spec'.efi = image.efi
          /\ spec'.efi => spec'.secureBoot = image.secureBoot /\ spec'.tpm = image.tpm
      BY <3>1, <3>2, SpecApplied
    <3>4. \A m \in G!BootVolumes : m <= k
      BY <2>5 DEF LastBootable, G!BootVolumes
    <3> QED BY <1>1, <2>3, <2>5, <3>3, <3>4 DEF G!FirmwareOfBootImage
  <2>6. G!FirmwareOfBootImage'
    BY <2>2, <2>4, <2>5 DEF FirmwareFound
  <2> QED BY <1>1, <2>1, <2>6 DEF ImageFound
<1>4. ASSUME gkind = "ova" PROVE DrivesHandled'
  <2>1. DrivesHandled
    BY <1>4 DEF GuestInv
  <2>2. gnext = Total
    BY <1>1, <2>1 DEF DrivesHandled
  <2> QED BY <1>1, <2>1, <2>2, DrivesStay
<1>5. gkind # "openstack" => G!FirmwareOfBootImage'
  BY <1>1 DEF G!FirmwareOfBootImage
<1> QED BY <1>1, <1>2, <1>3, <1>4, <1>5 DEF GuestInv, GuestTypeOK

LEMMA GuestStutters ==
    ASSUME GuestInv, UNCHANGED guestVars
    PROVE  GuestInv'
<1>1. UNCHANGED <<gkind, guest, gpc, gnext, imageID, fw, dis, spec>>
  BY DEF guestVars
<1>2. ASSUME gkind = "ova" PROVE DrivesHandled'
  <2>1. DrivesHandled
    BY <1>2 DEF GuestInv
  <2>2. gpc' \in {"apply", "done"} => gnext = Total
    BY <1>1, <2>1 DEF DrivesHandled
  <2> QED BY <1>1, <2>1, <2>2, DrivesStay
<1>3. G!BootVolumes' = G!BootVolumes
  BY <1>1 DEF G!BootVolumes
<1>4. G!FirmwareOfBootImage' /\ G!GuestCanStart'
  BY <1>1, <1>3 DEF GuestInv, G!FirmwareOfBootImage, G!GuestCanStart
<1>5. ASSUME gkind = "openstack" PROVE ImageFound'
  BY <1>1, <1>3, <1>5 DEF GuestInv, ImageFound, FirmwareFound, LastBootable
<1> QED BY <1>1, <1>2, <1>4, <1>5 DEF GuestInv, GuestTypeOK

LEMMA GuestStep ==
    ASSUME GuestInv, G!Next
    PROVE  GuestInv'
<1>1. ASSUME G!vmwareGetFirmwareSettings PROVE GuestInv'
  <2>1. gkind = "vmware" /\ UNCHANGED <<gkind, guest, spec>> /\ gpc' = "apply"
    BY <1>1 DEF G!vmwareGetFirmwareSettings, G!input
  <2> QED BY <2>1 DEF GuestInv, GuestTypeOK, G!GuestCanStart, G!FirmwareOfBootImage
<1> QED BY <1>1, VolumeKeeps, SettingsKeep, ItemKeeps, StorageItemKeeps, EnvelopeDoneKeeps,
           GuestGenerated DEF G!Next

LEMMA GuestBusOfTheController ==
    ASSUME GuestInv
    PROVE  G!BusOfTheController
<1> SUFFICES ASSUME gkind = "ova", gpc = "done",
                    NEW drive \in G!Drives, NEW k \in 1..Len(guest.items),
                    NEW d \in 1..Len(guest.disks),
                    guest.items[k].id = drive.parent, G!FirstOf(k),
                    guest.items[k].type = "ParallelScsiHba", guest.items[k].subtype = {},
                    guest.disks[d].id = drive.disk, guest.disks[d].ref \in guest.references
             PROVE  \E n \in 1..Len(dis) :
                       /\ dis[n].name = guest.disks[d].ref /\ dis[n].bus = "scsi"
                       /\ dis[n].size = G!parseCapacity(guest.disks[d])
  BY DEF G!BusOfTheController
<1>1. AllPut(dis, gnext) /\ gnext = Total
  BY DEF GuestInv, DrivesHandled
<1>2. ItemCount \in Nat /\ StorageCount \in Nat
  BY TranslationAssumption DEF GuestInv, GuestTypeOK, ItemCount, StorageCount
<1>3. Puts(dis, drive)
  <2>1. CASE \E m \in 1..Len(guest.items) : drive = guest.items[m] /\ guest.items[m].type = "DiskDrive"
    <3>1. PICK m \in 1..ItemCount : drive = guest.items[m] /\ guest.items[m].type = "DiskDrive"
      BY <2>1 DEF ItemCount
    <3>2. m <= gnext
      BY <1>1, <1>2, <3>1 DEF Total
    <3> QED BY <1>1, <3>1, <3>2 DEF AllPut, ItemCount
  <2>2. CASE \E m \in 1..Len(guest.storage) : drive = guest.storage[m]
    <3>1. PICK m \in 1..StorageCount : drive = guest.storage[m]
      BY <2>2 DEF StorageCount
    <3>2. ItemCount + m <= gnext
      BY <1>1, <1>2, <3>1 DEF Total
    <3> QED BY <1>1, <3>1, <3>2 DEF AllPut, ItemCount, StorageCount
  <2> QED BY <2>1, <2>2 DEF G!Drives
<1>4. OnScsi(drive, d)
  BY DEF OnScsi
<1> QED BY <1>3, <1>4 DEF Puts

-----------------------------------------------------------------------------
(***************************************************************************)
(* The translation                                                         *)
(***************************************************************************)
TranslationInv == NetworkInv /\ DisksInv /\ GuestInv

LEMMA TranslationInductive == TranslationSpec => []TranslationInv
<1>1. TranslationInit => TranslationInv
  <2> SUFFICES ASSUME TranslationInit PROVE TranslationInv
    OBVIOUS
  <2>1. Init /\ D!Init /\ G!Init
    BY DEF TranslationInit
  <2> QED BY <2>1, NetworkInitially, DisksInitially, GuestInitially DEF TranslationInv
<1>2. TranslationInv /\ [TranslationNext]_allVars => TranslationInv'
  <2> SUFFICES ASSUME TranslationInv, [TranslationNext]_allVars PROVE TranslationInv'
    OBVIOUS
  <2>1. /\ Next \/ UNCHANGED vars
        /\ D!Next \/ UNCHANGED disksVars
        /\ G!Next \/ UNCHANGED guestVars
    BY DEF TranslationNext, allVars
  <2>2. NetworkInv'
    BY <2>1, NetworkStep, NetworkStutters DEF TranslationInv
  <2>3. DisksInv'
    BY <2>1, DisksStep DEF TranslationInv
  <2>4. GuestInv'
    BY <2>1, GuestStep, GuestStutters DEF TranslationInv
  <2> QED BY <2>2, <2>3, <2>4 DEF TranslationInv
<1> QED BY <1>1, <1>2, PTL DEF TranslationSpec

\* What the nested loops of MapNetworks compute with their changing loop
\* variable: the cards that an entry names, in their order, each once and led on
\* by its own entry, for any number of cards and entries.
THEOREM EachCardIsMappedOnce == TranslationSpec => []MapsEachCardOnce
<1>1. TranslationInv => MapsEachCardOnce
  BY NetworkMapsEachCardOnce DEF TranslationInv
<1> QED BY <1>1, TranslationInductive, PTL

\* No MAC address gets two interfaces, whatever a client reports: an address of
\* OpenStack with several networks is kept once, and preFlightChecks refuses a
\* source network that is named twice.
THEOREM NoCardIsAttachedTwice == TranslationSpec => []CardsStayApart
<1>1. TranslationInv => CardsStayApart
  BY NetworkCardsStayApart DEF TranslationInv
<1> QED BY <1>1, TranslationInductive, PTL

\* GenerateNetworkInterfaceConfigs gives every interface its network, that of
\* the entry for the network of its card.
THEOREM EveryInterfaceHasItsNetwork == TranslationSpec => []NetworksAndInterfacesPair
<1>1. TranslationInv => NetworksAndInterfacesPair
  BY NetworkPairs DEF TranslationInv
<1> QED BY <1>1, TranslationInductive, PTL

\* The size of a lease item is that of the disk at its bus and unit
\* (diskByBusUnit of ExportVirtualMachine), whatever order the devices come in.
THEOREM ItemsGetTheirOwnSize == TranslationSpec => []SizedByAddress
<1>1. TranslationInv => SizedByAddress
  BY DisksSizedByAddress DEF TranslationInv, SizedByAddress
<1> QED BY <1>1, TranslationInductive, PTL

\* detectDiskBusType puts no disk of a paravirtual controller on a SCSI bus,
\* whatever other words are in its type.
THEOREM ParavirtualDisksBoot == TranslationSpec => []NoParavirtualOnSCSI
<1>1. TranslationInv => NoParavirtualOnSCSI
  BY DisksNoParavirtualOnSCSI DEF TranslationInv, NoParavirtualOnSCSI
<1> QED BY <1>1, TranslationInductive, PTL

\* ApplyFirmwareSettings: secure boot and TPM only with EFI, secure boot only
\* with SMM.
THEOREM GuestsCanStart == TranslationSpec => []GuestCanStart
<1>1. TranslationInv => GuestCanStart
  BY DEF TranslationInv, GuestInv, GuestCanStart
<1> QED BY <1>1, TranslationInductive, PTL

\* getFirmwareSettings of the OpenStack client takes the whole firmware from the
\* image of the last bootable volume, however many volumes there are.
THEOREM FirmwareIsOfABootImage == TranslationSpec => []FirmwareOfBootImage
<1>1. TranslationInv => FirmwareOfBootImage
  BY DEF TranslationInv, GuestInv, FirmwareOfBootImage
<1> QED BY <1>1, TranslationInductive, PTL

\* parseEnvelope gives a disk the bus of the first item with the ID its drive
\* refers to and the capacity of its own, for envelopes with any number of items,
\* storage items and disks.
THEOREM DisksGetTheControllersBus == TranslationSpec => []BusOfTheController
<1>1. TranslationInv => BusOfTheController
  BY GuestBusOfTheController DEF TranslationInv, BusOfTheController
<1> QED BY <1>1, TranslationInductive, PTL
=============================================================================
