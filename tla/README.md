# A TLA+ model of the OSPFv3 implementation for ns-3

This project models the routing protocol of the repository, `Ipv6OspfRouting`, in
TLA+, checks it with TLC and proves invariants of it with TLAPS.

## 1. Inventory

The program is one C++ class per router, run by the discrete-event simulator
ns-3. There are no threads: a step is one event (a packet handed to
`HandleProtocolMessage`, a timer, or a call made by `Simulator::ScheduleNow`),
and it runs to its end. What makes it hard is that a call made by `ScheduleNow`
reads the router's state when it runs and not when it was scheduled, that header
objects are shared between the database, the lists and waiting calls, and that
two routers go through the same exchange with packets in flight, lost, or left
over from an adjacency that has been restarted at one end only.

| Component | State | Operations | Properties that make it correct |
|---|---|---|---|
| Neighbour state machine, packet handlers (`ipv6-ospf-routing.cc`) | neighbour state, events waiting | Hello, Database Description, LSR, LSU, Ack: send and receive; `NotifyNeighborEvent`; timers | roles agree, sequence numbers in lockstep, FULL means that the databases were exchanged, the exchange ends |
| Neighbour data (`ospf-struct-neighbor.*`) | `m_state`, `m_isMaster`, `m_ddSeqNum`, `m_lastReceivedDd`, retransmission, request and summary list | list and sequence operations | no dereference of a missing last packet, lists hold what the database backs |
| Flooding (`ReceiveLinkStateUpdatePacket`, `AppendToRxmtList`, ...) | retransmission lists, `m_lastLsuSendTime` | steps 1 to 8 of the flooding procedure, acknowledgment, retransmission | no instance ever replaced by an older one, own LSAs delivered, link scope kept; every link keeps track of what its other end lacks, flooding ends, at rest all databases agree |
| Origination (`Originate*LSA`) | own LSAs in the database | new instance in place, on entering FULL and after the exchange | an originator is never behind the copies |
| Database and LSA instances (`ospf-link-state-database.h`, `ospf-lsa*`) | LSA per identifier, time and age of installation | `Add`, `Get`, `GetSummary`, `IsMoreRecentThan`, `IsSameInstance` | when the order of instances is an order, copies of one instance age together |
| Interface state machine (`ospf-struct-interface.*`, `NotifyInterfaceEvent`) | interface state and type, neighbours, timers | `IF_UP`, `WAIT_TIMER`, ... | one chain of Hello events while up and none while down, the router's LSAs describe the interfaces, every neighbour is under watch |
| Shortest paths and routing table (`CalcRoutingTable`, `ospf-routing-table.cc`) | routes, LSA caches | Dijkstra over router-LSAs, prefixes, `Lookup` | shortest, loop-free, agrees with the database |
| Forwarding (`RouteOutput`, `RouteInput`) | none | calls of the ns-3 stack | uses the table |
| Packet formats (`ospf-header`, `-hello`, `-database-description`, `-link-state-*`) | none | `Serialize`, `Deserialize` | what is read is what was written, computed lengths, updates fit the MTU, all LSAs get over |
| Helper, scenarios, tests, build | none of the protocol's | | |

Interaction: packets between routers; inside one router the handlers call
`NotifyNeighborEvent`, which schedules the next packet and originates LSAs, which
join the retransmission lists of every neighbour of every interface; installing
an LSA triggers `CalcRoutingTable`.

The behaviours hard to test, each at its line, are the `hazards` of
`PROJECT.json`; the properties below are aimed at them.

## 2. Plan

1. `OspfAdjacency` (done): two routers on one point-to-point link, from the first
   Hello to FULL, with flooding over that link and the rest of the network as an
   environment; its databases are shown to implement `LsdbReplication`.
   `OspfAdjacencyProofs` (done): types and what is said of versions.
   `OspfExchangeProofs` (done): roles, sequence numbers, the last packet, the MTU
   test. `OspfFloodingProofs` (done): own LSAs covered, link scope, the refinement.
   `OspfTransferProofs` (done): what a synchronization brings over, and that it is not
   interrupted, until an inactivity timer expires.
2. `LsaInstances` (functions done): `IsMoreRecentThan`, `IsSameInstance` and the
   ages of copies; `LsaFloodingProofs` has the theorems that justify the numbers in
   place of headers that the other modules use. Left: ages as state, that is MaxAge and its
   branches, and the stale ages of shared header objects in the summary list.
3. `LsaFlooding` (done): flooding through an area of any shape, shown to implement
   the abstract `LsdbReplication`. `LsaFloodingProofs` (done): safety and the step
   simulation. Left: links that work one way, adjacencies that fail meanwhile.
4. `ShortestPaths` (done): `CalcRoutingTable` of every router on one database
   against a reference definition of distances, next hops, routes, `LookupRoute`
   and forwarding. `ShortestPathsProofs` (done): types, the search against the
   reference, restored next hops, routes and forwarding. Left: the update flags that
   decide when the computation runs, composed with `LsaFlooding` so that databases
   differ for a while.
5. `PacketFormats` and `PacketTransfer` (done): every packet and LSA byte by byte,
   and what goes into one update. `PacketTransferProofs` (done): every packet is
   read as it was meant, and all LSAs get over.
6. `OspfInterfaces` and `OspfInterfacesProofs` (done): `IF_UP` and `IF_DOWN`, the
   Hello events, the neighbour table and the LSAs made of it.

What composes with what: `OspfAdjacency` is one link with all its packets and both
ends; `LsaFlooding` takes many links whose adjacencies stay FULL; `OspfInterfaces`
is one router with many interfaces and a neighbour of three states;
`PacketTransfer` gives the packets of all of them their bytes. Each module names
the one that has in full what it leaves out.

## 3. The models

### `OspfAdjacency`

#### State

| Variable | Code |
|---|---|
| `mtu` | `Ipv6::GetMtu` of the interface, set by the scenario |
| `nbr[p]` | `NeighborData` of the other router: `known` (entry in `m_neighbors`), `state`, `master`, `seq`, `last` (`m_lastReceivedDd`), `rxmt`, `req`, `summary` |
| `lsdb[p]` | `m_lsdb`: the instance of each LSA, 0 for none |
| `young[p]` | LSAs for which `IsElapsedMinLsArrival` is false |
| `warm` | `GetLastLSUSentTime() + g_minLsArrival <= Now()`; `m_lastLsuSendTime` is never set, so this becomes true once |
| `due[p]` | calls queued by `ScheduleNow`, in order |
| `hand[p]` | the LSAs the loop of `ReceiveLinkStateUpdatePacket` has not looked at |
| `timers[p]` | pending `SendLinkStateRequestPacket` and `ClearLastPacket` events |
| `chan[p]` | packets on the way to `p` (point-to-point channels keep the order) |
| `faults` | counts for the bounds on losses and expired inactivity timers |

`m_isMaster` is not initialised by the constructor: `Init` takes either value.

#### Abstractions

- An LSA is its identifier; its body is left out. An instance is a version, the
  sequence number counted from the first. `IsMoreRecentThan` and `IsSameInstance`
  are the order and equality of versions as long as the ages of two copies
  differ by less than `g_maxAgeDiff`, that is for 15 minutes after an LSA was
  installed (`SeqDecides` of `LsaFloodingProofs`).
- The headers of a packet, the request list and the summary list are functions
  from LSAs to versions. The order of the summary list is left open: a packet
  takes any entries, as many as fit.
- The list of LSAs in an update is looked at in any order, one per step.
- `SendDD` may describe an own LSA with the version of the summary list or the
  one of the database: the header object is shared, unless an update sent
  meanwhile has replaced it (`AgingBeforeFlooding`).
- An answer to a request, and the retransmission list, fit into one update;
  `PacketTransfer` has them split. Identifiers in a request arrive as they were
  sent, which the same module shows to need a compiler that evaluates arguments
  from the left.
- An acknowledgment without LSAs, which ends every update, has no effect at the
  receiver and is left out.
- A timer fires when nothing scheduled for the same instant is left (`Idle`).
- Other links: `ForeignUpdate` installs a newer foreign LSA and floods it here;
  `OriginateElsewhere` is another adjacency of the router becoming FULL.

#### Actions

`Receive(p)` has one disjunct per packet type and, for Database Description, per
way through its handler. `RunDue(p)` runs the oldest call of `ScheduleNow`.
`HandleLSA(p)` is one turn of the loop over the LSAs of an update: steps 5
(`InstallLSA`, `DropEarlyLSA`), 6 (`BadLSRequest`), 7 (`SameLSA`) and 8
(`AnswerOldLSA`). `SendHelloPacket`, `LSRTimer`, `EntryPointTimer`,
`ClearLastPacket` and `InactivityTimer` are the timers; `Lose`,
`MinLSArrivalPasses`, `ForeignUpdate` and `OriginateElsewhere` are the
environment. The events of the neighbour state machine are operators from the
neighbour's record to the record after the event, because the code raises them
inside the handlers.

### `ShortestPaths`

One computation is a sequence of loops that nothing interrupts; each turn of a
loop is an action, so that the invariants can speak of what is between turns.

| Variable | Code |
|---|---|
| `db` | what the computation reads: `links`, the interfaces with neighbours of every router, in order, with their bit rates; `known`, the routers whose router-LSA is in the database |
| `self` | the router that computes; all of them do, one after the other |
| `costs`, `prevs`, `pq` | the locals of the same names; equal entries of the queue are merged, since the second one changes nothing |
| `direct`, `at` | `directConnected_set`, the index of the loop that restores next hops |
| `phase` | which loop is running |
| `routes` | `m_routingTable` of every router, an entry for each advertising router |

`Expand` takes the top of the queue and relaxes all links of its router: they
lead to different routers, so their order, which the hash table leaves open, does
not matter. `CollectDirect`, `FollowPrev` and `NextRouter` are the loops of lines
2146 to 2156, `AddRoutes` the rest. `Lookup` and `Forwards` are the first match in
the table and the step of a packet. An address is the set of the routers that
advertise a prefix it lies in: entries are in the order of advertising routers,
so this is all that the choice of `LookupRoute` depends on.

Abstractions: all routers have the same database, the state flooding aims at; a
missing intra-area-prefix-LSA is the same as one without the prefix; the metric of
a link is computed from the rate when it is read, and rates below 1526 bit/s,
whose metric does not fit into 16 bits, are left out.

### `LsaFlooding` and `LsdbReplication`

One LSA in an area whose adjacencies are all FULL. A link is a pair of routers and
stands for an interface of the first one.

| Variable | Code |
|---|---|
| `copy[r]` | sequence number of the LSA in `m_lsdb` |
| `young` | routers for which `IsElapsedMinLsArrival` is false |
| `rxmt[r]` | the neighbours with the LSA on their `m_lsRxmtList` |
| `chan[l]` | updates and acknowledgments on the way, with their version |
| `losses` | count for the bound |
| `gap` | history: a newer instance was lost, or dropped by step 5.a, while it was on no retransmission list for its receiver |

`Install`, `DropEarly`, `SameInstance` and `AnswerOld` are steps 5, 5.a, 7 and 8 of
`ReceiveLinkStateUpdatePacket`, `ReceiveAck` is `ReceiveLinkStateAckPacket`,
`Originate` is `OriginateRouterLSA` on an existing LSA, `Retransmit` the turn of
`SendLinkStateUpdatePacketEntryPoint`. A router that is sent a newer instance of
its own LSA answers with a still newer one, though nobody ever has one
(`Backed`). Request lists are empty in FULL, so that the loop over the LSAs of an
update treats each by itself and one LSA stands for all.

`LsdbReplication` says what replication promises: the originator announces newer
instances, and a copy moves forward only, to something a neighbour has or had and
never past the originator. `LsaFlooding` implements it with `copy` mapped to
itself (`ReplicationSpec`). `OspfAdjacency` implements it once for every router `p`
and every LSA `k` of `p`: `Replica(p, k)` takes `copy` to be `Copies(k)`, the versions of
`k` in the two databases, and the links to be this one in both directions
(`DatabasesReplicate`). Exchange, requests, flooding, retransmission, lost packets and
restarts are all hidden by this mapping.

### `LsaInstances`

The comparison of two headers and the age a copy has after some time, as
functions: `IsMoreRecentThan`, `IsSameInstance`, the age `OSPFLSDB::Get` computes,
`AgingBeforeFlooding` with its 16 bits. It has no state; the theorems about it are at
the end of `LsaFloodingProofs`.

### `PacketFormats` and `PacketTransfer`

`PacketFormats` has `Serialize`, `Deserialize` and `GetSerializedSize` of the five
packets, the LSA header and the three LSA bodies. What is written in a fixed order
is a layout, a list of field names and widths, read and written by two operators;
where reading and writing differ (the Link-LSA) there are two layouts. Numbers of
items are computed from lengths, as the code does, with each class's own size
formula. `ReadIdentifier` takes the order in which the compiler evaluates the
arguments of `SetLinkStateIdentifier(i.ReadNtohU16(), ...)`; `Orders` holds the
orders allowed.

`PacketTransfer` sends such packets. `origin` and `held` are LSAs of a database,
`list` is the argument `lsas` of `SendLinkStateUpdatePacketDirect` or the
retransmission list, `wire` the bytes on the way, `has` what the neighbour has.
`SendRequest`, `ReceiveRequest` and `SendDirect` are a request and its answer,
`Flood`, `SendRetransmission`, `ReceiveUpdate` and `ReceiveAck` the way over the
retransmission list, `SendPacket` and `ReceivePacket` Hello and Database
Description. `Forward` lets the neighbour be the next to send, so that what was
read wrongly is written again. `DirectCount` and `Retransmitted` are the two loops
that fill an update: the first stops before the limit, the second subtracts from
an unsigned number and stops only if it hits 0.

Abstractions: one packet is on the way at a time and none is lost (`OspfAdjacency`
and `LsaFlooding` have the rest); `m_checksum` and `m_length` of a new LSA are not
set, but written over before anybody reads them, and start as 0.

### `OspfInterfaces`

One router and the peer at the other end of each of its interfaces.

| Variable | Code |
|---|---|
| `active` | interfaces in `InterfaceState::P2P` |
| `entry`, `nbr`, `inactivity` | the peer in `m_neighbors`: whether it is there and whether its router ID is set (`GetNeighbor` makes entries without), its state, its inactivity timer |
| `pending` | calls of `ScheduleNow` for `SendHelloPacket` and `ScheduleHello` |
| `helloTimer` | `m_helloTimer` |
| `routerLSA`, `prefixLSA`, `linkLSA` | what the router's own LSAs in `m_lsdb` list |
| `gone`, `hasty`, `aborted` | history of peers that fell silent and of interfaces that went down with a call pending; whether ns-3 has ended the simulation |

`NotifyInterfaceUp` and `NotifyInterfaceDown` are the whole events, with
`ResetInstance`, the `KILL_NBR` and the LSAs they make; `SendHelloPacket`,
`ScheduleHello` and `HelloTimer` the chain of events that sends Hellos.
`ReceiveHelloPacket`, `ReceiveBeforeHello`, `EndExchange`, `BecomeFull`,
`LeaveFull` and `Inactive` are what packets and timers do to the neighbour, with
the exchange itself, which `OspfAdjacency` has, collapsed into `FORMING`.
`NotifyInterfaceDown` of `Start` makes a Link-LSA for an interface that is down
already, with an interface id that was never set; `Init` has either.

## 4. Runs

Six runs use `MCOspfAdjacency`, two routers 1 and 2, and one LSA per router of
the kind `router`. `MaxInFlight = 1` lets a timer send only while the link is
quiet; packets that answer packets, and the second router's Hello, still pile up,
so that exchanges cross. The bound does not restrict handlers.

| Run | Question | Bounds beyond these |
|---|---|---|
| `adjacency_loss` | Are types, exchange and flooding right when any packet may be lost? | one loss, one foreign LSA and one Link-LSA of another link, up to 4 own instances caused elsewhere, one header per Database Description packet |
| `adjacency_restart` | Do stale packets and lists of one end do harm when the other end has started again? | one expired inactivity timer, a foreign LSA with 2 instances, two headers per packet |
| `adjacency_liveness` | Does the adjacency form, LOADING end and the data arrive? | two losses, two MTUs chosen freely |
| `long_summary` | Is the whole summary list sent before the exchange ends? (it is not) | one loss, two foreign LSAs, one header per packet |
| `restarted_neighbour` | Does FULL mean that the neighbour's LSAs are known after a restart? (it does not) | one expired timer |
| `lost_flood` | Is flooding of received LSAs reliable? (it is not) | one loss, one foreign LSA |

Why these bounds are enough to be interesting: one header per packet makes the
exchange of a database of four LSAs take several turns; one loss already reaches
every state a lost packet of any type can cause; two foreign instances let a
description, a request or an update name the older one while the newer is there;
one inactivity timer produces every pair of states of the two
ends. All actions and all disjuncts fire in the three passing runs together.

Two runs use `MCShortestPaths`. The instances are sets of whole networks, so the
computation of every router is checked on each of them.

| Run | Question | Networks |
|---|---|---|
| `shortest_paths` | Are costs right, next hops first steps of shortest paths, and do packets arrive? | four routers, every pair not linked or at cost 1 or 2, one router-LSA may be missing; and three routers, every pair not linked, linked at cost 1, 1 and 4, 4 and 1, or twice (4 and 1), any router-LSAs missing |
| `fast_links` | Does it still work with links above 100 Mbit/s? (it does not) | three routers, costs 0 and 1 |

Four routers are needed for two of them to send a packet to each other while two
others advertise its prefix, and for a router that is reached twice to have
something behind it; costs 1 and 2 give ties between paths of different length,
and 4 makes a way round cheaper than a direct link.

| Run | Question | Bounds |
|---|---|---|
| `flooding` | Does every link keep track of what its other end lacks, does flooding end, does it implement `LsdbReplication`? | three routers in a circle, three instances, two losses, a retransmission timer fires while no packet waits on the router's links |
| `packets` | Is what arrives what was meant, and does all of it get over? | lists of one to three LSAs of every kind, of 24 to 76 bytes, a limit of 100 bytes for an update, two hops; three Hellos and three Database Descriptions |
| `argument_order` | Does a router find the LSAs it is asked for, whatever the compiler? (it does not) | the same, arguments evaluated from the left or from the right |
| `interfaces` | Do Hellos, neighbour table and LSAs keep up with interfaces that go down and up? | two interfaces, an interface goes up while fewer than two calls are pending |

In a circle every instance reaches each router twice, by ways of different length,
so that old and new instances cross and come back to their sender; three instances
let an acknowledgment of the first meet the third; a second loss takes away what
the retransmission after the first has brought. The limit of 100 bytes is met
exactly by 24 and 76 (`GetRxmtList` cuts there), passed by 40 and 76, and left by
24 and 40, and lists of three take two updates or more; ids, ages and numbers above
65535 and 255 occupy more than one byte of every field that has more. Two calls
pending is one more than an interface has as long as it is not taken down in
between: a second chain of Hellos appears with them, and the abort. A second
interface is needed for the LSAs, which one interface's event makes about all.

### What the passing runs check

- `FullKnowsDescribed`: reaching FULL means that the router has all the neighbour's
  LSAs, except those that a slave did not get round to describing, because its More
  flag follows the master's (`long_summary`).
- `SynchronizesOnce`: until an inactivity timer expires no router goes back from the
  exchange, from LOADING or from FULL. The many ways to `SEQ_NUM_MISMATCH` and
  `BAD_LS_REQ` are there for a neighbour that started again; losses, re-originations
  and other links' LSAs alone never lead there.
- `RoleById`, `Lockstep`: roles and sequence numbers of the two ends.
- `OwnLsaCovered`: in FULL, an own LSA is known to the neighbour in its current
  instance or is still on the retransmission list, whatever acknowledgments of
  older instances arrive.
- `Backed`, `NeverRegresses`, `DatabasesReplicate`: versions. What is said of an LSA
  is never ahead of the speaker's database, nobody goes back, and every change of
  the two databases is an announcement of the originator or a version learnt from
  the other end, never ahead of the originator (`LsdbReplication`).
- `OwnNeverRequested`, `RequestsAnswerable`: the request lists; two of the ways to
  `BAD_LS_REQ` are never taken on one link.
- `LastPacketPresent`: the null pointer `ClearLastPacket` leaves is never
  dereferenced.
- `LinkScope`, `MtuMismatchNeverFull`: scope and MTU tests.
- `AdjacencyForms`, `LoadingEnds`, `OwnLsasDelivered`: liveness.
- `ShortestCosts`, `SmallestPredecessor`: the search against a reference
  definition (Bellman-Ford in unbounded integers), and its rule for ties.
- `RoutesShortest`: the loop that restores next hops reads and writes `prevs` at
  once, and still every route is the first step of a shortest path.
- `ForwardingDelivers`: routers choose by themselves between those that advertise
  a prefix, and still no packet goes round in a circle or ends where there is no
  route. It holds because the table is in the same order everywhere.
- `NextHopsRestored`: the loops end, as long as no link costs nothing.
- `Backed`, `Covered`, `QuietAgree` of `LsaFlooding`: nobody invents an instance;
  across a link the instance of one end has arrived, is on its way or is on a
  list; at rest all agree. The last two with `gap` as the exception, which is what
  `lost_flood` shows: news that was flooded on is on no list.
- `FloodingEnds`: updates are flooded back to their sender and every answer may
  cause another one, and still all of it dies out. `ReplicationSpec` is the
  refinement.
- `PacketsArrive`, `LengthsTold`: packets are read as they were written, and sizes
  are what is written. `HoldersAgree`, `DirectFits`, `Delivered`: however LSAs are
  split over updates, requested or retransmitted, the neighbour gets each of them
  once, and an update passes the MTU by less than the header that is not counted.
  `Delivered` needs every LSA to be smaller than the limit: one of exactly the
  limit at the head of a retransmission list is never sent.
- `HelloChains`: one chain of Hello events for an interface that is up, none for
  one that is down, with the exception the code has: an interface that goes down
  between the two events of one instant, whose timer is then started on a dead
  interface, and twice after the next `IF_UP`, which aborts.
- `Advertised`: LSAs agree with the interfaces, and name a FULL neighbour by its
  id though entries are made without one. `Watched`, `SilenceNoticed`: no neighbour
  is left without a timer, and a silent one is noticed.

### Fairness

Packets are received and scheduled calls run (weak fairness of `Receive`,
`RunDue`, `HandleLSA`): the simulator runs every event it holds. Timers that send
are strongly fair, since each sets itself again when it expires (`ScheduleHello`,
lines 1881 and 1898); weak fairness would say the same of the code, but the bound
`MaxInFlight`, which the code does not have, disables them now and then. Time
passes (`MinLSArrivalPasses`) is strongly fair, since it waits for the calls of the
current instant. Nothing is assumed of losses, expired timers and the other links.

`LsaFlooding` assumes the same of its packets, timers and of time. `PacketTransfer`
assumes that packets arrive and scheduled calls run. `OspfInterfaces` assumes that
the inactivity timer of a peer that is gone expires: a Hello can no longer set it
again; nothing more is needed, and an aborted simulation runs no timer. The
computation of `ShortestPaths` runs on (weak fairness of its steps).

### Disagreements with notes and comments

Three runs violate a sentence of `_MEMO.md` (see `findings`): a slave whose summary
list takes more packets than the master's ends the exchange with the rest unsent,
and the master becomes FULL without these LSAs; a router that is LOADING or FULL
answers a neighbour that exchanges again from a used-up summary list; a received
LSA is flooded without retransmission. A fourth, `fast_links`, shows a loop that does not
end: links above 100 Mbit/s have metric 0, two routers become each other's
predecessor because ties go to the smaller id, and `prevs` then leads round in a
circle and never to a directly connected router. The fifth, `argument_order`, shows
that a request is refused although the router has all the LSAs: the three reads of
an identifier are arguments of one call, and g++ on x86-64 evaluates the last one
first. The other runs and models assume evaluation from the left.

Two more disagreements have no run. A Database Description packet is never sent
again, though `_MEMO.md` names `RxmtInterval` for it: a lost one leaves its sender
in `EXSTART` for ever, which is why `AdjacencyForms` assumes that nothing is lost.
And the priority of a Link-LSA is written as one
byte and read as two (`ReadLinkLSA`), so that 1 arrives as 0. Nothing on a
point-to-point interface uses it.

## 5. Proofs

`OspfAdjacencyProofs` proves, for every pair of router ids, every set of LSAs and
every value of the bounds, from the named assumptions of `OspfAdjacency` alone
(two routers with natural ids, own and foreign LSAs disjoint, bounds natural):

- `TypeCorrect`: `Spec => []TypeOK`;
- `DatabaseNeverRegresses`: `Spec => NeverRegresses`;
- `CoreInvariant`: `Spec => []CoreInv`, and from it `AlwaysBacked`,
  `CopiesNeverAhead`, `NeverRequestsOwn` and `AlwaysAnswerable`.

The inductive invariant is

    CoreInv == TypeOK /\ Backed /\ CopiesNotAhead /\ OwnNeverRequested /\ RequestsAnswerable

No conjunct but the first is inductive alone. A copy stays behind its originator
because an update on the way is backed by its sender, and the sender by the
originator; a statement stays backed because databases never go back; a router
never requests its own LSA because a description of it is backed by the
neighbour's copy, which is not ahead; and a request in flight stays answerable
because the request list is backed and the database only grows.

The argument goes through one step lemma. `Effects(p)` says what any step of
router `p` may do, piece by piece: the database only grows, and by what it was
handed (`DatabaseEffect`), the summary list holds old entries or what the
database has (`SummaryEffect`), and so on for requests, calls, the update in hand
and packets. `StepEffects` derives it for each action, with one case per action;
the invariants are then proved from `Effects` without a look at the actions.

`OspfExchangeProofs` proves from the same assumptions what the two ends know of the
exchange:

- `ExchangeInvariant`: `Spec => []ExchangeInv`;
- from it `RolesById` (`RoleById`), `LastPacketAlwaysPresent` (`LastPacketPresent`),
  `MtuMismatchStaysDown` (`MtuMismatchNeverFull`) and `AlwaysInLockstep` (`Lockstep`).

`ExchangeInv` has three parts. `ControlInv` says of each router alone what its
state, its role, its last packet and its scheduled calls have to do with each other;
roles and the last packet follow. `Ordered` is about the DD sequence numbers of a
master and its slave, of the packets both ways and of a first packet that is
  scheduled: packets are in the order they were numbered, the slave's number never
  passes the master's, in EXCHANGE the two are at most one apart, and what is left
  over from an exchange that was restarted carries smaller numbers. `MtuInv` says that a
  router that drops the other one's packets stays below EXCHANGE and has sent nothing
  but first packets, and that its neighbour does not come past EXCHANGE. The three are proved
together in `ExchangeStep`, one case per action.

`OspfFloodingProofs` proves from the same assumptions:

- `OwnLsasAlwaysCovered` (`OwnLsaCovered`): the inductive invariant adds to `CoreInv`
  that an entry exists for a neighbour that is not DOWN (`KnownInv`), so that every
  new instance joins the retransmission list, whatever its cause; an acknowledgment
  takes an LSA off only in the instance of the database, which by `Backed` is what
  the neighbour has;
- `LinkLsasStayLocal` (`LinkScope`): `ScopeInv` says of the databases, lists, calls and
  packets together that they name no Link-LSA of another link, for the router that
  has no such link;
- `EachLsaReplicates` (`Spec => Replica(p, k)!Spec` for every router `p` and LSA `k` of
  `p`) and `DatabasesAlwaysReplicate`: the refinement of `LsdbReplication`. The step
  simulation reads only `DatabaseEffect` of `OspfAdjacencyProofs` and `CoreInv`: a database
  grows by what its router was handed, and what it was handed is backed by the
  neighbour.

`OspfTransferProofs` proves from the same assumptions what a synchronization brings
over:

- `TransferInvariant`: `Spec => []BothWays`, the invariants above together with
  `LoneUpdates` and `TransferInv`;
- from it `DescribedIsKnown` (`faults.inactive = 0 => FullKnowsDescribed`) and
  `NeverStartsAgain` (`SynchronizesOnce`).

Both are about the time until an inactivity timer expires, and so is `TransferInv`:
once a router has started again it is answered from a used-up summary list, and the
first is false (`restarted_neighbour`). `TransferInv` has four parts, all needed at
once.

- `ExchangeTurns`: it is the turn of one end only. A description of the master is
  scheduled or on its way and the slave is one number behind, or the slave's answer
  is and their numbers are equal, or a packet was lost and there is nothing at all;
  the slave leaves EXCHANGE on a description without the More flag and the master on
  the answer to it.
- `Transferred`: what one router originates is had by the other, requested by it, still
  in the summary list, or in the one description on its way. Which of these hold
  depends on whose turn it is, which is why the sequence numbers come in.
- `RequestsOpen`: outside EXCHANGE and LOADING nothing is requested, so that in FULL
  what was requested is had.
- `Fresh`: a request names a newer instance than the database has, and no update that is
  handled, on its way or scheduled is older than the request it meets. Channels keep
  the order, so an update behind a description was sent later and is no older. This
  excludes step 6, that is `BAD_LS_REQ`, for updates of every cause.

`LoneUpdates` says that a scheduled call that sends an update waits alone, so that no
description with newer versions is sent while the update waits. `ExchangeStep`,
`RequestStep` and `SendStep` say what a step may do to the exchange, the request list
and the updates, one case per action; the rest of the proof follows the turns
(`MasterTurns`, `SlaveTurns`, `MasterTransfers`, `SlaveTransfers`). `NoSurprise` draws
from the four parts that every description and update is one the receiver waits for.

`ShortestPathsProofs` proves for every number of routers and every set of
databases:

- `TypeCorrect`: `Spec => []TypeOK`;
- `SearchInvariant`, and from it `SearchFindsLeastCosts` and
  `SearchPrefersSmallIds`, under `SmallMetrics(W)`: no metric is above `W`, and
  `W * N < 65535`. Metrics may be 0.

`SearchInv` has a part for each thing that could go wrong: costs and queue entries
stay below `W` times the number of routers reached (so no sum wraps round; this
needs the cardinality of `Reached` and not the order of the queue); an entry never
holds less than the cost of its router; a reached router is queued with its
present cost or has nothing left to give over its links (`QueuedOrSettled`); a
predecessor explains the cost (`PrevsLinked`). In place of paths, `CostsNotLow` says
that the costs are nowhere below any function that no link undercuts. At the end
the costs are such a function themselves, hence the greatest.

- `SearchFindsDistances` (`ShortestCosts`), under the same hypothesis: `Distance`, which
  is what Bellman-Ford computes in `N` rounds, is the greatest such function as well.
  The work is to show that the rounds have come to rest. `Stable(u, k)` are the
  routers whose entry is final after `k` rounds; while some are not, the one among
  these with the least final distance becomes final in the next round (`StableGrows`),
  so that `N - 1` rounds settle all (`RoundsConverge`). `DistanceTriangle` follows
  from `DistanceGreatest`.
- `RoutesFollowShortestPaths` (`RoutesShortest`), under the same hypothesis, by
  `RouteInvariant`. The loop that restores next hops reads entries of `prevs` that it
  has overwritten already; `NextHopsRight` says that it makes no difference: whatever
  an entry holds lies on a shortest path (`OnTheWay`), a predecessor of that does as
  well (`WayOverPredecessor`, by the triangle inequality), and the entries below `at`
  are neighbours. `RightRoutes` keeps what that gives for the finished tables.
- `PacketsArriveAtAdvertisers` (`ForwardingDelivers`), under `NoFreeLinks` in addition:
  every link costs something. A router chooses the smallest advertiser that it
  reaches; what its neighbour reaches it reaches itself (`ReachedOverNeighbour`), so
  the neighbour chooses the same one (`SameAdvertiser`) and is nearer to it
  (`NextRouterNearer`). Of routers in a circle the one nearest to its choice would
  have a nearer one behind it (`NoCircle`).
- `RestoreDescends`, under `NoFreeLinks`: every turn of the inner loop lowers the cost of
  the predecessor it looks at, or is the last one. This is why `NextHopsRestored`
  holds, and why `fast_links` violates it.

`SmallMetrics(W)` holds of a network with `N` routers when no path through all of them
costs 65535; otherwise sums wrap round (see the hazard at line 2127).

The installed provers cannot instantiate the library's induction theorems. Inductions
over rounds, routers and, in `PacketTransferProofs`, over items are made without them:
`LeastElement` speaks of sets of numbers instead of predicates and follows from the
library's `NatLessThanWellFounded` and `WFMin`; `GreatestElement`, `IntervalInduction`
and `RecursionExists` (a function defined by recursion exists) follow from it.

`LsaFloodingProofs` proves for every set of routers, every set of links and all
bounds:

- `TypeCorrectness`, `NobodyInvents` (`Spec => []Backed`) and `LinksCovered`
  (`Spec => []Covered`);
- `RestIsAgreement` (`Spec => []QuietAgree`), under `Connected`: a set of routers
  that holds the originator and is closed under links holds all routers. At rest
  `Covered` makes a neighbour's copy no older, so the routers with the originator's
  instance are such a set;
- `FloodingReplicates` (`Spec => ReplicationSpec`): each action is an `Announce`, a
  `Learn` over the link the packet came on, or leaves `copy` alone. `Backed` is the
  invariant it needs: what arrives is something the sender has or had.

The inductive invariant is `IInv == TypeOK /\ Backed /\ Covered`. `Covered` needs
`Backed`: an acknowledgment, or an update that implies one, empties a list only if
its version is the router's own, and by `Backed` the neighbour then has it.

`OspfInterfacesProofs` proves for every set of interfaces and every bound
`TypeCorrectness`, `OneHelloChain`, `NeighboursWatched` and
`LsasDescribeInterfaces`. The first three are inductive with the types; the last one
needs to know that a neighbour in FULL is known, which `Watched` says.

At its end `LsaFloodingProofs` proves of `LsaInstances` `SeqDecides` (below MaxAge, and
with equal instances at most `MaxAgeDiff` apart, the sequence number decides), `NewerOneWay` (two instances are
each newer than the other exactly if both are at MaxAge with one number) and
`CopiesAgeTogether` (a copy's age differs by at most the delay added on the way, so
that `SeqDecides` applies).

`PacketTransferProofs` proves from `TransferAssumptions`, for LSAs and packets of any
contents and length, every limit `MaxBytes` and any number of hops:

- `TransferTypes` (`Spec => []TypeOK`), `TransferArrives` (`PacketsArrive`),
  `TransferLengths` (`LengthsTold`), `TransferAgrees` (`HoldersAgree`) and
  `TransferFits` (`DirectFits`);
- about the formats alone, `LSARead` (an LSA is read as it was written, wherever it
  stands) and `PacketArrives` (so is each of the five packets).

`TransferAssumptions` says that arguments are evaluated from the left (`argument_order`
shows what happens otherwise); that members fit the fields they are written in, and
Link-LSA options the two bytes they are read from; that address words a prefix length
does not reach are 0, as `CombinePrefix` makes them; that no two LSAs of a router have
one identifier, as in a database that is a map of identifiers; and that all LSAs of a
router fit one packet of 64 KiB. The code does not see to the last one: `GetRxmtList`
may put a whole list into one update however long it is, whose 16-bit length then
wraps round. The lists and packets of the run `packets` satisfy all of this. It is an
assumption of the theorems and not of the module because `256^4` is beyond TLC's integers.

The formats are proved from the bottom up. `Holds(s, at, b)` says that the bytes `b`
stand in the buffer `s` behind the first `at`; a lemma about reading assumes it of what
was written, so that it applies wherever an object stands. Words are read as they were
written (`NumberOfWord`: the sum over bytes telescopes); a layout is a sequence of words
(`ReadLayout`); vectors are cut at multiples of a width (`EqualPartsHeld`) or where the
object before ends (`PositionsAre`); bodies, LSAs and packets are made of these. Numbers
of items that are computed from lengths are right because each class writes as many
bytes as `GetSerializedSize` says, which is proved first for every class.

The inductive invariant is `TransferInv`. An LSA changes from router to router: its age
grows, its length is set, a priority is lost. What stays is what it tells (`Told`), and
with it its identifier, its sequence number and its size. So lists are compared by what
they tell: `Follows(a, b, o)`, the LSAs of `a` tell what those of `b` behind the first
`o` tell; `Turned(a, b, o)`, the same from behind; `Agree`, one or the other, of whole
lists. With `n` LSAs held,

- `Answering`: the list is a beginning of what is held, the neighbour has the rest from
  behind, and an update on the way is the part between. `SendDirect` takes from the end of
  the list, so that what arrives is in reversed order, and again in order after the next
  hop;
- `Retransmitting`: the list is an end of what is held, an update on the way is a
  beginning of the list, an acknowledgment on the way names a beginning of the list that the
  neighbour has already. That is why an LSA taken off by identifier and sequence number
  is one the neighbour has, and why it never takes an LSA twice;
- `Requested`: the request names exactly what is held, so that each identifier is
  found, once.

That `DirectCount` and the `CHOOSE` of `Retransmitted` find something is proved too
(`DirectCountIs`, `RetransmittedIs`); the limit of `DirectFits` follows from the former.

Every invariant and every safety property of steps that a passing run checks is thus a
theorem. Only model-checked:

- liveness: `AdjacencyForms`, `LoadingEnds`, `OwnLsasDelivered`, `FloodingEnds`,
  `SilenceNoticed`, `Delivered`, `NextHopsRestored`. The prover does neither liveness
  under fairness nor ENABLED.

`FullKnowsDescribed` used to claim more: that a router in FULL has all of its
neighbour's LSAs. The attempt to prove that failed, because it was true of the small run
only. TLC found the counterexample as soon as the slave's list was longer than the
master's (`long_summary`), and the property, which is now a theorem, leaves out what the
slave has not described.

## 6. Not modelled

- Ages as state: MaxAge and its branches, a MaxAge LSA in step 4, the refresh of
  LSAs, summary lists with stale ages. An age gets there after 15 minutes or an
  hour of simulated time; `LsaInstances` says what holds until then.
- When the routing table is computed, and routers that compute on different
  databases.
- Interfaces other than point-to-point, and with them designated routers, `ATTEMPT`
  and `TWOWAY`; nothing in the program makes one. `LL_DOWN` does what
  `INACTIVE` does and nothing raises it.
- Links that work in one direction only.
- The chains of `SendLinkStateUpdatePacketEntryPoint`, of which every Hello starts
  one more: their number grows without bound, and a chain more sends the same LSAs
  earlier.
- Parallel links of which one goes down, and addresses as bits.
- The helper, the sample programs, the tests and the build keep no state of the
  protocol.

The reasons are with the components in `PROJECT.json`, and the plan
of section 2 says which come next.
