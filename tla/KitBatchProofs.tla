--------------------------- MODULE KitBatchProofs ---------------------------
(***************************************************************************)
(* Proofs about a batch of kits: its books (BatchInv), one crawl per       *)
(* device, captures of one's own traffic, nothing left running, a          *)
(* directory of its own for every config, and the order of the return.     *)
(***************************************************************************)
EXTENDS KitBatch, FiniteSetTheorems, SequenceTheorems, WellFoundedInduction, TLAPS

\* What every step leaves alone, and that a config moves in its turn only.
THEOREM OneMoves ==
  ASSUME TypeOK, Next
  PROVE  /\ UNCHANGED <<adb, batch, parallel>>
         /\ begun \subseteq begun'
         /\ \A j \in Kits : /\ at[j] = "done" => at'[j] = "done"
                            /\ at'[j] # at[j] => Underway(j) \/ Turn(j)
<1>1. CASE Return
  BY <1>1 DEF Return
<1>2. ASSUME NEW g \in Groups, TakeGroup(g)
      PROVE  /\ UNCHANGED <<adb, batch, parallel, at>>
             /\ begun \subseteq begun'
  BY <1>2 DEF TakeGroup
<1>3. ASSUME NEW i \in Kits, KitStep(i)
      PROVE  /\ UNCHANGED <<adb, batch, parallel, begun>>
             /\ \E place : at' = [at EXCEPT ![i] = place]
             /\ at[i] # "done"
             /\ Underway(i) \/ Turn(i)
  BY <1>3 DEF KitStep, StartKit, NoProxy, SpawnProxy, ProxyFails, RouteDevice, RouteRaises,
     Unroute, StopProxy, AdbDriver, FindServer, NoServer, SpawnServer, ServerReady, NoSession,
     OpenSession, BadWaypoint, BeginCrawl, EndCrawl, CrawlRaises, BuildKit, Goto, OfBatch,
     Underway
<1>4. ASSUME NEW i \in Kits, KitStep(i)
      PROVE  \A j \in Kits : /\ at[j] = "done" => at'[j] = "done"
                             /\ at'[j] # at[j] => Underway(j) \/ Turn(j)
  <2>1. \A j \in Kits : j # i => at'[j] = at[j]
    BY <1>3, <1>4 DEF TypeOK
  <2> QED BY <1>3, <1>4, <2>1
<1> QED BY <1>1, <1>2, <1>3, <1>4 DEF Next

\* A config stays in its turn, and one that gets under way was in it.
THEOREM TurnKept ==
  ASSUME TypeOK, InTurn, Next
  PROVE  InTurn'
<1>1. /\ UNCHANGED <<adb, batch, parallel>>
      /\ begun \subseteq begun'
      /\ \A j \in Kits : /\ at[j] = "done" => at'[j] = "done"
                         /\ at'[j] # at[j] => Underway(j) \/ Turn(j)
  BY OneMoves
<1>2. ASSUME NEW i \in Kits, Turn(i) PROVE Turn(i)'
  BY <1>1, <1>2 DEF Turn, Group, GroupOf, Kits
<1>3. ASSUME NEW i \in Kits, Underway(i)' PROVE Turn(i)
  BY <1>1, <1>3 DEF InTurn, Underway
<1> QED BY <1>1, <1>2, <1>3 DEF InTurn, Kits
-----------------------------------------------------------------------------
\* The initial batch keeps its books.
THEOREM InitKeepsBooks == Init => BatchInv
<1> SUFFICES ASSUME Init PROVE BatchInv
  OBVIOUS
<1>1. PICK b \in Batches : batch = Isolated(b) /\ at = [i \in DOMAIN b |-> "waiting"]
                           /\ on = [i \in DOMAIN b |-> None]
                           /\ summary = [i \in DOMAIN b |-> None]
  BY DEF Init
<1>2. adb \in BOOLEAN /\ parallel \in BOOLEAN /\ begun = {} /\ proxy = {} /\ routed = {}
      /\ route = [d \in Device |-> None] /\ server = {} /\ session = {}
  BY DEF Init
<1>3. b \in Seq(Config)
  BY BatchesAreConfigs
<1>4. Kits = DOMAIN b /\ Kits \subseteq Nat
  BY <1>1, <1>3 DEF Isolated, Kits
<1>5. ASSUME NEW i \in Kits
      PROVE  /\ batch[i].driver \in Driver
             /\ {batch[i].serial, batch[i].udid} \subseteq Device \cup {None}
             /\ {batch[i].capture, batch[i].malformed} \subseteq BOOLEAN
  <2>1. b[i] \in Config
    BY <1>3, <1>4
  <2>2. batch[i] = [b[i] EXCEPT !.output = Outputs(b)[i]]
    BY <1>1, <1>4 DEF Isolated
  <2> QED BY <2>1, <2>2 DEF Config
<1>6. TypeOK
  BY <1>1, <1>2, <1>4, <1>5 DEF TypeOK, Place
<1>7. InTurn /\ DrivesItsOwn /\ HoldsInPlace /\ RoutedByOwner /\ RoutesHold
  BY <1>1, <1>2, <1>4 DEF InTurn, Underway, DrivesItsOwn, HoldsInPlace, Holds,
     RoutedByOwner, RoutesHold
<1> QED BY <1>6, <1>7 DEF BatchInv
-----------------------------------------------------------------------------
\* A driver can only end up on a device.
LEMMA DrivesDevices ==
  ASSUME TypeOK, NEW i \in Kits
  PROVE  Drives(batch[i]) \subseteq Device
BY DEF TypeOK, Drives, Named, Or, OnlyAndroid, Device

\* The types of what a step leaves to the others.
THEOREM TypesKept ==
  ASSUME TypeOK, Next
  PROVE  TypeOK'
<1>1. UNCHANGED <<adb, batch, parallel>> /\ Kits' = Kits /\ Groups' = Groups
  BY OneMoves DEF Kits, Groups, GroupOf
<1> DEFINE Moving == /\ begun' \subseteq Groups
                     /\ at' \in [Kits -> Place] /\ on' \in [Kits -> Device \cup {None}]
                     /\ proxy' \subseteq Kits /\ routed' \subseteq Kits
                     /\ route' \in [Device -> Kits \cup {None}]
                     /\ server' \subseteq Kits /\ session' \subseteq Kits
                     /\ summary' \in [Kits -> {"kit", "error", None}]
<1>2. ASSUME Return PROVE Moving
  BY <1>2 DEF Return, TypeOK
<1>3. ASSUME NEW g \in Groups, TakeGroup(g) PROVE Moving
  BY <1>3 DEF TakeGroup, TypeOK
<1>4. ASSUME NEW i \in Kits, KitStep(i) PROVE Moving
  <2>1. CASE StartKit(i)
    BY <1>4, <2>1 DEF StartKit, TypeOK, OfBatch, Goto, Place
  <2>2. CASE NoProxy(i)
    BY <1>4, <2>2 DEF NoProxy, TypeOK, OfBatch, Goto, Place, Raised, Settle
  <2>3. CASE SpawnProxy(i)
    BY <1>4, <2>3 DEF SpawnProxy, TypeOK, OfBatch, Goto, Place
  <2>4. CASE ProxyFails(i)
    BY <1>4, <2>4 DEF ProxyFails, TypeOK, OfBatch, Goto, Place, Raised, Settle
  <2>5. CASE RouteDevice(i)
    BY <1>4, <2>5 DEF RouteDevice, TypeOK, OfBatch, Goto, Place, SetRoute
  <2>6. CASE RouteRaises(i)
    BY <1>4, <2>6 DEF RouteRaises, TypeOK, OfBatch, Goto, Place, Raised, Settle
  <2>7. CASE Unroute(i)
    BY <1>4, <2>7 DEF Unroute, TypeOK, OfBatch, Goto, Place, SetRoute
  <2>8. CASE StopProxy(i)
    BY <1>4, <2>8 DEF StopProxy, TypeOK, OfBatch, Goto, Place
  <2>9. CASE AdbDriver(i)
    BY <1>4, <2>9, DrivesDevices DEF AdbDriver, TypeOK, OfBatch, Goto, Place
  <2>10. CASE FindServer(i)
    BY <1>4, <2>10 DEF FindServer, TypeOK, OfBatch, Goto, Place
  <2>11. CASE NoServer(i)
    BY <1>4, <2>11 DEF NoServer, TypeOK, OfBatch, Goto, Place, Raised, Settle, LeaveAt
  <2>12. CASE SpawnServer(i)
    BY <1>4, <2>12 DEF SpawnServer, TypeOK, OfBatch, Goto, Place
  <2>13. CASE ServerReady(i)
    BY <1>4, <2>13 DEF ServerReady, TypeOK, OfBatch, Goto, Place
  <2>14. CASE NoSession(i)
    BY <1>4, <2>14 DEF NoSession, TypeOK, OfBatch, Goto, Place, Raised, Settle, LeaveAt, StopServer
  <2>15. CASE OpenSession(i)
    BY <1>4, <2>15, DrivesDevices DEF OpenSession, TypeOK, OfBatch, Goto, Place
  <2>16. CASE BadWaypoint(i)
    BY <1>4, <2>16 DEF BadWaypoint, TypeOK, OfBatch, Goto, Place, Raised, Settle, LeaveAt
  <2>17. CASE BeginCrawl(i)
    BY <1>4, <2>17 DEF BeginCrawl, TypeOK, OfBatch, Goto, Place
  <2>18. CASE EndCrawl(i)
    BY <1>4, <2>18 DEF EndCrawl, TypeOK, OfBatch, Goto, Place, TearDown, StopServer
  <2>19. CASE CrawlRaises(i)
    BY <1>4, <2>19 DEF CrawlRaises, TypeOK, OfBatch, Goto, Place, TearDown, StopServer, Raised, Settle, LeaveAt
  <2>20. CASE BuildKit(i)
    BY <1>4, <2>20 DEF BuildKit, TypeOK, OfBatch, Goto, Place, Settle
  <2> QED BY <1>4, <2>1, <2>2, <2>3, <2>4, <2>5, <2>6, <2>7, <2>8, <2>9, <2>10, <2>11, <2>12, <2>13, <2>14, <2>15, <2>16, <2>17, <2>18, <2>19, <2>20 DEF KitStep
<1>5. Moving
  BY <1>2, <1>3, <1>4 DEF Next, Return, TypeOK
<1> QED BY <1>1, <1>5 DEF TypeOK

\* A driver stays on its config's device until the crawl is over.
THEOREM DriverKept ==
  ASSUME TypeOK, DrivesItsOwn, Next
  PROVE  DrivesItsOwn'
<1>1. UNCHANGED <<adb, batch, parallel>> /\ Kits' = Kits
  BY OneMoves DEF Kits
<1>2. ASSUME Return PROVE DrivesItsOwn'
  BY <1>1, <1>2 DEF Return, DrivesItsOwn
<1>3. ASSUME NEW g \in Groups, TakeGroup(g) PROVE DrivesItsOwn'
  BY <1>1, <1>3 DEF TakeGroup, DrivesItsOwn
<1>4. ASSUME NEW i \in Kits, KitStep(i) PROVE DrivesItsOwn'
  <2>1. CASE StartKit(i)
    BY <1>1, <2>1 DEF StartKit, TypeOK, OfBatch, Goto, DrivesItsOwn
  <2>2. CASE NoProxy(i)
    BY <1>1, <2>2 DEF NoProxy, TypeOK, OfBatch, Goto, DrivesItsOwn, Raised, Settle
  <2>3. CASE SpawnProxy(i)
    BY <1>1, <2>3 DEF SpawnProxy, TypeOK, OfBatch, Goto, DrivesItsOwn
  <2>4. CASE ProxyFails(i)
    BY <1>1, <2>4 DEF ProxyFails, TypeOK, OfBatch, Goto, DrivesItsOwn, Raised, Settle
  <2>5. CASE RouteDevice(i)
    BY <1>1, <2>5 DEF RouteDevice, TypeOK, OfBatch, Goto, DrivesItsOwn, SetRoute
  <2>6. CASE RouteRaises(i)
    BY <1>1, <2>6 DEF RouteRaises, TypeOK, OfBatch, Goto, DrivesItsOwn, Raised, Settle
  <2>7. CASE Unroute(i)
    BY <1>1, <2>7 DEF Unroute, TypeOK, OfBatch, Goto, DrivesItsOwn, SetRoute
  <2>8. CASE StopProxy(i)
    BY <1>1, <2>8 DEF StopProxy, TypeOK, OfBatch, Goto, DrivesItsOwn
  <2>9. CASE AdbDriver(i)
    BY <1>1, <2>9 DEF AdbDriver, TypeOK, OfBatch, Goto, DrivesItsOwn
  <2>10. CASE FindServer(i)
    BY <1>1, <2>10 DEF FindServer, TypeOK, OfBatch, Goto, DrivesItsOwn
  <2>11. CASE NoServer(i)
    BY <1>1, <2>11 DEF NoServer, TypeOK, OfBatch, Goto, DrivesItsOwn, Raised, Settle, LeaveAt
  <2>12. CASE SpawnServer(i)
    BY <1>1, <2>12 DEF SpawnServer, TypeOK, OfBatch, Goto, DrivesItsOwn
  <2>13. CASE ServerReady(i)
    BY <1>1, <2>13 DEF ServerReady, TypeOK, OfBatch, Goto, DrivesItsOwn
  <2>14. CASE NoSession(i)
    BY <1>1, <2>14 DEF NoSession, TypeOK, OfBatch, Goto, DrivesItsOwn, Raised, Settle, LeaveAt, StopServer
  <2>15. CASE OpenSession(i)
    BY <1>1, <2>15 DEF OpenSession, TypeOK, OfBatch, Goto, DrivesItsOwn
  <2>16. CASE BadWaypoint(i)
    BY <1>1, <2>16 DEF BadWaypoint, TypeOK, OfBatch, Goto, DrivesItsOwn, Raised, Settle, LeaveAt
  <2>17. CASE BeginCrawl(i)
    BY <1>1, <2>17 DEF BeginCrawl, TypeOK, OfBatch, Goto, DrivesItsOwn
  <2>18. CASE EndCrawl(i)
    BY <1>1, <2>18 DEF EndCrawl, TypeOK, OfBatch, Goto, DrivesItsOwn, TearDown, StopServer
  <2>19. CASE CrawlRaises(i)
    BY <1>1, <2>19 DEF CrawlRaises, TypeOK, OfBatch, Goto, DrivesItsOwn, TearDown, StopServer, Raised, Settle, LeaveAt
  <2>20. CASE BuildKit(i)
    BY <1>1, <2>20 DEF BuildKit, TypeOK, OfBatch, Goto, DrivesItsOwn, Settle
  <2> QED BY <1>4, <2>1, <2>2, <2>3, <2>4, <2>5, <2>6, <2>7, <2>8, <2>9, <2>10, <2>11, <2>12, <2>13, <2>14, <2>15, <2>16, <2>17, <2>18, <2>19, <2>20 DEF KitStep
<1> QED BY <1>2, <1>3, <1>4 DEF Next

\* What a config holds is what it has at its place.
THEOREM HoldingsKept ==
  ASSUME TypeOK, HoldsInPlace, Next
  PROVE  HoldsInPlace'
<1>1. UNCHANGED <<adb, batch, parallel>> /\ Kits' = Kits
  BY OneMoves DEF Kits
<1>2. ASSUME Return PROVE HoldsInPlace'
  BY <1>1, <1>2 DEF Return, HoldsInPlace, Holds
<1>3. ASSUME NEW g \in Groups, TakeGroup(g) PROVE HoldsInPlace'
  BY <1>1, <1>3 DEF TakeGroup, HoldsInPlace, Holds
<1>4. ASSUME NEW i \in Kits, KitStep(i), NEW j \in Kits, j # i
      PROVE  /\ at'[j] = at[j]
             /\ j \in proxy' <=> j \in proxy
             /\ j \in routed' <=> j \in routed
             /\ j \in server' <=> j \in server
             /\ j \in session' <=> j \in session
  BY <1>4 DEF KitStep, StartKit, NoProxy, SpawnProxy, ProxyFails, RouteDevice, RouteRaises,
     Unroute, StopProxy, AdbDriver, FindServer, NoServer, SpawnServer, ServerReady, NoSession,
     OpenSession, BadWaypoint, BeginCrawl, EndCrawl, CrawlRaises, BuildKit, Goto, OfBatch,
     TearDown, StopServer, TypeOK
<1>5. ASSUME NEW i \in Kits, KitStep(i) PROVE Holds(i)'
  <2> USE DEF Holds
  <2>0. Holds(i) /\ at \in [Kits -> Place]
    BY DEF HoldsInPlace, TypeOK
  <2>1. CASE StartKit(i)
    BY <1>1, <2>0, <2>1 DEF StartKit, Goto
  <2>2. CASE NoProxy(i)
    BY <1>1, <2>0, <2>2 DEF NoProxy, Goto
  <2>3. CASE SpawnProxy(i)
    BY <1>1, <2>0, <2>3 DEF SpawnProxy, Goto
  <2>4. CASE ProxyFails(i)
    BY <1>1, <2>0, <2>4 DEF ProxyFails, Goto
  <2>5. CASE RouteDevice(i)
    BY <1>1, <2>0, <2>5 DEF RouteDevice, Goto
  <2>6. CASE RouteRaises(i)
    BY <1>1, <2>0, <2>6 DEF RouteRaises, Goto
  <2>7. CASE Unroute(i)
    BY <1>1, <2>0, <2>7 DEF Unroute, Goto
  <2>8. CASE StopProxy(i)
    BY <1>1, <2>0, <2>8 DEF StopProxy, Goto
  <2>9. CASE AdbDriver(i)
    BY <1>1, <2>0, <2>9 DEF AdbDriver, Goto
  <2>10. CASE FindServer(i)
    BY <1>1, <2>0, <2>10 DEF FindServer, Goto
  <2>11. CASE NoServer(i)
    BY <1>1, <2>0, <2>11 DEF NoServer, Goto, LeaveAt
  <2>12. CASE SpawnServer(i)
    BY <1>1, <2>0, <2>12 DEF SpawnServer, Goto
  <2>13. CASE ServerReady(i)
    BY <1>1, <2>0, <2>13 DEF ServerReady, Goto
  <2>14. CASE NoSession(i)
    BY <1>1, <2>0, <2>14 DEF NoSession, Goto, LeaveAt, StopServer
  <2>15. CASE OpenSession(i)
    BY <1>1, <2>0, <2>15 DEF OpenSession, Goto
  <2>16. CASE BadWaypoint(i)
    BY <1>1, <2>0, <2>16 DEF BadWaypoint, Goto, LeaveAt
  <2>17. CASE BeginCrawl(i)
    BY <1>1, <2>0, <2>17 DEF BeginCrawl, Goto
  <2>18. CASE EndCrawl(i)
    BY <1>1, <2>0, <2>18 DEF EndCrawl, Goto, TearDown, StopServer
  <2>19. CASE CrawlRaises(i)
    BY <1>1, <2>0, <2>19 DEF CrawlRaises, Goto, TearDown, StopServer, LeaveAt
  <2>20. CASE BuildKit(i)
    BY <1>1, <2>0, <2>20 DEF BuildKit, Goto
  <2> QED BY <1>5, <2>1, <2>2, <2>3, <2>4, <2>5, <2>6, <2>7, <2>8, <2>9, <2>10, <2>11, <2>12, <2>13, <2>14, <2>15, <2>16, <2>17, <2>18, <2>19, <2>20 DEF KitStep
<1>6. ASSUME NEW i \in Kits, KitStep(i) PROVE HoldsInPlace'
  BY <1>1, <1>4, <1>5, <1>6 DEF HoldsInPlace, Holds
<1> QED BY <1>2, <1>3, <1>6 DEF Next

\* A device is routed to the proxy of a config that will undo it.
THEOREM RoutesKept ==
  ASSUME TypeOK, RoutedByOwner, HoldsInPlace, Next
  PROVE  RoutedByOwner'
<1>1. UNCHANGED <<adb, batch, parallel>> /\ Kits' = Kits
  BY OneMoves DEF Kits
<1>2. ASSUME Return PROVE RoutedByOwner'
  BY <1>1, <1>2 DEF Return, RoutedByOwner
<1>3. ASSUME NEW g \in Groups, TakeGroup(g) PROVE RoutedByOwner'
  BY <1>1, <1>3 DEF TakeGroup, RoutedByOwner
<1>4. ASSUME NEW i \in Kits, KitStep(i) PROVE RoutedByOwner'
  <2>1. CASE StartKit(i)
    BY <1>1, <2>1 DEF StartKit, TypeOK, OfBatch, Goto, RoutedByOwner
  <2>2. CASE NoProxy(i)
    BY <1>1, <2>2 DEF NoProxy, TypeOK, OfBatch, Goto, RoutedByOwner, Raised, Settle
  <2>3. CASE SpawnProxy(i)
    BY <1>1, <2>3 DEF SpawnProxy, TypeOK, OfBatch, Goto, RoutedByOwner
  <2>4. CASE ProxyFails(i)
    BY <1>1, <2>4 DEF ProxyFails, TypeOK, OfBatch, Goto, RoutedByOwner, Raised, Settle
  <2>5. CASE RouteDevice(i)
    <3>1. route' = [d \in Device |-> IF d \in Proxies(batch[i]) THEN i ELSE route[d]]
      BY <2>5 DEF RouteDevice, SetRoute
    <3>2. routed \subseteq routed' /\ (Proxies(batch[i]) # {} => i \in routed')
      BY <2>5 DEF RouteDevice, Proxies
    <3> QED BY <1>1, <3>1, <3>2 DEF RoutedByOwner
  <2>6. CASE RouteRaises(i)
    BY <1>1, <2>6 DEF RouteRaises, TypeOK, OfBatch, Goto, RoutedByOwner, Raised, Settle
  <2>7. CASE Unroute(i)
    BY <1>1, <2>7 DEF Unroute, TypeOK, OfBatch, Goto, RoutedByOwner, SetRoute
  <2>8. CASE StopProxy(i)
    BY <1>1, <2>8 DEF StopProxy, TypeOK, OfBatch, Goto, RoutedByOwner
  <2>9. CASE AdbDriver(i)
    BY <1>1, <2>9 DEF AdbDriver, TypeOK, OfBatch, Goto, RoutedByOwner
  <2>10. CASE FindServer(i)
    BY <1>1, <2>10 DEF FindServer, TypeOK, OfBatch, Goto, RoutedByOwner
  <2>11. CASE NoServer(i)
    BY <1>1, <2>11 DEF NoServer, TypeOK, OfBatch, Goto, RoutedByOwner, Raised, Settle, LeaveAt
  <2>12. CASE SpawnServer(i)
    BY <1>1, <2>12 DEF SpawnServer, TypeOK, OfBatch, Goto, RoutedByOwner
  <2>13. CASE ServerReady(i)
    BY <1>1, <2>13 DEF ServerReady, TypeOK, OfBatch, Goto, RoutedByOwner
  <2>14. CASE NoSession(i)
    BY <1>1, <2>14 DEF NoSession, TypeOK, OfBatch, Goto, RoutedByOwner, Raised, Settle, LeaveAt, StopServer
  <2>15. CASE OpenSession(i)
    BY <1>1, <2>15 DEF OpenSession, TypeOK, OfBatch, Goto, RoutedByOwner
  <2>16. CASE BadWaypoint(i)
    BY <1>1, <2>16 DEF BadWaypoint, TypeOK, OfBatch, Goto, RoutedByOwner, Raised, Settle, LeaveAt
  <2>17. CASE BeginCrawl(i)
    BY <1>1, <2>17 DEF BeginCrawl, TypeOK, OfBatch, Goto, RoutedByOwner
  <2>18. CASE EndCrawl(i)
    BY <1>1, <2>18 DEF EndCrawl, TypeOK, OfBatch, Goto, RoutedByOwner, TearDown, StopServer
  <2>19. CASE CrawlRaises(i)
    BY <1>1, <2>19 DEF CrawlRaises, TypeOK, OfBatch, Goto, RoutedByOwner, TearDown, StopServer, Raised, Settle, LeaveAt
  <2>20. CASE BuildKit(i)
    BY <1>1, <2>20 DEF BuildKit, TypeOK, OfBatch, Goto, RoutedByOwner, Settle
  <2> QED BY <1>4, <2>1, <2>2, <2>3, <2>4, <2>5, <2>6, <2>7, <2>8, <2>9, <2>10, <2>11, <2>12, <2>13, <2>14, <2>15, <2>16, <2>17, <2>18, <2>19, <2>20 DEF KitStep
<1> QED BY <1>2, <1>3, <1>4 DEF Next

\* A capture can only set the proxy of a device.
LEMMA ProxiesAreDevices ==
  ASSUME TypeOK, NEW i \in Kits
  PROVE  Proxies(batch[i]) \subseteq Device
BY DEF TypeOK, Proxies, Or, OnlyAndroid, Device

\* Of each group one config at a time is under way.
LEMMA OnePerGroup ==
  ASSUME TypeOK, InTurn, NEW i \in Kits, NEW j \in Kits,
         Underway(i), Underway(j), GroupOf(i) = GroupOf(j)
  PROVE  i = j
<1>1. Turn(i) /\ Turn(j)
  BY DEF InTurn
<1>2. ~(i < j) /\ ~(j < i)
  BY <1>1 DEF Turn, Group, Underway
<1>3. i \in Nat /\ j \in Nat
  BY DEF TypeOK
<1> QED BY <1>2, <1>3

\* If the configs of a batch agree on naming devices, those that drive one
\* device are in one group.
LEMMA SameDeviceSameGroup ==
  ASSUME TypeOK, NamesAgree, NEW i \in Kits, NEW j \in Kits, NEW d \in Device,
         d \in Drives(batch[i]), d \in Drives(batch[j])
  PROVE  GroupOf(i) = GroupOf(j)
BY DEF NamesAgree, Drives, Named, DeviceKey, GroupOf, Or

\* Nor are two configs of one group routed at a time: if the configs agree on
\* naming devices, those whose captures route one device are in one group.
LEMMA SameRouteSameGroup ==
  ASSUME TypeOK, NamesAgree, OneName, NEW i \in Kits, NEW j \in Kits, NEW d \in Device,
         d \in Proxies(batch[i]), d \in Proxies(batch[j])
  PROVE  GroupOf(i) = GroupOf(j)
BY NoneIsNone DEF NamesAgree, OneName, Proxies, Named, DeviceKey, GroupOf, Or, OnAppium, TypeOK,
   Driver

\* A routed device stays routed to its config until the config undoes it.
THEOREM RouteStays ==
  ASSUME TypeOK, InTurn, HoldsInPlace, RoutesHold, Next
  PROVE  RoutesHold'
<1>1. UNCHANGED <<adb, batch, parallel>> /\ Kits' = Kits
  BY OneMoves DEF Kits
<1>2. NamesAgree' = NamesAgree /\ OneName' = OneName
  BY <1>1 DEF NamesAgree, OneName
<1>3. SUFFICES ASSUME NamesAgree, OneName, NEW j \in routed', NEW d \in Proxies(batch[j])
               PROVE  route'[d] = j
  BY <1>1, <1>2 DEF RoutesHold
<1>4. \A k \in routed : \A e \in Proxies(batch[k]) : route[e] = k
  BY <1>3 DEF RoutesHold
<1>5. ASSUME UNCHANGED <<routed, route>> PROVE route'[d] = j
  BY <1>3, <1>4, <1>5
<1>6. ASSUME NEW i \in Kits, RouteDevice(i) PROVE route'[d] = j
  <2>1. /\ route' = [e \in Device |-> IF e \in Proxies(batch[i]) THEN i ELSE route[e]]
        /\ routed' \subseteq routed \cup {i}
        /\ at[i] = "listening"
    BY <1>6 DEF RouteDevice, SetRoute
  <2>2. j \in Kits /\ d \in Device
    BY <2>1, <1>3, ProxiesAreDevices DEF TypeOK
  <2>3. CASE d \in Proxies(batch[i])
    <3>1. GroupOf(i) = GroupOf(j)
      BY <1>3, <2>2, <2>3, SameRouteSameGroup
    <3>2. j = i \/ (j \in routed /\ Underway(j))
      BY <2>1, <2>2, <1>3 DEF HoldsInPlace, Holds, Underway
    <3>3. Underway(i)
      BY <2>1 DEF Underway
    <3>4. j = i
      BY <2>2, <3>1, <3>2, <3>3, OnePerGroup
    <3> QED BY <2>1, <2>2, <2>3, <3>4
  <2>4. CASE d \notin Proxies(batch[i])
    BY <1>3, <1>4, <2>1, <2>2, <2>4
  <2> QED BY <2>3, <2>4
<1>7. ASSUME NEW i \in Kits, Unroute(i) PROVE route'[d] = j
  <2>1. /\ route' = IF i \in routed
                    THEN [e \in Device |-> IF e \in Proxies(batch[i]) THEN None ELSE route[e]]
                    ELSE route
        /\ routed' = routed \ {i}
        /\ at[i] = "leaving"
    BY <1>7 DEF Unroute, SetRoute
  <2>2. j \in routed /\ j # i /\ j \in Kits /\ d \in Device /\ Underway(i) /\ Underway(j)
    BY <2>1, <1>3, ProxiesAreDevices DEF TypeOK, HoldsInPlace, Holds, Underway
  <2>3. d \notin Proxies(batch[i])
    BY <1>3, <2>2, SameRouteSameGroup, OnePerGroup
  <2> QED BY <1>3, <1>4, <2>1, <2>2, <2>3
<1>8. ASSUME NEW i \in Kits, KitStep(i), ~RouteDevice(i), ~Unroute(i)
      PROVE  UNCHANGED <<routed, route>>
  BY <1>8 DEF KitStep, StartKit, NoProxy, SpawnProxy, ProxyFails, RouteRaises,
     StopProxy, AdbDriver, FindServer, NoServer, SpawnServer, ServerReady, NoSession,
     OpenSession, BadWaypoint, BeginCrawl, EndCrawl, CrawlRaises, BuildKit
<1> QED BY <1>5, <1>6, <1>7, <1>8 DEF Next, Return, TakeGroup

\* A batch keeps its books, for any batches, devices and size of the pool.
THEOREM BooksAreKept == Spec => []BatchInv
<1>1. Init => BatchInv
  BY InitKeepsBooks
<1>2. BatchInv /\ [Next]_vars => BatchInv'
  <2>1. CASE Next
    BY <2>1, TypesKept, TurnKept, DriverKept, HoldingsKept, RoutesKept, RouteStays
       DEF BatchInv
  <2>2. CASE UNCHANGED vars
    BY <2>2 DEF vars, BatchInv, TypeOK, InTurn, Turn, Underway, Group, GroupOf, Groups, Kits,
       DrivesItsOwn, HoldsInPlace, Holds, RoutedByOwner, RoutesHold, NamesAgree, OneName
  <2> QED BY <2>1, <2>2
<1> QED BY <1>1, <1>2, PTL DEF Spec
-----------------------------------------------------------------------------
\* Two crawls never drive one device, if the configs agree on naming devices:
\* run_kits' promise, whatever the threads of the pool do.
THEOREM CrawlsAreApart == Spec => []NamedOnePerDevice
<1>1. BatchInv => NamedOnePerDevice
  <2> SUFFICES ASSUME BatchInv, NamesAgree, NEW i \in Kits, NEW j \in Kits, i # j,
                      Crawling(i), Crawling(j), on[i] # None, on[i] = on[j]
               PROVE  FALSE
    BY DEF NamedOnePerDevice, OnePerDevice
  <2>1. on[i] \in Drives(batch[i]) /\ on[i] \in Drives(batch[j]) /\ on[i] \in Device
    BY DEF BatchInv, DrivesItsOwn, TypeOK
  <2>2. Underway(i) /\ Underway(j)
    BY DEF Crawling, Underway
  <2>3. GroupOf(i) = GroupOf(j)
    BY <2>1, SameDeviceSameGroup DEF BatchInv
  <2> QED BY <2>2, <2>3, OnePerGroup DEF BatchInv
<1> QED BY <1>1, BooksAreKept, PTL

\* A config that is over has left nothing running, unless adb cannot be run or
\* its waypoints are malformed.
THEOREM NothingIsLeft == Spec => []CleanedUp
<1>1. BatchInv => CleanedUp
  <2> SUFFICES ASSUME BatchInv, NEW i \in Kits, at[i] = "done", adb, ~batch[i].malformed
               PROVE  LeavesNothing(i)
    BY DEF CleanedUp
  <2>1. i \notin proxy /\ i \notin routed /\ i \notin server /\ i \notin session
    BY DEF BatchInv, HoldsInPlace, Holds
  <2>2. i # None
    BY NoneIsNone DEF BatchInv, TypeOK
  <2>3. ASSUME NEW d \in Device PROVE route[d] # i
    BY <2>1, <2>2 DEF BatchInv, RoutedByOwner
  <2> QED BY <2>1, <2>3 DEF LeavesNothing
<1> QED BY <1>1, BooksAreKept, PTL

\* During a crawl that captures, the device crawled is routed to its own proxy,
\* if the configs agree on naming devices and each names one.
THEOREM CapturesAreOwn == Spec => []CapturesItsOwn
<1>1. BatchInv => CapturesItsOwn
  <2> SUFFICES ASSUME BatchInv, NamesAgree, OneName, NEW i \in Kits, Crawling(i), i \in routed,
                      NEW d \in Proxies(batch[i])
               PROVE  route[d] = i /\ on[i] \in {d, None}
    BY DEF CapturesItsOwn
  <2>1. route[d] = i
    BY DEF BatchInv, RoutesHold
  <2>2. ASSUME on[i] # None PROVE on[i] = d
    <3>1. on[i] \in Drives(batch[i])
      BY <2>2 DEF BatchInv, DrivesItsOwn
    <3>2. Drives(batch[i]) \subseteq {d}
      BY NoneIsNone DEF BatchInv, TypeOK, Drives, Proxies, Named, Or, OnlyAndroid, OneName,
         OnAppium, Driver
    <3> QED BY <3>1, <3>2
  <2> QED BY <2>1, <2>2
<1> QED BY <1>1, BooksAreKept, PTL

-----------------------------------------------------------------------------
(* The outputs: a recursive function over the configs *)

LEMMA LeastNumber ==
  ASSUME NEW T \in SUBSET Nat, T # {}
  PROVE  \E x \in T : \A y \in T : x <= y
<1> DEFINE R == {s \in Nat \X Nat : s[1] < s[2]}
<1>1. IsWellFoundedOn(R, Nat)
  BY NatLessThanWellFounded DEF OpToRel
<1>2. \A a, b \in Nat : <<b, a>> \in R <=> b < a
  OBVIOUS
<1> HIDE DEF R
<1>3. T \subseteq Nat
  OBVIOUS
<1>4. PICK x \in T : \A y \in T : ~ (<<y, x>> \in R)
  BY <1>1, <1>3, WFMin
<1>5. ASSUME NEW y \in T PROVE x <= y
  <2>1. x \in Nat /\ y \in Nat
    OBVIOUS
  <2>2. ~(y < x)
    BY <1>2, <1>4, <2>1
  <2> QED BY <2>1, <2>2
<1> QED BY <1>5

Dirs == Seq(Seq(Part))

\* The outputs nobody else has, and what config n is given when those in
\* before are given away already.
Apart(b) == {b[i].output : i \in DOMAIN b \ Clashing(b)}
Given(b, n, before) ==
  IF n \notin Clashing(b) THEN b[n].output ELSE Claimed(b, n, Apart(b) \cup before)

LEMMA GivenIsADir ==
  ASSUME NEW b \in Batches, NEW n \in DOMAIN b, NEW before
  PROVE  Given(b, n, before) \in Dirs
<1>1. b \in Seq(Config) /\ b[n] \in Config /\ n \in Nat
  BY BatchesAreConfigs
<1>2. b[n].output \in Seq(Seq(Part)) /\ DirName(b[n]) \in Seq(Part)
  BY <1>1 DEF Config, DirName
<1>3. DeviceKey(b[n]) \in Device \cup {None}
  BY <1>1 DEF Config, DeviceKey, Or
<1>4. Subdir(b, n) \in Seq(Part)
  <2> DEFINE tail == IF DeviceKey(b[n]) # None THEN DeviceKey(b[n]) ELSE n
  <2>1. tail \in Part
    BY <1>1, <1>3 DEF Part
  <2> HIDE DEF tail
  <2>2. Append(DirName(b[n]), tail) \in Seq(Part)
    BY <1>2, <2>1
  <2> QED BY <1>2, <2>2 DEF Subdir, tail
<1>5. Append(Subdir(b, n), n) \in Seq(Part)
  BY <1>1, <1>4 DEF Part
<1>6. /\ Append(b[n].output, Subdir(b, n)) \in Dirs
      /\ Append(b[n].output, Append(Subdir(b, n), n)) \in Dirs
  BY <1>2, <1>4, <1>5 DEF Dirs
<1> QED BY <1>2, <1>6 DEF Given, Claimed, Dirs

\* f is the outputs of the first configs, up to n of them.
GivenUpTo(b, f, n) ==
  f = [m \in 0..n |-> IF m = 0 THEN <<>> ELSE Append(f[m - 1], Given(b, m, Range(f[m - 1])))]

LEMMA GivenExists ==
  ASSUME NEW b, NEW n \in Nat
  PROVE  \E f : GivenUpTo(b, f, n)
<1> DEFINE Rule(f, m) == IF m = 0 THEN <<>> ELSE Append(f[m - 1], Given(b, m, Range(f[m - 1])))
           Have(k) == \E f : f = [m \in 0..k |-> Rule(f, m)]
           Lack == {k \in Nat : ~Have(k)}
<1>1. Have(0)
  <2> DEFINE f == [m \in 0..0 |-> <<>>]
  <2>1. f = [m \in 0..0 |-> Rule(f, m)]
    OBVIOUS
  <2> QED BY <2>1
<1>2. ASSUME NEW k \in Nat, Have(k) PROVE Have(k + 1)
  <2>1. PICK f : f = [m \in 0..k |-> Rule(f, m)]
    BY <1>2
  <2> DEFINE g == [m \in 0..(k + 1) |-> Rule(f, m)]
  <2>2. ASSUME NEW m \in 0..k PROVE g[m] = f[m]
    <3>1. f[m] = Rule(f, m)
      BY <2>1
    <3>2. m \in 0..(k + 1)
      OBVIOUS
    <3> HIDE DEF Rule
    <3>3. g[m] = Rule(f, m)
      BY <3>2
    <3> QED BY <3>1, <3>3
  <2>3. ASSUME NEW m \in 0..(k + 1) PROVE g[m] = Rule(g, m)
    <3>1. CASE m = 0
      BY <3>1
    <3>2. CASE m # 0
      <4>1. m - 1 \in 0..k
        BY <3>2
      <4>2. g[m - 1] = f[m - 1]
        BY <2>2, <4>1
      <4> QED BY <3>2, <4>2
    <3> QED BY <3>1, <3>2
  <2>4. g = [m \in 0..(k + 1) |-> Rule(g, m)]
    BY <2>3
  <2> QED BY <2>4
<1>3. Lack = {}
  <2> SUFFICES ASSUME Lack # {} PROVE FALSE
    OBVIOUS
  <2> HIDE DEF Have
  <2>1. PICK k \in Lack : \A j \in Lack : k <= j
    BY LeastNumber
  <2>2. k \in Nat /\ k # 0 /\ k - 1 \in Nat /\ k - 1 \notin Lack
    BY <1>1, <2>1
  <2>3. Have(k - 1) /\ (k - 1) + 1 = k
    BY <2>2
  <2> QED BY <1>2, <2>1, <2>2, <2>3
<1>4. Have(n)
  BY <1>3
<1> QED BY <1>4 DEF GivenUpTo

\* Each config is given a directory in view of those before it.
LEMMA OutputsAreGiven ==
  ASSUME NEW b \in Batches
  PROVE  \A j \in DOMAIN b :
           Outputs(b)[j] = Given(b, j, {Outputs(b)[k] : k \in 1..(j - 1)})
<1> DEFINE n == Len(b)
           f == CHOOSE g : GivenUpTo(b, g, n)
<1>1. n \in Nat /\ DOMAIN b = 1..n
  BY BatchesAreConfigs
<1>2. GivenUpTo(b, f, n)
  BY <1>1, GivenExists
<1>3. Outputs(b) = f[n]
  BY DEF Outputs, GivenUpTo, Given, Apart
<1> HIDE DEF f
<1>4. \A m \in 0..n :
        f[m] = IF m = 0 THEN <<>> ELSE Append(f[m - 1], Given(b, m, Range(f[m - 1])))
  <2> DEFINE g == [m \in 0..n |-> IF m = 0 THEN <<>>
                                  ELSE Append(f[m - 1], Given(b, m, Range(f[m - 1])))]
  <2>1. f = g /\ \A m \in 0..n : g[m] = IF m = 0 THEN <<>>
                                        ELSE Append(f[m - 1], Given(b, m, Range(f[m - 1])))
    BY <1>2 DEF GivenUpTo
  <2> HIDE DEF g
  <2> QED BY <2>1
<1> DEFINE Told(m) ==
             /\ f[m] \in Seq(Dirs) /\ Len(f[m]) = m
             /\ \A j \in 1..m : f[m][j] = Given(b, j, {f[m][k] : k \in 1..(j - 1)})
           Bad == {m \in 0..n : ~Told(m)}
<1>5. Told(0)
  <2>1. f[0] = <<>>
    BY <1>1, <1>4
  <2> QED BY <2>1
<1>6. ASSUME NEW m \in 0..n, m # 0, Told(m - 1) PROVE Told(m)
  <2> DEFINE l == m - 1
             old == f[l]
             given == Given(b, m, Range(old))
  <2>1. l \in Nat /\ l + 1 = m /\ m \in DOMAIN b
    BY <1>1, <1>6
  <2>2. old \in Seq(Dirs) /\ Len(old) = l /\ f[m] = Append(old, given) /\ given \in Dirs
    BY <1>4, <1>6, <2>1, GivenIsADir
  <2>3. \A j \in 1..l : old[j] = Given(b, j, {old[k] : k \in 1..(j - 1)})
    BY <1>6
  <2> HIDE DEF l, old
  <2>4. Range(old) = {old[k] : k \in 1..l}
    BY <2>1, <2>2 DEF Range
  <2> HIDE DEF given
  <2>5. /\ f[m] \in Seq(Dirs) /\ Len(f[m]) = m /\ f[m][m] = given
        /\ \A j \in 1..l : f[m][j] = old[j]
    BY <2>1, <2>2, AppendProperties
  <2>6. ASSUME NEW j \in 1..m PROVE f[m][j] = Given(b, j, {f[m][k] : k \in 1..(j - 1)})
    <3>1. {f[m][k] : k \in 1..(j - 1)} = {old[k] : k \in 1..(j - 1)}
      <4>1. \A k \in 1..(j - 1) : k \in 1..l
        BY <2>1
      <4> QED BY <2>5, <4>1
    <3>2. CASE j = m
      <4>1. j - 1 = l
        BY <2>1, <3>2
      <4> QED BY <2>4, <2>5, <3>1, <3>2, <4>1 DEF given
    <3>3. CASE j # m
      <4>1. j \in 1..l
        BY <2>1, <3>3
      <4> QED BY <2>3, <2>5, <3>1, <4>1
    <3> QED BY <3>2, <3>3
  <2> QED BY <2>5, <2>6
<1>7. Bad = {}
  <2> SUFFICES ASSUME Bad # {} PROVE FALSE
    OBVIOUS
  <2> HIDE DEF Told
  <2>1. Bad \in SUBSET Nat
    OBVIOUS
  <2>2. PICK m \in Bad : \A j \in Bad : m <= j
    BY <2>1, LeastNumber
  <2>3. m \in 0..n /\ m # 0 /\ ~Told(m)
    BY <1>5, <2>2
  <2>4. m - 1 \in 0..n /\ m - 1 \notin Bad
    BY <2>2, <2>3
  <2> QED BY <1>6, <2>3, <2>4
<1>8. Told(n)
  BY <1>1, <1>7
<1> QED BY <1>1, <1>3, <1>8

End(s) == s[Len(s)]

LEMMA EndOfAppend ==
  ASSUME NEW S, NEW s \in Seq(S), NEW x
  PROVE  End(Append(s, x)) = x /\ Append(s, x) # <<>>
<1>1. Len(s) \in Nat /\ Len(Append(s, x)) = Len(s) + 1 /\ Append(s, x)[Len(s) + 1] = x
  OBVIOUS
<1>2. Append(s, x) # <<>>
  BY <1>1
<1> QED BY <1>1, <1>2 DEF End

LEMMA EndIsInside ==
  ASSUME NEW S, NEW s \in Seq(S), s # <<>>
  PROVE  End(s) \in S
BY DEF End

\* A directory of names alone is no fallback: that ends in a number, and names
\* the place of its config.
LEMMA NamesAreNoFallback ==
  ASSUME PlainNames, NEW b \in Batches, NEW i \in DOMAIN b, NEW j \in DOMAIN b, i # j
  PROVE  /\ Append(b[i].output, Append(Subdir(b, i), i)) # b[j].output
         /\ Append(b[i].output, Append(Subdir(b, i), i)) # Append(b[j].output, Subdir(b, j))
         /\ Append(b[i].output, Append(Subdir(b, i), i))
              # Append(b[j].output, Append(Subdir(b, j), j))
<1>1. b \in Seq(Config) /\ i \in Nat /\ j \in Nat /\ b[i] \in Config /\ b[j] \in Config
  BY BatchesAreConfigs
<1>2. /\ b[i].output \in Seq(Seq(Name)) /\ b[j].output \in Seq(Seq(Name))
      /\ DirName(b[i]) \in Seq(Name) /\ DirName(b[j]) \in Seq(Name)
      /\ Name \cap Nat = {} /\ Device \cap Nat = {}
  BY DEF PlainNames, DirName
<1>3. ASSUME NEW c \in {i, j}
      PROVE  /\ Subdir(b, c) \in Seq(Part)
             /\ Subdir(b, c) \in Seq(Name) \/ End(Subdir(b, c)) \in Device \cup {c}
  <2> DEFINE tail == IF DeviceKey(b[c]) # None THEN DeviceKey(b[c]) ELSE c
  <2>1. DeviceKey(b[c]) \in Device \cup {None}
    BY <1>1 DEF Config, DeviceKey, Or
  <2>2. tail \in Device \cup {c} /\ tail \in Part
    BY <1>1, <2>1 DEF Part
  <2> HIDE DEF tail
  <2>3. DirName(b[c]) \in Seq(Name) /\ DirName(b[c]) \in Seq(Part)
    BY <1>1, <1>2 DEF DirName, Config
  <2>4. Append(DirName(b[c]), tail) \in Seq(Part) /\ End(Append(DirName(b[c]), tail)) = tail
    BY <2>2, <2>3, EndOfAppend
  <2> QED BY <2>2, <2>3, <2>4 DEF Subdir, tail
<1> DEFINE A == Append(Subdir(b, i), i)
           W == Append(b[i].output, A)
<1>4. Subdir(b, i) \in Seq(Part) /\ Subdir(b, j) \in Seq(Part)
  BY <1>3
<1>5. End(A) = i /\ A # <<>>
  BY <1>4, EndOfAppend
<1>6. b[i].output \in Seq(Seq(Part)) /\ b[j].output \in Seq(Seq(Part))
  BY <1>1 DEF Config
<1> HIDE DEF A
<1>7. End(W) = A /\ W # <<>>
  BY <1>6, EndOfAppend
<1> HIDE DEF W
<1>8. W # b[j].output
  <2> SUFFICES ASSUME W = b[j].output PROVE FALSE
    OBVIOUS
  <2>1. A \in Seq(Name)
    BY <1>2, <1>7, EndIsInside
  <2>2. i \in Name
    BY <1>5, <2>1, EndIsInside
  <2> QED BY <1>1, <1>2, <2>2
<1>9. W # Append(b[j].output, Subdir(b, j))
  <2> SUFFICES ASSUME A = Subdir(b, j) PROVE FALSE
    BY <1>6, <1>7, EndOfAppend
  <2>1. CASE Subdir(b, j) \in Seq(Name)
    <3>1. i \in Name
      BY <1>5, <2>1, EndIsInside
    <3> QED BY <1>1, <1>2, <3>1
  <2>2. CASE End(Subdir(b, j)) \in Device \cup {j}
    BY <1>1, <1>2, <1>5, <2>2
  <2> QED BY <1>3, <2>1, <2>2
<1>10. W # Append(b[j].output, Append(Subdir(b, j), j))
  <2> SUFFICES ASSUME A = Append(Subdir(b, j), j) PROVE FALSE
    BY <1>6, <1>7, EndOfAppend
  <2>1. End(A) = j
    BY <1>4, EndOfAppend
  <2> QED BY <1>5, <2>1
<1> QED BY <1>8, <1>9, <1>10 DEF W, A

\* No two configs are given one directory.
LEMMA DirsAreApart ==
  ASSUME PlainNames, NEW b \in Batches, NEW i \in DOMAIN b, NEW j \in DOMAIN b, i < j
  PROVE  Outputs(b)[i] # Outputs(b)[j]
<1> DEFINE given(c) == {Outputs(b)[k] : k \in 1..(c - 1)}
           asked(c) == Append(b[c].output, Subdir(b, c))
           last(c) == Append(b[c].output, Append(Subdir(b, c), c))
<1>1. i \in Nat /\ j \in Nat /\ i # j /\ Outputs(b)[i] \in given(j)
  <2>1. DOMAIN b = 1..Len(b) /\ Len(b) \in Nat
    BY BatchesAreConfigs
  <2>2. i \in 1..(j - 1)
    BY <2>1
  <2> QED BY <2>1, <2>2
<1>2. /\ Outputs(b)[i] = Given(b, i, given(i))
      /\ Outputs(b)[j] = Given(b, j, given(j))
  BY OutputsAreGiven
<1>3. \A c \in {i, j} :
        /\ c \notin Clashing(b) => Outputs(b)[c] = b[c].output /\ b[c].output \in Apart(b)
        /\ c \in Clashing(b) =>
             \/ Outputs(b)[c] = asked(c) /\ asked(c) \notin Apart(b) \cup given(c)
             \/ Outputs(b)[c] = last(c)
  BY <1>2 DEF Given, Claimed, Apart
<1>4. /\ last(i) # b[j].output /\ last(i) # asked(j) /\ last(i) # last(j)
      /\ last(j) # b[i].output /\ last(j) # asked(i)
  BY <1>1, NamesAreNoFallback
<1> HIDE DEF given, asked, last
<1>5. CASE i \notin Clashing(b) /\ j \notin Clashing(b)
  BY <1>1, <1>3, <1>5 DEF Clashing
<1>6. CASE i \notin Clashing(b) /\ j \in Clashing(b)
  BY <1>3, <1>4, <1>6
<1>7. CASE i \in Clashing(b) /\ j \notin Clashing(b)
  BY <1>3, <1>4, <1>7
<1>8. CASE i \in Clashing(b) /\ j \in Clashing(b)
  BY <1>1, <1>3, <1>4, <1>8
<1> QED BY <1>5, <1>6, <1>7, <1>8

\* No two configs of a batch write to one directory, if none is named like a
\* fallback (_isolate_colliding_outputs).
THEOREM OutputsStayApart ==
  ASSUME PlainNames
  PROVE  Spec => []OutputsApart
<1>1. Init => OutputsApart
  <2> SUFFICES ASSUME Init PROVE OutputsApart
    OBVIOUS
  <2>1. PICK b \in Batches : batch = Isolated(b)
    BY DEF Init
  <2>2. DOMAIN b \subseteq Nat
    BY BatchesAreConfigs
  <2>3. Kits = DOMAIN b /\ \A i \in Kits : batch[i].output = Outputs(b)[i]
    <3>1. \A i \in DOMAIN b : b[i] \in Config
      BY BatchesAreConfigs
    <3> QED BY <2>1, <3>1 DEF Isolated, Kits, Config
  <2>4. \A i, j \in Kits : i < j => batch[i].output # batch[j].output
    BY <2>3, DirsAreApart
  <2>5. \A i, j \in Kits : i # j => i < j \/ j < i
    BY <2>2, <2>3
  <2> QED BY <2>4, <2>5 DEF OutputsApart
<1>2. BatchInv /\ OutputsApart /\ [Next]_vars => OutputsApart'
  <2> SUFFICES ASSUME BatchInv, OutputsApart, [Next]_vars PROVE OutputsApart'
    OBVIOUS
  <2>1. UNCHANGED batch
    BY OneMoves DEF BatchInv, vars
  <2> QED BY <2>1 DEF OutputsApart, Kits
<1> QED BY <1>1, <1>2, BooksAreKept, PTL DEF Spec

-----------------------------------------------------------------------------
(* The return: one summary per config, in their order *)

Rank(S, i) == Cardinality({j \in S : j < i})

\* The configs of a set are numbered from 1 in config order.
LEMMA RanksGrow ==
  ASSUME NEW N \in Nat, NEW S \in SUBSET (1..N)
  PROVE  /\ IsFiniteSet(S) /\ Cardinality(S) \in Nat
         /\ \A i \in S : Rank(S, i) \in Nat /\ Rank(S, i) < Cardinality(S)
         /\ \A i, j \in S : i < j => Rank(S, i) < Rank(S, j)
<1>1. IsFiniteSet(S)
  <2>1. IsFiniteSet(1..N)
    BY FS_Interval
  <2> QED BY <2>1, FS_Subset
<1>2. Cardinality(S) \in Nat
  BY <1>1, FS_CardinalityType
<1>3. ASSUME NEW i \in S, NEW T \in SUBSET S, i \in T, \A k \in S : k < i => k \in T
      PROVE  Rank(S, i) \in Nat /\ Rank(S, i) < Cardinality(T)
  <2> DEFINE low == {k \in S : k < i}
  <2>1. IsFiniteSet(T) /\ IsFiniteSet(low)
    BY <1>1, FS_Subset
  <2>2. i \notin low /\ low \cup {i} \in SUBSET T
    <3>1. \A k \in S : k \in Nat /\ ~(k < k)
      OBVIOUS
    <3>2. low \subseteq T
      BY <1>3
    <3> QED BY <1>3, <3>1, <3>2
  <2>3. Cardinality(low \cup {i}) = Cardinality(low) + 1
    BY <2>1, <2>2, FS_AddElement
  <2>4. Cardinality(low \cup {i}) <= Cardinality(T)
    BY <2>1, <2>2, FS_Subset
  <2>5. Cardinality(low) \in Nat /\ Cardinality(T) \in Nat
    BY <2>1, FS_CardinalityType
  <2> HIDE DEF low
  <2>6. Cardinality(low) < Cardinality(T)
    BY <2>3, <2>4, <2>5
  <2> QED BY <2>5, <2>6 DEF Rank, low
<1>4. \A i \in S : Rank(S, i) \in Nat /\ Rank(S, i) < Cardinality(S)
  BY <1>3
<1>5. ASSUME NEW i \in S, NEW j \in S, i < j PROVE Rank(S, i) < Rank(S, j)
  <2>1. i \in {k \in S : k < j} /\ \A k \in S : k < i => k \in {l \in S : l < j}
    BY <1>5
  <2> QED BY <1>3, <2>1 DEF Rank
<1> QED BY <1>1, <1>2, <1>4, <1>5

\* Nth goes through the numbers of a set.
LEMMA NthCounts ==
  ASSUME NEW N \in Nat, NEW S \in SUBSET (1..N)
  PROVE  /\ Cardinality(S) \in Nat
         /\ \A n \in 1..Cardinality(S) : Nth(S, n) \in S /\ Rank(S, Nth(S, n)) = n - 1
         /\ \A i \in S : /\ Rank(S, i) + 1 \in 1..Cardinality(S)
                         /\ Nth(S, Rank(S, i) + 1) = i
<1> DEFINE c == Cardinality(S)
<1>1. IsFiniteSet(S) /\ c \in Nat
  BY RanksGrow
<1>2. \A i \in S : Rank(S, i) \in Nat /\ Rank(S, i) < c
  BY RanksGrow
<1>3. \A i, j \in S : i < j => Rank(S, i) < Rank(S, j)
  BY RanksGrow
<1>4. \A i, j \in S : i # j => Rank(S, i) # Rank(S, j)
  BY <1>2, <1>3
<1> DEFINE F == [i \in S |-> Rank(S, i) + 1]
<1>5. F \in [S -> 1..c] /\ \A i, j \in S : F[i] = F[j] => i = j
  BY <1>1, <1>2, <1>4
<1>6. IsFiniteSet(1..c) /\ Cardinality(1..c) = c
  BY <1>1, FS_Interval
<1>7. \A n \in 1..c : \E i \in S : F[i] = n
  <2> HIDE DEF F
  <2>1. F \in Injection(S, 1..c)
    BY <1>5 DEF Injection, IsInjective
  <2>2. F \in Surjection(S, 1..c)
    BY <1>6, <2>1, FS_Injection
  <2> QED BY <2>2 DEF Surjection
<1>8. ASSUME NEW n \in 1..c PROVE Nth(S, n) \in S /\ Rank(S, Nth(S, n)) = n - 1
  <2>1. PICK i \in S : F[i] = n
    BY <1>7
  <2>2. Rank(S, i) = n - 1
    BY <1>2, <2>1
  <2> QED BY <2>2 DEF Nth, Rank
<1>9. ASSUME NEW i \in S
      PROVE  Rank(S, i) + 1 \in 1..c /\ Nth(S, Rank(S, i) + 1) = i
  <2>1. Rank(S, i) + 1 \in 1..c /\ (Rank(S, i) + 1) - 1 = Rank(S, i)
    BY <1>1, <1>2
  <2>2. Nth(S, Rank(S, i) + 1) \in S /\ Rank(S, Nth(S, Rank(S, i) + 1)) = Rank(S, i)
    BY <1>8, <2>1
  <2> QED BY <1>4, <2>1, <2>2
<1> QED BY <1>1, <1>8, <1>9

\* A list of a set: each member is in it once.
Lists(q, S) ==
  /\ q \in Seq(S)
  /\ \A m, n \in 1..Len(q) : m # n => q[m] # q[n]
  /\ \A x \in S : \E n \in 1..Len(q) : q[n] = x

\* The lists of two sets with no common member, one after the other.
LEMMA ListsJoin ==
  ASSUME NEW S, NEW T, NEW q, NEW r, S \cap T = {}, Lists(q, S), Lists(r, T)
  PROVE  Lists(q \o r, S \cup T)
<1> DEFINE a == Len(q)
           b == Len(r)
           both == q \o r
<1>1. /\ q \in Seq(S) /\ \A n \in 1..a : q[n] \in S
      /\ r \in Seq(T) /\ \A n \in 1..b : r[n] \in T
      /\ a \in Nat /\ b \in Nat
  BY DEF Lists
<1>2. q \in Seq(S \cup T) /\ r \in Seq(S \cup T)
  BY <1>1
<1>3. /\ both \in Seq(S \cup T) /\ Len(both) = a + b
      /\ \A n \in 1..(a + b) : both[n] = IF n <= a THEN q[n] ELSE r[n - a]
  BY <1>2
<1>4. /\ \A m, n \in 1..a : m # n => q[m] # q[n]
      /\ \A m, n \in 1..b : m # n => r[m] # r[n]
      /\ \A x \in S : \E n \in 1..a : q[n] = x
      /\ \A x \in T : \E n \in 1..b : r[n] = x
  BY DEF Lists
<1> HIDE DEF a, b, both
<1>5. ASSUME NEW m \in 1..(a + b), NEW n \in 1..(a + b), m # n PROVE both[m] # both[n]
  <2>1. CASE m <= a /\ n <= a
    <3>1. m \in 1..a /\ n \in 1..a
      BY <1>1, <2>1
    <3> QED BY <1>3, <1>4, <1>5, <3>1, <2>1
  <2>2. CASE ~(m <= a) /\ ~(n <= a)
    <3>1. m - a \in 1..b /\ n - a \in 1..b /\ m - a # n - a
      BY <1>1, <1>5, <2>2
    <3> QED BY <1>3, <1>4, <3>1, <2>2
  <2>3. CASE m <= a /\ ~(n <= a)
    <3>1. m \in 1..a /\ n - a \in 1..b
      BY <1>1, <2>3
    <3> QED BY <1>1, <1>3, <3>1, <2>3
  <2>4. CASE ~(m <= a) /\ n <= a
    <3>1. n \in 1..a /\ m - a \in 1..b
      BY <1>1, <2>4
    <3> QED BY <1>1, <1>3, <3>1, <2>4
  <2> QED BY <2>1, <2>2, <2>3, <2>4
<1>6. ASSUME NEW x \in S \cup T PROVE \E n \in 1..(a + b) : both[n] = x
  <2>1. CASE x \in S
    <3>1. PICK n \in 1..a : q[n] = x
      BY <1>4, <2>1
    <3>2. n \in 1..(a + b) /\ n <= a
      BY <1>1
    <3> QED BY <1>3, <3>1, <3>2
  <2>2. CASE x \in T
    <3>1. PICK n \in 1..b : r[n] = x
      BY <1>4, <2>2
    <3>2. n + a \in 1..(a + b) /\ ~(n + a <= a) /\ (n + a) - a = n
      BY <1>1
    <3> QED BY <1>3, <3>1, <3>2
  <2> QED BY <2>1, <2>2
<1> QED BY <1>3, <1>5, <1>6 DEF Lists, both

-----------------------------------------------------------------------------
(* The answers of the groups, one after the other *)

Flatten(f, R, k) == f = [i \in 1..k |-> IF i = 1 THEN R[i] ELSE f[i - 1] \o R[i]]

\* There is such a function: one for the first rows goes on to the next.
LEMMA FlattenExists ==
  ASSUME NEW R, NEW k \in Nat
  PROVE  \E f : Flatten(f, R, k)
<1> DEFINE Rule(f, i) == IF i = 1 THEN R[i] ELSE f[i - 1] \o R[i]
           Have(m) == \E f : f = [i \in 1..m |-> Rule(f, i)]
           Lack == {m \in Nat : ~Have(m)}
<1>1. Have(0)
  <2> DEFINE f == [i \in 1..0 |-> 0]
  <2>1. f = [i \in 1..0 |-> Rule(f, i)]
    OBVIOUS
  <2> QED BY <2>1
<1>2. ASSUME NEW m \in Nat, Have(m) PROVE Have(m + 1)
  <2>1. PICK f : f = [i \in 1..m |-> Rule(f, i)]
    BY <1>2
  <2> DEFINE g == [i \in 1..(m + 1) |-> Rule(f, i)]
  <2>2. ASSUME NEW i \in 1..m PROVE g[i] = f[i]
    <3>1. f[i] = Rule(f, i)
      BY <2>1
    <3>2. i \in 1..(m + 1)
      OBVIOUS
    <3> HIDE DEF Rule
    <3>3. g[i] = Rule(f, i)
      BY <3>2
    <3> QED BY <3>1, <3>3
  <2>3. ASSUME NEW i \in 1..(m + 1) PROVE g[i] = Rule(g, i)
    <3>1. CASE i = 1
      BY <3>1
    <3>2. CASE i # 1
      <4>1. i - 1 \in 1..m
        BY <3>2
      <4>2. g[i - 1] = f[i - 1]
        BY <2>2, <4>1
      <4> QED BY <3>2, <4>2
    <3> QED BY <3>1, <3>2
  <2>4. g = [i \in 1..(m + 1) |-> Rule(g, i)]
    BY <2>3
  <2> QED BY <2>4
<1>3. Lack = {}
  <2> SUFFICES ASSUME Lack # {} PROVE FALSE
    OBVIOUS
  <2> HIDE DEF Have
  <2>1. PICK m \in Lack : \A j \in Lack : m <= j
    BY LeastNumber
  <2>2. m \in Nat /\ m # 0 /\ m - 1 \in Nat /\ m - 1 \notin Lack
    BY <1>1, <2>1
  <2>3. Have(m - 1) /\ (m - 1) + 1 = m
    BY <2>2
  <2> QED BY <1>2, <2>1, <2>2, <2>3
<1>4. Have(k)
  BY <1>3
<1> QED BY <1>4 DEF Flatten

\* The members of the first k of the sets of P.
UpTo(P, k) == UNION {P[i] : i \in 1..k}

\* Lists of sets that have no common members make one list of them all.
LEMMA FlattenLists ==
  ASSUME NEW X, NEW R \in Seq(Seq(X)), NEW P,
         \A i \in 1..Len(R) : Lists(R[i], P[i]),
         \A i, j \in 1..Len(R) : i # j => P[i] \cap P[j] = {}
  PROVE  Lists(FlattenSeq(R), UpTo(P, Len(R)))
<1> DEFINE n == Len(R)
           F == CHOOSE f : Flatten(f, R, n)
<1>1. n \in Nat
  OBVIOUS
<1>2. CASE n = 0
  <2>1. R = <<>> /\ FlattenSeq(R) = <<>>
    BY <1>2 DEF FlattenSeq
  <2>2. UpTo(P, n) = {}
    BY <1>2 DEF UpTo
  <2>3. Lists(<<>>, {})
    BY DEF Lists
  <2> QED BY <2>1, <2>2, <2>3
<1>3. CASE n # 0
  <2>1. Flatten(F, R, n)
    BY <1>1, FlattenExists
  <2>2. FlattenSeq(R) = F[n]
    BY <1>3 DEF FlattenSeq, Flatten
  <2> HIDE DEF F
  <2>3. \A i \in 1..n : F[i] = IF i = 1 THEN R[i] ELSE F[i - 1] \o R[i]
    <3> DEFINE G == [i \in 1..n |-> IF i = 1 THEN R[i] ELSE F[i - 1] \o R[i]]
    <3>1. F = G /\ \A i \in 1..n : G[i] = IF i = 1 THEN R[i] ELSE F[i - 1] \o R[i]
      BY <2>1 DEF Flatten
    <3> HIDE DEF G
    <3> QED BY <3>1
  <2> HIDE DEF n
  <2> DEFINE Bad == {k \in 1..n : ~Lists(F[k], UpTo(P, k))}
  <2>4. Lists(F[1], UpTo(P, 1))
    <3>1. 1 \in 1..n /\ F[1] = R[1] /\ Lists(R[1], P[1])
      BY <1>1, <1>3, <2>3 DEF n
    <3>2. UpTo(P, 1) = P[1]
      <4>1. 1..1 = {1}
        OBVIOUS
      <4> QED BY <4>1 DEF UpTo
    <3> QED BY <3>1, <3>2
  <2>5. ASSUME NEW k \in 1..n, k # 1, Lists(F[k - 1], UpTo(P, k - 1))
        PROVE  Lists(F[k], UpTo(P, k))
    <3>1. k \in Nat /\ k - 1 \in Nat /\ k - 1 \in 1..n /\ F[k] = F[k - 1] \o R[k]
      <4>1. k \in Nat /\ k - 1 \in Nat /\ k - 1 \in 1..n
        BY <1>1, <2>5
      <4>2. F[k] = IF k = 1 THEN R[k] ELSE F[k - 1] \o R[k]
        BY <2>3
      <4> QED BY <2>5, <4>1, <4>2
    <3>2. Lists(R[k], P[k])
      BY DEF n
    <3>3. UpTo(P, k) = UpTo(P, k - 1) \cup P[k]
      <4>1. 1..k = (1..(k - 1)) \cup {k}
        BY <3>1
      <4> QED BY <4>1 DEF UpTo
    <3>4. UpTo(P, k - 1) \cap P[k] = {}
      <4>1. \A i \in 1..(k - 1) : i \in 1..n /\ i # k
        BY <1>1, <3>1
      <4>2. \A i \in 1..(k - 1) : P[i] \cap P[k] = {}
        BY <4>1 DEF n
      <4> QED BY <4>2 DEF UpTo
    <3> QED BY <2>5, <3>1, <3>2, <3>3, <3>4, ListsJoin
  <2>6. Bad = {}
    <3> SUFFICES ASSUME Bad # {} PROVE FALSE
      OBVIOUS
    <3>1. PICK k \in Bad : \A j \in Bad : k <= j
      <4>1. Bad \in SUBSET Nat
        OBVIOUS
      <4> HIDE DEF Bad
      <4> QED BY <4>1, LeastNumber
    <3>2. k \in 1..n /\ k # 1
      BY <2>4, <3>1
    <3>3. k - 1 \in 1..n /\ k - 1 \notin Bad
      BY <1>1, <3>1, <3>2
    <3> QED BY <2>5, <3>1, <3>2, <3>3
  <2>7. n \in 1..n
    BY <1>1, <1>3
  <2> QED BY <2>2, <2>6, <2>7 DEF n
<1> QED BY <1>2, <1>3

\* What run_kits tells of some configs.
Answers(S) == {<<i, summary[i]>> : i \in S}

\* A group's thread gathers an answer for each config of the group.
LEMMA GatheredLists ==
  ASSUME NEW N \in Nat, Kits = 1..N, NEW g
  PROVE  Lists(Gathered(g), Answers(Group(g)))
<1> DEFINE G == Group(g)
           c == Cardinality(G)
<1>1. G \in SUBSET (1..N)
  BY DEF Group
<1> HIDE DEF G
<1>2. c \in Nat
  BY <1>1, NthCounts
<1>3. \A n \in 1..c : Nth(G, n) \in G /\ Rank(G, Nth(G, n)) = n - 1
  BY <1>1, NthCounts
<1>4. \A i \in G : Rank(G, i) + 1 \in 1..c /\ Nth(G, Rank(G, i) + 1) = i
  BY <1>1, NthCounts
<1>5. Gathered(g) = [n \in 1..c |-> <<Nth(G, n), summary[Nth(G, n)]>>]
  BY DEF Gathered, G
<1> HIDE DEF c
<1>6. \A n \in 1..c : Gathered(g)[n] = <<Nth(G, n), summary[Nth(G, n)]>>
  BY <1>5
<1>7. \A n \in 1..c : Gathered(g)[n] \in Answers(G)
  BY <1>3, <1>6 DEF Answers
<1>8. Gathered(g) \in Seq(Answers(G)) /\ Len(Gathered(g)) = c
  <2>1. Gathered(g) \in [1..c -> Answers(G)]
    BY <1>5, <1>7
  <2> QED BY <1>2, <2>1
<1>9. ASSUME NEW m \in 1..c, NEW n \in 1..c, m # n PROVE Gathered(g)[m] # Gathered(g)[n]
  <2>1. Nth(G, m) # Nth(G, n)
    <3>1. m - 1 # n - 1
      BY <1>2, <1>9
    <3> QED BY <1>3, <3>1
  <2> QED BY <1>6, <2>1
<1>10. ASSUME NEW x \in Answers(G) PROVE \E n \in 1..c : Gathered(g)[n] = x
  <2>1. PICK i \in G : x = <<i, summary[i]>>
    BY DEF Answers
  <2> QED BY <1>4, <1>6, <2>1
<1> QED BY <1>8, <1>9, <1>10 DEF Lists, G

\* The pool collects an answer for each config of the batch.
LEMMA CollectedLists ==
  ASSUME NEW N \in Nat, Kits = 1..N
  PROVE  Lists(Collected, Answers(Kits))
<1> DEFINE c == Cardinality(Heads)
           groupAt(n) == GroupOf(Nth(Heads, n))
           R == [n \in 1..c |-> Gathered(groupAt(n))]
           P == [n \in 1..c |-> Answers(Group(groupAt(n)))]
<1>1. Heads \in SUBSET (1..N)
  BY DEF Heads
<1>2. c \in Nat
  BY <1>1, NthCounts
<1>3. \A n \in 1..c : Nth(Heads, n) \in Heads /\ Rank(Heads, Nth(Heads, n)) = n - 1
  BY <1>1, NthCounts
<1>4. \A i \in Heads : \E n \in 1..c : Nth(Heads, n) = i
  BY <1>1, NthCounts
<1>5. Collected = FlattenSeq(R)
  BY DEF Collected
<1> HIDE DEF c
<1>6. \A n \in 1..c : R[n] = Gathered(groupAt(n)) /\ P[n] = Answers(Group(groupAt(n)))
  OBVIOUS
<1>7. \A n \in 1..c : Lists(R[n], P[n])
  BY <1>6, GatheredLists
<1>8. R \in Seq(Seq(Answers(Kits))) /\ Len(R) = c
  <2>1. \A n \in 1..c : R[n] \in Seq(Answers(Kits))
    <3> SUFFICES ASSUME NEW n \in 1..c PROVE R[n] \in Seq(Answers(Kits))
      OBVIOUS
    <3>1. R[n] \in Seq(P[n])
      BY <1>7 DEF Lists
    <3>2. P[n] \subseteq Answers(Kits)
      BY <1>6 DEF Answers, Group
    <3> HIDE DEF R, P
    <3> QED BY <3>1, <3>2
  <2>2. R \in [1..c -> Seq(Answers(Kits))]
    BY <2>1
  <2> HIDE DEF R
  <2> QED BY <1>2, <2>2
<1>9. ASSUME NEW m \in 1..c, NEW n \in 1..c, m # n PROVE P[m] \cap P[n] = {}
  <2> DEFINE h == Nth(Heads, m)
             k == Nth(Heads, n)
  <2>1. h \in Heads /\ k \in Heads /\ h # k
    <3>1. m - 1 # n - 1
      BY <1>2, <1>9
    <3> QED BY <1>3, <3>1
  <2>2. GroupOf(h) # GroupOf(k)
    <3> HIDE DEF h, k
    <3> SUFFICES ASSUME GroupOf(h) = GroupOf(k) PROVE FALSE
      OBVIOUS
    <3>1. h \in Kits /\ k \in Kits /\ h \in Nat /\ k \in Nat
      BY <1>1, <2>1 DEF Heads
    <3>2. h <= k /\ k <= h
      BY <2>1, <3>1 DEF Heads, Group
    <3> QED BY <2>1, <3>1, <3>2
  <2>3. Group(GroupOf(h)) \cap Group(GroupOf(k)) = {}
    BY <2>2 DEF Group
  <2>4. P[m] = Answers(Group(GroupOf(h))) /\ P[n] = Answers(Group(GroupOf(k)))
    BY <1>6
  <2> HIDE DEF P, h, k
  <2> QED BY <2>3, <2>4 DEF Answers
<1>10. UpTo(P, c) = Answers(Kits)
  <2>1. ASSUME NEW i \in Kits PROVE \E n \in 1..c : i \in Group(groupAt(n))
    <3> DEFINE G == Group(GroupOf(i))
    <3>1. G \in SUBSET Nat /\ i \in G
      BY DEF Group
    <3>2. PICK h \in G : \A j \in G : h <= j
      <4> HIDE DEF G
      <4> QED BY <3>1, LeastNumber
    <3>3. h \in Kits /\ GroupOf(h) = GroupOf(i)
      BY DEF Group
    <3>4. h \in Heads
      BY <3>2, <3>3 DEF Heads
    <3>5. PICK n \in 1..c : Nth(Heads, n) = h
      BY <1>4, <3>4
    <3> QED BY <3>1, <3>3, <3>5
  <2>2. ASSUME NEW x \in Answers(Kits) PROVE \E n \in 1..c : x \in P[n]
    <3>1. PICK i \in Kits : x = <<i, summary[i]>>
      BY DEF Answers
    <3>2. PICK n \in 1..c : i \in Group(groupAt(n))
      BY <2>1
    <3>3. P[n] = Answers(Group(groupAt(n)))
      BY <1>6
    <3> HIDE DEF P, groupAt
    <3> QED BY <3>1, <3>2, <3>3 DEF Answers
  <2>3. ASSUME NEW n \in 1..c PROVE P[n] \subseteq Answers(Kits)
    <3>1. P[n] = Answers(Group(groupAt(n))) /\ Group(groupAt(n)) \subseteq Kits
      BY <1>6 DEF Group
    <3> HIDE DEF P, groupAt
    <3> QED BY <3>1 DEF Answers
  <2> HIDE DEF P
  <2> QED BY <2>2, <2>3 DEF UpTo
<1> HIDE DEF R, P
<1> QED BY <1>5, <1>7, <1>8, <1>9, <1>10, FlattenLists

\* Sorted, the answers are in the order of the configs, one for each.
LEMMA AnswersAreSorted ==
  ASSUME NEW N \in Nat, NEW pairs, Lists(pairs, Answers(1..N))
  PROVE  InConfigOrder(pairs) = [n \in 1..N |-> <<n, summary[n]>>]
<1> DEFINE l == Len(pairs)
           F == [n \in 1..l |-> pairs[n][1]]
<1>1. /\ pairs \in Seq(Answers(1..N)) /\ l \in Nat /\ DOMAIN pairs = 1..l
      /\ \A m, n \in 1..l : m # n => pairs[m] # pairs[n]
      /\ \A x \in Answers(1..N) : \E n \in 1..l : pairs[n] = x
  BY DEF Lists
<1> HIDE DEF l
<1>2. \A n \in 1..l : pairs[n] \in Answers(1..N)
  BY <1>1
<1>3. \A n \in 1..l : pairs[n][1] \in 1..N /\ pairs[n] = <<pairs[n][1], summary[pairs[n][1]]>>
  BY <1>2 DEF Answers
<1>4. l = N
  <2>1. F \in [1..l -> 1..N] /\ \A n \in 1..l : F[n] = pairs[n][1]
    BY <1>3
  <2>2. \A i \in 1..N : \E n \in 1..l : F[n] = i
    <3> SUFFICES ASSUME NEW i \in 1..N PROVE \E n \in 1..l : F[n] = i
      OBVIOUS
    <3>1. <<i, summary[i]>> \in Answers(1..N)
      BY DEF Answers
    <3>2. PICK n \in 1..l : pairs[n] = <<i, summary[i]>>
      BY <1>1, <3>1
    <3> QED BY <2>1, <3>2
  <2> HIDE DEF F
  <2>3. F \in Injection(1..l, 1..N)
    <3>1. ASSUME NEW m \in 1..l, NEW n \in 1..l, F[m] = F[n] PROVE m = n
      <4>1. pairs[m][1] = pairs[n][1]
        BY <2>1, <3>1
      <4>2. pairs[m] = pairs[n]
        BY <1>3, <4>1
      <4> QED BY <1>1, <4>2
    <3> QED BY <2>1, <3>1 DEF Injection, IsInjective
  <2>4. F \in Surjection(1..l, 1..N)
    BY <2>1, <2>2 DEF Surjection
  <2>5. IsFiniteSet(1..l) /\ IsFiniteSet(1..N) /\ Cardinality(1..l) = l /\ Cardinality(1..N) = N
    BY <1>1, FS_Interval
  <2> QED BY <2>3, <2>4, <2>5, FS_Injection
<1>5. Range(pairs) = Answers(1..N)
  BY <1>1, <1>2 DEF Range
<1>6. {q[1] : q \in Answers(1..N)} = 1..N
  <2>1. ASSUME NEW q \in Answers(1..N) PROVE q[1] \in 1..N
    BY DEF Answers
  <2>2. ASSUME NEW i \in 1..N PROVE \E q \in Answers(1..N) : q[1] = i
    <3>1. <<i, summary[i]>> \in Answers(1..N) /\ <<i, summary[i]>>[1] = i
      BY DEF Answers
    <3> QED BY <3>1
  <2> QED BY <2>1, <2>2
<1>7. ASSUME NEW n \in 1..N PROVE Nth(1..N, n) = n
  <2>1. {j \in 1..N : j < n} = 1..(n - 1)
    OBVIOUS
  <2>2. Rank(1..N, n) = n - 1
    <3>1. Cardinality(1..(n - 1)) = n - 1
      BY FS_Interval
    <3> QED BY <2>1, <3>1 DEF Rank
  <2>3. (n - 1) + 1 = n
    OBVIOUS
  <2>4. Nth(1..N, Rank(1..N, n) + 1) = n
    <3> DEFINE S == 1..N
    <3>1. S \in SUBSET (1..N) /\ n \in S
      OBVIOUS
    <3> HIDE DEF S
    <3>2. \A i \in S : Nth(S, Rank(S, i) + 1) = i
      BY <3>1, NthCounts
    <3> QED BY <3>1, <3>2 DEF S
  <2> QED BY <2>2, <2>3, <2>4
<1>8. ASSUME NEW n \in 1..N
      PROVE  (CHOOSE p \in Answers(1..N) : p[1] = n) = <<n, summary[n]>>
  BY DEF Answers
<1>9. InConfigOrder(pairs) =
        [n \in 1..N |-> CHOOSE p \in Answers(1..N) : p[1] = Nth(1..N, n)]
  <2> DEFINE D == DOMAIN pairs
             A == Range(pairs)
             I == {q[1] : q \in A}
  <2>1. InConfigOrder(pairs) = [n \in D |-> CHOOSE p \in A : p[1] = Nth(I, n)]
    BY DEF InConfigOrder
  <2>2. D = 1..N
    BY <1>1, <1>4
  <2>3. A = Answers(1..N)
    BY <1>5
  <2> HIDE DEF A, D
  <2>4. I = 1..N
    BY <1>6, <2>3
  <2> HIDE DEF I
  <2> QED BY <2>1, <2>2, <2>3, <2>4
<1> QED BY <1>7, <1>8, <1>9

-----------------------------------------------------------------------------
\* The places of the configs in their batch, and what the return rests on.
OrderInv ==
  /\ Len(batch) \in Nat /\ Kits = 1..Len(batch)
  /\ SummariesKnown /\ ReturnsInOrder

LEMMA InitIsOrdered == Init => OrderInv
<1> SUFFICES ASSUME Init PROVE OrderInv
  OBVIOUS
<1>1. PICK b \in Batches : batch = Isolated(b) /\ at = [i \in DOMAIN b |-> "waiting"]
  BY DEF Init
<1>2. Len(b) \in Nat /\ DOMAIN b = 1..Len(b)
  BY BatchesAreConfigs
<1>3. batch = [i \in 1..Len(b) |-> batch[i]]
  BY <1>1, <1>2 DEF Isolated
<1>4. Len(batch) = Len(b) /\ Kits = 1..Len(b)
  <2>1. batch \in Seq({batch[i] : i \in 1..Len(b)})
    BY <1>2, <1>3
  <2>2. DOMAIN batch = 1..Len(b) /\ DOMAIN batch = 1..Len(batch) /\ Len(batch) \in Nat
    BY <1>3, <2>1
  <2> QED BY <1>2, <2>2 DEF Kits
<1>5. SummariesKnown /\ ReturnsInOrder
  BY <1>1, <1>2, <1>4 DEF Init, SummariesKnown, ReturnsInOrder
<1> QED BY <1>2, <1>4, <1>5 DEF OrderInv

\* A config ends with its summary, and no other's changes with it.
LEMMA SummarySettles ==
  ASSUME TypeOK, SummariesKnown, NEW i \in Kits, KitStep(i)
  PROVE  /\ UNCHANGED <<batch, returned>> /\ at[i] # "done"
         /\ \A j \in Kits : at'[j] = "done" => summary'[j] # None
<1> USE NoneIsNone
<1>1. UNCHANGED <<batch, returned>> /\ at[i] # "done"
  BY DEF KitStep, StartKit, NoProxy, SpawnProxy, ProxyFails, RouteDevice, RouteRaises,
     Unroute, StopProxy, AdbDriver, FindServer, NoServer, SpawnServer, ServerReady, NoSession,
     OpenSession, BadWaypoint, BeginCrawl, EndCrawl, CrawlRaises, BuildKit, OfBatch
<1>2. ASSUME NEW j \in Kits, j # i PROVE at'[j] = at[j] /\ summary'[j] = summary[j]
  BY <1>2 DEF TypeOK, KitStep, StartKit, NoProxy, SpawnProxy, ProxyFails, RouteDevice,
     RouteRaises, Unroute, StopProxy, AdbDriver, FindServer, NoServer, SpawnServer,
     ServerReady, NoSession, OpenSession, BadWaypoint, BeginCrawl, EndCrawl, CrawlRaises,
     BuildKit, Goto, Raised, Settle
<1>3. at'[i] = "done" => summary'[i] # None
  <2>1. ASSUME NEW s \in {"kit", "error"}, Settle(i, s) PROVE summary'[i] # None
    BY <2>1 DEF Settle, TypeOK
  <2>2. CASE \/ NoProxy(i) \/ ProxyFails(i) \/ RouteRaises(i) \/ NoServer(i) \/ NoSession(i)
             \/ BadWaypoint(i) \/ CrawlRaises(i) \/ BuildKit(i)
    BY <2>1, <2>2 DEF NoProxy, ProxyFails, RouteRaises, NoServer, NoSession, BadWaypoint,
       CrawlRaises, BuildKit, Raised
  <2>3. CASE \/ StartKit(i) \/ SpawnProxy(i) \/ RouteDevice(i) \/ Unroute(i) \/ AdbDriver(i)
             \/ FindServer(i) \/ SpawnServer(i) \/ ServerReady(i) \/ OpenSession(i)
             \/ BeginCrawl(i)
    BY <2>3 DEF StartKit, SpawnProxy, RouteDevice, Unroute, AdbDriver, FindServer,
       SpawnServer, ServerReady, OpenSession, BeginCrawl, Goto, TypeOK
  <2>4. CASE StopProxy(i)
    BY <2>4 DEF StopProxy, Goto, TypeOK
  <2>5. CASE EndCrawl(i)
    BY <2>5 DEF EndCrawl, Goto, TypeOK
  <2> QED BY <2>2, <2>3, <2>4, <2>5 DEF KitStep
<1> QED BY <1>1, <1>2, <1>3 DEF SummariesKnown

\* What is returned is there, sorted, for every config of the batch.
LEMMA ReturnIsInOrder ==
  ASSUME OrderInv, Return
  PROVE  OrderInv'
<1> DEFINE N == Len(batch)
           told == [n \in 1..N |-> <<n, summary[n]>>]
<1>1. N \in Nat /\ Kits = 1..N /\ UNCHANGED <<batch, at, summary>>
      /\ \A i \in Kits : at[i] = "done" /\ summary[i] # None
  BY DEF OrderInv, Return, SummariesKnown
<1>2. Lists(Collected, Answers(1..N))
  BY <1>1, CollectedLists
<1>3. returned' = told
  BY <1>1, <1>2, AnswersAreSorted DEF Return
<1>4. Len(told) = N /\ \A i \in 1..N : told[i] = <<i, summary[i]>>
  <2>1. told \in Seq({told[i] : i \in 1..N})
    BY <1>1
  <2> QED BY <1>1, <2>1
<1> HIDE DEF told
<1>5. Kits' = Kits /\ N' = N
  BY <1>1 DEF Kits
<1>6. ReturnsInOrder'
  BY <1>1, <1>3, <1>4, <1>5 DEF ReturnsInOrder
<1>7. SummariesKnown'
  BY <1>1, <1>5 DEF SummariesKnown
<1> QED BY <1>1, <1>5, <1>6, <1>7 DEF OrderInv

\* run_kits returns one summary per config, in the order of the configs.
THEOREM SummariesReturnInOrder == Spec => []ReturnsInOrder
<1>1. ASSUME BatchInv, OrderInv, [Next]_vars PROVE OrderInv'
  <2>1. CASE Return
    BY <1>1, <2>1, ReturnIsInOrder
  <2>2. ASSUME NEW g \in Groups, TakeGroup(g) PROVE OrderInv'
    BY <1>1, <2>2 DEF TakeGroup, OrderInv, SummariesKnown, ReturnsInOrder, Kits
  <2>3. ASSUME NEW i \in Kits, KitStep(i) PROVE OrderInv'
    <3>1. /\ UNCHANGED <<batch, returned>> /\ at[i] # "done"
          /\ \A j \in Kits : at'[j] = "done" => summary'[j] # None
      BY <1>1, <2>3, SummarySettles DEF BatchInv, OrderInv
    <3>2. returned = <<>>
      BY <1>1, <3>1 DEF OrderInv, SummariesKnown
    <3>3. Kits' = Kits
      BY <3>1 DEF Kits
    <3> QED BY <1>1, <3>1, <3>2, <3>3 DEF OrderInv, SummariesKnown, ReturnsInOrder
  <2>4. CASE UNCHANGED vars
    BY <1>1, <2>4 DEF vars, OrderInv, SummariesKnown, ReturnsInOrder, Kits
  <2> QED BY <1>1, <2>1, <2>2, <2>3, <2>4 DEF Next
<1>2. OrderInv => ReturnsInOrder
  BY DEF OrderInv
<1> QED BY <1>1, <1>2, InitIsOrdered, BooksAreKept, PTL DEF Spec
=============================================================================
