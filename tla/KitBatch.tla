----------------------------- MODULE KitBatch ------------------------------
(***************************************************************************)
(* A batch of kits (pipeline.py, run_kits): the configs are grouped by the *)
(* device they name, a bounded pool of threads takes the groups, and each  *)
(* config's kit starts what its crawl needs - a proxy the device is routed *)
(* through (network_capture.py), an Appium server (appium_server.py), a    *)
(* session - crawls, and stops it all again, whatever raises on the way.   *)
(* The crawl itself is Crawler's; here it returns or raises.               *)
(***************************************************************************)
EXTENDS Naturals, FiniteSets, SequencesExt

CONSTANTS
  Android, Ios, \* the devices and simulators attached
  None,
  Name,         \* names of packages and directories
  Batches,      \* the batches of configs that may be asked for
  PoolSize      \* four in the code

Device == Android \cup Ios
Driver == {"adb", "appium", "ios"}

\* A path is the sequence of its names, a name the sequence of its parts.
Part == Name \cup Device \cup Nat
Config == [driver : Driver, serial : Device \cup {None}, udid : Device \cup {None},
           capture : BOOLEAN, malformed : BOOLEAN, \* its waypoints are no waypoints
           package : Seq(Part), output : Seq(Seq(Part))]

ASSUME NoneIsNone == None \notin Device \cup Nat \cup {"kit", "error"}
ASSUME BatchesAreConfigs == \A b \in Batches : b \in Seq(Config) /\ b # <<>>
ASSUME PoolIsBounded == PoolSize \in Nat \ {0}

VARIABLES
  adb,      \* whether adb can be run at all
  batch,    \* the configs, outputs isolated
  parallel, \* run_kits' argument
  begun,    \* the groups a thread of the pool has taken
  at,       \* per config, where its kit is
  on,       \* per config, the device its driver drives
  proxy,    \* the configs whose mitmdump runs
  routed,   \* the configs whose capture set its device's proxy
  route,    \* per device, whose proxy its http_proxy setting names
  server,   \* the configs whose managed Appium server runs
  session,  \* the configs whose Appium session is open
  summary,  \* per config, "kit" or "error" once it is known
  returned  \* what run_kits returned: pairs of a config and its summary

vars == <<adb, batch, parallel, begun, at, on, proxy, routed, route, server, session,
          summary, returned>>

Or(a, b) == IF a # None THEN a ELSE b
OnAppium(c) == c.driver \in {"appium", "ios"}

\* Mutant: the picked device's udid is not read.
KeyBySerial(c) == c.serial

\* The group of a config, None standing for the empty key.
DeviceKey(c) == IF OnAppium(c) THEN c.udid ELSE Or(c.serial, c.udid)

\* The device a config names to its driver.
Named(c) == IF OnAppium(c) THEN c.udid ELSE Or(c.serial, c.udid)

\* adb without -s serves the one device attached, and refuses to choose.
OnlyAndroid == {d \in Android : Android = {d}}

\* The devices a driver may end up with.
Drives(c) == IF Named(c) # None THEN {Named(c)}
             ELSE IF c.driver = "ios" THEN Ios
             ELSE IF c.driver = "appium" THEN Android
             ELSE OnlyAndroid

\* The devices whose http_proxy a config's capture sets.
Proxies(c) == IF c.driver = "ios" THEN {}
              ELSE IF Or(c.serial, c.udid) # None THEN {Or(c.serial, c.udid)}
              ELSE OnlyAndroid

-----------------------------------------------------------------------------
(* Outputs *)

DirName(c) == c.package
Clashing(b) == {i \in DOMAIN b : \E j \in DOMAIN b \ {i} : b[i].output = b[j].output}
SameDir(b, i) == \E j \in DOMAIN b \ {i} :
                    b[j].output = b[i].output /\ DirName(b[j]) = DirName(b[i])

\* The subdirectory a config first asks for: its package, and its device
\* or place when the package is not its own.
Subdir(b, i) ==
  LET tail == IF DeviceKey(b[i]) # None THEN DeviceKey(b[i]) ELSE i
  IN  IF SameDir(b, i) THEN Append(DirName(b[i]), tail) ELSE DirName(b[i])

\* Mutant: the directory asked for is not looked up.
ClaimAsked(b, i, taken) == Append(b[i].output, Subdir(b, i))

\* Where the i-th config writes, given the directories taken before it.
Claimed(b, i, taken) ==
  LET asked == Append(b[i].output, Subdir(b, i))
  IN  IF asked \in taken THEN Append(b[i].output, Append(Subdir(b, i), i)) ELSE asked

\* _isolate_colliding_outputs, config by config.
Outputs(b) ==
  LET apart == {b[i].output : i \in DOMAIN b \ Clashing(b)}
      first[n \in 0..Len(b)] ==
        IF n = 0 THEN <<>>
        ELSE LET before == first[n - 1]
             IN  Append(before, IF n \notin Clashing(b) THEN b[n].output
                                ELSE Claimed(b, n, apart \cup Range(before)))
  IN  first[Len(b)]

Isolated(b) == [i \in DOMAIN b |-> [b[i] EXCEPT !.output = Outputs(b)[i]]]

-----------------------------------------------------------------------------
(* Groups and threads *)

Kits == DOMAIN batch

\* Without parallel, or with a single device, one thread takes every config.
GroupOf(i) == IF parallel THEN DeviceKey(batch[i]) ELSE None
Group(g) == {i \in Kits : GroupOf(i) = g}
Groups == {GroupOf(i) : i \in Kits}
Over(g) == \A i \in Group(g) : at[i] = "done"
Before(g, h) == \E i \in Group(g) : \A j \in Group(h) : i < j

\* The pool's threads take the groups in the order of their first configs.
TakeGroup(g) ==
  /\ returned = <<>>
  /\ g \in Groups \ begun
  /\ \A h \in Groups \ begun : h = g \/ Before(g, h)
  /\ Cardinality({h \in begun : ~Over(h)}) < PoolSize
  /\ begun' = begun \cup {g}
  /\ UNCHANGED <<adb, batch, parallel, at, on, proxy, routed, route, server, session,
                 summary, returned>>

\* Mutant: the configs of a group are not held back.
OutOfTurn(i) == GroupOf(i) \in begun

\* Mutant: a failed config sinks those after it.
TurnAfterKit(i) == /\ GroupOf(i) \in begun
                   /\ \A j \in Group(GroupOf(i)) : j < i => summary[j] = "kit"

\* A group's thread is at this config: those before it in the group are over.
Turn(i) == /\ GroupOf(i) \in begun
           /\ \A j \in Group(GroupOf(i)) : j < i => at[j] = "done"

Goto(i, place) == at' = [at EXCEPT ![i] = place]
Settle(i, s) == summary' = [summary EXCEPT ![i] = s]
OfBatch == <<adb, batch, parallel, begun, returned>>
Raised(i) == Settle(i, "error")
-----------------------------------------------------------------------------
(* The capture *)

\* Where an exception that passes run_kit's with block ends.
LeaveAt(i) == IF batch[i].capture THEN "leaving" ELSE "done"

StartKit(i) ==
  /\ at[i] = "waiting" /\ Turn(i) /\ ~batch[i].capture
  /\ Goto(i, "open")
  /\ UNCHANGED <<OfBatch, on, proxy, routed, route, server, session, summary>>

\* __enter__ without mitmproxy.
NoProxy(i) ==
  /\ at[i] = "waiting" /\ Turn(i) /\ batch[i].capture
  /\ Raised(i) /\ Goto(i, "done")
  /\ UNCHANGED <<OfBatch, on, proxy, routed, route, server, session>>

SpawnProxy(i) ==
  /\ at[i] = "waiting" /\ Turn(i) /\ batch[i].capture
  /\ proxy' = proxy \cup {i} /\ Goto(i, "listening")
  /\ UNCHANGED <<OfBatch, on, routed, route, server, session, summary>>

\* mitmdump exits at start, or is stopped for not listening in time.
ProxyFails(i) ==
  /\ at[i] = "listening"
  /\ proxy' = proxy \ {i} /\ Raised(i) /\ Goto(i, "done")
  /\ UNCHANGED <<OfBatch, on, routed, route, server, session>>

SetRoute(c, to) == route' = [d \in Device |-> IF d \in Proxies(c) THEN to ELSE route[d]]

RouteDevice(i) ==
  /\ at[i] = "listening" /\ (adb \/ batch[i].driver = "ios")
  /\ routed' = IF batch[i].driver = "ios" THEN routed ELSE routed \cup {i}
  /\ SetRoute(batch[i], i)
  /\ Goto(i, "open")
  /\ UNCHANGED <<OfBatch, on, proxy, server, session, summary>>

\* adb cannot be run: __enter__ raises, so __exit__ is never called.
RouteRaises(i) ==
  /\ at[i] = "listening" /\ ~adb /\ batch[i].driver # "ios"
  /\ Raised(i) /\ Goto(i, "done")
  /\ UNCHANGED <<OfBatch, on, proxy, routed, route, server, session>>

\* __exit__: _unroute, then _stop.
Unroute(i) ==
  /\ at[i] = "leaving"
  /\ IF i \in routed THEN SetRoute(batch[i], None) ELSE UNCHANGED route
  /\ routed' = routed \ {i}
  /\ Goto(i, "unrouted")
  /\ UNCHANGED <<OfBatch, on, proxy, server, session, summary>>

StopProxy(i) ==
  /\ at[i] = "unrouted"
  /\ proxy' = proxy \ {i}
  /\ Goto(i, IF summary[i] = "error" THEN "done" ELSE "building")
  /\ UNCHANGED <<OfBatch, on, routed, route, server, session, summary>>
-----------------------------------------------------------------------------
(* The driver *)

AdbDriver(i) ==
  /\ at[i] = "open" /\ ~OnAppium(batch[i])
  /\ on' = [on EXCEPT ![i] = IF ~adb \/ Drives(batch[i]) = {} THEN None
                             ELSE CHOOSE d \in Drives(batch[i]) : TRUE]
  /\ Goto(i, "made")
  /\ UNCHANGED <<OfBatch, proxy, routed, route, server, session, summary>>

\* ensure_appium: a server answers, none can be had, or one is started.
FindServer(i) ==
  /\ at[i] = "open" /\ OnAppium(batch[i])
  /\ Goto(i, "served")
  /\ UNCHANGED <<OfBatch, on, proxy, routed, route, server, session, summary>>

NoServer(i) ==
  /\ at[i] = "open" /\ OnAppium(batch[i])
  /\ Raised(i) /\ Goto(i, LeaveAt(i))
  /\ UNCHANGED <<OfBatch, on, proxy, routed, route, server, session>>

SpawnServer(i) ==
  /\ at[i] = "open" /\ OnAppium(batch[i])
  /\ server' = server \cup {i} /\ Goto(i, "booting")
  /\ UNCHANGED <<OfBatch, on, proxy, routed, route, session, summary>>

ServerReady(i) ==
  /\ at[i] = "booting"
  /\ Goto(i, "served")
  /\ UNCHANGED <<OfBatch, on, proxy, routed, route, server, session, summary>>

\* Mutant: the server is forgotten.
KeepServer(i) == UNCHANGED server

StopServer(i) == server' = server \ {i}

\* The server never answers, or the driver fails to build on it.
NoSession(i) ==
  /\ at[i] \in {"booting", "served"}
  /\ StopServer(i) /\ Raised(i) /\ Goto(i, LeaveAt(i))
  /\ UNCHANGED <<OfBatch, on, proxy, routed, route, session>>

OpenSession(i) ==
  /\ at[i] = "served"
  /\ \E d \in Drives(batch[i]) : on' = [on EXCEPT ![i] = d]
  /\ session' = session \cup {i} /\ Goto(i, "made")
  /\ UNCHANGED <<OfBatch, proxy, routed, route, server, summary>>

\* The waypoints are read between the driver and the try block.
BadWaypoint(i) ==
  /\ at[i] = "made" /\ batch[i].malformed
  /\ on' = [on EXCEPT ![i] = None]
  /\ Raised(i) /\ Goto(i, LeaveAt(i))
  /\ UNCHANGED <<OfBatch, proxy, routed, route, server, session>>

BeginCrawl(i) ==
  /\ at[i] = "made" /\ ~batch[i].malformed
  /\ Goto(i, "crawling")
  /\ UNCHANGED <<OfBatch, on, proxy, routed, route, server, session, summary>>

\* _crawl's finally: the session, then the server this crawl started.
TearDown(i) ==
  /\ session' = session \ {i}
  /\ StopServer(i)
  /\ on' = [on EXCEPT ![i] = None]

EndCrawl(i) ==
  /\ at[i] = "crawling"
  /\ TearDown(i)
  /\ Goto(i, IF batch[i].capture THEN "leaving" ELSE "building")
  /\ UNCHANGED <<OfBatch, proxy, routed, route, summary>>

CrawlRaises(i) ==
  /\ at[i] = "crawling"
  /\ TearDown(i) /\ Raised(i) /\ Goto(i, LeaveAt(i))
  /\ UNCHANGED <<OfBatch, proxy, routed, route>>

\* build_kit and the crash reports, or what they raise.
BuildKit(i) ==
  /\ at[i] = "building"
  /\ \E s \in {"kit", "error"} : Settle(i, s)
  /\ Goto(i, "done")
  /\ UNCHANGED <<OfBatch, on, proxy, routed, route, server, session>>
-----------------------------------------------------------------------------
(* The end of the batch *)

\* The n-th of a set of configs, in config order.
Nth(S, n) == CHOOSE i \in S : Cardinality({j \in S : j < i}) = n - 1

\* What the thread of a group gathers.
Gathered(g) == [n \in 1..Cardinality(Group(g)) |->
                  LET i == Nth(Group(g), n) IN <<i, summary[i]>>]

\* pool.map's answers: group after group, in the order of their first configs.
Heads == {i \in Kits : \A j \in Group(GroupOf(i)) : i <= j}
Collected == FlattenSeq([n \in 1..Cardinality(Heads) |-> Gathered(GroupOf(Nth(Heads, n)))])

\* Mutant: group by group.
AsCollected(pairs) == pairs

\* sorted(done): no two of the pairs have the same config.
InConfigOrder(pairs) ==
  [n \in DOMAIN pairs |->
     CHOOSE p \in Range(pairs) : p[1] = Nth({q[1] : q \in Range(pairs)}, n)]

Return ==
  /\ returned = <<>>
  /\ \A i \in Kits : at[i] = "done"
  /\ \E pairs \in {Collected} : returned' = InConfigOrder(pairs)
  /\ UNCHANGED <<adb, batch, parallel, begun, at, on, proxy, routed, route, server, session,
                 summary>>

Init ==
  \E b \in Batches :
    /\ adb \in BOOLEAN /\ batch = Isolated(b) /\ parallel \in BOOLEAN
    /\ begun = {} /\ at = [i \in DOMAIN b |-> "waiting"] /\ on = [i \in DOMAIN b |-> None]
    /\ proxy = {} /\ routed = {} /\ route = [d \in Device |-> None]
    /\ server = {} /\ session = {}
    /\ summary = [i \in DOMAIN b |-> None] /\ returned = <<>>

KitStep(i) ==
  \/ StartKit(i) \/ NoProxy(i) \/ SpawnProxy(i) \/ ProxyFails(i)
  \/ RouteDevice(i) \/ RouteRaises(i) \/ Unroute(i) \/ StopProxy(i)
  \/ AdbDriver(i) \/ FindServer(i) \/ NoServer(i) \/ SpawnServer(i) \/ ServerReady(i)
  \/ NoSession(i) \/ OpenSession(i) \/ BadWaypoint(i)
  \/ BeginCrawl(i) \/ EndCrawl(i) \/ CrawlRaises(i) \/ BuildKit(i)

Next == Return \/ (\E g \in Groups : TakeGroup(g)) \/ (\E i \in Kits : KitStep(i))

Spec == Init /\ [][Next]_vars

\* Some thread always runs: no kit waits for another but in its own group,
\* and a process that does not come up is given up after a timeout.
FairSpec == Spec /\ WF_vars(Next)
-----------------------------------------------------------------------------
(* What a batch promises *)

Crawling(i) == at[i] = "crawling"
Place == {"waiting", "listening", "open", "booting", "served", "made", "crawling",
          "leaving", "unrouted", "building", "done"}

TypeOK ==
  /\ adb \in BOOLEAN /\ parallel \in BOOLEAN
  /\ Kits \subseteq Nat
  /\ \A i \in Kits :
       /\ batch[i].driver \in Driver
       /\ {batch[i].serial, batch[i].udid} \subseteq Device \cup {None}
       /\ {batch[i].capture, batch[i].malformed} \subseteq BOOLEAN
  /\ begun \subseteq Groups
  /\ at \in [Kits -> Place] /\ on \in [Kits -> Device \cup {None}]
  /\ proxy \subseteq Kits /\ routed \subseteq Kits
  /\ route \in [Device -> Kits \cup {None}]
  /\ server \subseteq Kits /\ session \subseteq Kits
  /\ summary \in [Kits -> {"kit", "error", None}]

\* Every config of the batch says which device it drives, or none does.
NamesAgree == \/ \A i \in Kits : Named(batch[i]) # None
              \/ \A i \in Kits : Named(batch[i]) = None

\* No Appium config names a second device as its serial.
OneName == \A i \in Kits : OnAppium(batch[i]) => batch[i].serial \in {None, batch[i].udid}

\* Why the statements below hold (KitBatchProofs).  A thread works its group
\* off in order, so of each group one config at a time is under way.
Underway(i) == at[i] \notin {"waiting", "done"}
InTurn == \A i \in Kits : Underway(i) => Turn(i)

\* A driver is on a device of its config, and only from its making to the
\* end of the crawl.
DrivesItsOwn ==
  \A i \in Kits : on[i] # None => on[i] \in Drives(batch[i]) /\ at[i] \in {"made", "crawling"}

\* What a config has started it has started at the place it is at, but for the
\* two ways to lose it.
Holds(i) ==
  /\ at[i] \in {"listening", "leaving", "unrouted"} => batch[i].capture
  /\ i \in proxy /\ adb => batch[i].capture /\ at[i] \notin {"waiting", "building", "done"}
  /\ i \in routed => /\ batch[i].capture
                     /\ at[i] \in {"open", "booting", "served", "made", "crawling", "leaving"}
  /\ ~batch[i].malformed =>
       /\ i \in server => at[i] \in {"booting", "served", "made", "crawling"}
       /\ i \in session => at[i] \in {"made", "crawling"}
HoldsInPlace == \A i \in Kits : Holds(i)

RoutedByOwner ==
  \A d \in Device : route[d] # None => route[d] \in routed /\ d \in Proxies(batch[route[d]])

RoutesHold ==
  NamesAgree /\ OneName =>
    \A i \in routed : \A d \in Proxies(batch[i]) : route[d] = i

\* The batch keeps its own books: the inductive invariant behind the
\* statements below (run_kits, _crawl, NetworkCapture).
BatchInv ==
  /\ TypeOK /\ InTurn /\ DrivesItsOwn /\ HoldsInPlace
  /\ RoutedByOwner /\ RoutesHold

\* Two crawls at a time never drive one device, whatever threads of the pool
\* run: taps and dumps of two crawls would interleave (run_kits, _device_key).
OnePerDevice ==
  \A i, j \in Kits : i # j /\ Crawling(i) /\ Crawling(j) => on[i] # on[j] \/ on[i] = None

\* This holds of the batches whose configs agree on naming devices.
NamedOnePerDevice == NamesAgree => OnePerDevice

\* During the crawl of a config that captures, its device's proxy setting names
\* its own proxy: its HAR holds its app's traffic, and no other capture undoes
\* the route (network_capture.py, _route and _unroute over run_kits' threads).
CapturesItsOwn ==
  NamesAgree /\ OneName =>
    \A i \in Kits : Crawling(i) /\ i \in routed =>
      \A d \in Proxies(batch[i]) : route[d] = i /\ on[i] \in {d, None}

\* When a config has its summary, nothing it started is left: no mitmdump, no
\* device routed to a proxy that is gone, no Appium server, no session
\* (_crawl, _make_driver, NetworkCapture.__exit__), whatever raised.
LeavesNothing(i) ==
  i \notin proxy \cup routed \cup server \cup session /\ \A d \in Device : route[d] # i

\* This holds unless something raises between a start and its handler: adb
\* that cannot be run, a waypoint that is none.
CleanedUp ==
  \A i \in Kits : at[i] = "done" /\ adb /\ ~batch[i].malformed => LeavesNothing(i)

\* No two configs of a batch write to one directory, however their outputs,
\* packages and devices coincide (_isolate_colliding_outputs).
OutputsApart == \A i, j \in Kits : i # j => batch[i].output # batch[j].output

\* This holds of batches that do not use the fallback's own names.
PlainNames ==
  /\ Name \cap (Device \cup Nat) = {} /\ Device \cap Nat = {}
  /\ \A b \in Batches : \A i \in DOMAIN b :
       b[i].package \in Seq(Name) /\ b[i].output \in Seq(Seq(Name))

\* run_kits returns one summary per config, in the order of the configs, a
\* failed one among them an error, however the groups were interleaved.
ReturnsInOrder ==
  returned # <<>> =>
    /\ Len(returned) = Len(batch)
    /\ \A i \in Kits : returned[i] = <<i, summary[i]>> /\ summary[i] # None

\* Why: a config is over with its summary, and none is under way after the return.
SummariesKnown ==
  /\ \A i \in Kits : at[i] = "done" => summary[i] # None
  /\ returned # <<>> => \A i \in Kits : at[i] = "done"

\* Every batch returns, whatever fails in it (run_kits waits for all groups).
BatchEnds == <>(returned # <<>>)
=============================================================================
