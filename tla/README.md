# Mobiscout verification

TLA+ models of Mobiscout's core, the TLC runs that check them on small
instances, and theorems about them that TLAPS checks for every value of the
constants.

    tlasany Crawler.tla                               # parse
    tlc -workers 2 -config MCCrawlerWild.cfg MCCrawler  # one run
    tlapm CrawlerProofs.tla                           # one module's proofs

`PROJECT.json` maps every definition to the lines it models, lists the runs,
the mutant that breaks each property, the hazards and the theorems.

## 1. The system

Mobiscout explores a mobile app on a real device, builds a map of its screens,
and generates tests from the map. Around that core it has an IDE daemon with a
JetBrains plugin, device pools and parallel execution, mocking, load testing,
reporting and static analysis.

| Part | State it keeps | Operations | Hard behaviour | What makes it correct |
|---|---|---|---|---|
| **Depth-first crawl** `crawler/app_crawler.py`, `models.py` | the frames of the walk, parked controls, budgets, waypoint and probe marks, the `CrawlResult` | `crawl`, `_explore`, `_dfs`, `_handle_form`, `_pass_gates`, `_go_back`, `_refill`, `_resume_parked`, `_explore_tabs` | the device may show any screen after any gesture; dumps come back empty; a tap leaves the app; coordinates go stale | the map is connected and closed under its transitions; nothing is tapped blind; no control is lost; the budgets hold; the crawl ends |
| Obstacles, waypoints, settle waits `obstacles.py`, `waypoints.py`, `errors.py`, `settle.py` | none (timers) | detect and dismiss a dialog, apply a gate | act on a screen that may have changed | they only move the device; what the crawler does next is Crawler's |
| **Screen graph** `graph.py` | the graph of a finished crawl | `build_graph`, depths, shortest paths, covering walks, cycles, test cases | cycles, parallel edges, edges whose end is not on the map | depths are distances; every walk can be played, and together they cover the graph; the cycles are all found |
| Pipeline `pipeline.py` | per-device groups of kits | `run_kits`, merging of deep-link crawls, output isolation | threads, one device used by two kits | a device is driven by one kit at a time; no result is overwritten |
| Network capture, Appium server, drivers | a proxy, a device setting, a server process | start, stop, route | failure between two steps of a start | what was started is stopped |
| **IDE daemon** `cli/daemon_commands.py` | one device session, one app-log stream with its pump thread, one notification sink | JSON-RPC over stdio or TCP; session, log and crawl methods | the pump thread writes while the main thread replaces the stream, the session or the client | a notification reaches the client that asked for it; a stream has one owner |
| **IDE plugin** `JsonRpcClient.kt`, `MTRDaemonService.kt` | pending calls, the engine process, the owner of the log stream | `call`, `dispatch`, `close`, `start`, `stop`, `startAppLogs`, `stopAppLogs` | reader thread against callers, timeouts racing late answers, an engine that dies | every call ends; a late answer is dropped; a stream that runs can be stopped by an open panel |
| **Device pool** `devices/device_pool.py`, `cli/device_commands.py` | devices, statuses, reservations, round-robin position; a file of pools | `add`, `remove`, `acquire`, `release`; `create_pool`, `delete_pool` | concurrent clients, stale releases, removal of a held device; commands that share the file, a crash in a save | a device is handed on only when a hold has ended, and turns are taken; the file is what the commands did |
| **Parallel execution, sharding** `parallel_executor.py`, `test_sharding.py`, `parallel_commands.py` | shards, results | `create_shards`, `optimize_shards`, `execute_shards`, `aggregate_results` | a shard or a callback that raises, a rebalancing loop | every test is in one shard and in the totals; a split is as even as its tests allow |
| Load testing, profiler | virtual users, results | `run` | fail-fast against work already submitted | the run stops, the counters add up |
| Event store, crawl recorder | sessions and events in SQLite | append, replay | a crash between two transactions | a stored crawl is a prefix of the crawl |
| Mocking proxy | recorded exchanges, a mode | record, replay | a threaded server | a replay answers with what was recorded |
| Dashboard, healing, selection, codegen, analyzers, security, reporting, ML, licensing, CLI, MCP, Rust core | files and databases | text in, text out | little | section 11 |

The parts meet in few places. The CLI and the daemon build an `AppCrawler` over
a driver and run it; the pipeline runs several, one group per device; the
crawl's result feeds the graph, the code generators and the reports; the plugin
talks to the daemon over one stream of JSON lines, in both directions; the
device pool serves the CLI's device commands.

## 2. How the project is built

| Modules | What | Section |
|---|---|---|
| `CrawlMap`, `Crawler`, `TabCrawl` | the map a crawl promises; the walk that implements it; the pass over the tabs, composed of the walk's actions | 3 |
| `LogDaemon` | the engine's log stream | 4 |
| `RpcClient` | the plugin's calls | 5 |
| `AppLogs` | the plugin's panels, composed with `LogDaemon` | 6 |
| `KitBatch` | threads, devices and processes of a batch of kits | 7 |
| `ScreenGraph` | what is computed from a finished crawl | 8 |
| `DevicePool`, `PoolStore` | the pool and its threads; the file and its commands | 9 |
| `Sharding` | a parallel run of tests | 10 |

The theorems about a module are in a module of its own: `CrawlerProofs` for
`CrawlMap`, `Crawler` and `TabCrawl`, `LogsProofs` for `LogDaemon` and `AppLogs`,
`KitBatchProofs` for `KitBatch`, and so on. An `MC` module gives a run its instance where a `.cfg`
cannot; the other runs are of the component's module itself.

One abstract specification is refined: `CrawlMap`, by `Crawler` and by
`TabCrawl`. The one a notification deserves, that it reaches whoever asked for
it, is refuted by `LogDaemon` and would be the specification of a repaired
engine.

Left of the plan, in this order: `EngineService` (the plugin's engine process:
`start`, `stop`, `onEngineExit`, self-healing) composed with `AppLogs`; the
deep-link seeds and `_merge_results` of the pipeline over `CrawlMap`.

## 3. The crawl

### Modules

| Module | What it is |
|---|---|
| `CrawlMap` | what a crawl promises of the map it returns: it starts at one screen and grows only along recorded transitions |
| `Crawler` | the walk itself: one action per branch of `_explore`, `_dfs`, `_handle_form`, `_probe_negative_form`, `_pass_gates`, `_refill` and `_resume_parked` |
| `TabCrawl` | the crawl of an app with a bottom bar: `_explore_tabs` and `_reanchor`, over the walk's own actions |
| `MCCrawler`, `MCTabCrawl` | small apps for TLC |
| `CrawlerProofs` | the theorems about all three |

### State and actions

`screen` is the device: what it shows now. Only a gesture moves it, and after a
gesture it may show anything the constants allow (`Live`): another screen of
the app, another app, or a blank dump. A scroll is a gesture too: the fingerprint
is taken from the visible elements, so a screen that is scrolled may read as another
(`Refill`, `ScrollInVain`). So is typing into a field that submits itself, with or
without a submit control beside it (`AutoSubmit`). A frame carries one history field,
`scrolled`: whether the last gesture made on it was a scroll. `stack`, `pending`, `steps`, `fires`
(`_waypointed`), `passed` (`_passed_gate`), `probed` (`_neg_probed`),
`counted` and `anchor` (`_screens_at_last_check`, `_step_at_last_new`) are the
crawler's own variables; `mapped`, `edges`, `gated`, `backs`, `findings` are
the `CrawlResult`; `phase`, `new`, `gate` and `chain` are the program counter
and the locals that live across it.

| Code | Actions |
|---|---|
| `_explore`, opening | `GiveUp`, `ReadEntry` |
| `_pass_gates` and what its callers do after it | `FireWaypoint`, `StopAtGate`, `CrossEntryGate`, `CrossGate` |
| `_handle_form`, `_probe_negative_form`, `_fill_inputs` | `SkipProbe`, `ProbeNothing`, `ProbeStrays`, `ProbeRaises`, `ProbeRejected`, `ProbeAdvances`, `FillValid` |
| the frame `_dfs` builds | `PushFrame` |
| the head of the loop: resync, `_drop_lost_frames` | `Abandon` |
| `_refill`, `_reveal_more` | `Refill`, `ScrollInVain` |
| nothing left on a screen | `Finish`, in the same turn as a scroll in vain (phase `leave`) |
| a queued control | `SkipBlocked`, `TapLeavesApp`, `TapUnread`, `TapStays`, `TapNavigates` |
| the screen a tap led to | `ChartScreen`, `ChartTerminal`, `Resume`, `ReturnToParent` |
| the end | `Stop`, `DriverError` |

What is abstracted. A screen stands for its fingerprint and a control for its
element key. The queues are sets, so controls are tapped in any order;
`_prioritize` only chooses one. The three budgets are all there: the step cap,
the novelty plateau with its re-anchoring, and the wall clock as a stop at any
turn when `TimeLimit`. A driver that raises ends the crawl between two actions
(`DriverError`), not in the middle of one. Screenshots, timings and settle waits
are left out: no property is about them. Dialog and obstacle taps are part of a
read (`Reads`) or of a recovery (`Recovers`), which may leave the device
anywhere.

### The tabs

If the first screen has a bar of two entries or more, `_explore` hands over to
`_explore_tabs`. `TabCrawl` extends `Crawler` with it: `stage` says whether the
crawl is on its first screen, registering section roots, returning to a section
or inside one; `left`, `roots`, `target` and `tries` are the loops' own.

| Code | Actions |
|---|---|
| `_explore` up to the bar | `AtHome` (`Crawler`'s `ReadEntry`, `PassGates`, `HandleForm`), `SeeBar` |
| pass 1 of `_explore_tabs` | `TabLost`, `TabAgain`, `TabShows`, `RootForm`, `RootDone`, `RootsEnd` |
| `_reanchor` | `ToSection`, `Returned`, `NotReturned` |
| `_dfs` in a section, and its end | `Inside` (`Crawler`'s actions), `SectionEnds` |
| the end | `TabsEnd`, `OutOfTime`, `TabError` |

The tabs of the bar are not told apart: a tap on any of them may show anything.
That is what the code must cope with (a hidden bar, a sheet over it), and it is
why a section is confirmed before it is walked. The bar itself is never tapped
inside a section (`exclude_nav`), so `Shown` and `Lower` are the other controls.
`_dfs` makes its queues anew for each section; `Returned` empties `pending`.

### Runs

| Run | App | What it shows |
|---|---|---|
| `CrawlerWild` | every hazard at once: a second app, blank dumps, two gates that may lead to each other, a form, a screen without a submit control whose field submits itself, a dead end, an error screen; no wall clock | `OneFramePerScreen`, `WorkIsMapped`, `WithinBounds`, `GatedTagged`, `FillsOnlyTheForm`, `Terminates`, and that the crawl implements `CrawlMap` |
| `CrawlerSheet` | one app in the foreground, a gate, an obstacle, no forms; Back and scrolls end anywhere | `TapsHitTheirScreen`, `BacksObserved`, `WorkKept`, `EdgesEndInMap` |
| `TabCrawl` | three tabs, a second app, blank dumps, a gate and a form | `TabsWithinBounds`, `FirstTapOnRoot`, `Terminates`, and that this crawl implements `CrawlMap` too |

The bounds. Three screens of the app give a parent, a child and somewhere else
to be lost; two controls let a queue be half worked when the crawl is forced
off its screen, and let a scroll reveal something. `MaxDepth = 3` lets a screen
be met at the depth limit. Six steps in `CrawlerWild`, eight in `CrawlerSheet`, let
the walk go down, lose its place, park, resume and come back up; the shortest
counterexamples of the refuted statements below need no more. Not every screen shows
the same controls, so that a scroll has something to reveal and a frame something to
park. In `TabCrawl` eight steps are three tabs, a
section given up after three tries, and a tap in the next. `MaxWaypointFires`
and `MaxGateChain` are the class's bounds, made smaller.

`CrawlerSheet` keeps the foreground because the code does not survive losing
it: with a second app, or with dumps that come back empty, `TapsHitTheirScreen` and
`BacksObserved` fail (see the findings). Neither promises more than the code looks at.
A scroll is not followed by a look at the screen: `_reveal_more` queues what shows then,
and the frame's mark stays. So a control may be tapped on the screen a scroll has read
it off (`Aimed`), and a Back recorded that was pressed on what the last scroll
left; everything else that moves the device is looked at first. `EdgesEndInMap` holds there because three screens cannot exceed a
depth of three: a screen first met at the depth limit is recorded as the end of
a transition and not charted, which `build_graph` then drops.
`FillsOnlyTheForm` speaks of the fills that meet a readable screen: `_handle_form`
goes on after a dump that came back empty, and then types where it is.
`TabsWithinBounds` allows what the code allows: the budget is asked before a
section is returned to, and three tries are six steps.

`Terminates` assumes weak fairness of `Step` (of `TabStep`), the crawler's own
steps: it is one thread that never waits for another, and each driver call
returns or raises (a call that hangs is out of the model). `DriverError` is
under no fairness: the device need not fail for the crawl to end. `CrawlerWild`
turns the wall clock off, so that the budgets alone end the crawl.

### Findings

`CrawlerStaleForm` refutes what a docstring of the code says, and prints the
shortest walk that does so: a probe that advanced and could not come back leaves
the new frame marked as on screen; its controls are tapped elsewhere.

TLC refutes nine more statements (they are defined beside the properties of their
modules, and are no run's):

* `TapsHitTheirFrame`, with the constants of `CrawlerSheet`, in nine states: a scroll
  changes the screen, its controls are queued in the frame and one is tapped there;
  the transition is recorded from the frame's screen (app_crawler.py:1053), and the
  frame still counts as on screen afterwards. The comment at app_crawler.py:1005 would
  have coordinates go stale only when a return to the parent fails.
* `BacksOfTheChild`, with the same constants, in 16 states: the last scroll of a child
  shows another screen, Back from there reaches the parent, and the pair is recorded as
  leaving the child. The docstring of `_note_back` (app_crawler.py:438) calls
  it "observed behaviour a test can pin".
* `MoneyVerbsGated`, with the constants of `CrawlerSheet` but `MoneyVerb = {e2}`,
  `MoneyLower = {a}` and `Shown <- NoControlOnA`: a resumed frame forgets the money
  field it scrolled to (app_crawler.py:978), so a parked Send is tapped.
  app_crawler.py:729 has `_reveal_more` make the frame "sticky-money" so that this
  does not happen.
* `NeverTapsForeign`, with `Foreign = {x}`: a failed recovery is not looked at
  (app_crawler.py:1038), and the next control is tapped on the other app.
* `BacksObserved`, with `Foreign = {x}`: a recovery onto another screen of the
  app leaves the frame marked; the Back pressed there is recorded as leaving the
  frame's screen.
* `OnlyAppMapped`, with `Foreign = {x}` and no obstacle: a gate that opens another
  app gets that app charted (app_crawler.py:608).
* `WorkKept`, with the constants of `CrawlerSheet` but `MaxDepth = 2`: parked
  work met at the depth limit is dropped (app_crawler.py:971).
* `TabsAreTapped`, with the constants of `TabCrawl` but `Foreign = {}` and
  `Flaky = FALSE`: the form of the first screen, or of a section, is exercised
  before the next tab is tapped, and may lead on; that tab is then
  tapped on another screen, and its transition drawn from the home screen.
* `ParkedIsKept`, with the constants of `TabCrawl` but two controls, no form, no
  second app, `Flaky = FALSE` and `MaxSteps = 7`. app_crawler.py:998 says of parked
  work that it "is picked up again the next time the crawl stands on that screen";
  each section has queues of its own, so what one section parked the next does not
  find, even on the same screen.

The model also shows code that never runs: by `OneFramePerScreen` a frame never
finds parked work of its own screen, so the parked source of `_refill` is dead.

### Theorems

All for every set of screens, controls and gates, every budget, and every
behaviour of the device. The assumptions are the four named `ASSUME`s of
`Crawler`: the kinds of screen differ, the special screens are the app's, the
controls are known and belong to the app's screens, the budgets are numbers
with `MaxDepth` and `MaxGateChain` at least 1.

* `TypeCorrect`: `Spec => []TypeOK`.
* `WalkIsSafe`: `Spec => []WalkInv`, and from it `FramesAreDistinct`,
  `WorkStaysOnTheMap`, `BudgetsHold`. The three safety invariants are not
  inductive. A push keeps the frames distinct only because the pushed screen was
  not on the map when it was reached (`NewIsFree`), which in turn needs every
  frame to be mapped; a charted screen is linked to the map only because the
  transition into it was recorded when it was tapped (`NewIsLinked`); the step
  cap survives a turn of several steps only because the turn began with one to
  spare (`RoomLeft`). `WalkInv` is the conjunction.
* `CrawlImplementsMap`: `Spec => MapSpec`, and `CrawledMapIsConnected`:
  `Spec => []MapConnected`, by the refinement and `MapIsConnected` of the
  abstract specification. A step of the walk that charts nothing and records
  nothing is a stutter.
* `TapsAreSynced`, `BacksAreSynced`: if the app keeps the foreground and always
  answers (`KeepsForeground`), a tap is aimed and a recorded Back was pressed on the
  child or on what its last scroll left, whatever Backs, scrolls, gates and forms
  do, unless the frame is a form or has a field that submits itself (`FormLike`). Where
  there is none of these, `TapsAreAimed` and `BacksAreObserved` are the run's
  `TapsHitTheirScreen` and `BacksObserved`. The invariant is `SyncInv`: a synced frame
  is the screen shown unless it was scrolled since; what a scroll has queued
  is on the screen it revealed, and stays there until the next tap; and the screen just
  reached is shown until a gate moves on. Each hypothesis is needed: without the
  foreground or the answers both properties fail, and `TapsHitTheirScreen` fails for a
  form (`CrawlerStaleForm`) and for a field that submits itself (`AutoSubmit = {a}`,
  in seven states).
* `ScreensBehindGatesAreTagged`, `FormsAreFilledInPlace`: what a step charts or
  fills depends on what the crawler read some steps before. `ReadInv` carries it:
  before the first screen no gate was passed, what is charted was read, and until a
  form is dealt with the device shows the screen read, or nothing.
* `TransitionsKeepTheirEnds`, `NoWorkIsLost`: under `Roomy`, that `MaxDepth` is
  at least the number of screens of the device. Between two heads of the loop one
  transition has an end that is not charted, the one being followed (`EndsFollow`). It
  is dropped at the depth limit only, and under `Roomy` the limit is never met by a
  new screen: the frames of the stack are distinct, and the new screen is on none of
  them. `LossIsKnown` needs no `Roomy`: at any depth limit, work leaves the books by
  being tapped or found blocked, or parked and met at the limit.
* `TabCrawlIsSafe` (`TabSpec => []TabInv`), `TabBudgetsHold`,
  `TabCrawlImplementsMap`, `FirstTapsHitTheirRoot`: the same walk over a bar of any
  number of tabs. A section inherits the walk's invariant, but the budget it starts
  with is only what the returns have left: `Returning` bounds the steps by the tries
  still to spend, and the bound of `TabsWithinBounds` is what that sum can reach.
  `FirstTapsHitTheirRoot` needs to know that a root whose queue is whole is alone on
  the stack, and still the screen shown (`RootIsFresh`).

Only model-checked: `Terminates`, which is out of the prover's reach. `TypeOK`,
`WalkInv`, `MapConnected` and `SyncInv` are proved and no longer among the runs.

## 4. The engine's log stream

`LogDaemon` models the log half of `JSONRPCServer` (daemon_commands.py). The
main thread serves one client at a time over TCP, or the IDE over stdio; a
stream is a child process with a pump thread. Main thread and pumps share
`_log_stream` (`current`), `_emit_sink` (`sink`) and the lock of the writes.

| Code | Actions |
|---|---|
| `run_tcp`: accept, ready, the `finally` of a departure | `Accept`, `Greet`, `HangUp`, `Unhook`, `Leave` |
| `handle_logs_start`, `handle_logs_stop`, any other method | `AskStream`, `AskOther`, `Spawn`, `SpawnFails`, `Settle`, `Respond` |
| `_stop_log_stream` | `TakeOut` (in `AskStream` and `Leave`), then `Stopped` |
| `_pump` and `_emit` | `ReadLine`, `ReadEnd`, `Emit`, `EmitRaises` |
| device tool, client, death of the engine | `WriteLine`, `Die`, `PeerLeaves`, `Receive`, `Exit` |

Taking the stream out and killing its process are two steps, as in the code, so
a pump can come between; so can the settle wait of half a second. `_stop_log_stream`
terminates, waits, then kills: the model has the process dead when it returns.
What the process wrote stays in its pipe (`pipe`) for the pump. The lock makes a
write to a transport one step. Lines are not told apart, blank ones left out.

**Runs.** `LogDaemon`: two clients in turn, two streams, two requests, one line
per stream. Two streams are what a replacement needs, two clients what a leak
needs; the requests allow start after start, start after departure, stop of
nothing. `OneToolRuns`, `ObituariesAreTrue`, `StreamHasItsClient` and `Reaped`. Fairness: the main thread goes on with the
request at hand (`Serve`) and every pump gets to run (`PumpStep`), as the
operating system's threads do; clients need not ask or leave, tools need not
write or die.

**Findings.** TLC refutes two statements. `LinesGoHome`, with the constants of the
run: a departure sets the sink to nothing and stops the stream, but does not join
the pump (daemon_commands.py:1012), so a line still in its pipe goes to the next
client. daemon_commands.py:1010 says "Don't emit into a dead socket or leak the
stream into the next client". `ReadyComesFirst`, with `MaxLines = 2` and
`MaxAsks = 3`: the sink is set before the ready notification is written
(daemon_commands.py:992), so such a line can be the first thing the next client
reads.

**Theorems** (`LogsProofs`), for every set of clients and streams and both
transports: `DaemonTypes`; `StreamsAreSafe`, `Spec => []StreamInv`; from it
`OneToolAtATime`, `EndsAreTrue` and `OwnersKeepTheirStream`. `OneToolRuns` is not
inductive: a tool is spawned while nothing says that no other runs. `StreamInv` adds
that a running tool is the current stream or the one at hand and that these are never
both set (`RunsAtHand`, `OneAtHand`); that the current stream was not killed, so an
end of file seen while it is current is its own (`EndsAreItsOwn`); and that a start
under way is the served client's (`ForTheClient`).

## 5. The plugin's calls

`RpcClient` models `JsonRpcClient.kt`. A caller registers its future, looks at
`closed`, writes its request and waits; one reader thread completes futures by
id and, at the end of the stream, raises `closed`, fails what the table holds
and clears it. `close()` runs in a thread of its own. No lock orders these.

| Code | Actions |
|---|---|
| `call` | `Register`, `Check`, `Send`, `Return`, `Expire`, `GiveUp` |
| the reader loop and `dispatch` | `Test`, `ReadLine`, `CompleteOne`, `ReadEnd` |
| its `finally` | `BeginDrain`, `FailOne`, `EndDrain`, `Clear` |
| `close` | `BeginClose`, `CloseWriter`, `KillProcess`, `CloseReader` |
| the engine process (modelled from its use) | `Take`, `Answer`, `EndOfInput`, `Crash` |

The iteration of a concurrent map is weakly consistent: `drain` starts as the
table at that moment, and an entry added later may or may not be visited
(`FailOne` may take it, `EndDrain` need not wait for it).

**Run** `RpcClient`: two calls, any interleaving of registrations, answers,
timeouts, a close and a death of the engine. Two calls are enough for one to
be in the reader's hand while another registers. `NoParkedCall`, `PendingIsUnderway`,
and under fairness of the plugin's own threads `FailsFast` and
`CloseEnds`. The engine is under no fairness: it may hang on a request, and
nothing rests on the ten-minute timeout (`Expire` is not fair).

**Theorems** (`RpcClientProofs`), for any number of calls: `ClientTypes`,
`ClientIsSafe` (`Spec => []RpcInv`), `NoCallIsParked`, `TableIsClean`. The
argument is an ordering one. A caller registers *before* it looks at `closed`,
and the reader raises `closed` *before* it drains. So until the reader's last
drain every call that waits is in the table or in the reader's hand, and during
it, in the part still to be visited (`OpenIsReachable`). A caller that does
not look, or a reader that raises after the drain, leaves a call parked: those are
the mutants of the run.

## 6. The plugin's log panels over the engine

`AppLogs` extends `LogDaemon` over stdio with the plugin's side: the Logs panels of
the open projects (`LogsPanel.kt`), the one `MTRDaemonService` with its
`logStreamOwner`, and the reader thread. Every press starts a background worker,
which makes one call: its number is the id of its request. The workers, the reader
and the engine interleave freely. A call may give up after its ten minutes (`TimeOut`,
JsonRpcClient.kt:118); its request stays on the wire and is served all the same, and
the answer, if it comes, is dropped. Each engine action is
`LogDaemon`'s, with the requests it reads coming from `wire`.

| Code | Actions |
|---|---|
| `LogsPanel` start, stop, `dispose` | `PressStart`, `PressStop`, `Close` |
| `startAppLogs` | `SendStart`, `TakeStream` |
| `call`, its timeout | `TimeOut` |
| `stopAppLogs`, `stopAppLogsAsync` | `LookAtOwner`, `Release`, `SendStop`, `HandBack` (in `Close`) |
| the reader | `Dispatch`, `ReaderEnds` |
| `MTRDaemonService.stop` | `BeginStop`, `EndStop` |
| the engine | `ReadRequest`, `ServeOn`, `ToolStep`, `PumpOn`, `EngineDies` |

Left out: the start of a second engine (section 2). A press and a closing are each one
of `MaxPresses`; a panel has at most `MaxAtOnce` starts, and as many stops, under way.

**Runs.** `AppLogs`: two panels, two streams, three presses in any order, one of a kind at
once, one start that may time out, one tool that may die, spawns that may fail, an
engine that may die or be stopped. `NoOrphanStream` and, under fairness of the workers,
the reader and the engine, `CallsEnd`. Three presses are two starts and a stop or a
closing, the shortest in which an answer, a claim and a release can pass each other.
No fairness makes a call give up, so `CallsEnd` does not rest on the timeout.

`NoOrphanStream` says two things of a moment when nothing is under way: a stream that
runs has an owner, and an owner is a panel still open, whose Stop is enabled. Each has one
exception, named in the property, for what the code does do; without either TLC refutes it:

* a start that gave up and is served later runs for nobody (`GaveUp`): no panel
  shows itself streaming, and only another Start, whose `logs/start` replaces the
  stream, or the end of the engine stops it;
* a panel closed while a start of its own was under way (`cutShort`) may claim the
  stream after `dispose()` has handed it back, and then a panel that is gone owns it.

**Findings.** TLC refutes five statements:

* `OwnerIsServed`, with users who wait for every answer (`OneAtATime`) and a start
  that fails: the engine stops the running stream before it spawns the new tool
  (daemon_commands.py:818), so the other panel owns nothing any more.
  MTRDaemonService.kt:250 says "a failed start must not strip ownership from the
  panel that is still streaming".
* `OwnerIsServed` even if no spawn fails and no call gives up (`SpawnMayFail = FALSE`,
  `MaxTimeOuts = 0`, four presses, four streams): the claim is made by a worker after its answer, so two answered starts can claim in
  the wrong order (MTRDaemonService.kt, `startAppLogs`).
* `DisposedOwnsNothing`: a panel closed between the answer and its worker's claim
  becomes owner after its release, and keeps the stream and the project, which
  MTRDaemonService.kt:266 means to rule out.
* `StoppedOwnsNothing`: likewise a claim that comes after `stop()` cleared the owner.
* `RendersOwn`, even with one press at a time (`MaxLines = 1`): a line of the old
  stream, in the pipe when it was replaced, is shown by the new owner.

**Theorems** (`LogsProofs`), for any panels, streams and number of presses:
`PanelsAreSafe`; `NoStreamIsOrphaned`; `PatientUsersStopTheirStreams`, that if users wait
for every answer and no call gives up, a stream that runs at rest is owned by an open
panel, without exception; and `PanelsShareOneTool`, that the engine keeps its own promises
when panels drive it. `AppLogs` is `LogDaemon`'s actions with other
requests, so the engine's invariant carries over step by step under its assumption
that the engine is over stdio (`EngineOverStdio`) and has the one client. That a
running stream has an owner at rest is not inductive: what is so at every step is that
somebody will see to it. `Covered` says who: the owner is set; or a request is
on the wire; or a worker holds a granted start it has not claimed, or a release it has
not sent; or the engine is about to grant the start the stream is for, or that answer is
in its pipe; or that start gave up. That needs a call to be in one place at most, on the
wire, at the engine or answered, and its worker to wait for it or to have given up
(`OneCall`); at rest nothing but the owner, or the giving up, is left. Whose the owner
is, `OwnersAreOpen` carries: a panel that is closed hands back what it owns in that step,
so a closed owner is about to be released or was cut short. When users wait, nobody is
cut short, since a panel with a start under way cannot be closed meanwhile.

If users wait for every answer, no spawn fails and no call gives up (`OneAtATime`, not
`SpawnMayFail`, `MaxTimeOuts = 0`), TLC finds that `OwnerIsServed` and
`DisposedOwnsNothing` hold (three streams, 31,434 states).

## 7. A batch of kits

`KitBatch` models `run_kits` and what each kit starts and stops: the groups of
`_device_key` on a bounded pool of threads, the outputs moved apart, the capture
(`network_capture.py`), the managed Appium server (`appium_server.py`), the
session, the crawl, and the way out of each through `finally`, `__exit__` and
whatever raises. Where a kit is, is `at`.

| Code | Definitions |
|---|---|
| `_isolate_colliding_outputs` | `Isolated` |
| `_device_key`, the grouping and `pool.map` of `run_kits` | `DeviceKey`, `GroupOf`, `TakeGroup`, `Turn`, `Gathered`, `Collected`, `InConfigOrder`, `Return` |
| `NetworkCapture.__enter__`, `__exit__` | `NoProxy`, `SpawnProxy`, `ProxyFails`, `RouteDevice`, `RouteRaises`, `Unroute`, `StopProxy` |
| `_make_driver`, `ensure_appium` | `AdbDriver`, `FindServer`, `NoServer`, `SpawnServer`, `ServerReady`, `NoSession`, `OpenSession` |
| `_crawl`, `run_kit` | `BadWaypoint`, `BeginCrawl`, `EndCrawl`, `CrawlRaises`, `BuildKit` |

What is abstracted. A path is a sequence of names, a name a sequence of parts, so
that `name-serial` and `name-3` are what they are in the code; sanitising a name
is left out. A device that can be reached by adb obeys it. `session.quit`
swallows errors, as the drivers' does. Deep-link seeds and the merge of their
results, ports, and the contents of a kit are left out; the crawl is `Crawler`'s.

**Runs.** `KitBatch`: every batch of one to three configs out of six (adb, Appium,
two simulators, two that name no device), on an Android device and two
simulators, a pool of two, adb present or absent, failures at every step.
Three configs are what three things need: a group of two next to another, a
pool with more groups than threads, and a collision of outputs with a
fallback. `WF_vars(Next)` is the fairness: some thread always runs, since
no kit waits for another outside its group, and a process that does not come up
is given up after a timeout.

TLC refutes `OnePerDevice`, which pipeline.py:655 states ("configs that resolve to
the same device run one after another either way"): a config that names no device
has the empty key (pipeline.py:703), one that names the only device attached has
another, and the two crawl it at once. `NamedOnePerDevice` is what holds.

The other statements carry the hypotheses they need; TLC refutes each without
them.

* `CleanedUp` needs adb to be there and the waypoints to be well formed. Without
  adb `_route` raises inside `__enter__`, so `__exit__` never runs and mitmdump stays
  (network_capture.py:99). Malformed waypoints raise between the making of the driver
  and the `try` (pipeline.py:491): the session and the server stay.
* `CapturesItsOwn` needs `OneName`: an Appium config with a serial other than its
  udid has the serial's device routed and the udid's crawled.
* `OutputsApart` holds for the packages of the run. If one package is named like
  another's fallback (packages `app` and `app-3`, and a config that asks for
  `kit/app` itself) two configs share a directory: the indexed fallback is
  not looked up among those taken (pipeline.py:741).

**Theorems** (`KitBatchProofs`), for any batches, devices and pool: `BooksAreKept`
(`Spec => []BatchInv`), `CrawlsAreApart`, `NothingIsLeft`, `CapturesAreOwn`,
`OutputsStayApart`, `SummariesReturnInOrder`. `OutputsStayApart` assumes `PlainNames`:
no package or directory is a device's name or a number, and these two differ.
`MCKitBatch` has TLC confirm it of the run's batches. A fallback then ends in the number
of its config, which no name and no other fallback does; what is left is that a
directory asked for was looked up among those taken. `SummariesReturnInOrder` needs that
a config is over only with its summary and that nothing runs after the return
(`SummariesKnown`). The rest is about the return itself: each group's answers list its
configs once, groups have different first configs and no common ones, so what the pool
collects lists every config once (`CollectedLists`), and sorted it is in the order of
the batch (`AnswersAreSorted`; `Nth` and `Rank` count the members of a set below one of
them). The other three are not inductive. A thread works its group off in order
(`InTurn`), so one config per group is under way; a driver is on a device of its own
config and only between its making and the end of the crawl (`DrivesItsOwn`), so two
crawls on one device would be of one group. What a kit has running is determined by
where it is (`HoldsInPlace`), so at `done` nothing is. A device's setting names a config
that will undo it (`RoutedByOwner`), and of two captures of a device only one is under
way (`RoutesHold`).

## 8. The graph of a crawl

`ScreenGraph` takes any finished crawl (`Crawls`) through `build_graph` and then,
a step at a time, through one of two computations: the breadth-first search
behind depths and shortest paths, followed by the walks that cover the edges; or
Tarjan's components with their own stack.

| Code | Definitions |
|---|---|
| `build_graph` | `EdgesOf`, `Init` |
| `_annotate_depth`, `shortest_paths_from_entry` | `Expand`, `Searched`, `PathTo` |
| `edge_coverage_paths` | `Hops`, `Cover`, `CoverEnds` |
| `multi_step_cases`, the choice of walks | `NodePaths`, `Maximal`, `Journeys` |
| `cycles` | `TakeRoot`, `LookAt`, `GoInto`, `Leave`, `CyclesEnd`, `Cycles` |

`depth` and the search for paths are two loops over one order, and one here. The
order of lists (edges out of a screen, edges, screens) is left open, so what is
shown holds for every order. Where an edge list matters, the first of parallel edges,
`label` is the position.

**Run** `ScreenGraph`: every graph of four screens and up to five transitions, and
three transitions with labels and probes between two screens and an end off the
map. Four screens and five edges hold two cycles that meet, a cycle behind a
finished component, and paths of different lengths to one screen.
`DepthsAreDistances` and `CyclesAreFound` are stated by closure: a screen leads to
another that is in every set that holds the first and that no edge leaves (`Leads`), and
two screens that lead to each other are of one `Component`. Deadlock is checked.

TLC refutes `JourneysKept`: walks that begin another are dropped first and
journeys through a gate afterwards (graph.py:549), so a walk without a gate is lost
when the longer one crosses a gate.

**Theorems** (`ScreenGraphProofs`), for any crawls with finitely many screens:
`SearchKeepsOrder` (`Spec => []DistanceInv`), `DepthsAreDistancesAlways`,
`WalksCoverTheGraph` and `CyclesAreComponents`. That no
edge is a short cut is not inductive: a screen that has left the queue bounds its
successors only because the queue holds two depths at most, in order
(`QueueIsLevel`). That only reachable screens are reached is stated as membership
in every closed set that holds the entry, which needs no induction over paths. The walks
do need one: that the shortest path to a screen, built backwards from it by a
recursive function, is a trip along edges from the entry (`PathsAreTrips`). It is
proved by the screen of least depth whose path would not be one. `WalksInv` then says
that each walk is such a trip and takes the edge it was made for.

`CyclesAreComponents` (`Spec => []CyclesAreFound`) is the correctness of Tarjan's
algorithm as the code writes it, with frames that are resumed instead of recursion. The
marks of one moment say little: `low` is not the least number a screen leads to, only the
least one seen so far, and never one of a finished component. The invariant (`TarjanInv`)
says what the frames and the stack of open screens hold between two steps:

* numbers grow along both stacks, and screens under way are open (`Numbered`,
  `FramesAreOpen`);
* a mark is the number of an open screen that is led to, and it is below the screen's own
  number once the screen has been left (`LowIsLed`);
* no edge looked at goes to an open screen below the mark, and the mark of a screen under
  way is the least of what is open from it to the next one under way (`LowIsLow`);
* a screen under way leads to all that is open from it on (`UnderwayLeads`);
* what is finished is closed under edges and made of components (`FinishedIsApart`).

When a screen is left with its own number for a mark, what is open from it on leads to
it, by the least number that would not, and no edge leaves it but into what is finished: it is
a component (`LeavesAComponent`), and what popping the stack takes off is just that
(`PopsStack`). Otherwise its mark goes to the caller and stands there for the segments
that become one (`LeaveKeeps`).

## 9. The device pool

`DevicePool` models the pool of one process. Its reentrant lock is held over each
operation, so each is one action: `AddDevice`, `RemoveDevice`, `AcquireDevice`,
`ReleaseDevice`. A device comes with the state a scan or a file gives it (`Reported`),
converted as `device_from_info` does: a word the pool does not know is "available"
(`StatusOf`). `held` is what the clients believe; the pool knows ids only, and
releases by id whoever asks. `revoked` notes, per device, the holders whose hold another
has ended, by a release of the id or by a removal; the pool cannot see them. `overdue`
notes, per device, the candidates passed over since its turn.

**Run** `DevicePool`: three devices found in any state, two clients, a filter that lets
all through and one that does not, round robin. Three devices are what it takes to pass
one over twice. `OneHolder`, `TakesTurns`.

Neither property is what a first reading of the code suggests, and TLC refutes that
reading:

* One holder per device, always: a client that releases an id it does not hold, or the
  removal and return of a device, makes it available to a second client while the first
  goes on using it. `OneHolder` says that this is the only way: of two holders, one had
  its hold ended by such a call.
* Turns are taken, always: with the list a, b, c let b be handed out (the index is 1)
  and released, and a removed. The index still says 1, where c now is, so the search
  begins after c and b is handed out again although c was a candidate
  throughout. device_pool.py:90 says that "a concurrent add/remove/release cannot scramble
  the candidate list, the round-robin index or the reserved map". What a removal costs is
  spelled out (`LoseTurn`): of a device after the index, nothing; of one at or before it,
  the turn of the device next in line; and of one at or before an index that is last, which
  then points past the end of the list, everybody's. `TakesTurns` holds for all others:
  neither an addition nor a release nor a change of candidates costs a turn, and what a
  removal leaves standing is kept.
* A device found offline stays out: a scan's "unauthorized" and "shutdown" become
  available (device_pool.py:303), and so does an offline device that was removed while held,
  added again and then released by its old holder (device_pool.py:131). No property is
  left of it but the guard of the candidates.

**Theorems** (`DevicePoolProofs`), for any devices, clients, filters and strategy:
`PoolKeepsBooks` (`Spec => []PoolInv`), `OneHolderAlways`, `RoundRobinTakesTurns`.
`OneHolder` needs that a device somebody holds unrevoked is reserved and busy, that
no id is listed twice, and that only members are reserved (`Reservations`).
`TakesTurns` goes round the list: while a device is overdue since another was
acquired, the index has not gone past it on its way round from that other
(`OverdueIsAhead`), so it is met first. A removal before the index moves the list under
it by one; only the device next in line can be passed by that.

`PoolStore` models the file (`PoolManager`) and the commands that share it. A
command is a process: it loads the file, and each `save` empties the file and then
writes the whole of its copy. `book` is what the commands did, one after the
other. A command killed between its two writes leaves an empty file, which the next
one reads as no pools.

**Run** `PoolStore`: two commands over and over, two pools, a device, a kill at any
step. `FileIsBook`: until a copy that was overtaken is written, or a command killed
in its write (`spoiled`), the file is the book. Without that condition
(`CommandsLast`) TLC refutes it in seven steps; the docstring of `PoolManager` says
"pools created by one command are visible to the next". **Theorems** (`PoolStoreProofs`):
`StoreKeepsBooks` (`Spec => []StoreInv`) and `FileIsBookAlways`, for any commands, pools and
devices. The invariant adds that a copy nobody overtook is the book but for the
pool being written (`CopiesAreFresh`), and that one command at most writes
(`OneWriter`).

## 10. A parallel run

`Sharding` follows one run: `create_shards` with any of its four strategies,
perhaps `optimize_shards`, `execute_shards` on a pool of worker threads, and the totals and
the exit code of the command.

| Code | Actions |
|---|---|
| `create_shards` and `_shard_*` | `PlaceUnit`, `OneEach` |
| `optimize_shards` | `Optimize`, `Rebalance`, `Balanced` in `Execute` |
| `execute_shards`, the pool | `Execute`, `Take` |
| `_execute_shard`, `_execute_test` | `StartTest`, `EndTest`, `Raise` |
| the loop over `as_completed` | `Collect`, `CollectionFails` |
| `aggregate_results`, the exit code | `TotalTests`, `ExitsZero`, `SumUp` |

Lists of tests are sets, so a tie between tests or shards may go either way; the
hash of a name may be anything. `optimize_shards` has no caller in the repository
and is modelled as what a caller may do before the run. The callback is called
inside the `try` that guards the result (parallel_executor.py:102), so one that raises
has its shard reported twice, the second time without tests.

**Run** `Sharding`: three tests in two files, durations 2, 3 and 5, up to three
shards, two workers, shards and callbacks that raise; the cap of the rebalancing is the
code's own, 100. Three tests on two shards are what it takes for the order of a
greedy split to matter; durations 3, 3, 5 are balanced to within a fifth without
being equal. `TestsAccounted` and `LightestFirst`. `CHECK_DEADLOCK FALSE`: the run
ends.

TLC refutes four statements under the constants of the run:

* `StaysSpread`: for durations 2, 2 and 5, `optimize_shards` turns the best split, 5
  against 2 and 2, into everything in one shard: the shortest test of the heaviest
  shard is larger than the gap, moves there and back, and the cap ends the loop at
  the wrong moment. The docstring (test_sharding.py:170) says "Optimize shard balance".
* `FilesTogether`: with as many shards as tests each test gets a shard of its own,
  whatever the strategy (test_sharding.py:87). docs/PARALLEL_EXECUTION.md:39 says
  "Keeps tests from same file together".
* `RunsApart`: `pytest -k` runs every test whose name contains the one asked for
  (parallel_executor.py:141), so two workers may run one test at once.
* `GreenMeansPassed`: the tests of a shard that raised are in no result, and the exit
  code is one only for failed results (parallel_commands.py:118).

**Theorems** (`ShardingProofs`), for any finite set of tests (`FiniteTests`), files,
durations, shards and workers: `ShardsKeepTests` (`Spec => [](TypeOK /\ ShardInv)`),
`EveryTestIsAccountedFor`, `GreedySplitIsEven`. `ShardInv` says where the tests are: in one
shard or in a unit still to be placed; with the one worker that has taken their
shard; in the row of a shard that is over, or nowhere if it raised. That the total is
the number of the tests reported follows from rows that share no test. That a
greedy split is even needs the order, too: what is still to be placed weighs no more
than any unit placed (`LongestFirst`). The weight of a shard and the totals
are folds over sets, so both rest on facts about sums: that the fold is defined, and that the
sum of two disjoint sets is the sum of their sums. Those are inductions over sets;
section 11 says how they are made.

## 11. What rests on TLC alone, and what is not modelled

Liveness (`Terminates`, `Reaped`, `FailsFast`, `CloseEnds`, `CallsEnd`, `BatchEnds`) is out
of the prover's reach. Every other property of the runs that pass is a theorem, some under
a hypothesis that the run meets and the theorem states (`KeepsForeground`, `Roomy`,
`PlainNames`).

The library's induction theorems take a predicate as a parameter, which the
provers cannot instantiate. Where a proof needs induction it takes the
smallest counterexample instead, by `WFMin` over an explicit set: the least number
(`LeastNumber`), or the smallest of some finite sets (`SmallestSet`), for which the claim
would fail.

Not modelled, by part:

* The engine process of the plugin, deep-link seeds and the merge of their
  results: next in the plan (section 2).
* Device drivers, screen parsing, classification, obstacles, waypoints and settle
  waits: `Crawler` takes any answer of a device, so their matching is below it.
* The load tester: a user's loop touches its own counters only. One thing can be read
  off the code: fail-fast (load_tester.py:288) looks at results that arrive after
  everything has been submitted, so it stops nothing early.
* The event store: one statement per event, by one thread. A crash leaves a
  prefix of the session, by construction of SQLite and not of this code.
* The mocking proxy, the dashboard, device discovery, the CLI and the MCP server:
  I/O around a dictionary, a database or a command.
* Analyzers, code generation, reports, healing, selection, security and
  accessibility checks, learned models, licensing and the Rust core: text or numbers in,
  text or numbers out, with no state that outlives a call. They are most of the
  repository's lines, so the share of lines mapped stays small however much of the
  stateful code is modelled.

`PROJECT.json` lists each component with its reason. It has a bounded list of
hazards; seven more are met in this code and covered by no property: parked work that
no other section finds (app_crawler.py:994, section 3); the first line a client reads
(daemon_commands.py:992, section 4); the owner a stopped engine keeps
(MTRDaemonService.kt:164, section 6); the leaks of pipeline.py:491 and
network_capture.py:99 (section 7); the states a pool takes for available
(device_pool.py:303, section 9); and load_tester.py:288 (above).
