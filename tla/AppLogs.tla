------------------------------ MODULE AppLogs ------------------------------
(***************************************************************************)
(* The app logs of the IDE plugin over the engine of LogDaemon: the Logs   *)
(* panels of the open projects (LogsPanel.kt), the application's one       *)
(* service with its logStreamOwner (MTRDaemonService.kt), one engine over  *)
(* stdio.  The panels' background workers and the reader thread run        *)
(* concurrently; the presses come from the one UI thread.  Requests are    *)
(* answered by id; a call that waited too long gives up, and its request   *)
(* and its answer stay on their way (JsonRpcClient.kt, see RpcClient).     *)
(***************************************************************************)
EXTENDS LogDaemon, FiniteSets

CONSTANTS
  Panel,        \* Logs panels, one per open project
  SpawnMayFail, \* whether a device tool may be missing or die at once
  OneAtATime,   \* whether users wait for every answer before the next press
  MaxPresses,   \* presses and closings altogether
  MaxAtOnce,    \* starts, and stops, a panel may have under way
  MaxTimeOuts,  \* starts that may wait for longer than their ten minutes
  MaxDeaths     \* device tools that may end by themselves

ASSUME PanelsArePanels == None \notin Panel
ASSUME EngineOverStdio == Stdio = TRUE
ASSUME BoundsAreCounts == {MaxPresses, MaxAtOnce, MaxTimeOuts, MaxDeaths} \subseteq Nat

\* The background workers, numbered by the press that starts them; each makes
\* one call, so its number is the id of its request.
Job == 1..MaxPresses

ASSUME JobsAsk == Job \subseteq Asker

VARIABLES
  owner,    \* logStreamOwner
  svc,      \* the service: "up", "closing" while stop() kills the engine, "down"
  at,       \* per worker, where it is
  whose,    \* per worker, the panel it works for
  alive,    \* the panels not disposed
  wire,     \* requests written to the engine's stdin
  presses,  \* presses and closings so far
  cutShort  \* the panels disposed while a start of theirs was under way

panels == <<owner, at, whose, alive, presses, cutShort>>
engine == <<server, current, child, request, streams>>
allVars == <<vars, panels, svc, wire>>

\* A start is queued, sent and granted; a stop is asked for, looks at the owner,
\* releases, and is called.
UnderStart == {"queued", "sent", "granted"}
UnderStop == {"asked", "releasing", "released", "called"}
Ended == {"unpressed", "timedout", "done"}

LogsTypeOK ==
  /\ owner \in Panel \cup {None} /\ svc \in {"up", "closing", "down"}
  /\ at \in [Job -> UnderStart \cup UnderStop \cup Ended]
  /\ whose \in [Job -> Panel \cup {None}]
  /\ alive \subseteq Panel /\ cutShort \subseteq Panel /\ presses \in 0..MaxPresses
  /\ wire \in Seq([kind : {"start", "stop"}, by : Job])

LogsInit ==
  /\ Init
  /\ owner = None /\ svc = "up"
  /\ at = [n \in Job |-> "unpressed"] /\ whose = [n \in Job |-> None]
  /\ alive = Panel /\ wire = <<>> /\ presses = 0 /\ cutShort = {}

AllIdle == \A n \in Job : at[n] \in Ended

\* The client's connection is open: a call is written rather than refused.
Connected == svc = "up" /\ main # "exited"

Go(n, place) == at' = [at EXCEPT ![n] = place]
Write(r) == wire' = Append(wire, r)

UnderWay(p, places) == {n \in Job : whose[n] = p /\ at[n] \in places}

\* A press, or the closing, of panel p gives a worker something to do.
Press(p, place) ==
  /\ presses < MaxPresses /\ presses' = presses + 1
  /\ OneAtATime => AllIdle
  /\ p \in alive
  /\ whose' = [whose EXCEPT ![presses + 1] = p]
  /\ Go(presses + 1, place)
-----------------------------------------------------------------------------
(***************************************************************************)
(* A panel's Start, enabled while it does not own the stream.              *)
(***************************************************************************)
PressStart(p) ==
  /\ owner # p /\ Cardinality(UnderWay(p, UnderStart)) < MaxAtOnce
  /\ Press(p, "queued")
  /\ UNCHANGED <<vars, owner, svc, alive, wire, cutShort>>

\* The worker's call; refused, or null without an engine, it changes nothing.
SendStart(n) ==
  /\ at[n] = "queued"
  /\ IF Connected THEN Write([kind |-> "start", by |-> n]) /\ Go(n, "sent")
                  ELSE Go(n, "done") /\ UNCHANGED wire
  /\ UNCHANGED <<vars, owner, svc, whose, alive, presses, cutShort>>

\* startAppLogs takes the stream once it is answered.
Claim(n) == owner' = whose[n]

TakeStream(n) ==
  /\ at[n] = "granted"
  /\ Claim(n)
  /\ Go(n, "done")
  /\ UNCHANGED <<vars, svc, whose, alive, wire, presses, cutShort>>

(***************************************************************************)
(* A panel's Stop, enabled while it owns the stream.                       *)
(***************************************************************************)
PressStop(p) ==
  /\ owner = p /\ Cardinality(UnderWay(p, UnderStop)) < MaxAtOnce
  /\ Press(p, "asked")
  /\ UNCHANGED <<vars, owner, svc, alive, wire, cutShort>>

\* stopAppLogs looks at the owner, clears it, and calls whatever it saw.
LookAtOwner(n) ==
  /\ at[n] = "asked"
  /\ Go(n, IF owner = whose[n] THEN "releasing" ELSE "released")
  /\ UNCHANGED <<vars, owner, svc, whose, alive, wire, presses, cutShort>>

\* The stream is nobody's.
LetGo == owner' = None

Release(n) ==
  /\ at[n] = "releasing"
  /\ LetGo
  /\ Go(n, "released")
  /\ UNCHANGED <<vars, svc, whose, alive, wire, presses, cutShort>>

\* Mutant: a release without the call.
SendNothing(n) == Go(n, "done") /\ UNCHANGED wire

\* The call of logs/stop.
CallStop(n) ==
  IF Connected THEN Write([kind |-> "stop", by |-> n]) /\ Go(n, "called")
               ELSE Go(n, "done") /\ UNCHANGED wire

SendStop(n) ==
  /\ at[n] = "released"
  /\ CallStop(n)
  /\ UNCHANGED <<vars, owner, svc, whose, alive, presses, cutShort>>

\* stopAppLogsAsync: only the owner releases, and its call is in the background.
HandBack(p) == Press(p, IF owner = p THEN "releasing" ELSE "done")

\* dispose() of the panel of a project that is closed.
Close(p) ==
  /\ HandBack(p)
  /\ alive' = alive \ {p}
  /\ cutShort' = IF UnderWay(p, UnderStart) # {} THEN cutShort \cup {p} ELSE cutShort
  /\ UNCHANGED <<vars, owner, svc, wire>>
-----------------------------------------------------------------------------
(***************************************************************************)
(* The reader thread: it completes the call a reply answers, and shows any *)
(* other message to the panels; the owner renders it.                      *)
(***************************************************************************)
Incoming == Head(out[client])

Waiting(n) == at[n] \in {"sent", "called"}

\* A reply whose call gave up is dropped.
Answer(m) ==
  IF Waiting(m.by) THEN Go(m.by, IF m.req = "start" /\ m.ok THEN "granted" ELSE "done")
                   ELSE UNCHANGED at

Dispatch ==
  /\ Receive(client)
  /\ IF Incoming.kind = "reply" THEN Answer(Incoming) ELSE UNCHANGED at
  /\ UNCHANGED <<owner, svc, whose, alive, wire, presses, cutShort>>

GaveUp(n) == at[n] = "timedout"

\* The call has waited for ten minutes; whatever it asked for is not called off.
TimeOut(n) ==
  /\ Waiting(n) /\ Cardinality({k \in Job : GaveUp(k)}) < MaxTimeOuts
  /\ Go(n, IF at[n] = "sent" THEN "timedout" ELSE "done")
  /\ UNCHANGED <<vars, owner, svc, whose, alive, wire, presses, cutShort>>

\* Mutant: the calls in flight are left waiting.
FailNone == UNCHANGED at

\* The reader's last act fails every call in flight.
FailAll == at' = [n \in Job |-> IF Waiting(n) THEN "done" ELSE at[n]]

ReaderEnds ==
  /\ main = "exited" /\ out[client] = <<>>
  /\ \E n \in Job : Waiting(n)
  /\ FailAll
  /\ wire' = <<>>
  /\ UNCHANGED <<vars, owner, svc, whose, alive, presses, cutShort>>

(***************************************************************************)
(* MTRDaemonService.stop, by the user or on the engine's exit: the engine  *)
(* is killed, what it wrote last left unread; then the fields are cleared. *)
(***************************************************************************)
BeginStop ==
  /\ svc = "up" /\ svc' = "closing"
  /\ main' = "exited"
  /\ pump' = [s \in Stream |-> IF pump[s] = "none" THEN "none" ELSE "done"]
  /\ out' = [out EXCEPT ![client] = <<>>]
  /\ UNCHANGED <<client, gone, sink, current, child, request, proc, pipe, made,
                 asker, panels, wire>>

EndStop ==
  /\ svc = "closing" /\ svc' = "down"
  /\ LetGo
  /\ UNCHANGED <<vars, at, whose, alive, wire, presses, cutShort>>
-----------------------------------------------------------------------------
(***************************************************************************)
(* The engine, fed from its stdin.                                         *)
(***************************************************************************)
ReadRequest ==
  /\ wire # <<>>
  /\ AskStream(Head(wire).kind, Head(wire).by)
  /\ wire' = Tail(wire)
  /\ UNCHANGED <<panels, svc>>

ServeOn ==
  /\ Serve
  /\ ~SpawnMayFail => ~SpawnFails
  /\ UNCHANGED <<panels, svc, wire>>

ToolStep ==
  /\ Device
  /\ Cardinality({s \in Stream : proc'[s] = "died"}) <= MaxDeaths
  /\ ~SpawnMayFail /\ child # None => proc'[child] = proc[child]
  /\ UNCHANGED <<panels, svc, wire>>

PumpOn(s) == PumpStep(s) /\ UNCHANGED <<panels, svc, wire>>

EngineDies == svc = "up" /\ Exit /\ UNCHANGED <<panels, svc, wire>>

WorkerStep(n) ==
  SendStart(n) \/ TakeStream(n) \/ LookAtOwner(n) \/ Release(n) \/ SendStop(n)

User(p) == PressStart(p) \/ PressStop(p) \/ Close(p)

LogsNext ==
  \/ \E p \in Panel : User(p)
  \/ \E n \in Job : WorkerStep(n) \/ TimeOut(n)
  \/ Dispatch \/ ReaderEnds \/ BeginStop \/ EndStop
  \/ ReadRequest \/ ServeOn \/ ToolStep \/ EngineDies
  \/ \E s \in Stream : PumpOn(s)

LogsSpec == LogsInit /\ [][LogsNext]_allVars

(***************************************************************************)
(* Every thread that has work gets to do it: the workers, the reader, the  *)
(* stop() under way, the engine's main thread.  Users, tools, deaths and   *)
(* timeouts are free.                                                      *)
(***************************************************************************)
LogsFairSpec ==
  /\ LogsSpec
  /\ \A n \in Job : WF_allVars(WorkerStep(n))
  /\ WF_allVars(Dispatch) /\ WF_allVars(ReaderEnds) /\ WF_allVars(EndStop)
  /\ WF_allVars(ReadRequest) /\ WF_allVars(ServeOn)
-----------------------------------------------------------------------------
\* No call, reply or stop is under way.
AtRest ==
  /\ AllIdle /\ wire = <<>> /\ out[client] = <<>>
  /\ main \in {"read", "exited"} /\ svc # "closing"

Streaming == current # None /\ proc[current] = "running"

(***************************************************************************)
(* When nothing is under way, a stream that runs has an owner, and the     *)
(* owner is a panel the user still sees, so its Stop is enabled: however   *)
(* presses, answers and late workers interleave, with two exceptions.  A   *)
(* start that timed out may be served after all, for nobody.  And a panel  *)
(* closed while a start of its own was under way may take the stream after *)
(* it handed it back.                                                      *)
(***************************************************************************)
NoOrphanStream ==
  AtRest =>
    /\ main = "read" /\ Streaming => owner # None \/ GaveUp(asker[current])
    /\ owner # None => owner \in alive \cup cutShort

(***************************************************************************)
(* Every press is done with in the end, by the engine's answer or by its   *)
(* death: no worker has to wait for its timeout.                           *)
(***************************************************************************)
CallsEnd == <>[]AllIdle

(***************************************************************************)
(* The panel that owns the stream is the one it was started for ("Track    *)
(* which panel owns the live stream"): at rest, a panel that shows itself  *)
(* streaming has a stream, which runs or has ended by itself.              *)
(***************************************************************************)
OwnerIsServed ==
  AtRest /\ main = "read" /\ owner # None =>
    current # None /\ whose[asker[current]] = owner

\* A disposed panel does not hold the stream ("would leak the whole project").
\* A claim that comes after the release refutes this and the next.
DisposedOwnsNothing == AtRest /\ owner # None => owner \in alive

\* No panel owns the stream of an engine that was stopped.
StoppedOwnsNothing == AtRest /\ svc = "down" => owner = None

\* A device line is rendered by the panel that started its stream.  One that was
\* on its way when the owner changed refutes it.
RendersOwn ==
  [][Dispatch /\ Incoming.kind \in {"line", "ended"} /\ owner \in alive =>
        whose[asker[Incoming.of]] = owner]_allVars
-----------------------------------------------------------------------------
(***************************************************************************)
(* What keeps NoOrphanStream from step to step.  The engine is the one the *)
(* service talks to.  A call is in one place, on the wire, at the engine   *)
(* or answered, and its worker waits for it or gave up.  While the engine  *)
(* lives, a stream is owned, about to be claimed, about to be stopped, or  *)
(* was given up.  And a panel that is closed hands back what it owns.      *)
(***************************************************************************)
Call == [kind : {"start", "stop"}, by : Job]

Waits(r) ==
  at[r.by] \in IF r.kind = "start" THEN {"sent", "timedout"} ELSE {"called", "done"}

Answers(m, r) == m.kind = "reply" /\ m.req = r.kind /\ m.by = r.by

OnWire(r) == \E i \in 1..Len(wire) : wire[i] = r
AtEngine(r) ==
  main \in {"stopping", "spawn", "settle", "reply"} /\ req = r.kind /\ by = r.by
Answered(r) == \E i \in 1..Len(out[client]) : Answers(out[client][i], r)

RepliesAreAnswers ==
  \A i \in 1..Len(out[client]) : out[client][i].kind = "reply" =>
    \E r \in Call : Answers(out[client][i], r)

EngineIsOurs ==
  /\ client \in Client /\ ~gone /\ sink = None
  /\ main \in {"read", "stopping", "spawn", "settle", "reply", "exited"}
  /\ main \in {"stopping", "spawn", "settle", "reply"} => \E r \in Call : AtEngine(r)
  /\ main \in {"spawn", "settle"} => req = "start"
  /\ svc # "up" => main = "exited"
  /\ RepliesAreAnswers

StreamsAreAskedFor ==
  /\ main = "settle" => asker[child] = by
  /\ main \in {"stopping", "spawn", "settle"} => current = None
  /\ current # None => asker[current] \in Job

OneCall ==
  /\ \A i, j \in 1..Len(wire) : wire[i] = wire[j] => i = j
  /\ \A i, j \in 1..Len(out[client]) : \A r \in Call :
        Answers(out[client][i], r) /\ Answers(out[client][j], r) => i = j
  /\ \A r \in Call :
        /\ OnWire(r) \/ AtEngine(r) \/ Answered(r) => Waits(r)
        /\ ~(OnWire(r) /\ AtEngine(r))
        /\ ~(OnWire(r) /\ Answered(r))
        /\ ~(AtEngine(r) /\ Answered(r))

\* The engine has granted the start of worker n, which has not heard of it.
Grants(m, n) == m.kind = "reply" /\ m.req = "start" /\ m.ok /\ m.by = n
Granted(n) ==
  \/ main = "reply" /\ req = "start" /\ ok /\ by = n
  \/ \E i \in 1..Len(out[client]) : Grants(out[client][i], n)

Covered ==
  current # None =>
    \/ owner # None \/ wire # <<>> \/ GaveUp(asker[current])
    \/ \E n \in Job : at[n] \in {"granted", "releasing", "released"}
    \/ at[asker[current]] = "sent" /\ Granted(asker[current])

OwnersAreOpen ==
  /\ owner \in alive \cup cutShort \cup {None}
       \/ \E n \in Job : at[n] = "releasing" /\ whose[n] = owner
  /\ \A n \in Job :
       /\ n > presses => at[n] = "unpressed"
       /\ at[n] \in UnderStart => whose[n] \in alive \cup cutShort

LogsInv ==
  /\ EngineIsOurs /\ StreamsAreAskedFor /\ OneCall /\ OwnersAreOpen
  /\ main # "exited" => Covered
=============================================================================
