----------------------------- MODULE LogDaemon -----------------------------
(***************************************************************************)
(* The device-log stream of the engine (JSONRPCServer in framework/cli/    *)
(* daemon_commands.py).  One main thread serves one client at a time over  *)
(* TCP, or the IDE over stdio; each log stream is a child process with a   *)
(* pump thread of its own, which writes to whatever transport the main     *)
(* thread has set by the time a line comes.  The two share _log_stream     *)
(* (current), _emit_sink (sink) and the io lock, which makes a write to a  *)
(* transport one step.                                                     *)
(*                                                                         *)
(* A terminated child is dead when the wait returns; what it wrote before  *)
(* is still in its pipe.                                                   *)
(***************************************************************************)
EXTENDS Naturals, Sequences

CONSTANTS
  Client,     \* TCP connections, or the IDE
  Asker,      \* who may ask for a stream: Client, unless a client has users
  Stream,     \* child processes, one per logs/start that gets to spawn
  None,
  Stdio,      \* whether the transport is stdio
  MaxAsks,    \* requests altogether
  MaxLines    \* lines a stream may write

ASSUME NoneIsNothing == None \notin Client \cup Asker \cup Stream
ASSUME ClientsAsk == Client \subseteq Asker
ASSUME StdioIsBoolean == Stdio \in BOOLEAN
ASSUME BoundsAreNumbers == {MaxAsks, MaxLines} \subseteq Nat

VARIABLES
  main,    \* where the main thread is
  client,  \* the client served, None between two
  gone,    \* whether that client has hung up
  sink,    \* _emit_sink: None means stdout
  current, \* _log_stream
  child,   \* the Popen at hand (proc in _stop_log_stream, handle_logs_start)
  req, by, ok, asks, \* the request at hand, whose it is, its outcome; their count
  proc,    \* per stream, its process
  pipe,    \* per stream, the lines written and not yet read
  made,    \* per stream, the lines written
  pump,    \* per stream, its pump thread
  asker,   \* per stream, who asked for it
  out      \* per client, what it was sent and has not read yet

server == <<main, client, gone, sink>>
request == <<req, by, ok, asks>>
streams == <<proc, pipe, made, pump, asker>>
vars == <<server, current, child, request, streams, out>>

Main == {"accept", "greet", "read", "stopping", "spawn", "settle", "reply",
         "hangup", "leaving", "exited"}
Request == {"start", "stop", "other", "bye"}
Proc == {"none", "running", "died", "killed"}
Pump == {"none", "reading", "holding", "obituary", "done"}

ReadyMsg == [kind |-> "ready"]

LineOf(s) == [kind |-> "line", of |-> s]
EndOf(s) == [kind |-> "ended", of |-> s]
Reply == [kind |-> "reply", req |-> req, by |-> by, ok |-> ok]

Message ==
  [kind : {"ready"}] \cup [kind : {"line", "ended"}, of : Stream]
    \cup [kind : {"reply"}, req : Request, by : Asker \cup {None}, ok : BOOLEAN]

TypeOK ==
  /\ main \in Main /\ req \in Request
  /\ {client, sink} \subseteq Client \cup {None}
  /\ {current, child} \subseteq Stream \cup {None}
  /\ by \in Asker \cup {None}
  /\ {gone, ok} \subseteq BOOLEAN /\ asks \in Nat
  /\ proc \in [Stream -> Proc] /\ pump \in [Stream -> Pump]
  /\ pipe \in [Stream -> Nat] /\ made \in [Stream -> Nat]
  /\ asker \in [Stream -> Asker \cup {None}]
  /\ out \in [Client -> Seq(Message)]

Init ==
  /\ IF Stdio THEN main = "read" /\ client \in Client
              ELSE main = "accept" /\ client = None
  /\ gone = FALSE /\ sink = None /\ current = None /\ child = None
  /\ req = "other" /\ by = None /\ ok = FALSE /\ asks = 0
  /\ proc = [s \in Stream |-> "none"] /\ pump = [s \in Stream |-> "none"]
  /\ pipe = [s \in Stream |-> 0] /\ made = [s \in Stream |-> 0]
  /\ asker = [s \in Stream |-> None]
  /\ out = [c \in Client |-> <<>>]

\* A write to a client that hung up is lost, when it does not raise.
Deliver(c, m) ==
  out' = IF c = None \/ gone THEN out ELSE [out EXCEPT ![c] = Append(@, m)]

\* _emit: the sink, else stdout, which is the IDE's only over stdio.
Listener == IF sink = None /\ Stdio THEN client ELSE sink
-----------------------------------------------------------------------------
(***************************************************************************)
(* The main thread.                                                        *)
(***************************************************************************)

\* run_tcp: the next client, and its socket as the sink of notifications.
Accept(c) ==
  /\ main = "accept" /\ out[c] = <<>>
  /\ main' = "greet" /\ client' = c /\ sink' = c
  /\ UNCHANGED <<gone, current, child, request, streams, out>>

Greet ==
  /\ main = "greet"
  /\ Deliver(client, ReadyMsg)
  /\ main' = "read"
  /\ UNCHANGED <<client, gone, sink, current, child, request, streams>>

\* _stop_log_stream, first half: the stream is taken out ...
TakeOut == child' = current /\ current' = None

\* Mutant: the old process is left running.
LetRun == UNCHANGED proc

\* ... and then terminated, killed if need be, and reaped.
Reap ==
  proc' = IF child # None /\ proc[child] = "running"
            THEN [proc EXCEPT ![child] = "killed"] ELSE proc

\* handle_logs_start and handle_logs_stop open by stopping the stream.
AskStream(kind, who) ==
  /\ main = "read" /\ asks < MaxAsks
  /\ kind \in {"start", "stop"}
  /\ req' = kind /\ by' = who /\ asks' = asks + 1
  /\ TakeOut
  /\ main' = "stopping"
  /\ UNCHANGED <<client, gone, sink, ok, streams, out>>

\* Any other request, a logs/start without a device among them.
AskOther(who) ==
  /\ main = "read" /\ asks < MaxAsks
  /\ req' = "other" /\ by' = who /\ asks' = asks + 1
  /\ main' = "reply"
  /\ UNCHANGED <<client, gone, sink, current, child, ok, streams, out>>

Stopped ==
  /\ main = "stopping"
  /\ Reap
  /\ child' = None
  /\ \/ /\ req = "start" /\ main' = "spawn"
        /\ UNCHANGED <<client, gone, req, ok>>
     \/ /\ req = "stop" /\ main' = "reply" /\ ok' = TRUE
        /\ UNCHANGED <<client, gone, req>>
     \/ /\ req = "bye" /\ main' = "accept" /\ req' = "other"
        /\ client' = None /\ gone' = FALSE
        /\ UNCHANGED ok
  /\ UNCHANGED <<sink, current, by, asks, pipe, made, pump, asker, out>>

\* The tool is missing: Popen raises.
SpawnFails ==
  /\ main = "spawn"
  /\ main' = "reply" /\ ok' = FALSE
  /\ UNCHANGED <<client, gone, sink, current, child, req, by, asks, streams, out>>

Spawn(s) ==
  /\ main = "spawn" /\ proc[s] = "none"
  /\ proc' = [proc EXCEPT ![s] = "running"]
  /\ asker' = [asker EXCEPT ![s] = by]
  /\ child' = s
  /\ main' = "settle"
  /\ UNCHANGED <<client, gone, sink, current, request, pipe, made, pump, out>>

\* Half a second later: a stream that still runs is the current one.
Settle ==
  /\ main = "settle"
  /\ IF proc[child] = "running"
       THEN /\ current' = child
            /\ pump' = [pump EXCEPT ![child] = "reading"]
            /\ ok' = TRUE
            /\ UNCHANGED pipe
       ELSE /\ pipe' = [pipe EXCEPT ![child] = 0]
            /\ ok' = FALSE
            /\ UNCHANGED <<current, pump>>
  /\ main' = "reply" /\ child' = None
  /\ UNCHANGED <<client, gone, sink, req, by, asks, proc, made, asker, out>>

Respond ==
  /\ main = "reply"
  /\ Deliver(client, Reply)
  /\ main' = "read" /\ req' = "other" /\ by' = None /\ ok' = FALSE
  /\ UNCHANGED <<client, gone, sink, current, child, asks, streams>>

\* The client hung up: end of file, or a write that raises.  The socket is
\* closed before the handler's finally clause runs.
HangUp ==
  /\ ~Stdio /\ gone /\ main \in {"greet", "read", "reply"}
  /\ main' = "hangup" /\ req' = "other" /\ by' = None /\ ok' = FALSE
  /\ UNCHANGED <<client, gone, sink, current, child, asks, streams, out>>

Unhook ==
  /\ main = "hangup"
  /\ sink' = None
  /\ main' = "leaving"
  /\ UNCHANGED <<client, gone, current, child, request, streams, out>>

\* Mutant: the client's stream outlives it.
StayStreaming == child' = None /\ UNCHANGED current

\* The departing client's stream is stopped.
LeaveStream == TakeOut

Leave ==
  /\ main = "leaving"
  /\ req' = "bye" /\ by' = None
  /\ LeaveStream
  /\ main' = "stopping"
  /\ UNCHANGED <<client, gone, sink, ok, asks, streams, out>>

\* The engine ends, at end of file over stdio or killed: its threads with it.
Exit ==
  /\ main # "exited"
  /\ main' = "exited"
  /\ pump' = [s \in Stream |-> IF pump[s] = "none" THEN "none" ELSE "done"]
  /\ UNCHANGED <<client, gone, sink, current, child, request, proc, pipe, made,
                 asker, out>>
-----------------------------------------------------------------------------
(***************************************************************************)
(* The pump thread of stream s (_pump).                                    *)
(***************************************************************************)
PumpTo(s, place) == pump' = [pump EXCEPT ![s] = place]

ReadLine(s) ==
  /\ pump[s] = "reading" /\ pipe[s] > 0
  /\ pipe' = [pipe EXCEPT ![s] = @ - 1]
  /\ PumpTo(s, "holding")
  /\ UNCHANGED <<server, current, child, request, proc, made, asker, out>>

\* Mutant: whose end it is is not asked.
AlwaysMourned(s) == TRUE

\* At end of file: "a stream nobody stopped".
Unstopped(s) == current = s

ReadEnd(s) ==
  /\ pump[s] = "reading" /\ pipe[s] = 0 /\ proc[s] # "running"
  /\ PumpTo(s, IF Unstopped(s) THEN "obituary" ELSE "done")
  /\ UNCHANGED <<server, current, child, request, proc, pipe, made, asker, out>>

Emit(s) ==
  /\ pump[s] \in {"holding", "obituary"} /\ main # "hangup"
  /\ IF pump[s] = "holding"
       THEN Deliver(Listener, LineOf(s)) /\ PumpTo(s, "reading")
       ELSE Deliver(Listener, EndOf(s)) /\ PumpTo(s, "done")
  /\ UNCHANGED <<server, current, child, request, proc, pipe, made, asker>>

\* The sink is a closed socket, or its peer is gone: the write may raise, and
\* the thread ends.
EmitRaises(s) ==
  /\ pump[s] \in {"holding", "obituary"}
  /\ sink # None /\ (gone \/ main = "hangup")
  /\ PumpTo(s, "done")
  /\ UNCHANGED <<server, current, child, request, proc, pipe, made, asker, out>>

PumpStep(s) == ReadLine(s) \/ ReadEnd(s) \/ Emit(s) \/ EmitRaises(s)
-----------------------------------------------------------------------------
(***************************************************************************)
(* The device tool of stream s, and the client.                            *)
(***************************************************************************)
WriteLine(s) ==
  /\ proc[s] = "running" /\ made[s] < MaxLines
  /\ made' = [made EXCEPT ![s] = @ + 1]
  /\ pipe' = [pipe EXCEPT ![s] = @ + 1]
  /\ UNCHANGED <<server, current, child, request, proc, pump, asker, out>>

Die(s) ==
  /\ proc[s] = "running"
  /\ proc' = [proc EXCEPT ![s] = "died"]
  /\ UNCHANGED <<server, current, child, request, pipe, made, pump, asker, out>>

PeerLeaves ==
  /\ ~Stdio /\ client # None /\ ~gone
  /\ gone' = TRUE
  /\ out' = [out EXCEPT ![client] = <<>>]
  /\ UNCHANGED <<main, client, sink, current, child, request, streams>>

\* The client reads its next line.
Receive(c) ==
  /\ out[c] # <<>>
  /\ out' = [out EXCEPT ![c] = Tail(@)]
  /\ UNCHANGED <<server, current, child, request, streams>>

Serve ==
  \/ Greet \/ Stopped \/ SpawnFails \/ Settle \/ Respond \/ HangUp \/ Unhook
  \/ Leave \/ \E s \in Stream : Spawn(s)

Ask == \/ \E kind \in {"start", "stop"} : AskStream(kind, client)
       \/ AskOther(client)

Device == \E s \in Stream : WriteLine(s) \/ Die(s)

Next ==
  \/ Serve \/ Ask \/ Device \/ PeerLeaves \/ Exit
  \/ \E c \in Client : Accept(c) \/ Receive(c)
  \/ \E s \in Stream : PumpStep(s)

Spec == Init /\ [][Next]_vars

(***************************************************************************)
(* The main thread goes on with the request at hand, and every pump thread *)
(* gets to run.  No client need ask, stay or come, and no device tool need *)
(* write or die.                                                           *)
(***************************************************************************)
FairSpec ==
  Spec /\ WF_vars(Serve) /\ \A s \in Stream : WF_vars(PumpStep(s))
-----------------------------------------------------------------------------
(***************************************************************************)
(* "Replaces any stream already running": however starts, stops and        *)
(* departures follow each other, one device tool runs at a time.           *)
(***************************************************************************)
OneToolRuns ==
  \A s, t \in Stream : proc[s] = "running" /\ proc[t] = "running" => s = t

(***************************************************************************)
(* A client is told a stream ended only if it ended by itself: a stop, a   *)
(* replacement or a departure that reaches the pump as end of file is not  *)
(* taken for one.                                                          *)
(***************************************************************************)
ObituariesAreTrue ==
  \A c \in Client : \A i \in 1..Len(out[c]) :
    out[c][i].kind = "ended" => proc[out[c][i].of] = "died"

(***************************************************************************)
(* The current stream was asked for by the client now served: no client    *)
(* finds the stream of the one before it.                                  *)
(***************************************************************************)
StreamHasItsClient == ~Stdio /\ current # None => asker[current] = client

(***************************************************************************)
(* What keeps those from step to step: a tool that runs is the current     *)
(* stream or the one at hand, never both; the current stream was not       *)
(* killed, so its end is its own; the request at hand is the client's.     *)
(***************************************************************************)
RunsAtHand == \A s \in Stream : proc[s] = "running" => s \in {current, child}

OneAtHand ==
  /\ current = None \/ child = None
  /\ main \in {"accept", "spawn", "stopping", "settle"} => current = None
  /\ main \notin {"stopping", "settle", "exited"} => child = None
  /\ main = "settle" => child # None

EndsAreItsOwn ==
  /\ current # None => proc[current] \in {"running", "died"}
  /\ \A s \in Stream : pump[s] = "obituary" => proc[s] = "died"

ForTheClient ==
  ~Stdio =>
    /\ main = "spawn" \/ (main = "stopping" /\ req = "start") => by = client
    /\ main = "settle" => asker[child] = client

StreamInv ==
  /\ RunsAtHand /\ OneAtHand /\ EndsAreItsOwn /\ ForTheClient
  /\ ObituariesAreTrue /\ StreamHasItsClient

(***************************************************************************)
(* A stream that was stopped, replaced or left behind is gone in the end:  *)
(* its tool is dead, its pipe read, its thread over.                       *)
(***************************************************************************)
Reaped ==
  \A s \in Stream :
    pump[s] \notin {"none", "done"} /\ current # s
      ~> pump[s] = "done" /\ (main = "exited" \/ proc[s] # "running")

\* "Don't ... leak the stream into the next client" (run_tcp).
LinesGoHome ==
  \A c \in Client : \A i \in 1..Len(out[c]) :
    out[c][i].kind \in {"line", "ended"} => asker[out[c][i].of] = c

(***************************************************************************)
(* The first line a client reads is the ready notification, "sent on       *)
(* connect": nothing is written to its socket between the accept and that. *)
(* A line of the stream before refutes it.                                 *)
(***************************************************************************)
ReadyComesFirst ==
  [][main = "greet" /\ out' # out => main' = "read" \/ gone']_vars
=============================================================================
