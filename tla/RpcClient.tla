----------------------------- MODULE RpcClient -----------------------------
(***************************************************************************)
(* The JSON-RPC client of the IDE plugin (JsonRpcClient.kt): callers that  *)
(* each wait on a future of their own, one reader thread that completes    *)
(* them by id, and close().  The table of pending futures is a concurrent  *)
(* map, and no lock orders a caller's registration with the reader's end.  *)
(* A call stands for its id, which is never used twice.                    *)
(***************************************************************************)
EXTENDS Naturals, Sequences

CONSTANTS Call, None

ASSUME NoneIsNoCall == None \notin Call

VARIABLES
  caller,  \* per call, where its thread is
  future,  \* per call, its future
  pending, \* the calls whose future is in the table
  reader,  \* where the reader thread is
  hand,    \* the call it is completing
  drain,   \* the calls its last loop has yet to visit
  closed, running,  \* the two flags
  closer,  \* where close() is
  stdin, input,     \* requests on their way; whether the pipe is open
  stdout,  \* answers on their way
  daemon, busy      \* the engine process, and the request it is at

callers == <<caller, future>>
reading == <<reader, hand, drain, closed>>
closing == <<running, closer>>
engine == <<stdin, input, stdout, daemon, busy>>
vars == <<callers, pending, reading, closing, engine>>

Place == {"idle", "registered", "checked", "waiting", "expired",
          "answered", "failed", "timedout", "refused"}
Underway == {"registered", "checked", "waiting", "expired"}
Reader == {"testing", "reading", "completing", "closing", "draining",
           "clearing", "gone"}
Closer == {"idle", "stopping", "killing", "releasing", "closed"}

TypeOK ==
  /\ caller \in [Call -> Place]
  /\ future \in [Call -> {"none", "open", "value", "error"}]
  /\ pending \subseteq Call /\ drain \subseteq Call
  /\ reader \in Reader /\ closer \in Closer /\ daemon \in {"up", "exited"}
  /\ {closed, running, input} \subseteq BOOLEAN
  /\ {hand, busy} \subseteq Call \cup {None}
  /\ stdin \in Seq(Call) /\ stdout \in Seq(Call)

Init ==
  /\ caller = [c \in Call |-> "idle"] /\ future = [c \in Call |-> "none"]
  /\ pending = {} /\ drain = {} /\ hand = None
  /\ reader = "testing" /\ closed = FALSE
  /\ running = TRUE /\ closer = "idle"
  /\ stdin = <<>> /\ input = TRUE /\ stdout = <<>>
  /\ daemon = "up" /\ busy = None

At(c, place) == caller' = [caller EXCEPT ![c] = place]
Complete(c, with) ==
  future' = IF future[c] = "open" THEN [future EXCEPT ![c] = with] ELSE future
-----------------------------------------------------------------------------
(***************************************************************************)
(* call(): register the future, look at closed, write, wait.               *)
(***************************************************************************)

Register(c) ==
  /\ caller[c] = "idle" /\ At(c, "registered")
  /\ future' = [future EXCEPT ![c] = "open"]
  /\ pending' = pending \cup {c}
  /\ UNCHANGED <<reading, closing, engine>>

\* Mutant: the flag is not looked at.
AssumeOpen(c) == At(c, "checked") /\ UNCHANGED pending

\* Looked at only once the future is registered.
LookAtClosed(c) ==
  IF closed THEN At(c, "refused") /\ pending' = pending \ {c}
            ELSE At(c, "checked") /\ UNCHANGED pending

Check(c) ==
  /\ caller[c] = "registered"
  /\ LookAtClosed(c)
  /\ UNCHANGED <<future, reading, closing, engine>>

\* The writer swallows the error of a pipe that is closed or broken.
Send(c) ==
  /\ caller[c] = "checked" /\ At(c, "waiting")
  /\ stdin' = IF input /\ daemon = "up" THEN Append(stdin, c) ELSE stdin
  /\ UNCHANGED <<future, pending, reading, closing, input, stdout, daemon, busy>>

Return(c) ==
  /\ caller[c] = "waiting" /\ future[c] \in {"value", "error"}
  /\ At(c, IF future[c] = "value" THEN "answered" ELSE "failed")
  /\ UNCHANGED <<future, pending, reading, closing, engine>>

\* The wait times out ...
Expire(c) ==
  /\ caller[c] = "waiting" /\ future[c] = "open"
  /\ At(c, "expired")
  /\ UNCHANGED <<future, pending, reading, closing, engine>>

\* Mutant: the entry of a call that timed out is left in the table.
ForgetNot(c) == UNCHANGED pending

\* ... and the call leaves the table.
Forget(c) == pending' = pending \ {c}

GiveUp(c) ==
  /\ caller[c] = "expired" /\ At(c, "timedout")
  /\ Forget(c)
  /\ UNCHANGED <<future, reading, closing, engine>>
-----------------------------------------------------------------------------
(***************************************************************************)
(* readLoop() and dispatch().  readLine holds the stream's lock.           *)
(***************************************************************************)
Test ==
  /\ reader = "testing"
  /\ reader' = IF running THEN "reading" ELSE "closing"
  /\ UNCHANGED <<callers, pending, hand, drain, closed, closing, engine>>

\* An answer nobody waits for any more is dropped.
ReadLine ==
  /\ reader = "reading" /\ stdout # <<>>
  /\ stdout' = Tail(stdout)
  /\ pending' = pending \ {Head(stdout)}
  /\ IF Head(stdout) \in pending
       THEN reader' = "completing" /\ hand' = Head(stdout)
       ELSE reader' = "testing" /\ UNCHANGED hand
  /\ UNCHANGED <<callers, drain, closed, closing, stdin, input, daemon, busy>>

CompleteOne ==
  /\ reader = "completing"
  /\ Complete(hand, "value")
  /\ reader' = "testing" /\ hand' = None
  /\ UNCHANGED <<caller, pending, drain, closed, closing, engine>>

\* End of file, or a line that is not UTF-8: any other bad line is ignored.
ReadEnd ==
  /\ reader = "reading" /\ stdout = <<>> /\ daemon = "exited"
  /\ reader' = "closing"
  /\ UNCHANGED <<callers, pending, hand, drain, closed, closing, engine>>

\* Mutant: the flag is raised once the calls have been failed.
RaiseLate == UNCHANGED closed

\* "closed is set FIRST"
Raise == closed' = TRUE

BeginDrain ==
  /\ reader = "closing" /\ reader' = "draining"
  /\ Raise
  /\ drain' = pending
  /\ UNCHANGED <<callers, pending, hand, closing, engine>>

\* The loop visits every future that was there, and may meet a later one.
FailOne(c) ==
  /\ reader = "draining" /\ c \in drain \cup pending
  /\ Complete(c, "error")
  /\ drain' = drain \ {c}
  /\ UNCHANGED <<caller, pending, reader, hand, closed, closing, engine>>

EndDrain ==
  /\ reader = "draining" /\ drain = {} /\ reader' = "clearing"
  /\ UNCHANGED <<callers, pending, hand, drain, closed, closing, engine>>

Clear ==
  /\ reader = "clearing" /\ reader' = "gone"
  /\ pending' = {} /\ closed' = TRUE
  /\ UNCHANGED <<callers, hand, drain, closing, engine>>
-----------------------------------------------------------------------------
(***************************************************************************)
(* close(): the writer, then the process, then the reader, whose stream    *)
(* cannot be closed while readLine holds its lock.                         *)
(***************************************************************************)
BeginClose ==
  /\ closer = "idle" /\ closer' = "stopping" /\ running' = FALSE
  /\ UNCHANGED <<callers, pending, reading, engine>>

CloseWriter ==
  /\ closer = "stopping" /\ closer' = "killing" /\ input' = FALSE
  /\ UNCHANGED <<callers, pending, reading, running, stdin, stdout, daemon, busy>>

\* Mutant: the process is left to end by itself.
WaitForEnd == UNCHANGED daemon

\* destroy, and destroyForcibly five seconds later.
Kill == daemon' = "exited"

KillProcess ==
  /\ closer = "killing" /\ closer' = "releasing"
  /\ Kill
  /\ UNCHANGED <<callers, pending, reading, running, stdin, input, stdout, busy>>

CloseReader ==
  /\ closer = "releasing" /\ reader # "reading" /\ closer' = "closed"
  /\ UNCHANGED <<callers, pending, reading, running, engine>>
-----------------------------------------------------------------------------
(***************************************************************************)
(* The engine: one request at a time, for as long as it takes; it may die, *)
(* and ends when its input does.                                           *)
(***************************************************************************)
Take ==
  /\ daemon = "up" /\ busy = None /\ stdin # <<>>
  /\ busy' = Head(stdin) /\ stdin' = Tail(stdin)
  /\ UNCHANGED <<callers, pending, reading, closing, input, stdout, daemon>>

Answer ==
  /\ daemon = "up" /\ busy # None
  /\ stdout' = Append(stdout, busy) /\ busy' = None
  /\ UNCHANGED <<callers, pending, reading, closing, stdin, input, daemon>>

EndOfInput ==
  /\ daemon = "up" /\ busy = None /\ stdin = <<>> /\ ~input
  /\ daemon' = "exited"
  /\ UNCHANGED <<callers, pending, reading, closing, stdin, input, stdout, busy>>

Crash ==
  /\ daemon = "up" /\ daemon' = "exited"
  /\ UNCHANGED <<callers, pending, reading, closing, stdin, input, stdout, busy>>

CallStep(c) == Check(c) \/ Send(c) \/ Return(c) \/ GiveUp(c)

ReaderStep ==
  \/ Test \/ ReadLine \/ CompleteOne \/ ReadEnd \/ BeginDrain
  \/ EndDrain \/ Clear \/ \E c \in drain : FailOne(c)

CloseStep == CloseWriter \/ KillProcess \/ CloseReader

Engine == Take \/ Answer \/ EndOfInput \/ Crash

Next ==
  \/ \E c \in Call : Register(c) \/ CallStep(c) \/ Expire(c) \/ FailOne(c)
  \/ ReaderStep \/ BeginClose \/ CloseStep \/ Engine

Spec == Init /\ [][Next]_vars

(***************************************************************************)
(* The plugin's threads go on while they can.  The engine need not: it may *)
(* hang on any request.  Nothing rests on the timeout either.              *)
(***************************************************************************)
FairSpec ==
  /\ Spec
  /\ \A c \in Call : WF_vars(CallStep(c))
  /\ WF_vars(ReaderStep) /\ WF_vars(CloseStep)
-----------------------------------------------------------------------------
(***************************************************************************)
(* Once the reader is gone no call waits on a future that nobody will      *)
(* complete, whenever it registered: it must not park for the ten minutes  *)
(* of the timeout.                                                         *)
(***************************************************************************)
NoParkedCall ==
  reader = "gone" =>
    \A c \in Call : caller[c] \in {"checked", "waiting"} => future[c] # "open"

(***************************************************************************)
(* The table holds no future of a call that is over: a timeout, a refusal  *)
(* and an answer each take theirs out, but for the reader's last loop.     *)
(***************************************************************************)
PendingIsUnderway ==
  reader \notin {"draining", "clearing"} =>
    \A c \in pending : caller[c] \in Underway

(***************************************************************************)
(* When the engine dies every call ends, without its timeout.              *)
(***************************************************************************)
FailsFast ==
  \A c \in Call : daemon = "exited" /\ caller[c] \in Underway
                    ~> caller[c] \notin Underway

\* close() ends even while the engine is busy and never reads its input.
CloseEnds == closer = "stopping" ~> closer = "closed"

(***************************************************************************)
(* Why: until the reader looks at the table for the last time, a call that *)
(* saw closed down is in it, or in the reader's hand; from then on, in the *)
(* part of the table still to be visited.                                  *)
(***************************************************************************)
ClosedIsRaised == closed <=> reader \in {"draining", "clearing", "gone"}

Reachable(c) ==
  \/ reader = "draining" /\ c \in drain
  \/ ~closed /\ (c \in pending \/ (reader = "completing" /\ hand = c))

OpenIsReachable ==
  \A c \in Call :
    /\ future[c] = "open"
    /\ caller[c] \in {"checked", "waiting"} \/ (caller[c] = "registered" /\ ~closed)
    => Reachable(c)

\* A future that is completed is out of the table, the one in hand already.
CompletedIsOut ==
  reader \notin {"draining", "clearing"} =>
    \A c \in Call : future[c] \in {"value", "error"} => c \notin pending

HandIsOut ==
  reader = "completing" => hand \in Call \ pending /\ caller[hand] # "idle"

RpcInv ==
  /\ ClosedIsRaised /\ OpenIsReachable /\ CompletedIsOut /\ HandIsOut
  /\ PendingIsUnderway
=============================================================================
