---------------------------- MODULE LogsProofs -----------------------------
(***************************************************************************)
(* The engine's log stream, for any number of clients, streams, lines and  *)
(* requests: one tool runs at a time, an end that is announced is the      *)
(* stream's own, and the current stream belongs to the client served.      *)
(* And the panels over it, for any number of them and of presses: who can  *)
(* stop a stream that runs once nothing is under way.                      *)
(***************************************************************************)
EXTENDS AppLogs, FiniteSetTheorems, SequenceTheorems, TLAPS

\* What a client is sent stays a sequence of messages.
LEMMA DeliverType ==
  ASSUME TypeOK, NEW c \in Client \cup {None}, NEW m \in Message, Deliver(c, m)
  PROVE  /\ out' \in [Client -> Seq(Message)]
         /\ \A d \in Client :
               out'[d] = out[d] \/ out'[d] = Append(out[d], m)
<1>1. out \in [Client -> Seq(Message)]
  BY DEF TypeOK
<1>2. CASE c = None \/ gone
  BY <1>1, <1>2 DEF Deliver
<1>3. CASE c # None /\ ~gone
  <2>1. c \in Client /\ out' = [out EXCEPT ![c] = Append(@, m)]
    BY <1>3 DEF Deliver
  <2>2. Append(out[c], m) \in Seq(Message)
    BY <1>1, <2>1, AppendProperties
  <2> QED
    BY <1>1, <2>1, <2>2
<1> QED
  BY <1>2, <1>3

\* The messages the engine writes are messages.
LEMMA MessagesAreMessages ==
  ASSUME TypeOK
  PROVE  /\ ReadyMsg \in Message /\ Reply \in Message
         /\ \A s \in Stream : LineOf(s) \in Message /\ EndOf(s) \in Message
         /\ Listener \in Client \cup {None}
BY DEF TypeOK, Message, ReadyMsg, Reply, LineOf, EndOf, Listener

LEMMA TypeStep ==
  ASSUME TypeOK, [Next]_vars
  PROVE  TypeOK'
<1> USE DEF server, request, streams
<1>1. ASSUME NEW c \in Client, Accept(c) PROVE TypeOK'
  BY <1>1 DEF Accept, TypeOK, Main
<1>2. CASE Greet
  <2>1. out' \in [Client -> Seq(Message)]
    BY <1>2, DeliverType, MessagesAreMessages DEF Greet, TypeOK
  <2> QED
    BY <1>2, <2>1 DEF Greet, TypeOK, Main
<1>3. ASSUME NEW kind \in {"start", "stop"}, AskStream(kind, client) PROVE TypeOK'
  BY <1>3, ClientsAsk DEF AskStream, TakeOut, TypeOK, Main, Request
<1>4. CASE AskOther(client)
  BY <1>4, ClientsAsk DEF AskOther, TypeOK, Main, Request
<1>5. CASE Stopped
  <2>1. proc' \in [Stream -> Proc]
    BY <1>5 DEF Stopped, Reap, TypeOK, Proc
  <2>2. main' \in Main /\ client' \in Client \cup {None} /\ {gone', ok'} \subseteq BOOLEAN
    BY <1>5 DEF Stopped, TypeOK, Main, Request
  <2>3. req' \in Request /\ child' = None
    BY <1>5 DEF Stopped, TypeOK, Request
  <2> QED
    BY <1>5, <2>1, <2>2, <2>3 DEF Stopped, TypeOK
<1>6. CASE SpawnFails
  BY <1>6 DEF SpawnFails, TypeOK, Main
<1>7. ASSUME NEW s \in Stream, Spawn(s) PROVE TypeOK'
  BY <1>7 DEF Spawn, TypeOK, Main, Proc
<1>8. CASE Settle
  <2>1. \/ pump' = [pump EXCEPT ![child] = "reading"] /\ UNCHANGED pipe
        \/ pipe' = [pipe EXCEPT ![child] = 0] /\ UNCHANGED pump
    BY <1>8 DEF Settle
  <2>3. pump' \in [Stream -> Pump] /\ pipe' \in [Stream -> Nat]
    BY <2>1 DEF TypeOK, Pump
  <2>2. current' \in Stream \cup {None} /\ ok' \in BOOLEAN
    BY <1>8 DEF Settle, TypeOK
  <2> QED
    BY <1>8, <2>2, <2>3 DEF Settle, TypeOK, Main
<1>9. CASE Respond
  <2>1. out' \in [Client -> Seq(Message)]
    BY <1>9, DeliverType, MessagesAreMessages DEF Respond, TypeOK
  <2> QED
    BY <1>9, <2>1 DEF Respond, TypeOK, Main, Request
<1>10. CASE HangUp
  BY <1>10 DEF HangUp, TypeOK, Main, Request
<1>11. CASE Unhook
  BY <1>11 DEF Unhook, TypeOK, Main
<1>12. CASE Leave
  BY <1>12 DEF Leave, LeaveStream, TakeOut, TypeOK, Main, Request
<1>13. CASE Exit
  BY <1>13 DEF Exit, TypeOK, Main, Pump
<1>14. ASSUME NEW s \in Stream, ReadLine(s) PROVE TypeOK'
  BY <1>14 DEF ReadLine, PumpTo, TypeOK, Pump
<1>15. ASSUME NEW s \in Stream, ReadEnd(s) PROVE TypeOK'
  BY <1>15 DEF ReadEnd, PumpTo, TypeOK, Pump
<1>16. ASSUME NEW s \in Stream, Emit(s) PROVE TypeOK'
  <2>1. out' \in [Client -> Seq(Message)]
    BY <1>16, DeliverType, MessagesAreMessages DEF Emit
  <2>2. pump' \in [Stream -> Pump]
    BY <1>16 DEF Emit, PumpTo, TypeOK, Pump
  <2> QED
    BY <1>16, <2>1, <2>2 DEF Emit, TypeOK
<1>17. ASSUME NEW s \in Stream, EmitRaises(s) PROVE TypeOK'
  <2>1. pump' \in [Stream -> Pump]
    BY <1>17 DEF EmitRaises, PumpTo, TypeOK, Pump
  <2> QED
    BY <1>17, <2>1 DEF EmitRaises, TypeOK
<1>18. ASSUME NEW s \in Stream, WriteLine(s) PROVE TypeOK'
  BY <1>18 DEF WriteLine, TypeOK
<1>19. ASSUME NEW s \in Stream, Die(s) PROVE TypeOK'
  BY <1>19 DEF Die, TypeOK, Proc
<1>20. CASE PeerLeaves
  <2>1. out' \in [Client -> Seq(Message)]
    BY <1>20, EmptySeq DEF PeerLeaves, TypeOK
  <2> QED
    BY <1>20, <2>1 DEF PeerLeaves, TypeOK
<1>21. ASSUME NEW c \in Client, Receive(c) PROVE TypeOK'
  <2>1. Tail(out[c]) \in Seq(Message)
    BY <1>21, HeadTailProperties DEF Receive, TypeOK
  <2>2. out' \in [Client -> Seq(Message)]
    BY <1>21, <2>1 DEF Receive, TypeOK
  <2> QED
    BY <1>21, <2>2 DEF Receive, TypeOK
<1>22. CASE UNCHANGED vars
  BY <1>22 DEF vars, TypeOK
<1> QED
  BY <1>1, <1>2, <1>3, <1>4, <1>5, <1>6, <1>7, <1>8, <1>9, <1>10, <1>11, <1>12,
     <1>13, <1>14, <1>15, <1>16, <1>17, <1>18, <1>19, <1>20, <1>21, <1>22
     DEF Next, Serve, Ask, Device, PumpStep

LEMMA InitTypes == Init => TypeOK
<1> SUFFICES ASSUME Init PROVE TypeOK
  OBVIOUS
<1>1. out \in [Client -> Seq(Message)]
  BY EmptySeq DEF Init
<1>2. main \in Main /\ client \in Client \cup {None}
  BY DEF Init, Main
<1>3. /\ proc \in [Stream -> Proc] /\ pump \in [Stream -> Pump]
      /\ pipe \in [Stream -> Nat] /\ made \in [Stream -> Nat]
      /\ asker \in [Stream -> Asker \cup {None}]
  BY DEF Init, Proc, Pump
<1> QED
  BY <1>1, <1>2, <1>3 DEF Init, TypeOK, Request

\* Every variable of the engine keeps its type.
THEOREM DaemonTypes == Spec => []TypeOK
  BY InitTypes, TypeStep, PTL DEF Spec

-----------------------------------------------------------------------------
(***************************************************************************)
(* No step starts a second tool or kills the current one: the stream is    *)
(* taken out before its tool is killed, and a tool becomes current only    *)
(* while it runs.                                                          *)
(***************************************************************************)
LEMMA ToolsStep ==
  ASSUME TypeOK, TypeOK', StreamInv, [Next]_vars
  PROVE  (RunsAtHand /\ OneAtHand /\ EndsAreItsOwn)'
<1> USE DEF server, request, streams
<1> DEFINE Tools == RunsAtHand /\ OneAtHand /\ EndsAreItsOwn
           Untouched == UNCHANGED <<current, child, proc, pump>>
           Places == {"accept", "spawn", "stopping", "settle"}
<1>1. Tools /\ None \notin Stream
  BY NoneIsNothing DEF StreamInv
<1>2. ASSUME Untouched, main' = main PROVE Tools'
  BY <1>1, <1>2 DEF RunsAtHand, OneAtHand, EndsAreItsOwn
<1>3. ASSUME Untouched, main' \in Main \ Places, child = None PROVE Tools'
  BY <1>1, <1>3 DEF RunsAtHand, OneAtHand, EndsAreItsOwn
<1>4. ASSUME NEW s \in Stream, PumpStep(s) PROVE Tools'
  <2>1. UNCHANGED <<main, current, child, proc>>
    BY <1>4 DEF PumpStep, ReadLine, ReadEnd, Emit, EmitRaises
  <2>2. pump \in [Stream -> Pump]
    BY DEF TypeOK
  <2>3. \A t \in Stream : pump'[t] = "obituary" =>
          pump[t] = "obituary" \/ (proc[t] # "running" /\ current = t)
    BY <1>4, <2>2 DEF PumpStep, ReadLine, ReadEnd, Emit, EmitRaises, PumpTo, Unstopped
  <2> QED
    BY <1>1, <2>1, <2>3 DEF RunsAtHand, OneAtHand, EndsAreItsOwn
<1>5. ASSUME NEW kind \in {"start", "stop"}, AskStream(kind, client) PROVE Tools'
  BY <1>1, <1>5 DEF AskStream, TakeOut, RunsAtHand, OneAtHand, EndsAreItsOwn
<1>6. CASE Stopped
  <2>1. /\ main = "stopping" /\ child' = None /\ UNCHANGED <<current, pump>>
        /\ main' \in {"spawn", "reply", "accept"}
    BY <1>6 DEF Stopped
  <2>2. current = None
    BY <1>1, <2>1 DEF OneAtHand
  <2>3. \A s \in Stream : proc'[s] # "running"
    BY <1>1, <1>6, <2>2 DEF Stopped, Reap, RunsAtHand, TypeOK
  <2>4. \A s \in Stream : proc[s] = "died" => proc'[s] = "died"
    BY <1>6 DEF Stopped, Reap, TypeOK
  <2> QED
    BY <1>1, <2>1, <2>2, <2>3, <2>4 DEF RunsAtHand, OneAtHand, EndsAreItsOwn
<1>7. ASSUME NEW s \in Stream, Spawn(s) PROVE Tools'
  <2>1. /\ main = "spawn" /\ main' = "settle" /\ child' = s
        /\ proc[s] = "none" /\ UNCHANGED <<current, pump>>
    BY <1>7 DEF Spawn
  <2>2. current = None /\ child = None
    BY <1>1, <2>1 DEF OneAtHand
  <2>3. \A t \in Stream : proc'[t] = IF t = s THEN "running" ELSE proc[t]
    BY <1>7 DEF Spawn, TypeOK
  <2> QED
    BY <1>1, <2>1, <2>2, <2>3 DEF RunsAtHand, OneAtHand, EndsAreItsOwn
<1>8. CASE Settle
  <2>1. /\ main = "settle" /\ main' = "reply" /\ child' = None /\ UNCHANGED proc
        /\ current = None /\ child \in Stream
    BY <1>1, <1>8 DEF Settle, OneAtHand, TypeOK
  <2>2. CASE proc[child] = "running"
    <3>1. /\ current' = child
          /\ pump' = [pump EXCEPT ![child] = "reading"]
      BY <1>8, <2>2 DEF Settle
    <3>2. \A t \in Stream : pump'[t] = "obituary" => pump[t] = "obituary"
      BY <3>1 DEF TypeOK
    <3> QED
      BY <1>1, <2>1, <2>2, <3>1, <3>2 DEF RunsAtHand, OneAtHand, EndsAreItsOwn
  <2>3. CASE proc[child] # "running"
    <3>1. UNCHANGED <<current, pump>>
      BY <1>8, <2>3 DEF Settle
    <3> QED
      BY <1>1, <2>1, <2>3, <3>1 DEF RunsAtHand, OneAtHand, EndsAreItsOwn
  <2> QED
    BY <2>2, <2>3
<1>9. CASE Leave
  BY <1>1, <1>9 DEF Leave, LeaveStream, TakeOut, RunsAtHand, OneAtHand, EndsAreItsOwn
<1>10. CASE Exit
  <2>1. /\ main' = "exited" /\ UNCHANGED <<current, child, proc>>
        /\ \A s \in Stream : pump'[s] # "obituary"
    BY <1>10 DEF Exit
  <2> QED
    BY <1>1, <2>1 DEF RunsAtHand, OneAtHand, EndsAreItsOwn
<1>11. ASSUME NEW s \in Stream, Die(s) PROVE Tools'
  <2>1. /\ UNCHANGED <<main, current, child, pump>> /\ proc[s] = "running"
        /\ \A t \in Stream : proc'[t] = IF t = s THEN "died" ELSE proc[t]
    BY <1>11 DEF Die, TypeOK
  <2> QED
    BY <1>1, <2>1 DEF RunsAtHand, OneAtHand, EndsAreItsOwn, TypeOK
<1>12. CASE AskOther(client) \/ Greet \/ SpawnFails \/ Respond \/ HangUp \/ Unhook
  <2>1. Untouched /\ main' \in Main \ Places
    BY <1>12 DEF AskOther, Greet, SpawnFails, Respond, HangUp, Unhook, Main
  <2>2. main \in Main \ {"stopping", "settle", "exited"}
    BY <1>12 DEF AskOther, Greet, SpawnFails, Respond, HangUp, Unhook, Main
  <2>3. child = None
    BY <1>1, <2>2 DEF OneAtHand
  <2> QED
    BY <1>3, <2>1, <2>3
<1>13. ASSUME NEW c \in Client, Accept(c) PROVE Tools'
  <2>1. Untouched /\ main = "accept" /\ main' \in Main \ Places
    BY <1>13 DEF Accept, Main
  <2>2. child = None
    BY <1>1, <2>1 DEF OneAtHand
  <2> QED
    BY <1>3, <2>1, <2>2
<1>14. CASE PeerLeaves \/ UNCHANGED vars
  BY <1>2, <1>14 DEF PeerLeaves, vars
<1>15. ASSUME NEW c \in Client, Receive(c) PROVE Tools'
  BY <1>2, <1>15 DEF Receive
<1>16. ASSUME NEW s \in Stream, WriteLine(s) PROVE Tools'
  BY <1>2, <1>16 DEF WriteLine
<1>17. Tools'
  BY <1>4, <1>5, <1>6, <1>7, <1>8, <1>9, <1>10, <1>11, <1>12, <1>13, <1>14,
     <1>15, <1>16 DEF Next, Serve, Ask, Device
<1> QED
  BY <1>17 DEF Tools

-----------------------------------------------------------------------------
(***************************************************************************)
(* The current stream stays its client's: a client goes only once its      *)
(* stream is taken out, and a start is answered before the next client.    *)
(***************************************************************************)
LEMMA OwnerStep ==
  ASSUME TypeOK, TypeOK', StreamInv, [Next]_vars
  PROVE  (ForTheClient /\ StreamHasItsClient)'
<1> USE DEF server, request, streams
<1> DEFINE Owned == ForTheClient /\ StreamHasItsClient
<1>1. Owned /\ OneAtHand /\ None \notin Stream
  BY NoneIsNothing DEF StreamInv
<1>2. ASSUME UNCHANGED <<main, client, current, child, req, by, asker>> PROVE Owned'
  BY <1>1, <1>2 DEF ForTheClient, StreamHasItsClient
<1>3. ASSUME UNCHANGED <<client, current, asker>>,
             main' \notin {"spawn", "stopping", "settle"}
      PROVE  Owned'
  BY <1>1, <1>3 DEF ForTheClient, StreamHasItsClient
<1>4. ASSUME NEW s \in Stream, PumpStep(s) PROVE Owned'
  BY <1>2, <1>4 DEF PumpStep, ReadLine, ReadEnd, Emit, EmitRaises
<1>5. ASSUME NEW kind \in {"start", "stop"}, AskStream(kind, client) PROVE Owned'
  BY <1>1, <1>5 DEF AskStream, TakeOut, ForTheClient, StreamHasItsClient
<1>6. CASE Stopped
  <2>1. main = "stopping" /\ current = None /\ current' = None
    BY <1>1, <1>6 DEF Stopped, OneAtHand
  <2>2. main' = "spawn" => req = "start" /\ UNCHANGED <<client, by>>
    BY <1>6 DEF Stopped
  <2>3. main' \notin {"stopping", "settle"}
    BY <1>6 DEF Stopped
  <2> QED
    BY <1>1, <2>1, <2>2, <2>3 DEF ForTheClient, StreamHasItsClient
<1>7. ASSUME NEW s \in Stream, Spawn(s) PROVE Owned'
  <2>1. /\ main = "spawn" /\ main' = "settle" /\ child' = s /\ current = None
        /\ UNCHANGED <<client, current>> /\ asker'[s] = by
    BY <1>1, <1>7 DEF Spawn, OneAtHand, TypeOK
  <2> QED
    BY <1>1, <2>1 DEF ForTheClient, StreamHasItsClient
<1>8. CASE Settle
  <2>1. /\ main = "settle" /\ main' = "reply" /\ UNCHANGED <<client, asker>>
        /\ current' \in {current, child}
    BY <1>8 DEF Settle
  <2> QED
    BY <1>1, <2>1 DEF ForTheClient, StreamHasItsClient
<1>9. CASE Leave
  BY <1>1, <1>9 DEF Leave, LeaveStream, TakeOut, ForTheClient, StreamHasItsClient
<1>10. CASE AskOther(client) \/ Greet \/ SpawnFails \/ Respond \/ HangUp \/ Unhook
              \/ Exit
  BY <1>3, <1>10 DEF AskOther, Greet, SpawnFails, Respond, HangUp, Unhook, Exit
<1>11. ASSUME NEW c \in Client, Accept(c) PROVE Owned'
  BY <1>1, <1>11 DEF Accept, OneAtHand, ForTheClient, StreamHasItsClient
<1>12. ASSUME NEW s \in Stream, WriteLine(s) \/ Die(s) PROVE Owned'
  BY <1>2, <1>12 DEF WriteLine, Die
<1>13. ASSUME NEW c \in Client, Receive(c) PROVE Owned'
  BY <1>2, <1>13 DEF Receive
<1>14. CASE PeerLeaves \/ UNCHANGED vars
  BY <1>2, <1>14 DEF PeerLeaves, vars
<1>15. Owned'
  BY <1>4, <1>5, <1>6, <1>7, <1>8, <1>9, <1>10, <1>11, <1>12, <1>13, <1>14
     DEF Next, Serve, Ask, Device
<1> QED
  BY <1>15 DEF Owned

-----------------------------------------------------------------------------
\* The messages of a client, one appended or the first one read.
Told(d) == \A i \in 1..Len(out[d]) :
             out[d][i].kind = "ended" => proc[out[d][i].of] = "died"

LEMMA DeliverTold ==
  ASSUME TypeOK, NEW c \in Client \cup {None}, NEW m \in Message, Deliver(c, m),
         m.kind = "ended" => proc[m.of] = "died", UNCHANGED proc,
         ObituariesAreTrue
  PROVE  ObituariesAreTrue'
<1>1. \A d \in Client : Told(d) /\ out[d] \in Seq(Message)
  BY DEF ObituariesAreTrue, Told, TypeOK
<1>2. ASSUME NEW d \in Client PROVE Told(d)'
  <2>1. CASE out'[d] = out[d]
    BY <1>1, <2>1 DEF Told
  <2>2. CASE out'[d] = Append(out[d], m)
    <3>1. /\ Len(out'[d]) = Len(out[d]) + 1 /\ Len(out[d]) \in Nat
          /\ \A i \in 1..Len(out[d]) : out'[d][i] = out[d][i]
          /\ out'[d][Len(out[d]) + 1] = m
      BY <1>1, <2>2, AppendProperties, LenProperties
    <3>2. \A i \in 1..Len(out'[d]) : i \in 1..Len(out[d]) \/ i = Len(out[d]) + 1
      BY <3>1
    <3> QED
      BY <1>1, <3>1, <3>2 DEF Told
  <2> QED
    BY <2>1, <2>2, DeliverType
<1> QED
  BY <1>2 DEF ObituariesAreTrue, Told

(***************************************************************************)
(* Only a pump that found its own stream current at the end of file writes *)
(* an obituary, and a tool that died stays dead.                           *)
(***************************************************************************)
LEMMA ObituariesStep ==
  ASSUME TypeOK, TypeOK', StreamInv, [Next]_vars
  PROVE  ObituariesAreTrue'
<1> USE DEF server, request, streams
<1>1. ObituariesAreTrue /\ EndsAreItsOwn
  BY DEF StreamInv
<1>2. ReadyMsg.kind # "ended" /\ Reply.kind # "ended"
      /\ \A s \in Stream : LineOf(s).kind # "ended" /\ EndOf(s).of = s
  BY DEF ReadyMsg, Reply, LineOf, EndOf
<1>3. ASSUME UNCHANGED out, \A s \in Stream : proc[s] = "died" => proc'[s] = "died"
      PROVE  ObituariesAreTrue'
  <2>1. ASSUME NEW d \in Client, NEW i \in 1..Len(out[d]), out[d][i].kind = "ended"
        PROVE  proc'[out[d][i].of] = "died"
    <3>1. out[d] \in Seq(Message) /\ proc[out[d][i].of] = "died"
      BY <1>1, <2>1 DEF TypeOK, ObituariesAreTrue
    <3>2. out[d][i] \in Message
      BY <3>1, ElementOfSeq
    <3>3. out[d][i].of \in Stream
      BY <2>1, <3>2 DEF Message
    <3> QED
      BY <1>3, <3>1, <3>3
  <2> QED
    BY <1>3, <2>1 DEF ObituariesAreTrue
<1>4. CASE Greet
  BY <1>1, <1>2, <1>4, DeliverTold, MessagesAreMessages DEF Greet, TypeOK
<1>5. CASE Respond
  BY <1>1, <1>2, <1>5, DeliverTold, MessagesAreMessages DEF Respond, TypeOK
<1>6. ASSUME NEW s \in Stream, Emit(s) PROVE ObituariesAreTrue'
  <2>1. CASE pump[s] = "holding"
    BY <1>1, <1>2, <1>6, <2>1, DeliverTold, MessagesAreMessages DEF Emit
  <2>2. CASE pump[s] = "obituary"
    BY <1>1, <1>2, <1>6, <2>2, DeliverTold, MessagesAreMessages DEF Emit, EndsAreItsOwn
  <2> QED
    BY <1>6, <2>1, <2>2 DEF Emit
<1>7. ASSUME NEW s \in Stream, ReadLine(s) \/ ReadEnd(s) \/ EmitRaises(s) \/ WriteLine(s)
      PROVE  ObituariesAreTrue'
  BY <1>3, <1>7 DEF ReadLine, ReadEnd, EmitRaises, WriteLine
<1>8. CASE Stopped
  <2>1. \A s \in Stream : proc[s] = "died" => proc'[s] = "died"
    BY <1>8 DEF Stopped, Reap, TypeOK
  <2> QED
    BY <1>3, <1>8, <2>1 DEF Stopped
<1>9. ASSUME NEW s \in Stream, Spawn(s) \/ Die(s) PROVE ObituariesAreTrue'
  <2>1. \A t \in Stream : proc[t] = "died" => proc'[t] = "died"
    BY <1>9 DEF Spawn, Die, TypeOK
  <2> QED
    BY <1>3, <1>9, <2>1 DEF Spawn, Die
<1>10. ASSUME NEW kind \in {"start", "stop"}, AskStream(kind, client)
       PROVE  ObituariesAreTrue'
  BY <1>3, <1>10 DEF AskStream
<1>11. CASE AskOther(client) \/ SpawnFails \/ Settle \/ HangUp \/ Unhook \/ Leave
              \/ Exit \/ UNCHANGED vars
  BY <1>3, <1>11 DEF AskOther, SpawnFails, Settle, HangUp, Unhook, Leave, Exit, vars
<1>12. ASSUME NEW c \in Client, Accept(c) PROVE ObituariesAreTrue'
  BY <1>3, <1>12 DEF Accept
<1>13. CASE PeerLeaves
  <2>1. client \in Client /\ UNCHANGED proc
        /\ out' = [out EXCEPT ![client] = <<>>]
    BY <1>13 DEF PeerLeaves, TypeOK
  <2>2. \A d \in Client : out'[d] = out[d] \/ Len(out'[d]) = 0
    BY <2>1, EmptySeq DEF TypeOK
  <2> QED
    BY <1>1, <2>1, <2>2 DEF ObituariesAreTrue
<1>14. ASSUME NEW c \in Client, Receive(c) PROVE ObituariesAreTrue'
  <2>1. UNCHANGED proc /\ out' = [out EXCEPT ![c] = Tail(@)] /\ out[c] # <<>>
    BY <1>14 DEF Receive
  <2>2. /\ Len(Tail(out[c])) = Len(out[c]) - 1 /\ Len(out[c]) \in Nat
        /\ \A i \in 1..Len(Tail(out[c])) : Tail(out[c])[i] = out[c][i + 1]
    BY <2>1, HeadTailProperties, LenProperties DEF TypeOK
  <2>3. \A i \in 1..Len(Tail(out[c])) : i + 1 \in 1..Len(out[c])
    BY <2>2
  <2>4. \A d \in Client : out'[d] = IF d = c THEN Tail(out[c]) ELSE out[d]
    BY <2>1 DEF TypeOK
  <2>5. \A d \in Client \ {c} : Told(d)'
    BY <1>1, <2>1, <2>4 DEF ObituariesAreTrue, Told
  <2>6. Told(c)'
    BY <1>1, <2>1, <2>2, <2>3, <2>4 DEF ObituariesAreTrue, Told
  <2> QED
    BY <2>5, <2>6 DEF ObituariesAreTrue, Told
<1> QED
  BY <1>4, <1>5, <1>6, <1>7, <1>8, <1>9, <1>10, <1>11, <1>12, <1>13, <1>14
     DEF Next, Serve, Ask, Device, PumpStep

-----------------------------------------------------------------------------
LEMMA InitStreams == Init => StreamInv
<1> SUFFICES ASSUME Init PROVE StreamInv
  OBVIOUS
<1>1. RunsAtHand /\ OneAtHand /\ EndsAreItsOwn
  BY DEF Init, RunsAtHand, OneAtHand, EndsAreItsOwn
<1>2. ForTheClient /\ StreamHasItsClient
  BY DEF Init, ForTheClient, StreamHasItsClient
<1>3. ObituariesAreTrue
  BY EmptySeq DEF Init, ObituariesAreTrue
<1> QED
  BY <1>1, <1>2, <1>3 DEF StreamInv

\* The stream invariant holds of every behaviour of the engine.
THEOREM StreamsAreSafe == Spec => []StreamInv
<1>1. TypeOK /\ TypeOK' /\ StreamInv /\ [Next]_vars => StreamInv'
  BY ToolsStep, OwnerStep, ObituariesStep DEF StreamInv
<1> QED
  BY <1>1, InitStreams, DaemonTypes, PTL DEF Spec

(***************************************************************************)
(* One device tool runs at a time, whatever the requests, departures and   *)
(* deaths (_stop_log_stream before every spawn).                           *)
(***************************************************************************)
THEOREM OneToolAtATime == Spec => []OneToolRuns
<1>1. StreamInv => OneToolRuns
  BY NoneIsNothing DEF StreamInv, RunsAtHand, OneAtHand, OneToolRuns
<1> QED
  BY <1>1, StreamsAreSafe, PTL

(***************************************************************************)
(* No client is told that a stream ended that was stopped, replaced or     *)
(* left behind (the "current is stream" test of _pump).                    *)
(***************************************************************************)
COROLLARY EndsAreTrue == Spec => []ObituariesAreTrue
<1>1. StreamInv => ObituariesAreTrue
  BY DEF StreamInv
<1> QED
  BY <1>1, StreamsAreSafe, PTL

(***************************************************************************)
(* No client finds the stream of the one before it: run_tcp stops it       *)
(* before the next is accepted.                                            *)
(***************************************************************************)
COROLLARY OwnersKeepTheirStream == Spec => []StreamHasItsClient
<1>1. StreamInv => StreamHasItsClient
  BY DEF StreamInv
<1> QED
  BY <1>1, StreamsAreSafe, PTL

-----------------------------------------------------------------------------
\* The places of a sequence to which something was appended ...
LEMMA AppendReads ==
  ASSUME NEW S, NEW q \in Seq(S), NEW m \in S
  PROVE  /\ Len(q) \in Nat /\ Append(q, m) \in Seq(S) /\ Append(q, m) # <<>>
         /\ 1..Len(Append(q, m)) = 1..Len(q) \cup {Len(q) + 1}
         /\ Append(q, m)[Len(q) + 1] = m
         /\ \A i \in 1..Len(q) : Append(q, m)[i] = q[i]
BY AppendProperties, LenProperties

\* ... and of one whose first member was taken.
LEMMA TailReads ==
  ASSUME NEW S, NEW q \in Seq(S), q # <<>>
  PROVE  /\ 1 \in 1..Len(q) /\ Head(q) = q[1] /\ Head(q) \in S /\ Tail(q) \in Seq(S)
         /\ \A i \in 1..Len(Tail(q)) : i + 1 \in 2..Len(q) /\ Tail(q)[i] = q[i + 1]
         /\ \A i \in 2..Len(q) : i - 1 \in 1..Len(Tail(q)) /\ Tail(q)[i - 1] = q[i]
<1>1. Len(q) \in Nat \ {0} /\ Head(q) = q[1]
  BY EmptySeq
<1>2. /\ Head(q) \in S /\ Tail(q) \in Seq(S) /\ Len(Tail(q)) = Len(q) - 1
      /\ \A i \in 1..Len(Tail(q)) : Tail(q)[i] = q[i + 1]
  BY HeadTailProperties
<1> QED
  BY <1>1, <1>2

(***************************************************************************)
(* Most steps of the composition are the engine's own or leave it alone.   *)
(***************************************************************************)
LEMMA LogsStepKinds ==
  ASSUME client \in Client, [LogsNext]_allVars
  PROVE  [Next]_vars \/ ReadRequest \/ BeginStop
<1>1. ASSUME NEW p \in Panel, User(p) PROVE UNCHANGED vars
  BY <1>1 DEF User, PressStart, PressStop, Close
<1>2. ASSUME NEW n \in Job, WorkerStep(n) \/ TimeOut(n) PROVE UNCHANGED vars
  BY <1>2 DEF WorkerStep, SendStart, TakeStream, LookAtOwner, Release, SendStop, TimeOut
<1>3. ReaderEnds \/ EndStop \/ UNCHANGED allVars => UNCHANGED vars
  BY DEF ReaderEnds, EndStop, allVars
<1>4. Dispatch \/ ServeOn \/ ToolStep \/ EngineDies \/ (\E s \in Stream : PumpOn(s))
        => Next
  BY DEF Dispatch, ServeOn, ToolStep, EngineDies, PumpOn, Next
<1> QED
  BY <1>1, <1>2, <1>3, <1>4 DEF LogsNext

\* The engine of the panels keeps its types.
LEMMA EngineTypeStep ==
  ASSUME TypeOK, LogsTypeOK, EngineIsOurs, [LogsNext]_allVars
  PROVE  TypeOK'
<1>1. CASE [Next]_vars
  BY <1>1, TypeStep
<1>2. CASE ReadRequest
  <2>1. wire \in Seq(Call) /\ wire # <<>>
    BY <1>2 DEF ReadRequest, LogsTypeOK, Call
  <2>2. Head(wire) \in Call
    BY <2>1, TailReads
  <2>3. Head(wire).kind \in {"start", "stop"} /\ Head(wire).by \in Job
    BY <2>2 DEF Call
  <2> QED
    BY <1>2, <2>3, JobsAsk
       DEF ReadRequest, AskStream, TakeOut, TypeOK, Main, Request, streams
<1>3. CASE BeginStop
  <2>1. out' \in [Client -> Seq(Message)]
    BY <1>3, EmptySeq DEF BeginStop, TypeOK
  <2> QED
    BY <1>3, <2>1 DEF BeginStop, TypeOK, Main, Pump, request
<1> QED
  BY <1>1, <1>2, <1>3, LogsStepKinds DEF EngineIsOurs

\* A press gives the next worker something to do.
LEMMA PressesGiveWork ==
  ASSUME LogsTypeOK, NEW p \in Panel, NEW place, Press(p, place)
  PROVE  /\ presses + 1 \in Job /\ presses' = presses + 1 /\ presses' \in 0..MaxPresses
         /\ at' = [at EXCEPT ![presses + 1] = place]
         /\ whose' = [whose EXCEPT ![presses + 1] = p] /\ p \in alive
BY BoundsAreCounts DEF Press, Go, LogsTypeOK, Job

\* The workers, the owner and the wire keep theirs.
LEMMA PanelsTypeStep ==
  ASSUME LogsTypeOK, [LogsNext]_allVars
  PROVE  LogsTypeOK'
<1> USE DEF panels
<1> DEFINE Place == UnderStart \cup UnderStop \cup Ended
<1>1. CASE UNCHANGED <<panels, svc, wire>>
  BY <1>1 DEF LogsTypeOK
<1>2. ASSUME NEW p \in Panel, User(p) PROVE LogsTypeOK'
  <2>1. PICK place \in Place : Press(p, place)
    BY <1>2 DEF User, PressStart, PressStop, Close, HandBack, UnderStart, UnderStop, Ended
  <2>2. /\ presses' \in 0..MaxPresses /\ at' \in [Job -> Place]
        /\ whose' \in [Job -> Panel \cup {None}]
    <3> HIDE DEF Place
    <3> QED
      BY <2>1, PressesGiveWork DEF LogsTypeOK, Place
  <2>3. UNCHANGED <<owner, svc, wire>> /\ alive' \subseteq Panel /\ cutShort' \subseteq Panel
    BY <1>2 DEF User, PressStart, PressStop, Close, LogsTypeOK
  <2> QED
    BY <2>2, <2>3 DEF LogsTypeOK
<1>3. ASSUME NEW n \in Job, WorkerStep(n) PROVE LogsTypeOK'
  <2>1. at' \in [Job -> Place]
    BY <1>3 DEF WorkerStep, SendStart, TakeStream, LookAtOwner, Release, SendStop,
       CallStop, Go, LogsTypeOK, UnderStart, UnderStop, Ended
  <2>2. wire' \in Seq(Call)
    <3>1. wire \in Seq(Call)
      BY DEF LogsTypeOK, Call
    <3>2. /\ [kind |-> "start", by |-> n] \in Call
          /\ [kind |-> "stop", by |-> n] \in Call
      BY DEF Call
    <3>3. \/ UNCHANGED wire \/ wire' = Append(wire, [kind |-> "start", by |-> n])
          \/ wire' = Append(wire, [kind |-> "stop", by |-> n])
      BY <1>3 DEF WorkerStep, SendStart, TakeStream, LookAtOwner, Release, SendStop,
         CallStop, Write
    <3>4. \A r \in Call : Append(wire, r) \in Seq(Call)
      BY <3>1, AppendReads
    <3> QED
      BY <3>1, <3>2, <3>3, <3>4
  <2>3. owner' \in Panel \cup {None} /\ UNCHANGED <<svc, whose, alive, presses, cutShort>>
    BY <1>3 DEF WorkerStep, SendStart, TakeStream, LookAtOwner, Release, SendStop,
       Claim, LetGo, LogsTypeOK
  <2> QED
    BY <2>1, <2>2, <2>3 DEF LogsTypeOK, Call
<1>4. ASSUME NEW n \in Job, TimeOut(n) PROVE LogsTypeOK'
  BY <1>4 DEF TimeOut, Go, LogsTypeOK, Ended
<1>5. CASE Dispatch
  <2>1. at' \in [Job -> Place]
    BY <1>5 DEF Dispatch, Answer, Go, LogsTypeOK, UnderStart, Ended
  <2> QED
    BY <1>5, <2>1 DEF Dispatch, LogsTypeOK
<1>6. CASE ReaderEnds
  <2>1. at' \in [Job -> Place]
    BY <1>6 DEF ReaderEnds, FailAll, LogsTypeOK, Ended
  <2> QED
    BY <1>6, <2>1, EmptySeq DEF ReaderEnds, LogsTypeOK
<1>7. CASE BeginStop \/ EndStop
  BY <1>7 DEF BeginStop, EndStop, LetGo, LogsTypeOK
<1>8. CASE ReadRequest
  BY <1>8, TailReads DEF ReadRequest, LogsTypeOK
<1> QED
  BY <1>1, <1>2, <1>3, <1>4, <1>5, <1>6, <1>7, <1>8
     DEF LogsNext, ServeOn, ToolStep, EngineDies, PumpOn, allVars

-----------------------------------------------------------------------------
\* What the reader sees: a message more, or one less.
LEMMA BoxGrows ==
  ASSUME TypeOK, client \in Client, UNCHANGED client, NEW m \in Message,
         out'[client] = Append(out[client], m), RepliesAreAnswers,
         m.kind = "reply" => \E r \in Call : Answers(m, r)
  PROVE  RepliesAreAnswers'
<1>1. out[client] \in Seq(Message)
  BY DEF TypeOK
<1> DEFINE q == out[client]
<1>2. /\ 1..Len(Append(q, m)) = 1..Len(q) \cup {Len(q) + 1}
      /\ Append(q, m)[Len(q) + 1] = m
      /\ \A i \in 1..Len(q) : Append(q, m)[i] = q[i]
  BY <1>1, AppendReads
<1> HIDE DEF q
<1>3. out'[client] = Append(q, m) /\ out[client] = q
  BY DEF q
<1> QED
  BY <1>2, <1>3 DEF RepliesAreAnswers, Answers

LEMMA BoxShrinks ==
  ASSUME TypeOK, client \in Client, UNCHANGED client, out[client] # <<>>,
         out'[client] = Tail(out[client]), RepliesAreAnswers
  PROVE  RepliesAreAnswers'
<1>1. out[client] \in Seq(Message)
  BY DEF TypeOK
<1> DEFINE q == out[client]
<1>2. \A i \in 1..Len(Tail(q)) : i + 1 \in 2..Len(q) /\ Tail(q)[i] = q[i + 1]
  BY <1>1, TailReads
<1>3. \A i \in 1..Len(Tail(q)) : i + 1 \in 1..Len(q)
  BY <1>1, <1>2, LenProperties
<1> HIDE DEF q
<1>4. out'[client] = Tail(q) /\ out[client] = q
  BY DEF q
<1> QED
  BY <1>2, <1>3, <1>4 DEF RepliesAreAnswers, Answers

(***************************************************************************)
(* The engine serves the IDE and nobody else: no client leaves, nothing    *)
(* but a call of a panel is ever at hand, and it is over with the service. *)
(***************************************************************************)
LEMMA EngineIsOursStep ==
  ASSUME TypeOK, LogsTypeOK, EngineIsOurs, [LogsNext]_allVars
  PROVE  EngineIsOurs'
<1> USE DEF panels
<1> DEFINE Busy == {"stopping", "spawn", "settle", "reply"}
<1>1. /\ client \in Client /\ ~gone /\ sink = None /\ RepliesAreAnswers
      /\ main \in Busy \cup {"read", "exited"}
      /\ main \in Busy => \E r \in Call : AtEngine(r)
      /\ main \in {"spawn", "settle"} => req = "start"
      /\ svc # "up" => main = "exited"
      /\ None \notin Client /\ Stdio
  BY NoneIsNothing, EngineOverStdio DEF EngineIsOurs
<1>2. ASSUME UNCHANGED <<server, req, by, svc>>, RepliesAreAnswers' PROVE EngineIsOurs'
  BY <1>1, <1>2 DEF EngineIsOurs, AtEngine, server
<1>3. UNCHANGED <<client, out>> => RepliesAreAnswers'
  BY <1>1 DEF RepliesAreAnswers, Answers
<1>4. ASSUME NEW n \in Job, WorkerStep(n) \/ TimeOut(n) PROVE EngineIsOurs'
  <2>1. UNCHANGED <<vars, svc>>
    BY <1>4 DEF WorkerStep, SendStart, TakeStream, LookAtOwner, Release, SendStop, TimeOut
  <2> QED
    BY <1>2, <1>3, <2>1 DEF vars, server, request
<1>5. CASE ReaderEnds \/ UNCHANGED allVars
  BY <1>2, <1>3, <1>5 DEF ReaderEnds, allVars, vars, server, request
<1>6. CASE EndStop
  BY <1>1, <1>3, <1>6 DEF EndStop, EngineIsOurs, AtEngine, vars, server, request
<1>7. CASE Dispatch
  <2>1. /\ UNCHANGED <<server, request, svc>> /\ out[client] # <<>>
        /\ out'[client] = Tail(out[client])
    BY <1>1, <1>7 DEF Dispatch, Receive, TypeOK
  <2>2. RepliesAreAnswers'
    BY <1>1, <2>1, BoxShrinks DEF server
  <2> QED
    BY <1>2, <2>1, <2>2 DEF request
<1>8. CASE BeginStop
  <2>1. out'[client] = <<>> /\ UNCHANGED <<client, gone, sink>> /\ main' = "exited"
    BY <1>1, <1>8 DEF BeginStop, TypeOK
  <2>2. Len(<<>>) = 0
    BY EmptySeq
  <2> QED
    BY <1>1, <2>1, <2>2 DEF EngineIsOurs, RepliesAreAnswers, Answers
<1>9. CASE ReadRequest
  <2>1. Head(wire) \in Call
    BY <1>9, TailReads DEF ReadRequest, LogsTypeOK, Call
  <2>2. /\ UNCHANGED <<client, gone, sink, out, svc>> /\ main = "read"
        /\ main' = "stopping" /\ req' = Head(wire).kind /\ by' = Head(wire).by
    BY <1>9 DEF ReadRequest, AskStream
  <2> QED
    BY <1>1, <1>3, <2>1, <2>2 DEF EngineIsOurs, AtEngine
<1>10. CASE ServeOn
  <2>1. CASE Stopped
    <3>1. UNCHANGED <<client, gone, req, by, sink, out, svc>> /\ main' \in {"spawn", "reply"}
      BY <1>1, <1>10, <2>1 DEF ServeOn, Stopped, AtEngine, Call
    <3> QED
      BY <1>1, <1>3, <2>1, <3>1 DEF EngineIsOurs, AtEngine, Stopped
  <2>2. CASE SpawnFails \/ Settle
    BY <1>1, <1>3, <1>10, <2>2 DEF ServeOn, SpawnFails, Settle, EngineIsOurs, AtEngine
  <2>3. ASSUME NEW s \in Stream, Spawn(s) PROVE EngineIsOurs'
    BY <1>1, <1>3, <1>10, <2>3 DEF ServeOn, Spawn, EngineIsOurs, AtEngine, request
  <2>4. CASE Respond
    <3>1. /\ out'[client] = Append(out[client], Reply)
          /\ UNCHANGED <<client, gone, sink, svc>> /\ main = "reply" /\ main' = "read"
      BY <1>1, <1>10, <2>4 DEF ServeOn, Respond, Deliver, TypeOK
    <3>2. \E r \in Call : Answers(Reply, r)
      BY <1>1, <3>1 DEF Answers, Reply, AtEngine
    <3>3. RepliesAreAnswers'
      BY <1>1, <3>1, <3>2, BoxGrows, MessagesAreMessages
    <3> QED
      BY <1>1, <3>1, <3>3 DEF EngineIsOurs
  <2>5. ~(Greet \/ HangUp \/ Unhook \/ Leave)
    BY <1>1 DEF Greet, HangUp, Unhook, Leave
  <2> QED
    BY <1>10, <2>1, <2>2, <2>3, <2>4, <2>5 DEF ServeOn, Serve
<1>11. CASE ToolStep
  BY <1>2, <1>3, <1>11 DEF ToolStep, Device, WriteLine, Die, server, request
<1>12. CASE EngineDies
  BY <1>1, <1>3, <1>12 DEF EngineDies, Exit, EngineIsOurs
<1>13. ASSUME NEW s \in Stream, PumpOn(s) PROVE EngineIsOurs'
  <2>1. UNCHANGED <<server, request, svc>>
    BY <1>13 DEF PumpOn, PumpStep, ReadLine, ReadEnd, Emit, EmitRaises
  <2>2. CASE UNCHANGED out
    BY <1>2, <1>3, <2>1, <2>2 DEF server, request
  <2>3. CASE Emit(s)
    <3>1. PICK m \in {LineOf(s), EndOf(s)} : Deliver(Listener, m)
      BY <2>3 DEF Emit
    <3>2. m \in Message /\ Listener \in Client \cup {None}
      BY <3>1, MessagesAreMessages
    <3>3. m.kind # "reply"
      BY <3>1 DEF LineOf, EndOf
    <3>4. out'[client] = out[client] \/ out'[client] = Append(out[client], m)
      BY <1>1, <3>1, <3>2, DeliverType
    <3>5. RepliesAreAnswers'
      BY <1>1, <2>1, <3>2, <3>3, <3>4, BoxGrows DEF RepliesAreAnswers, Answers, server
    <3> QED
      BY <1>2, <2>1, <3>5 DEF server, request
  <2> QED
    BY <1>13, <2>2, <2>3 DEF PumpOn, PumpStep, ReadLine, ReadEnd, EmitRaises
<1>14. ASSUME NEW p \in Panel, User(p) PROVE EngineIsOurs'
  <2>1. UNCHANGED <<vars, svc>>
    BY <1>14 DEF User, PressStart, PressStop, Close
  <2> QED
    BY <1>2, <1>3, <2>1 DEF vars, server, request
<1> QED
  BY <1>4, <1>5, <1>6, <1>7, <1>8, <1>9, <1>10, <1>11, <1>12, <1>13, <1>14 DEF LogsNext

(***************************************************************************)
(* The stream at hand, and the current one, were started for a worker.     *)
(***************************************************************************)
LEMMA StreamsAreAskedForStep ==
  ASSUME TypeOK, LogsTypeOK, EngineIsOurs, StreamsAreAskedFor, [LogsNext]_allVars
  PROVE  StreamsAreAskedFor'
<1>1. ASSUME UNCHANGED <<main, current, child, by, asker>> PROVE StreamsAreAskedFor'
  BY <1>1 DEF StreamsAreAskedFor
<1>2. CASE UNCHANGED vars
  BY <1>1, <1>2 DEF vars, server, request, streams
<1>3. ASSUME NEW p \in Panel, User(p) PROVE UNCHANGED vars
  BY <1>3 DEF User, PressStart, PressStop, Close
<1>4. ASSUME NEW n \in Job, WorkerStep(n) \/ TimeOut(n) PROVE UNCHANGED vars
  BY <1>4 DEF WorkerStep, SendStart, TakeStream, LookAtOwner, Release, SendStop, TimeOut
<1>5. ReaderEnds \/ EndStop \/ UNCHANGED allVars => UNCHANGED vars
  BY DEF ReaderEnds, EndStop, allVars
<1>6. Dispatch => UNCHANGED <<main, current, child, by, asker>>
  BY DEF Dispatch, Receive, server, request, streams
<1>7. CASE BeginStop \/ EngineDies
  BY <1>7 DEF BeginStop, EngineDies, Exit, StreamsAreAskedFor, request
<1>8. CASE ReadRequest
  BY <1>8 DEF ReadRequest, AskStream, TakeOut, StreamsAreAskedFor
<1>9. CASE ServeOn
  <2>1. ~(Greet \/ HangUp \/ Unhook \/ Leave)
    BY EngineOverStdio DEF EngineIsOurs, Greet, HangUp, Unhook, Leave
  <2>2. CASE Stopped \/ SpawnFails \/ Respond
    BY <2>2 DEF Stopped, SpawnFails, Respond, StreamsAreAskedFor, streams
  <2>3. ASSUME NEW s \in Stream, Spawn(s) PROVE StreamsAreAskedFor'
    <3>1. /\ main = "spawn" /\ main' = "settle" /\ UNCHANGED <<current, by>> /\ child' = s
          /\ asker'[s] = by
      BY <2>3 DEF Spawn, TypeOK, request
    <3> QED
      BY <3>1 DEF StreamsAreAskedFor
  <2>4. CASE Settle
    <3>1. by \in Job /\ asker[child] = by
      BY <2>4 DEF Settle, EngineIsOurs, AtEngine, Call, StreamsAreAskedFor
    <3> QED
      BY <2>4, <3>1 DEF Settle, StreamsAreAskedFor
  <2> QED
    BY <1>9, <2>1, <2>2, <2>3, <2>4 DEF ServeOn, Serve
<1>10. ToolStep => UNCHANGED <<main, current, child, by, asker>>
  BY DEF ToolStep, Device, WriteLine, Die, server, request
<1>11. ASSUME NEW s \in Stream, PumpOn(s)
       PROVE  UNCHANGED <<main, current, child, by, asker>>
  BY <1>11 DEF PumpOn, PumpStep, ReadLine, ReadEnd, Emit, EmitRaises, server, request
<1> QED
  BY <1>1, <1>2, <1>3, <1>4, <1>5, <1>6, <1>7, <1>8, <1>9, <1>10, <1>11 DEF LogsNext

-----------------------------------------------------------------------------
(***************************************************************************)
(* Calls on the wire and answers in the box, each at most once.            *)
(***************************************************************************)
Apart(q) == \A i, j \in 1..Len(q) : \A r \in Call :
              Answers(q[i], r) /\ Answers(q[j], r) => i = j
In(q, r) == \E i \in 1..Len(q) : Answers(q[i], r)

Distinct(w) == \A i, j \in 1..Len(w) : w[i] = w[j] => i = j
On(w, r) == \E i \in 1..Len(w) : w[i] = r

LEMMA AppendApart ==
  ASSUME NEW q \in Seq(Message), NEW m \in Message, Apart(q),
         \A r \in Call : Answers(m, r) => ~In(q, r)
  PROVE  /\ Apart(Append(q, m))
         /\ \A r : In(Append(q, m), r) <=> In(q, r) \/ Answers(m, r)
<1> DEFINE u == Append(q, m)
<1>1. /\ 1..Len(u) = 1..Len(q) \cup {Len(q) + 1} /\ u[Len(q) + 1] = m
      /\ \A i \in 1..Len(q) : u[i] = q[i]
  BY AppendReads
<1> HIDE DEF u
<1>2. \A r : In(u, r) <=> In(q, r) \/ Answers(m, r)
  BY <1>1 DEF In, Answers
<1>3. ASSUME NEW i \in 1..Len(u), NEW j \in 1..Len(u), NEW r \in Call,
             Answers(u[i], r), Answers(u[j], r)
      PROVE  i = j
  <2>1. CASE Answers(m, r)
    <3>1. \A k \in 1..Len(q) : ~Answers(q[k], r)
      BY <2>1 DEF In
    <3> QED
      BY <1>1, <1>3, <3>1
  <2>2. CASE ~Answers(m, r)
    BY <1>1, <1>3, <2>2 DEF Apart
  <2> QED
    BY <2>1, <2>2
<1>4. Apart(u)
  BY <1>3 DEF Apart
<1> QED
  BY <1>2, <1>4 DEF u

LEMMA TailApart ==
  ASSUME NEW q \in Seq(Message), q # <<>>, Apart(q)
  PROVE  /\ Apart(Tail(q))
         /\ \A r \in Call : In(Tail(q), r) <=> In(q, r) /\ ~Answers(Head(q), r)
<1> DEFINE u == Tail(q)
<1>1. /\ 1 \in 1..Len(q) /\ Head(q) = q[1] /\ Len(q) \in Nat
      /\ \A i \in 1..Len(u) : i + 1 \in 2..Len(q) /\ u[i] = q[i + 1]
      /\ \A i \in 2..Len(q) : i - 1 \in 1..Len(u) /\ u[i - 1] = q[i]
  BY TailReads, LenProperties
<1> HIDE DEF u
<1>2. ASSUME NEW i \in 1..Len(u), NEW j \in 1..Len(u), NEW r \in Call,
             Answers(u[i], r), Answers(u[j], r)
      PROVE  i = j
  <2>1. i + 1 \in 1..Len(q) /\ j + 1 \in 1..Len(q)
    BY <1>1
  <2>2. i + 1 = j + 1
    BY <1>1, <1>2, <2>1 DEF Apart
  <2> QED
    BY <2>2
<1>3. ASSUME NEW r \in Call PROVE In(u, r) <=> In(q, r) /\ ~Answers(Head(q), r)
  <2>1. ASSUME In(u, r) PROVE In(q, r) /\ ~Answers(Head(q), r)
    <3>1. PICK i \in 1..Len(u) : Answers(u[i], r)
      BY <2>1 DEF In
    <3>2. i + 1 \in 1..Len(q) /\ i + 1 # 1 /\ Answers(q[i + 1], r)
      BY <1>1, <3>1
    <3> QED
      BY <1>1, <3>2 DEF In, Apart
  <2>2. ASSUME In(q, r), ~Answers(Head(q), r) PROVE In(u, r)
    <3>1. PICK i \in 1..Len(q) : Answers(q[i], r)
      BY <2>2 DEF In
    <3>2. i \in 2..Len(q)
      BY <1>1, <2>2, <3>1
    <3> QED
      BY <1>1, <3>1, <3>2 DEF In
  <2> QED
    BY <2>1, <2>2
<1>4. Apart(u)
  BY <1>2 DEF Apart
<1> QED
  BY <1>3, <1>4 DEF u

LEMMA AppendDistinct ==
  ASSUME NEW w \in Seq(Call), NEW r \in Call, Distinct(w), ~On(w, r)
  PROVE  /\ Distinct(Append(w, r))
         /\ \A x : On(Append(w, r), x) <=> On(w, x) \/ x = r
<1> DEFINE u == Append(w, r)
<1>1. /\ 1..Len(u) = 1..Len(w) \cup {Len(w) + 1} /\ u[Len(w) + 1] = r
      /\ \A i \in 1..Len(w) : u[i] = w[i]
  BY AppendReads
<1> HIDE DEF u
<1>2. Distinct(u) /\ \A x : On(u, x) <=> On(w, x) \/ x = r
  BY <1>1 DEF Distinct, On
<1> QED
  BY <1>2 DEF u

LEMMA TailDistinct ==
  ASSUME NEW w \in Seq(Call), w # <<>>, Distinct(w)
  PROVE  /\ Distinct(Tail(w)) /\ On(w, Head(w))
         /\ \A x : On(Tail(w), x) <=> On(w, x) /\ x # Head(w)
<1> DEFINE u == Tail(w)
<1>1. /\ 1 \in 1..Len(w) /\ Head(w) = w[1] /\ Len(w) \in Nat
      /\ \A i \in 1..Len(u) : i + 1 \in 2..Len(w) /\ u[i] = w[i + 1]
      /\ \A i \in 2..Len(w) : i - 1 \in 1..Len(u) /\ u[i - 1] = w[i]
  BY TailReads, LenProperties
<1> HIDE DEF u
<1>2. ASSUME NEW i \in 1..Len(u), NEW j \in 1..Len(u), u[i] = u[j] PROVE i = j
  <2>1. i + 1 \in 1..Len(w) /\ j + 1 \in 1..Len(w)
    BY <1>1
  <2>2. i + 1 = j + 1
    BY <1>1, <1>2, <2>1 DEF Distinct
  <2> QED
    BY <2>2
<1>3. ASSUME NEW x PROVE On(u, x) <=> On(w, x) /\ x # Head(w)
  <2>1. ASSUME On(u, x) PROVE On(w, x) /\ x # Head(w)
    <3>1. PICK i \in 1..Len(u) : u[i] = x
      BY <2>1 DEF On
    <3>2. i + 1 \in 1..Len(w) /\ i + 1 # 1 /\ w[i + 1] = x
      BY <1>1, <3>1
    <3> QED
      BY <1>1, <3>2 DEF On, Distinct
  <2>2. ASSUME On(w, x), x # Head(w) PROVE On(u, x)
    <3>1. PICK i \in 1..Len(w) : w[i] = x
      BY <2>2 DEF On
    <3>2. i \in 2..Len(w)
      BY <1>1, <2>2, <3>1
    <3> QED
      BY <1>1, <3>1, <3>2 DEF On
  <2> QED
    BY <2>1, <2>2
<1>4. Distinct(u) /\ On(w, Head(w))
  BY <1>1, <1>2 DEF Distinct, On
<1> QED
  BY <1>3, <1>4 DEF u

\* The places of a call, by these names.
LEMMA OneCallIsApart ==
  /\ OneCall <=>
       /\ Distinct(wire) /\ Apart(out[client])
       /\ \A r \in Call :
            /\ On(wire, r) \/ AtEngine(r) \/ In(out[client], r) => Waits(r)
            /\ ~(On(wire, r) /\ AtEngine(r))
            /\ ~(On(wire, r) /\ In(out[client], r))
            /\ ~(AtEngine(r) /\ In(out[client], r))
BY DEF OneCall, Distinct, Apart, On, In, OnWire, Answered

-----------------------------------------------------------------------------
(***************************************************************************)
(* The steps by what they do to the calls and to the reader's box.         *)
(***************************************************************************)

\* An engine that is gone does not come back.
LEMMA GoneForGood ==
  ASSUME EngineIsOurs, [LogsNext]_allVars, main' # "exited"
  PROVE  main # "exited"
<1> SUFFICES ASSUME main = "exited" PROVE main' = "exited"
  OBVIOUS
<1>1. /\ \A p \in Panel : User(p) => UNCHANGED main
      /\ \A n \in Job : WorkerStep(n) \/ TimeOut(n) => UNCHANGED main
  BY DEF User, PressStart, PressStop, Close, WorkerStep, SendStart, TakeStream,
     LookAtOwner, Release, SendStop, TimeOut, vars, server
<1>2. Dispatch \/ ReaderEnds \/ EndStop \/ UNCHANGED allVars => UNCHANGED main
  BY DEF Dispatch, Receive, ReaderEnds, EndStop, allVars, vars, server
<1>3. BeginStop \/ EngineDies => main' = "exited"
  BY DEF BeginStop, EngineDies, Exit
<1>4. ~ReadRequest
  BY DEF ReadRequest, AskStream
<1>5. ~ServeOn
  BY EngineOverStdio DEF ServeOn, Serve, Greet, Stopped, SpawnFails, Settle, Respond,
     HangUp, Unhook, Leave, Spawn
<1>6. ToolStep \/ (\E s \in Stream : PumpOn(s)) => UNCHANGED main
  BY DEF ToolStep, Device, WriteLine, Die, PumpOn, PumpStep, ReadLine, ReadEnd, Emit,
     EmitRaises, server
<1> QED
  BY <1>1, <1>2, <1>3, <1>4, <1>5, <1>6 DEF LogsNext

\* A press changes the place of a worker that had none.
LEMMA UsersKeepCalls ==
  ASSUME LogsTypeOK, OwnersAreOpen, NEW p \in Panel, User(p)
  PROVE  /\ UNCHANGED <<vars, owner, svc, wire>>
         /\ \E n \in Job : /\ at[n] = "unpressed" /\ n = presses + 1
                           /\ \A k \in Job : k # n => at'[k] = at[k]
         /\ \A r \in Call : Waits(r) => Waits(r)'
<1>1. UNCHANGED <<vars, owner, svc, wire>> /\ \E place : Press(p, place)
  BY DEF User, PressStart, PressStop, Close, HandBack
<1>2. /\ presses + 1 \in Job /\ at[presses + 1] = "unpressed"
      /\ \A k \in Job : k # presses + 1 => at'[k] = at[k]
  BY <1>1, PressesGiveWork DEF OwnersAreOpen, LogsTypeOK
<1> QED
  BY <1>1, <1>2 DEF Waits, Call

\* Workers between their calls leave the calls alone, and so does one that
\* gives up.
LEMMA WorkersKeepCalls ==
  ASSUME LogsTypeOK, NEW n \in Job,
         TakeStream(n) \/ LookAtOwner(n) \/ Release(n) \/ TimeOut(n)
  PROVE  /\ UNCHANGED <<vars, svc, wire>>
         /\ \A r \in Call : Waits(r) => Waits(r)'
BY DEF TakeStream, LookAtOwner, Release, TimeOut, Waiting, Go, LogsTypeOK, Waits, Call

\* A worker puts its call on the wire and waits, unless the call is refused.
LEMMA SendersWait ==
  ASSUME LogsTypeOK, EngineIsOurs, NEW n \in Job, SendStart(n) \/ SendStop(n)
  PROVE  /\ UNCHANGED <<vars, svc, owner>>
         /\ \/ /\ UNCHANGED wire /\ main = "exited"
               /\ \A r \in Call : Waits(r) => Waits(r)'
            \/ \E c \in Call :
                 /\ wire' = Append(wire, c) /\ ~Waits(c)
                 /\ \A r \in Call : Waits(r) \/ r = c => Waits(r)'
<1>1. Connected \/ main = "exited"
  BY DEF Connected, EngineIsOurs
<1>2. CASE SendStart(n)
  <2> DEFINE c == [kind |-> "start", by |-> n]
  <2>1. c \in Call /\ c.kind = "start" /\ c.by = n
    BY DEF Call
  <2>2. UNCHANGED <<vars, svc, owner>> /\ at[n] = "queued"
    BY <1>2 DEF SendStart
  <2>3. CASE Connected
    <3>1. wire' = Append(wire, c) /\ at' = [at EXCEPT ![n] = "sent"]
      BY <1>2, <2>3 DEF SendStart, Write, Go
    <3>2. \A r \in Call : Waits(r) \/ r = c => Waits(r)'
      BY <2>2, <3>1 DEF Waits, Call, LogsTypeOK
    <3> QED
      BY <2>1, <2>2, <3>1, <3>2 DEF Waits
  <2>4. CASE ~Connected
    BY <1>1, <1>2, <2>2, <2>4 DEF SendStart, Go, Waits, Call, LogsTypeOK
  <2> QED
    BY <2>3, <2>4
<1>3. CASE SendStop(n)
  <2> DEFINE c == [kind |-> "stop", by |-> n]
  <2>1. c \in Call /\ c.kind = "stop" /\ c.by = n
    BY DEF Call
  <2>2. UNCHANGED <<vars, svc, owner>> /\ at[n] = "released"
    BY <1>3 DEF SendStop
  <2>3. CASE Connected
    <3>1. wire' = Append(wire, c) /\ at' = [at EXCEPT ![n] = "called"]
      BY <1>3, <2>3 DEF SendStop, CallStop, Write, Go
    <3>2. \A r \in Call : Waits(r) \/ r = c => Waits(r)'
      BY <2>2, <3>1 DEF Waits, Call, LogsTypeOK
    <3> QED
      BY <2>1, <2>2, <3>1, <3>2 DEF Waits
  <2>4. CASE ~Connected
    BY <1>1, <1>3, <2>2, <2>4 DEF SendStop, CallStop, Go, Waits, Call, LogsTypeOK
  <2> QED
    BY <2>3, <2>4
<1> QED
  BY <1>2, <1>3

\* A pump says nothing to the panels, or something that answers no call.
LEMMA PumpsAnswerNothing ==
  ASSUME TypeOK, EngineIsOurs, NEW s \in Stream, PumpOn(s)
  PROVE  /\ UNCHANGED <<server, current, request, asker, panels, svc, wire>>
         /\ \/ out'[client] = out[client]
            \/ \E m \in Message : /\ m.kind # "reply"
                                  /\ out'[client] = Append(out[client], m)
<1>1. UNCHANGED <<server, current, request, asker, panels, svc, wire>>
  BY DEF PumpOn, PumpStep, ReadLine, ReadEnd, Emit, EmitRaises
<1>2. CASE Emit(s)
  <2>1. PICK m \in {LineOf(s), EndOf(s)} : Deliver(Listener, m)
    BY <1>2 DEF Emit
  <2>2. m \in Message /\ Listener \in Client \cup {None} /\ client \in Client
    BY <2>1, MessagesAreMessages DEF EngineIsOurs
  <2>3. m.kind # "reply"
    BY <2>1 DEF LineOf, EndOf
  <2> QED
    BY <1>1, <2>1, <2>2, <2>3, DeliverType
<1>3. CASE ReadLine(s) \/ ReadEnd(s) \/ EmitRaises(s)
  BY <1>1, <1>3 DEF ReadLine, ReadEnd, EmitRaises
<1> QED
  BY <1>1, <1>2, <1>3 DEF PumpOn, PumpStep

\* The answer to the call at hand reaches the box.
LEMMA RespondReaches ==
  ASSUME TypeOK, EngineIsOurs, Respond
  PROVE  /\ out'[client] = Append(out[client], Reply) /\ Reply \in Message
         /\ main = "reply" /\ main' = "read" /\ UNCHANGED <<client, current>>
         /\ \A r \in Call : AtEngine(r) <=> Answers(Reply, r)
         /\ \E r \in Call : AtEngine(r)
BY NoneIsNothing, MessagesAreMessages
   DEF Respond, Deliver, EngineIsOurs, TypeOK, AtEngine, Answers, Reply

\* What the main thread does before it answers leaves the call at hand.
LEMMA ServeKeepsCalls ==
  ASSUME EngineIsOurs, ServeOn, ~Respond
  PROVE  /\ UNCHANGED <<client, out, req, by, panels, svc, wire>>
         /\ {main, main'} \subseteq {"stopping", "spawn", "settle", "reply"}
<1>1. ~(Greet \/ HangUp \/ Unhook \/ Leave)
  BY EngineOverStdio DEF EngineIsOurs, Greet, HangUp, Unhook, Leave
<1>2. CASE Stopped
  BY <1>2 DEF Stopped, ServeOn, EngineIsOurs, AtEngine, Call
<1>3. CASE SpawnFails \/ Settle \/ \E s \in Stream : Spawn(s)
  BY <1>3 DEF SpawnFails, Settle, Spawn, ServeOn, request
<1> QED
  BY <1>1, <1>2, <1>3 DEF ServeOn, Serve

\* A message answers one call at most.
LEMMA AnswersOne ==
  ASSUME NEW m, NEW c \in Call, NEW r \in Call, Answers(m, c), Answers(m, r)
  PROVE  r = c
<1>1. r.kind = c.kind /\ r.by = c.by
  BY DEF Answers
<1>2. \A x \in Call : x = [kind |-> x.kind, by |-> x.by]
  BY DEF Call
<1> QED
  BY <1>1, <1>2

\* The reader hands an answer to the worker that waits for it.
LEMMA DispatchAnswers ==
  ASSUME TypeOK, LogsTypeOK, EngineIsOurs, OneCall, Dispatch
  PROVE  /\ UNCHANGED <<server, current, request, asker, owner, svc, wire>>
         /\ out[client] \in Seq(Message) /\ out[client] # <<>>
         /\ Incoming = out[client][1] /\ 1 \in 1..Len(out[client]) /\ Incoming \in Message
         /\ out'[client] = Tail(out[client])
         /\ Incoming.kind # "reply" => UNCHANGED at
         /\ Incoming.kind = "reply" =>
              \E c \in Call : /\ Answers(Incoming, c) /\ Answer(Incoming) /\ Waits(c)
                              /\ \A r \in Call : Waits(r) /\ r # c => Waits(r)'
<1>1. client \in Client /\ out[client] \in Seq(Message) /\ out[client] # <<>>
  BY DEF Dispatch, Receive, EngineIsOurs, TypeOK
<1>2. /\ UNCHANGED <<server, current, request, asker, owner, svc, wire>>
      /\ out'[client] = Tail(out[client])
      /\ Incoming.kind # "reply" => UNCHANGED at
      /\ Incoming.kind = "reply" => Answer(Incoming)
  BY <1>1 DEF Dispatch, Receive, TypeOK, streams
<1>3. /\ 1 \in 1..Len(out[client]) /\ Incoming = out[client][1]
      /\ Incoming \in Message
  BY <1>1, TailReads DEF Incoming
<1>4. ASSUME Incoming.kind = "reply"
      PROVE  \E c \in Call : /\ Answers(Incoming, c) /\ Waits(c)
                             /\ \A r \in Call : Waits(r) /\ r # c => Waits(r)'
  <2>1. PICK c \in Call : Answers(Incoming, c)
    BY <1>3, <1>4 DEF EngineIsOurs, RepliesAreAnswers
  <2>2. Incoming.by = c.by /\ Waits(c)
    BY <1>3, <2>1 DEF Answers, Answered, OneCall
  <2>3. ASSUME NEW r \in Call, Waits(r), r # c PROVE Waits(r)'
    <3>1. r.by # c.by
      <4> SUFFICES ASSUME r.by = c.by PROVE FALSE
        OBVIOUS
      <4>1. r.kind # c.kind /\ {r.kind, c.kind} \subseteq {"start", "stop"}
        BY <2>3 DEF Call
      <4> QED
        BY <2>2, <2>3, <4>1 DEF Waits
    <3>2. r.by \in Job /\ at'[r.by] = at[r.by]
      BY <1>2, <1>4, <2>2, <3>1 DEF Answer, Go, LogsTypeOK, Call
    <3> QED
      BY <2>3, <3>2 DEF Waits
  <2> QED
    BY <2>1, <2>2, <2>3
<1> QED
  BY <1>1, <1>2, <1>3, <1>4

(***************************************************************************)
(* A call stays in one place.                                              *)
(***************************************************************************)
LEMMA OneCallStep ==
  ASSUME TypeOK, LogsTypeOK, LogsInv, [LogsNext]_allVars
  PROVE  OneCall'
<1> DEFINE box == out[client]
           Placed(w, q, r) ==
             /\ On(w, r) \/ AtEngine(r) \/ In(q, r) => Waits(r)
             /\ ~(On(w, r) /\ AtEngine(r)) /\ ~(On(w, r) /\ In(q, r))
             /\ ~(AtEngine(r) /\ In(q, r))
<1>1. EngineIsOurs /\ OneCall /\ OwnersAreOpen
  BY DEF LogsInv
<1>2. Distinct(wire) /\ Apart(box) /\ \A r \in Call : Placed(wire, box, r)
  BY <1>1, OneCallIsApart DEF LogsInv
<1>3. wire \in Seq(Call) /\ box \in Seq(Message)
  BY <1>1 DEF LogsTypeOK, TypeOK, Call, EngineIsOurs
<1>4. (Distinct(wire) /\ Apart(box) /\ \A r \in Call : Placed(wire, box, r))'
        => OneCall'
  BY OneCallIsApart DEF OneCall, Distinct, Apart, On, In, OnWire, Answered
<1>5. ASSUME UNCHANGED <<wire, box>>,
             \A r \in Call : /\ AtEngine(r)' => AtEngine(r)
                             /\ Waits(r) => Waits(r)'
      PROVE  OneCall'
  <2>1. Distinct(wire)' /\ Apart(box)'
    BY <1>2, <1>5 DEF Distinct, Apart, Answers
  <2>2. \A r \in Call : On(wire, r)' = On(wire, r) /\ In(box, r)' = In(box, r)
    BY <1>5 DEF On, In, Answers
  <2>3. \A r \in Call : Placed(wire, box, r)'
    BY <1>2, <1>5, <2>2
  <2> QED
    BY <1>4, <2>1, <2>3
<1>6. ASSUME UNCHANGED <<main, req, by>>
      PROVE  \A r \in Call : AtEngine(r)' = AtEngine(r)
  BY <1>6 DEF AtEngine
<1>7. ASSUME UNCHANGED panels PROVE \A r \in Call : Waits(r)' = Waits(r)
  BY <1>7 DEF Waits, panels
<1>8. ASSUME UNCHANGED <<vars, wire>>, \A r \in Call : Waits(r) => Waits(r)'
      PROVE  OneCall'
  BY <1>5, <1>6, <1>8 DEF vars, server, request
<1>9. ASSUME NEW n \in Job, WorkerStep(n) \/ TimeOut(n) PROVE OneCall'
  <2>1. CASE SendStart(n) \/ SendStop(n)
    <3> DEFINE Called(c) == /\ wire' = Append(wire, c) /\ ~Waits(c)
                            /\ \A r \in Call : Waits(r) \/ r = c => Waits(r)'
    <3>1. /\ UNCHANGED <<vars, svc, owner>>
          /\ \/ UNCHANGED wire /\ \A r \in Call : Waits(r) => Waits(r)'
             \/ \E c \in Call : Called(c)
      BY <1>1, <2>1, SendersWait
    <3>2. ASSUME NEW c \in Call, Called(c) PROVE OneCall'
      <4>1. ~On(wire, c) /\ ~AtEngine(c) /\ ~In(box, c)
        BY <1>2, <3>2
      <4>2. Distinct(wire') /\ \A x : On(wire', x) <=> On(wire, x) \/ x = c
        BY <1>2, <1>3, <3>2, <4>1, AppendDistinct
      <4>3. UNCHANGED box /\ \A r \in Call : AtEngine(r)' = AtEngine(r)
        BY <1>6, <3>1 DEF vars, server, request
      <4>4. Apart(box)' /\ \A r \in Call : In(box, r)' = In(box, r)
        BY <1>2, <4>3 DEF Apart, In, Answers
      <4>5. Distinct(wire)' /\ \A r \in Call : On(wire, r)' <=> On(wire, r) \/ r = c
        BY <4>2 DEF Distinct, On
      <4> HIDE DEF box
      <4>6. ASSUME NEW r \in Call PROVE Placed(wire, box, r)'
        BY <1>2, <3>2, <4>1, <4>3, <4>4, <4>5
      <4> QED
        BY <1>4, <4>4, <4>5, <4>6
    <3> QED
      BY <1>8, <3>1, <3>2
  <2>2. CASE TakeStream(n) \/ LookAtOwner(n) \/ Release(n) \/ TimeOut(n)
    BY <1>8, <2>2, WorkersKeepCalls
  <2> QED
    BY <1>9, <2>1, <2>2 DEF WorkerStep
<1>10. CASE ReadRequest
  <2>1. /\ wire # <<>> /\ wire' = Tail(wire) /\ main = "read" /\ main' = "stopping"
        /\ req' = Head(wire).kind /\ by' = Head(wire).by
        /\ UNCHANGED <<client, out, panels>>
    BY <1>10 DEF ReadRequest, AskStream
  <2>2. /\ Distinct(wire') /\ On(wire, Head(wire))
        /\ \A x : On(wire', x) <=> On(wire, x) /\ x # Head(wire)
    BY <1>2, <1>3, <2>1, TailDistinct
  <2>3. Head(wire) \in Call
    BY <1>3, <2>1, TailReads
  <2>4. \A r \in Call : ~AtEngine(r) /\ (AtEngine(r)' <=> r = Head(wire))
    BY <2>1, <2>3 DEF AtEngine, Call
  <2>5. Apart(box)' /\ \A r \in Call : In(box, r)' = In(box, r)
    BY <1>2, <2>1 DEF Apart, In, Answers
  <2>6. Distinct(wire)' /\ \A r \in Call : On(wire, r)' <=> On(wire, r) /\ r # Head(wire)
    BY <2>2 DEF Distinct, On
  <2>7. \A r \in Call : Waits(r)' = Waits(r)
    BY <1>7, <2>1
  <2> HIDE DEF box
  <2>8. ASSUME NEW r \in Call PROVE Placed(wire, box, r)'
    BY <1>2, <2>2, <2>3, <2>4, <2>5, <2>6, <2>7
  <2> QED
    BY <1>4, <2>5, <2>6, <2>8
<1>11. CASE ServeOn
  <2>1. CASE Respond
    <3>1. /\ out'[client] = Append(box, Reply) /\ Reply \in Message
          /\ main = "reply" /\ main' = "read" /\ UNCHANGED <<client, current>>
          /\ \A r \in Call : AtEngine(r) <=> Answers(Reply, r)
      BY <1>1, <2>1, RespondReaches
    <3>2. \A r \in Call : Answers(Reply, r) => ~In(box, r)
      BY <1>2, <3>1
    <3> DEFINE next == Append(box, Reply)
    <3>3. Apart(next) /\ \A r : In(next, r) <=> In(box, r) \/ Answers(Reply, r)
      BY <1>2, <1>3, <3>1, <3>2, AppendApart
    <3>4. box' = next
      BY <3>1
    <3> HIDE DEF box, next
    <3>5. Apart(box)' = Apart(next) /\ \A r \in Call : In(box, r)' = In(next, r)
      BY <3>4 DEF Apart, In, Answers
    <3>6. Apart(box)' /\ \A r \in Call : In(box, r)' <=> In(box, r) \/ AtEngine(r)
      BY <3>1, <3>3, <3>5
    <3>7. UNCHANGED wire /\ \A r \in Call : Waits(r)' = Waits(r) /\ ~AtEngine(r)'
      BY <1>7, <1>11, <3>1 DEF ServeOn, AtEngine
    <3>8. Distinct(wire)' /\ \A r \in Call : On(wire, r)' = On(wire, r)
      BY <1>2, <3>7 DEF Distinct, On
    <3>9. ASSUME NEW r \in Call PROVE Placed(wire, box, r)'
      BY <1>2, <3>6, <3>7, <3>8
    <3> QED
      BY <1>4, <3>6, <3>8, <3>9
  <2>2. CASE ~Respond
    <3>1. /\ UNCHANGED <<client, out, req, by, panels, svc, wire>>
          /\ {main, main'} \subseteq {"stopping", "spawn", "settle", "reply"}
      BY <1>1, <1>11, <2>2, ServeKeepsCalls
    <3>2. \A r \in Call : AtEngine(r)' = AtEngine(r)
      BY <3>1 DEF AtEngine
    <3> QED
      BY <1>5, <1>7, <3>1, <3>2
  <2> QED
    BY <2>1, <2>2
<1>12. CASE Dispatch
  <2>1. /\ UNCHANGED <<server, current, request, asker, owner, svc, wire>> /\ box # <<>>
        /\ Incoming = Head(box) /\ 1 \in 1..Len(box) /\ Incoming = box[1]
        /\ out'[client] = Tail(box)
        /\ Incoming.kind # "reply" => UNCHANGED at
    BY <1>1, <1>12, DispatchAnswers DEF Incoming
  <2> DEFINE next == Tail(box)
  <2>2. /\ Apart(next)
        /\ \A r \in Call : In(next, r) <=> In(box, r) /\ ~Answers(Incoming, r)
    BY <1>2, <1>3, <2>1, TailApart
  <2>3. box' = next
    BY <2>1 DEF server
  <2>4. /\ UNCHANGED wire /\ \A r \in Call : AtEngine(r)' = AtEngine(r)
    BY <1>6, <2>1 DEF server, request
  <2>5. Distinct(wire)' /\ \A r \in Call : On(wire, r)' = On(wire, r)
    BY <1>2, <2>4 DEF Distinct, On
  <2>6. \A r \in Call : Waits(r) /\ ~Answers(Incoming, r) => Waits(r)'
    <3>1. CASE Incoming.kind # "reply"
      BY <2>1, <3>1 DEF Waits
    <3>2. CASE Incoming.kind = "reply"
      BY <1>1, <1>12, <3>2, DispatchAnswers
    <3> QED
      BY <3>1, <3>2
  <2> HIDE DEF box, next
  <2>7. ASSUME NEW r \in Call, Answers(Incoming, r) PROVE In(box, r)
    BY <2>1, <2>7 DEF In
  <2>8. Apart(box)' /\ \A r \in Call : In(box, r)' <=> In(box, r) /\ ~Answers(Incoming, r)
    BY <2>2, <2>3 DEF Apart, In, Answers
  <2>9. ASSUME NEW r \in Call PROVE Placed(wire, box, r)'
    BY <1>2, <2>4, <2>5, <2>6, <2>7, <2>8
  <2> QED
    BY <1>4, <2>5, <2>8, <2>9
<1>13. ASSUME NEW s \in Stream, PumpOn(s) PROVE OneCall'
  <2>1. /\ UNCHANGED <<server, current, request, asker, panels, svc, wire>>
        /\ \/ out'[client] = out[client]
           \/ \E m \in Message : /\ m.kind # "reply"
                                 /\ out'[client] = Append(out[client], m)
    BY <1>1, <1>13, PumpsAnswerNothing
  <2>2. /\ UNCHANGED wire
        /\ \A r \in Call : AtEngine(r)' = AtEngine(r) /\ Waits(r)' = Waits(r)
    BY <1>6, <1>7, <2>1 DEF server, request
  <2>3. CASE out'[client] = out[client]
    BY <1>5, <2>1, <2>2, <2>3 DEF server
  <2>4. ASSUME NEW m \in Message, m.kind # "reply", out'[client] = Append(out[client], m)
        PROVE  OneCall'
    <3> DEFINE next == Append(box, m)
    <3>1. \A r \in Call : ~Answers(m, r)
      BY <2>4 DEF Answers
    <3>2. Apart(next) /\ \A r \in Call : In(next, r) <=> In(box, r)
      BY <1>2, <1>3, <3>1, AppendApart
    <3>3. box' = next
      BY <2>1, <2>4 DEF server
    <3> HIDE DEF box, next
    <3>4. Apart(box)' /\ \A r \in Call : In(box, r)' = In(box, r)
      BY <3>2, <3>3 DEF Apart, In, Answers
    <3>5. Distinct(wire)' /\ \A r \in Call : On(wire, r)' = On(wire, r)
      BY <1>2, <2>2 DEF Distinct, On
    <3>6. ASSUME NEW r \in Call PROVE Placed(wire, box, r)'
      BY <1>2, <2>2, <3>4, <3>5
    <3> QED
      BY <1>4, <3>4, <3>5, <3>6
  <2> QED
    BY <2>1, <2>3, <2>4
<1>14. CASE ToolStep
  <2>1. UNCHANGED <<server, request, out, panels, wire>>
    BY <1>14 DEF ToolStep, Device, WriteLine, Die
  <2> QED
    BY <1>5, <1>6, <1>7, <2>1 DEF server, request
<1>15. CASE EndStop \/ UNCHANGED allVars
  <2>1. UNCHANGED <<vars, wire, at>>
    BY <1>15 DEF EndStop, allVars, panels
  <2> QED
    BY <1>8, <2>1 DEF Waits
<1>16. ASSUME NEW p \in Panel, User(p) PROVE OneCall'
  BY <1>1, <1>8, <1>16, UsersKeepCalls
<1>17. CASE EngineDies
  <2>1. main' = "exited" /\ UNCHANGED <<client, out, wire, panels>>
    BY <1>17 DEF EngineDies, Exit
  <2>2. \A r \in Call : ~AtEngine(r)'
    BY <2>1 DEF AtEngine
  <2> QED
    BY <1>5, <1>7, <2>1, <2>2
<1>18. ASSUME UNCHANGED client, main' = "exited", out'[client] = <<>>, Distinct(wire)',
              \A r \in Call : On(wire, r)' => Waits(r)'
       PROVE  OneCall'
  <2>1. 1..Len(<<>>) = {}
    BY EmptySeq
  <2>2. Apart(box)' /\ \A r \in Call : ~In(box, r)' /\ ~AtEngine(r)'
    BY <1>18, <2>1 DEF Apart, In, AtEngine
  <2> QED
    BY <1>4, <1>18, <2>2
<1>19. CASE BeginStop
  <2>1. /\ UNCHANGED <<client, wire, panels>> /\ main' = "exited" /\ out'[client] = <<>>
    BY <1>1, <1>19 DEF BeginStop, TypeOK, EngineIsOurs
  <2>2. Distinct(wire)' /\ \A r \in Call : On(wire, r)' => Waits(r)'
    BY <1>2, <1>7, <2>1 DEF Distinct, On
  <2> QED
    BY <1>18, <2>1, <2>2
<1>20. CASE ReaderEnds
  <2>1. /\ UNCHANGED client /\ main' = "exited" /\ out'[client] = <<>> /\ wire' = <<>>
    BY <1>20 DEF ReaderEnds, vars, server
  <2>2. Distinct(wire)' /\ \A r \in Call : ~On(wire, r)'
    BY <2>1, EmptySeq DEF Distinct, On
  <2> QED
    BY <1>18, <2>1, <2>2
<1> QED
  BY <1>9, <1>10, <1>11, <1>12, <1>13, <1>14, <1>15, <1>16, <1>17, <1>19, <1>20
     DEF LogsNext

(***************************************************************************)
(* A stream stays covered: it becomes current under a start that will be   *)
(* granted, a grant leads to a claim, and the owner lets go of it only     *)
(* with a stop to send.                                                    *)
(***************************************************************************)
LEMMA CoveredStep ==
  ASSUME TypeOK, LogsTypeOK, LogsInv, [LogsNext]_allVars, main' # "exited"
  PROVE  Covered'
<1> USE DEF panels
<1> DEFINE InHand(n) == at[n] \in {"granted", "releasing", "released"}
           Handled == \E n \in Job : InHand(n)
           Settled(n) == main = "reply" /\ req = "start" /\ ok /\ by = n
           InBox(q, n) == \E i \in 1..Len(q) : Grants(q[i], n)
           box == out[client]
           a == asker[current]
<1>1. /\ EngineIsOurs /\ StreamsAreAskedFor /\ main # "exited" /\ OneCall /\ OwnersAreOpen
      /\ svc = "up" /\ None \notin Panel /\ None \notin Stream
  BY GoneForGood, NoneIsNothing, PanelsArePanels DEF LogsInv, EngineIsOurs
<1>2. current # None => \/ owner # None \/ wire # <<>> \/ GaveUp(a) \/ Handled
                        \/ at[a] = "sent" /\ (Settled(a) \/ InBox(box, a))
  BY <1>1 DEF LogsInv, Covered, Granted
<1>3. box \in Seq(Message) /\ (current # None => a \in Job)
  BY <1>1 DEF EngineIsOurs, TypeOK, StreamsAreAskedFor
<1>4. ASSUME UNCHANGED <<current, asker, owner, wire, at, main, req, by, ok>>,
             \A n \in Job : InBox(box, n) => InBox(box, n)'
      PROVE  Covered'
  <2> HIDE DEF box, InBox
  <2>1. current # None => Settled(a)' = Settled(a) /\ (InBox(box, a) => InBox(box, a)')
    BY <1>3, <1>4
  <2>2. current' # None => \/ owner' # None \/ wire' # <<>> \/ GaveUp(a)' \/ Handled'
                           \/ at'[a'] = "sent" /\ (Settled(a)' \/ InBox(box, a)')
    BY <1>2, <1>4, <2>1 DEF GaveUp
  <2> QED
    BY <2>2 DEF Covered, Granted, box, InBox
<1>5. ASSUME UNCHANGED box PROVE \A n : InBox(box, n)' = InBox(box, n)
  BY <1>5 DEF Grants
<1>6. ASSUME UNCHANGED <<vars, owner, wire>>,
             Handled => Handled',
             current # None /\ GaveUp(a) => GaveUp(a)' \/ Handled',
             current # None /\ at[a] = "sent" => at'[a] = "sent" \/ GaveUp(a)' \/ Handled'
      PROVE  Covered'
  <2>1. \A n : Settled(n)' = Settled(n) /\ InBox(box, n)' = InBox(box, n)
    BY <1>5, <1>6 DEF vars, server, request
  <2>2. UNCHANGED <<current, a>>
    BY <1>6 DEF vars, streams
  <2> HIDE DEF box, InBox, a
  <2>3. current' # None => \/ owner' # None \/ wire' # <<>> \/ GaveUp(a)' \/ Handled'
                           \/ at'[a'] = "sent" /\ (Settled(a)' \/ InBox(box, a)')
    BY <1>2, <1>6, <2>1, <2>2
  <2> QED
    BY <2>3 DEF Covered, Granted, box, InBox, a
<1>7. ASSUME NEW n \in Job, WorkerStep(n) \/ TimeOut(n) PROVE Covered'
  <2>1. CASE SendStart(n) \/ SendStop(n)
    <3>1. UNCHANGED <<vars, owner>> /\ \E c \in Call : wire' = Append(wire, c)
      BY <1>1, <2>1, SendersWait
    <3>2. wire' # <<>>
      BY <3>1, AppendReads DEF LogsTypeOK, Call
    <3> QED
      BY <3>2 DEF Covered
  <2>2. CASE TakeStream(n)
    <3>1. at[n] = "granted" /\ owner' = whose[n]
      BY <2>2 DEF TakeStream, Claim
    <3>2. owner' \in Panel
      BY <1>1, <3>1 DEF OwnersAreOpen, UnderStart, LogsTypeOK
    <3> QED
      BY <1>1, <3>2 DEF Covered
  <2>3. CASE Release(n) \/ LookAtOwner(n)
    <3>1. at'[n] \in {"releasing", "released"}
      BY <2>3 DEF Release, LookAtOwner, Go, LogsTypeOK
    <3> QED
      BY <3>1 DEF Covered
  <2>4. CASE TimeOut(n)
    <3>1. /\ UNCHANGED <<vars, owner, wire>> /\ at[n] \in {"sent", "called"}
          /\ at' = [at EXCEPT ![n] = IF at[n] = "sent" THEN "timedout" ELSE "done"]
      BY <2>4 DEF TimeOut, Waiting, Go
    <3>2. ASSUME NEW k \in Job
          PROVE  /\ InHand(k) => InHand(k)'
                 /\ GaveUp(k) => at'[k] = "timedout"
                 /\ at[k] = "sent" => at'[k] \in {"sent", "timedout"}
      BY <3>1 DEF LogsTypeOK, GaveUp
    <3>3. UNCHANGED a
      BY <3>1 DEF vars, streams
    <3> QED
      BY <1>3, <1>6, <3>1, <3>2, <3>3 DEF GaveUp
  <2> QED
    BY <1>7, <2>1, <2>2, <2>3, <2>4 DEF WorkerStep
<1>8. CASE ReadRequest
  BY <1>8 DEF ReadRequest, AskStream, TakeOut, Covered
<1>9. CASE ServeOn
  <2>1. CASE Respond
    <3>1. /\ out'[client] = Append(box, Reply) /\ Reply \in Message
          /\ UNCHANGED <<client, current>>
      BY <1>1, <2>1, RespondReaches
    <3>2. UNCHANGED <<owner, wire, at, a>>
      BY <1>9, <2>1, <3>1 DEF ServeOn, Respond, streams
    <3> DEFINE next == Append(box, Reply)
    <3>3. /\ 1..Len(next) = 1..Len(box) \cup {Len(box) + 1} /\ next[Len(box) + 1] = Reply
          /\ \A i \in 1..Len(box) : next[i] = box[i]
      BY <1>3, <3>1, AppendReads
    <3>4. Settled(a) => Grants(Reply, a)
      BY DEF Grants, Reply
    <3>5. box' = next
      BY <3>1
    <3> HIDE DEF box, next
    <3>6. (InBox(box, a) => InBox(next, a)) /\ (Grants(Reply, a) => InBox(next, a))
      BY <3>3 DEF Grants
    <3>7. InBox(box, a)' = InBox(next, a)
      BY <3>2, <3>5 DEF Grants
    <3> HIDE DEF a, InBox
    <3>8. current' # None => \/ owner' # None \/ wire' # <<>> \/ GaveUp(a)' \/ Handled'
                             \/ at'[a'] = "sent" /\ InBox(box, a)'
      BY <1>2, <3>1, <3>2, <3>4, <3>6, <3>7 DEF GaveUp
    <3> QED
      BY <3>8 DEF Covered, Granted, box, InBox, a
  <2>2. CASE ~Respond
    <3>1. /\ UNCHANGED <<client, out, req, by, panels, svc, wire>>
          /\ main # "reply"
      BY <1>1, <1>9, <2>2, ServeKeepsCalls DEF ServeOn, Serve, Greet, Stopped, SpawnFails,
         Settle, HangUp, Unhook, Leave, Spawn
    <3>2. \A n : InBox(box, n)' = InBox(box, n)
      BY <1>5, <3>1
    <3>3. CASE UNCHANGED <<current, asker>>
      <4> HIDE DEF box, InBox
      <4>1. current' # None => \/ owner' # None \/ wire' # <<>> \/ GaveUp(a)' \/ Handled'
                               \/ at'[a'] = "sent" /\ InBox(box, a)'
        BY <1>2, <3>1, <3>2, <3>3 DEF GaveUp
      <4> QED
        BY <4>1 DEF Covered, Granted, box, InBox
    <3>4. ASSUME NEW s \in Stream, Spawn(s) PROVE Covered'
      <4>1. current' = None
        BY <1>1, <3>4 DEF Spawn, StreamsAreAskedFor
      <4> QED
        BY <4>1 DEF Covered
    <3>5. CASE Settle /\ proc[child] = "running"
      <4>1. /\ main = "settle" /\ main' = "reply" /\ ok' /\ current' = child
            /\ asker' = asker
        BY <3>5 DEF Settle
      <4>2. req = "start" /\ req' = "start" /\ asker[child] = by /\ by' = by
        BY <1>1, <3>1, <4>1 DEF EngineIsOurs, StreamsAreAskedFor
      <4>3. PICK r \in Call : AtEngine(r)
        BY <1>1, <4>1 DEF EngineIsOurs
      <4>4. r.kind = "start" /\ r.by = by /\ Waits(r)
        BY <1>1, <4>2, <4>3 DEF AtEngine, OneCall
      <4>5. at[by] \in {"sent", "timedout"} /\ at' = at
        BY <3>1, <4>4 DEF Waits
      <4> QED
        BY <4>1, <4>2, <4>5 DEF Covered, GaveUp, Granted
    <3>6. CASE Stopped \/ SpawnFails \/ (Settle /\ proc[child] # "running")
      BY <3>3, <3>6 DEF Stopped, SpawnFails, Settle, streams
    <3>7. ~(Greet \/ HangUp \/ Unhook \/ Leave)
      BY <1>1, EngineOverStdio DEF EngineIsOurs, Greet, HangUp, Unhook, Leave
    <3> QED
      BY <1>9, <2>2, <3>4, <3>5, <3>6, <3>7 DEF ServeOn, Serve
  <2> QED
    BY <2>1, <2>2
<1>10. CASE Dispatch
  <2>1. /\ UNCHANGED <<server, current, request, asker, owner, wire>> /\ box # <<>>
        /\ Incoming = box[1] /\ 1 \in 1..Len(box) /\ out'[client] = Tail(box)
        /\ Incoming.kind # "reply" => UNCHANGED at
    BY <1>1, <1>10, DispatchAnswers
  <2>2. UNCHANGED <<main, req, by, ok, client, current, a>>
    BY <2>1 DEF server, request
  <2>3. \A i \in 2..Len(box) : i - 1 \in 1..Len(Tail(box)) /\ Tail(box)[i - 1] = box[i]
    BY <1>3, <2>1, TailReads
  <2>4. box' = Tail(box) /\ 1..Len(box) \subseteq {1} \cup 2..Len(box)
    BY <1>3, <2>1, LenProperties DEF server
  <2> DEFINE next == Tail(box)
  <2>5. ASSUME NEW n PROVE InBox(box, n) => Grants(Incoming, n) \/ InBox(box, n)'
    <3> HIDE DEF box, next
    <3>1. InBox(box, n) => Grants(Incoming, n) \/ InBox(next, n)
      BY <2>1, <2>3, <2>4 DEF next
    <3>2. InBox(box, n)' = InBox(next, n)
      BY <2>4 DEF Grants, next
    <3> QED
      BY <3>1, <3>2
  <2>6. ASSUME NEW n \in Job, at[n] = "sent", Settled(n) \/ InBox(box, n)
        PROVE  \/ at'[n] = "granted"
               \/ at'[n] = "sent" /\ (Settled(n)' \/ InBox(box, n)')
    <3>1. CASE Incoming.kind = "reply" /\ Incoming.by = n
      <4>1. PICK c \in Call : Answers(Incoming, c) /\ Answer(Incoming) /\ Waits(c)
        BY <1>1, <1>10, <3>1, DispatchAnswers
      <4>2. c.kind = "start" /\ c.by = n /\ Incoming.req = "start"
        BY <2>6, <3>1, <4>1 DEF Answers, Waits, Call
      <4>3. Answered(c) /\ ~AtEngine(c)
        BY <1>1, <2>1, <4>1 DEF Answered, OneCall
      <4>4. ~Settled(n)
        BY <4>2, <4>3 DEF AtEngine
      <4>5. PICK i \in 1..Len(box) : Grants(box[i], n)
        BY <2>6, <4>4
      <4>6. i = 1
        BY <1>1, <2>1, <4>1, <4>2, <4>5 DEF OneCall, Grants, Answers
      <4>7. Incoming.ok
        BY <2>1, <4>5, <4>6 DEF Grants
      <4> QED
        BY <2>6, <3>1, <4>1, <4>2, <4>7 DEF Answer, Waiting, Go, LogsTypeOK
    <3>2. CASE ~(Incoming.kind = "reply" /\ Incoming.by = n)
      <4>1. ~Grants(Incoming, n)
        BY <3>2 DEF Grants
      <4>2. at'[n] = at[n]
        <5>1. CASE Incoming.kind # "reply"
          BY <2>1, <5>1
        <5>2. CASE Incoming.kind = "reply"
          <6>1. Answer(Incoming)
            BY <1>1, <1>10, <5>2, DispatchAnswers
          <6> QED
            BY <3>2, <5>2, <6>1 DEF Answer, Go, LogsTypeOK
        <5> QED
          BY <5>1, <5>2
      <4>3. Settled(n)' = Settled(n)
        BY <2>2
      <4> HIDE DEF box, InBox
      <4> QED
        BY <2>5, <2>6, <4>1, <4>2, <4>3
    <3> QED
      BY <3>1, <3>2
  <2>7. ASSUME NEW n \in Job
        PROVE  (InHand(n) => InHand(n)') /\ (GaveUp(n) => at'[n] = "timedout")
    <3>1. CASE Incoming.kind # "reply"
      BY <2>1, <3>1 DEF GaveUp
    <3>2. CASE Incoming.kind = "reply"
      <4>1. Answer(Incoming)
        BY <1>1, <1>10, <3>2, DispatchAnswers
      <4>2. at'[n] = at[n] \/ at[n] \in {"sent", "called"}
        BY <4>1 DEF Answer, Waiting, Go, LogsTypeOK
      <4> QED
        BY <4>2 DEF GaveUp
    <3> QED
      BY <3>1, <3>2
  <2> HIDE DEF box, InBox, a
  <2>8. current' # None => \/ owner' # None \/ wire' # <<>> \/ GaveUp(a)' \/ Handled'
                           \/ at'[a'] = "sent" /\ (Settled(a)' \/ InBox(box, a)')
    <3> SUFFICES ASSUME current # None, owner = None, wire = <<>>
                 PROVE  \/ GaveUp(a)' \/ Handled'
                        \/ at'[a'] = "sent" /\ (Settled(a)' \/ InBox(box, a)')
      BY <2>1, <2>2
    <3>1. a \in Job /\ a' = a
      BY <1>3, <2>2
    <3>2. CASE GaveUp(a)
      BY <2>7, <3>1, <3>2 DEF GaveUp
    <3>3. CASE Handled
      BY <2>7, <3>3
    <3>4. CASE at[a] = "sent" /\ (Settled(a) \/ InBox(box, a))
      <4>1. \/ at'[a] = "granted"
            \/ at'[a] = "sent" /\ (Settled(a)' \/ InBox(box, a)')
        BY <2>6, <3>1, <3>4
      <4> QED
        BY <3>1, <4>1
    <3> QED
      BY <1>2, <3>2, <3>3, <3>4
  <2> QED
    BY <2>8 DEF Covered, Granted, box, InBox, a
<1>11. ASSUME NEW s \in Stream, PumpOn(s) PROVE Covered'
  <2>1. /\ UNCHANGED <<server, current, request, asker, panels, svc, wire>>
        /\ \/ out'[client] = out[client]
           \/ \E m \in Message : out'[client] = Append(out[client], m)
    BY <1>1, <1>11, PumpsAnswerNothing
  <2>2. ASSUME NEW n \in Job PROVE InBox(box, n) => InBox(box, n)'
    <3>1. CASE out'[client] = out[client]
      BY <1>5, <2>1, <3>1 DEF server
    <3>2. ASSUME NEW m \in Message, out'[client] = Append(out[client], m)
          PROVE  InBox(box, n) => InBox(box, n)'
      <4> DEFINE next == Append(box, m)
      <4>1. /\ 1..Len(next) = 1..Len(box) \cup {Len(box) + 1}
            /\ \A i \in 1..Len(box) : next[i] = box[i]
        BY <1>3, AppendReads
      <4>2. box' = next
        BY <2>1, <3>2 DEF server
      <4> HIDE DEF box, next
      <4>3. InBox(box, n) => InBox(next, n)
        BY <4>1 DEF Grants
      <4>4. InBox(box, n)' = InBox(next, n)
        BY <4>2 DEF Grants
      <4> QED
        BY <4>3, <4>4
    <3> QED
      BY <2>1, <3>1, <3>2
  <2> QED
    BY <1>4, <2>1, <2>2 DEF server, request
<1>12. CASE ToolStep
  <2>1. UNCHANGED <<server, current, request, asker, out, panels, wire>>
    BY <1>12 DEF ToolStep, Device, WriteLine, Die
  <2> QED
    BY <1>4, <1>5, <2>1 DEF server, request
<1>13. CASE UNCHANGED allVars
  BY <1>4, <1>5, <1>13 DEF allVars, vars, server, request, streams
<1>14. ~ReaderEnds /\ ~BeginStop /\ ~EngineDies /\ ~EndStop
  BY <1>1 DEF ReaderEnds, BeginStop, EngineDies, Exit, EndStop
<1>15. ASSUME NEW p \in Panel, User(p) PROVE Covered'
  <2>1. UNCHANGED <<vars, owner, wire>>
    BY <1>1, <1>15, UsersKeepCalls
  <2>2. PICK n \in Job : at[n] = "unpressed" /\ \A k \in Job : k # n => at'[k] = at[k]
    BY <1>1, <1>15, UsersKeepCalls
  <2>3. \A k \in Job : at[k] # "unpressed" => at'[k] = at[k]
    BY <2>2
  <2>4. UNCHANGED a
    BY <2>1 DEF vars, streams
  <2> HIDE DEF a
  <2> QED
    BY <1>3, <1>6, <2>1, <2>3, <2>4 DEF GaveUp
<1> QED
  BY <1>7, <1>8, <1>9, <1>10, <1>11, <1>12, <1>13, <1>14, <1>15 DEF LogsNext

(***************************************************************************)
(* The owner is a panel that is open, or that cut a start of its own short,*)
(* or that is being released; and so is whoever may yet become the owner.  *)
(***************************************************************************)
LEMMA OwnersAreOpenStep ==
  ASSUME TypeOK, LogsTypeOK, EngineIsOurs, OneCall, OwnersAreOpen, [LogsNext]_allVars
  PROVE  OwnersAreOpen'
<1> USE DEF panels
<1> DEFINE Open == alive \cup cutShort
           Releasing(n) == at[n] = "releasing" /\ whose[n] = owner
<1>1. /\ owner \in Open \cup {None} \/ \E n \in Job : Releasing(n)
      /\ \A n \in Job : n > presses => at[n] = "unpressed"
      /\ \A n \in Job : at[n] \in UnderStart => whose[n] \in Open
  BY DEF OwnersAreOpen
<1>2. CASE UNCHANGED panels
  BY <1>2 DEF OwnersAreOpen
\* A worker's step, or an answer to it.
<1>3. ASSUME NEW n \in Job, UNCHANGED <<whose, alive, presses, cutShort>>,
             \A k \in Job : k # n => at'[k] = at[k],
             at[n] # "unpressed",
             at'[n] \in UnderStart => at[n] \in UnderStart,
             \/ UNCHANGED owner /\ at[n] # "releasing"
             \/ owner' = None
             \/ at[n] \in UnderStart /\ owner' = whose[n]
      PROVE  OwnersAreOpen'
  <2>1. ASSUME NEW k \in Job, k > presses' PROVE at'[k] = "unpressed"
    BY <1>1, <1>3, <2>1
  <2>2. ASSUME NEW k \in Job, at'[k] \in UnderStart PROVE whose'[k] \in Open'
    BY <1>1, <1>3, <2>2
  <2>3. owner' \in Open' \cup {None} \/ \E k \in Job : Releasing(k)'
    BY <1>1, <1>3
  <2> QED
    BY <2>1, <2>2, <2>3 DEF OwnersAreOpen
<1>4. ASSUME NEW n \in Job, WorkerStep(n) \/ TimeOut(n) PROVE OwnersAreOpen'
  <2>1. CASE SendStart(n) \/ SendStop(n) \/ LookAtOwner(n)
    BY <1>3, <2>1 DEF SendStart, SendStop, CallStop, LookAtOwner, Go, LogsTypeOK, UnderStart
  <2>2. CASE TakeStream(n)
    BY <1>3, <2>2 DEF TakeStream, Claim, Go, LogsTypeOK, UnderStart
  <2>3. CASE Release(n)
    BY <1>3, <2>3 DEF Release, LetGo, Go, LogsTypeOK, UnderStart
  <2>4. CASE TimeOut(n)
    BY <1>3, <2>4 DEF TimeOut, Waiting, Go, LogsTypeOK, UnderStart
  <2> QED
    BY <1>4, <2>1, <2>2, <2>3, <2>4 DEF WorkerStep
<1>5. ASSUME NEW p \in Panel, User(p) PROVE OwnersAreOpen'
  <2> DEFINE n == presses + 1
  <2>1. PICK place : Press(p, place) /\ (place = "queued" => UNCHANGED <<alive, cutShort>>)
    BY <1>5 DEF User, PressStart, PressStop, Close, HandBack
  <2>2. /\ n \in Job /\ presses' = n /\ presses \in Nat /\ p \in alive /\ UNCHANGED owner
        /\ at'[n] = place /\ whose'[n] = p
        /\ \A k \in Job : k # n => at'[k] = at[k] /\ whose'[k] = whose[k]
    BY <1>5, <2>1, PressesGiveWork DEF LogsTypeOK, User, PressStart, PressStop, Close
  <2> HIDE DEF n
  <2>3. \A k \in Job : k > n => k > presses /\ k # n
    BY <2>2, BoundsAreCounts DEF Job, n
  <2>4. \A k \in Job : k > presses' => at'[k] = "unpressed"
    BY <1>1, <2>2, <2>3
  <2>5. n > presses
    BY <2>2 DEF n
  <2>6. CASE UNCHANGED <<alive, cutShort>>
    <3>1. ASSUME NEW k \in Job, at'[k] \in UnderStart PROVE whose'[k] \in Open'
      BY <1>1, <2>2, <2>6, <3>1
    <3>2. owner' \in Open' \cup {None} \/ \E k \in Job : Releasing(k)'
      BY <1>1, <2>2, <2>5, <2>6
    <3> QED
      BY <2>4, <3>1, <3>2 DEF OwnersAreOpen
  <2>7. CASE Close(p)
    <3>1. /\ alive' = alive \ {p} /\ p \in alive
          /\ cutShort' = IF UnderWay(p, UnderStart) # {} THEN cutShort \cup {p} ELSE cutShort
          /\ at'[n] = IF owner = p THEN "releasing" ELSE "done"
      <4>1. /\ Press(p, IF owner = p THEN "releasing" ELSE "done") /\ alive' = alive \ {p}
            /\ cutShort' = IF UnderWay(p, UnderStart) # {} THEN cutShort \cup {p} ELSE cutShort
        BY <2>7 DEF Close, HandBack
      <4>2. at'[n] = IF owner = p THEN "releasing" ELSE "done"
        BY <2>2, <4>1, PressesGiveWork DEF LogsTypeOK, n
      <4> QED
        BY <2>2, <4>1, <4>2
    <3>2. ASSUME NEW k \in Job, at'[k] \in UnderStart PROVE whose'[k] \in Open'
      <4>1. k # n /\ at[k] \in UnderStart /\ whose'[k] = whose[k] /\ whose[k] \in Open
        BY <1>1, <2>2, <3>1, <3>2 DEF UnderStart
      <4>2. CASE whose[k] = p
        <5>1. k \in UnderWay(p, UnderStart)
          BY <4>1, <4>2 DEF UnderWay
        <5> QED
          BY <3>1, <4>1, <4>2, <5>1
      <4> QED
        BY <3>1, <4>1, <4>2
    <3>3. owner' \in Open' \cup {None} \/ \E k \in Job : Releasing(k)'
      <4>1. CASE owner = p
        BY <2>2, <3>1, <4>1
      <4>2. CASE owner # p /\ owner \in Open \cup {None}
        BY <2>2, <3>1, <4>2
      <4>3. CASE \E k \in Job : Releasing(k)
        BY <1>1, <2>2, <2>5, <4>3
      <4> QED
        BY <1>1, <4>1, <4>2, <4>3
    <3> QED
      BY <2>4, <3>2, <3>3 DEF OwnersAreOpen
  <2> QED
    BY <1>5, <2>6, <2>7 DEF User, PressStart, PressStop
<1>6. CASE Dispatch
  <2>1. CASE Incoming.kind # "reply"
    BY <1>2, <1>6, <2>1 DEF Dispatch
  <2>2. CASE Incoming.kind = "reply"
    <3>1. PICK c \in Call : Answers(Incoming, c) /\ Answer(Incoming) /\ Waits(c)
      BY <1>6, <2>2, DispatchAnswers
    <3>2. c.by \in Job /\ c.kind \in {"start", "stop"} /\ Incoming.by = c.by
          /\ Incoming.req = c.kind
      BY <3>1 DEF Answers, Call
    <3>3. UNCHANGED <<owner, whose, alive, presses, cutShort>>
      BY <1>6 DEF Dispatch
    <3>4. CASE UNCHANGED at
      BY <1>2, <3>3, <3>4
    <3>5. CASE ~UNCHANGED at
      <4>1. /\ at[c.by] \in {"sent", "called"}
            /\ at' = [at EXCEPT ![c.by] =
                        IF c.kind = "start" /\ Incoming.ok THEN "granted" ELSE "done"]
        BY <3>1, <3>2, <3>5 DEF Answer, Waiting, Go
      <4>2. c.kind = "start" => at[c.by] = "sent"
        BY <3>1, <4>1 DEF Waits
      <4> QED
        BY <1>3, <3>2, <3>3, <4>1, <4>2 DEF LogsTypeOK, UnderStart
    <3> QED
      BY <3>4, <3>5
  <2> QED
    BY <2>1, <2>2
<1>7. CASE ReaderEnds
  <2>1. \A k \in Job : at'[k] = IF at[k] \in {"sent", "called"} THEN "done" ELSE at[k]
    BY <1>7 DEF ReaderEnds, FailAll, Waiting
  <2>2. UNCHANGED <<owner, whose, alive, presses, cutShort>>
    BY <1>7 DEF ReaderEnds
  <2> QED
    BY <1>1, <2>1, <2>2 DEF OwnersAreOpen, UnderStart
<1>8. CASE EndStop
  BY <1>1, <1>8 DEF EndStop, LetGo, OwnersAreOpen
<1>9. BeginStop \/ ReadRequest \/ ServeOn \/ ToolStep \/ EngineDies \/ UNCHANGED allVars
        => UNCHANGED panels
  BY DEF BeginStop, ReadRequest, ServeOn, ToolStep, EngineDies, allVars
<1>10. ASSUME NEW s \in Stream, PumpOn(s) PROVE UNCHANGED panels
  BY <1>10 DEF PumpOn
<1> QED
  BY <1>2, <1>4, <1>5, <1>6, <1>7, <1>8, <1>9, <1>10 DEF LogsNext

\* The workers' calls, their answers and the owner of the stream agree, however
\* many panels press, close, give up and are answered at once.
THEOREM PanelsAreSafe == LogsSpec => [](TypeOK /\ LogsTypeOK /\ LogsInv)
<1>1. ASSUME LogsInit PROVE TypeOK /\ LogsTypeOK /\ LogsInv
  <2>1. TypeOK
    BY <1>1, InitTypes DEF LogsInit
  <2>2. LogsTypeOK
    BY <1>1, EmptySeq, BoundsAreCounts DEF LogsInit, LogsTypeOK, Ended
  <2>3. /\ client \in Client /\ ~gone /\ sink = None /\ main = "read" /\ current = None
        /\ out[client] = <<>> /\ wire = <<>> /\ svc = "up"
    BY <1>1, EngineOverStdio DEF LogsInit, Init
  <2>4. 1..Len(<<>>) = {}
    BY EmptySeq
  <2>5. EngineIsOurs /\ StreamsAreAskedFor /\ OneCall /\ Covered
    BY <2>3, <2>4 DEF EngineIsOurs, StreamsAreAskedFor, RepliesAreAnswers, OneCall,
       OnWire, AtEngine, Answered, Covered
  <2>6. OwnersAreOpen
    BY <1>1 DEF LogsInit, OwnersAreOpen, UnderStart
  <2> QED
    BY <2>1, <2>2, <2>5, <2>6 DEF LogsInv
<1>2. ASSUME TypeOK, LogsTypeOK, LogsInv, [LogsNext]_allVars
      PROVE  (TypeOK /\ LogsTypeOK /\ LogsInv)'
  <2>1. EngineIsOurs /\ StreamsAreAskedFor /\ OneCall /\ OwnersAreOpen
    BY <1>2 DEF LogsInv
  <2> QED
    BY <1>2, <2>1, EngineTypeStep, PanelsTypeStep, EngineIsOursStep,
       StreamsAreAskedForStep, OneCallStep, OwnersAreOpenStep, CoveredStep DEF LogsInv
<1> QED
  BY <1>1, <1>2, PTL DEF LogsSpec

(***************************************************************************)
(* Once nothing is under way, a device tool that still streams has an      *)
(* owner, whose Stop is enabled as its panel is still open (startAppLogs,  *)
(* stopAppLogs and stopAppLogsAsync of MTRDaemonService); but for the      *)
(* start that gave up (JsonRpcClient.call) and the panel closed while a    *)
(* start of its own was under way, whatever else interleaves.              *)
(***************************************************************************)
THEOREM NoStreamIsOrphaned == LogsSpec => []NoOrphanStream
<1>1. ASSUME LogsInv PROVE NoOrphanStream
  <2> SUFFICES ASSUME AtRest
               PROVE  /\ main = "read" /\ Streaming => owner # None \/ GaveUp(asker[current])
                      /\ owner # None => owner \in alive \cup cutShort
    BY DEF NoOrphanStream
  <2>1. Len(<<>>) = 0
    BY EmptySeq
  <2>2. \A n \in Job : at[n] \in Ended
    BY DEF AtRest, AllIdle
  <2>3. owner # None => owner \in alive \cup cutShort
    BY <1>1, <2>2 DEF LogsInv, OwnersAreOpen, Ended
  <2>4. main = "read" /\ Streaming => owner # None \/ GaveUp(asker[current])
    <3> SUFFICES ASSUME main = "read", current # None
                 PROVE  owner # None \/ GaveUp(asker[current])
      BY DEF Streaming
    <3>1. asker[current] \in Job /\ Covered /\ wire = <<>>
      BY <1>1 DEF LogsInv, StreamsAreAskedFor, AtRest
    <3> QED
      BY <2>2, <3>1 DEF Covered, Ended
  <2> QED
    BY <2>3, <2>4
<1> QED
  BY <1>1, PanelsAreSafe, PTL

(***************************************************************************)
(* The exceptions are those of haste: users who wait for every answer      *)
(* before the next press, and calls that are answered in time, leave no    *)
(* stream running but for a panel that is open, whose Stop stops it.       *)
(***************************************************************************)
THEOREM PatientUsersStopTheirStreams ==
  ASSUME OneAtATime, MaxTimeOuts = 0
  PROVE  LogsSpec => [](AtRest /\ main = "read" /\ Streaming => owner \in alive)
<1> DEFINE Patient == cutShort = {} /\ \A n \in Job : at[n] # "timedout"
<1>1. LogsInit => Patient
  BY DEF LogsInit
<1>2. ASSUME LogsTypeOK, Patient, [LogsNext]_allVars PROVE Patient'
  <2>1. CASE UNCHANGED <<at, cutShort>>
    BY <1>2, <2>1
  <2>2. ASSUME NEW p \in Panel, User(p) PROVE Patient'
    <3>1. PICK place \in {"queued", "asked", "releasing", "done"} : Press(p, place)
      BY <2>2 DEF User, PressStart, PressStop, Close, HandBack
    <3>2. UnderWay(p, UnderStart) = {}
      BY <3>1 DEF Press, AllIdle, UnderWay, UnderStart, Ended
    <3>3. UNCHANGED cutShort
      BY <2>2, <3>2 DEF User, PressStart, PressStop, Close
    <3>4. presses + 1 \in Job /\ at' = [at EXCEPT ![presses + 1] = place]
      BY <1>2, <3>1, PressesGiveWork
    <3> QED
      BY <1>2, <3>1, <3>3, <3>4 DEF LogsTypeOK
  <2>3. ASSUME NEW n \in Job, WorkerStep(n) PROVE Patient'
    BY <1>2, <2>3 DEF WorkerStep, SendStart, TakeStream, LookAtOwner, Release, SendStop,
       CallStop, Go, LogsTypeOK
  <2>4. ASSUME NEW n \in Job PROVE ~TimeOut(n)
    <3>1. {k \in Job : GaveUp(k)} = {}
      BY <1>2 DEF GaveUp
    <3> QED
      BY <3>1, FS_EmptySet DEF TimeOut
  <2>5. CASE Dispatch
    BY <1>2, <2>5 DEF Dispatch, Answer, Go, LogsTypeOK
  <2>6. CASE ReaderEnds
    BY <1>2, <2>6 DEF ReaderEnds, FailAll
  <2>7. BeginStop \/ EndStop \/ ReadRequest \/ ServeOn \/ ToolStep \/ EngineDies
          \/ UNCHANGED allVars
        => UNCHANGED <<at, cutShort>>
    BY DEF BeginStop, EndStop, ReadRequest, ServeOn, ToolStep, EngineDies, allVars, panels
  <2>8. ASSUME NEW s \in Stream, PumpOn(s) PROVE UNCHANGED <<at, cutShort>>
    BY <2>8 DEF PumpOn, panels
  <2> QED
    BY <1>2, <2>1, <2>2, <2>3, <2>4, <2>5, <2>6, <2>7, <2>8 DEF LogsNext
<1>3. ASSUME LogsTypeOK, LogsInv, Patient, NoOrphanStream, AtRest, main = "read",
             Streaming
      PROVE  owner \in alive
  <2>1. asker[current] \in Job
    BY <1>3 DEF LogsInv, StreamsAreAskedFor, Streaming
  <2> QED
    BY <1>3, <2>1 DEF NoOrphanStream, GaveUp
<1> QED
  BY <1>1, <1>2, <1>3, PanelsAreSafe, NoStreamIsOrphaned, PTL DEF LogsSpec

(***************************************************************************)
(* However many projects press Start and Stop, one device tool runs at a   *)
(* time, and a panel is told of an end only if the stream ended by itself: *)
(* what holds of the engine alone holds of the engine they share.          *)
(***************************************************************************)
THEOREM PanelsShareOneTool == LogsSpec => [](OneToolRuns /\ ObituariesAreTrue)
<1>1. ASSUME LogsInit PROVE StreamInv
  BY <1>1, InitStreams DEF LogsInit
<1>2. ASSUME TypeOK, TypeOK', LogsInv, StreamInv, [LogsNext]_allVars PROVE StreamInv'
  <2>1. EngineIsOurs /\ client \in Client
    BY <1>2 DEF LogsInv, EngineIsOurs
  <2>2. CASE [Next]_vars
    BY <1>2, <2>2, ToolsStep, OwnerStep, ObituariesStep DEF StreamInv
  <2>3. CASE ReadRequest
    <3>1. /\ main = "read" /\ main' = "stopping" /\ child' = current /\ current' = None
          /\ UNCHANGED <<proc, pump, out>>
      BY <2>3 DEF ReadRequest, AskStream, TakeOut, streams
    <3>2. (RunsAtHand /\ OneAtHand /\ EndsAreItsOwn)'
      BY <1>2, <3>1, NoneIsNothing
         DEF StreamInv, RunsAtHand, OneAtHand, EndsAreItsOwn
    <3>3. (ForTheClient /\ StreamHasItsClient)'
      BY EngineOverStdio DEF ForTheClient, StreamHasItsClient
    <3>4. ObituariesAreTrue'
      BY <1>2, <3>1 DEF StreamInv, ObituariesAreTrue
    <3> QED
      BY <3>2, <3>3, <3>4 DEF StreamInv
  <2>4. CASE BeginStop
    <3>1. /\ main' = "exited" /\ UNCHANGED <<current, child, proc>>
          /\ \A s \in Stream : pump'[s] # "obituary"
          /\ \A c \in Client : out'[c] = out[c] \/ out'[c] = <<>>
      BY <1>2, <2>4 DEF BeginStop, TypeOK
    <3>2. (RunsAtHand /\ OneAtHand /\ EndsAreItsOwn)'
      BY <1>2, <3>1 DEF StreamInv, RunsAtHand, OneAtHand, EndsAreItsOwn
    <3>3. (ForTheClient /\ StreamHasItsClient)'
      BY EngineOverStdio DEF ForTheClient, StreamHasItsClient
    <3>4. ObituariesAreTrue'
      BY <1>2, <3>1, EmptySeq DEF StreamInv, ObituariesAreTrue
    <3> QED
      BY <3>2, <3>3, <3>4 DEF StreamInv
  <2> QED
    BY <1>2, <2>1, <2>2, <2>3, <2>4, LogsStepKinds
<1>3. StreamInv => OneToolRuns /\ ObituariesAreTrue
  BY NoneIsNothing DEF StreamInv, RunsAtHand, OneAtHand, OneToolRuns
<1> QED
  BY <1>1, <1>2, <1>3, PanelsAreSafe, PTL DEF LogsSpec
=============================================================================
