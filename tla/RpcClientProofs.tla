-------------------------- MODULE RpcClientProofs --------------------------
(***************************************************************************)
(* For any number of calls: a call that waits when the reader thread is    *)
(* gone has its outcome, and the table holds no call that is over.         *)
(***************************************************************************)
EXTENDS RpcClient, SequenceTheorems, TLAPS

Outcome == {"value", "error"}

\* A future is completed once; completing it leaves the others alone.
LEMMA CompleteOnce ==
  ASSUME TypeOK, NEW c \in Call, NEW with \in Outcome, Complete(c, with)
  PROVE  /\ future' \in [Call -> {"none", "open", "value", "error"}]
         /\ future'[c] # "open"
         /\ \A d \in Call : d # c => future'[d] = future[d]
         /\ future[c] # "open" => future'[c] = future[c]
BY DEF TypeOK, Complete, Outcome

\* A call's thread goes from place to place; the others stay.
LEMMA OneMoves ==
  ASSUME TypeOK, NEW c \in Call, NEW place \in Place, At(c, place)
  PROVE  /\ caller' \in [Call -> Place] /\ caller'[c] = place
         /\ \A d \in Call : d # c => caller'[d] = caller[d]
BY DEF TypeOK, At

LEMMA TypeStep ==
  ASSUME TypeOK, [Next]_vars
  PROVE  TypeOK'
<1> USE DEF callers, reading, closing, engine
<1>1. ASSUME NEW c \in Call, Register(c) PROVE TypeOK'
  BY <1>1 DEF Register, At, TypeOK, Place
<1>2. ASSUME NEW c \in Call, Check(c) PROVE TypeOK'
  BY <1>2 DEF Check, LookAtClosed, At, TypeOK, Place
<1>3. ASSUME NEW c \in Call, Send(c) PROVE TypeOK'
  <2>1. stdin' \in Seq(Call)
    BY <1>3, AppendProperties DEF Send, TypeOK
  <2> QED
    BY <1>3, <2>1 DEF Send, At, TypeOK, Place
<1>4. ASSUME NEW c \in Call, Return(c) PROVE TypeOK'
  BY <1>4 DEF Return, At, TypeOK, Place
<1>5. ASSUME NEW c \in Call, GiveUp(c) PROVE TypeOK'
  BY <1>5 DEF GiveUp, Forget, At, TypeOK, Place
<1>6. ASSUME NEW c \in Call, Expire(c) PROVE TypeOK'
  BY <1>6 DEF Expire, At, TypeOK, Place
<1>7. ASSUME NEW c \in Call, FailOne(c) PROVE TypeOK'
  <2>1. future' \in [Call -> {"none", "open", "value", "error"}]
    BY <1>7, CompleteOnce DEF FailOne, Outcome
  <2> QED
    BY <1>7, <2>1 DEF FailOne, TypeOK
<1>8. CASE Test
  BY <1>8 DEF Test, TypeOK, Reader
<1>9. CASE ReadLine
  <2>1. Head(stdout) \in Call /\ Tail(stdout) \in Seq(Call)
    BY <1>9, HeadTailProperties DEF ReadLine, TypeOK
  <2>2. reader' \in Reader /\ hand' \in Call \cup {None}
    BY <1>9, <2>1 DEF ReadLine, TypeOK, Reader
  <2> QED
    BY <1>9, <2>1, <2>2 DEF ReadLine, TypeOK
<1>10. CASE CompleteOne
  BY <1>10 DEF CompleteOne, Complete, TypeOK, Reader
<1>11. CASE ReadEnd \/ EndDrain \/ Clear
  BY <1>11 DEF ReadEnd, EndDrain, Clear, TypeOK, Reader
<1>12. CASE BeginDrain
  BY <1>12 DEF BeginDrain, Raise, TypeOK, Reader
<1>13. CASE BeginClose \/ CloseStep
  BY <1>13 DEF BeginClose, CloseStep, CloseWriter, KillProcess, Kill, CloseReader,
            TypeOK, Closer
<1>14. CASE Take
  <2>1. Head(stdin) \in Call /\ Tail(stdin) \in Seq(Call)
    BY <1>14, HeadTailProperties DEF Take, TypeOK
  <2> QED
    BY <1>14, <2>1 DEF Take, TypeOK
<1>15. CASE Answer
  <2>1. stdout' \in Seq(Call)
    BY <1>15, AppendProperties DEF Answer, TypeOK
  <2> QED
    BY <1>15, <2>1 DEF Answer, TypeOK
<1>16. CASE EndOfInput \/ Crash
  BY <1>16 DEF EndOfInput, Crash, TypeOK
<1>17. CASE UNCHANGED vars
  BY <1>17 DEF vars, TypeOK
<1>18. ASSUME NEW c \in drain, FailOne(c) PROVE TypeOK'
  BY <1>7, <1>18 DEF TypeOK
<1> QED
  BY <1>1, <1>2, <1>3, <1>4, <1>5, <1>6, <1>7, <1>8, <1>9, <1>10, <1>11, <1>12,
     <1>13, <1>14, <1>15, <1>16, <1>17, <1>18
     DEF Next, CallStep, ReaderStep, Engine

\* Every variable keeps its type: every place of a thread is one the code has.
THEOREM ClientTypes == Spec => []TypeOK
<1>1. Init => TypeOK
  <2> SUFFICES ASSUME Init PROVE TypeOK
    OBVIOUS
  <2>1. caller \in [Call -> Place] /\ future \in [Call -> {"none", "open", "value", "error"}]
    BY DEF Init, Place
  <2>2. closed \in BOOLEAN /\ running \in BOOLEAN /\ input \in BOOLEAN
    BY DEF Init
  <2>3. stdin \in Seq(Call) /\ stdout \in Seq(Call)
    BY DEF Init
  <2>4. reader \in Reader /\ closer \in Closer /\ daemon \in {"up", "exited"}
    BY DEF Init, Reader, Closer
  <2>5. hand = None /\ busy = None /\ pending = {} /\ drain = {}
    BY DEF Init
  <2> QED
    BY <2>1, <2>2, <2>3, <2>4, <2>5 DEF TypeOK
<1>2. TypeOK /\ [Next]_vars => TypeOK'
  BY TypeStep
<1> QED
  BY <1>1, <1>2, PTL DEF Spec
-----------------------------------------------------------------------------
(***************************************************************************)
(* RpcInv is inductive.  The steps of the callers ...                      *)
(***************************************************************************)
LEMMA CallersKeep ==
  ASSUME TypeOK, RpcInv, NEW c \in Call,
         Register(c) \/ CallStep(c) \/ Expire(c)
  PROVE  RpcInv'
<1> USE DEF callers, reading, closing, engine
<1>1. ClosedIsRaised'
  BY DEF Register, CallStep, Check, Send, Return, GiveUp, Expire, RpcInv, ClosedIsRaised
<1>2. CASE Register(c)
  <2>1. /\ future'[c] = "open" /\ \A d \in Call : d # c => future'[d] = future[d]
        /\ caller[c] = "idle" /\ caller'[c] = "registered"
        /\ \A d \in Call : d # c => caller'[d] = caller[d]
        /\ pending' = pending \cup {c}
        /\ UNCHANGED <<reader, hand, drain, closed>>
    BY <1>2 DEF Register, At, TypeOK
  <2>2. OpenIsReachable' /\ CompletedIsOut'
    BY <2>1 DEF RpcInv, OpenIsReachable, Reachable, CompletedIsOut
  <2>3. HandIsOut' /\ PendingIsUnderway'
    BY <2>1 DEF RpcInv, HandIsOut, PendingIsUnderway, Underway, TypeOK
  <2> QED
    BY <1>1, <2>2, <2>3 DEF RpcInv
<1>3. CASE Check(c)
  <2>1. /\ caller[c] = "registered"
        /\ \A d \in Call : d # c => caller'[d] = caller[d]
        /\ \/ closed /\ caller'[c] = "refused" /\ pending' = pending \ {c}
           \/ ~closed /\ caller'[c] = "checked" /\ pending' = pending
        /\ UNCHANGED <<future, reader, hand, drain, closed>>
    BY <1>3 DEF Check, LookAtClosed, At, TypeOK
  <2>2. OpenIsReachable' /\ CompletedIsOut'
    BY <2>1 DEF RpcInv, OpenIsReachable, Reachable, CompletedIsOut
  <2>3. HandIsOut' /\ PendingIsUnderway'
    BY <2>1 DEF RpcInv, HandIsOut, PendingIsUnderway, Underway, TypeOK
  <2> QED
    BY <1>1, <2>2, <2>3 DEF RpcInv
<1>4. CASE Send(c) \/ Return(c) \/ Expire(c)
  <2>1. /\ caller[c] \in {"checked", "waiting"}
        /\ \/ caller'[c] \in {"waiting", "expired"}
           \/ caller'[c] \in {"answered", "failed"} /\ future[c] \in Outcome
        /\ \A d \in Call : d # c => caller'[d] = caller[d]
        /\ UNCHANGED <<future, pending, reader, hand, drain, closed>>
    BY <1>4 DEF Send, Return, Expire, At, TypeOK, Outcome
  <2>2. OpenIsReachable' /\ CompletedIsOut'
    BY <2>1 DEF RpcInv, OpenIsReachable, Reachable, CompletedIsOut
  <2>3. HandIsOut' /\ PendingIsUnderway'
    BY <2>1 DEF RpcInv, HandIsOut, PendingIsUnderway, CompletedIsOut, Underway, Outcome,
             TypeOK
  <2> QED
    BY <1>1, <2>2, <2>3 DEF RpcInv
<1>5. CASE GiveUp(c)
  <2>1. /\ caller[c] = "expired" /\ caller'[c] = "timedout"
        /\ pending' = pending \ {c}
        /\ \A d \in Call : d # c => caller'[d] = caller[d]
        /\ UNCHANGED <<future, reader, hand, drain, closed>>
    BY <1>5 DEF GiveUp, Forget, At, TypeOK
  <2>2. OpenIsReachable' /\ CompletedIsOut'
    BY <2>1 DEF RpcInv, OpenIsReachable, Reachable, CompletedIsOut
  <2>3. HandIsOut' /\ PendingIsUnderway'
    BY <2>1 DEF RpcInv, HandIsOut, PendingIsUnderway, Underway, TypeOK
  <2> QED
    BY <1>1, <2>2, <2>3 DEF RpcInv
<1> QED
  BY <1>2, <1>3, <1>4, <1>5 DEF CallStep

(***************************************************************************)
(* ... those of the reader ...                                             *)
(***************************************************************************)
LEMMA ReaderKeeps ==
  ASSUME TypeOK, RpcInv, ReaderStep \/ \E c \in Call : FailOne(c)
  PROVE  RpcInv'
<1> USE DEF callers, reading, closing, engine
<1>1. CASE Test \/ ReadEnd
  BY <1>1 DEF Test, ReadEnd, RpcInv, ClosedIsRaised, OpenIsReachable, Reachable,
           CompletedIsOut, HandIsOut, PendingIsUnderway
<1>2. CASE ReadLine
  <2>1. Head(stdout) \in Call
    BY <1>2, HeadTailProperties DEF ReadLine, TypeOK
  <2>2. /\ reader = "reading" /\ pending' = pending \ {Head(stdout)}
        /\ \/ /\ Head(stdout) \in pending
              /\ reader' = "completing" /\ hand' = Head(stdout)
           \/ Head(stdout) \notin pending /\ reader' = "testing"
        /\ UNCHANGED <<caller, future, drain, closed>>
    BY <1>2 DEF ReadLine
  <2>3. ClosedIsRaised' /\ OpenIsReachable'
    BY <2>2 DEF RpcInv, ClosedIsRaised, OpenIsReachable, Reachable
  <2>4. CompletedIsOut' /\ HandIsOut' /\ PendingIsUnderway'
    BY <2>1, <2>2 DEF RpcInv, CompletedIsOut, HandIsOut, PendingIsUnderway, Underway
  <2> QED
    BY <2>3, <2>4 DEF RpcInv
<1>3. CASE CompleteOne
  <2>1. /\ reader = "completing" /\ hand \in Call \ pending
        /\ Complete(hand, "value") /\ reader' = "testing"
        /\ UNCHANGED <<caller, pending, drain, closed>>
    BY <1>3 DEF CompleteOne, RpcInv, HandIsOut
  <2>2. /\ future'[hand] # "open"
        /\ \A d \in Call : d # hand => future'[d] = future[d]
    BY <2>1, CompleteOnce DEF Outcome
  <2>3. ClosedIsRaised' /\ OpenIsReachable'
    BY <2>1, <2>2 DEF RpcInv, ClosedIsRaised, OpenIsReachable, Reachable
  <2>4. CompletedIsOut' /\ HandIsOut' /\ PendingIsUnderway'
    BY <2>1, <2>2 DEF RpcInv, CompletedIsOut, HandIsOut, PendingIsUnderway
  <2> QED
    BY <2>3, <2>4 DEF RpcInv
<1>4. CASE BeginDrain
  BY <1>4 DEF BeginDrain, Raise, RpcInv, ClosedIsRaised, OpenIsReachable, Reachable,
           CompletedIsOut, HandIsOut, PendingIsUnderway
<1>5. ASSUME NEW c \in Call, FailOne(c) PROVE RpcInv'
  <2>1. /\ reader = "draining" /\ Complete(c, "error") /\ drain' = drain \ {c}
        /\ UNCHANGED <<caller, pending, reader, hand, closed>>
    BY <1>5 DEF FailOne
  <2>2. /\ future'[c] # "open"
        /\ \A d \in Call : d # c => future'[d] = future[d]
    BY <2>1, CompleteOnce DEF Outcome
  <2>3. ClosedIsRaised' /\ OpenIsReachable'
    BY <2>1, <2>2 DEF RpcInv, ClosedIsRaised, OpenIsReachable, Reachable
  <2>4. CompletedIsOut' /\ HandIsOut' /\ PendingIsUnderway'
    BY <2>1 DEF RpcInv, CompletedIsOut, HandIsOut, PendingIsUnderway
  <2> QED
    BY <2>3, <2>4 DEF RpcInv
<1>6. CASE EndDrain \/ Clear
  BY <1>6 DEF EndDrain, Clear, RpcInv, ClosedIsRaised, OpenIsReachable, Reachable,
           CompletedIsOut, HandIsOut, PendingIsUnderway
<1>7. ASSUME NEW c \in drain, FailOne(c) PROVE RpcInv'
  BY <1>5, <1>7 DEF TypeOK
<1> QED
  BY <1>1, <1>2, <1>3, <1>4, <1>5, <1>6, <1>7 DEF ReaderStep

(***************************************************************************)
(* ... and those of close() and of the engine, which leave the table be.   *)
(***************************************************************************)
LEMMA OthersKeep ==
  ASSUME RpcInv, BeginClose \/ CloseStep \/ Engine \/ UNCHANGED vars
  PROVE  RpcInv'
<1>1. UNCHANGED <<caller, future, pending, reader, hand, drain, closed>>
  BY DEF BeginClose, CloseStep, CloseWriter, KillProcess, CloseReader, Engine, Take,
         Answer, EndOfInput, Crash, vars, callers, reading
<1> QED
  BY <1>1 DEF RpcInv, ClosedIsRaised, OpenIsReachable, Reachable, CompletedIsOut,
           HandIsOut, PendingIsUnderway

\* The table is in order whatever the callers, the reader and the engine do.
THEOREM ClientIsSafe == Spec => []RpcInv
<1>1. Init => RpcInv
  BY DEF Init, RpcInv, ClosedIsRaised, OpenIsReachable, CompletedIsOut, HandIsOut,
         PendingIsUnderway
<1>2. TypeOK /\ RpcInv /\ [Next]_vars => RpcInv'
  BY CallersKeep, ReaderKeeps, OthersKeep DEF Next
<1> QED
  BY <1>1, <1>2, ClientTypes, PTL DEF Spec

\* Once the reader is gone no call waits for an outcome that will not come.
THEOREM NoCallIsParked == Spec => []NoParkedCall
<1>1. RpcInv => NoParkedCall
  BY DEF RpcInv, ClosedIsRaised, OpenIsReachable, Reachable, NoParkedCall
<1> QED
  BY <1>1, ClientIsSafe, PTL

\* The table holds no call that is over.
COROLLARY TableIsClean == Spec => []PendingIsUnderway
<1>1. RpcInv => PendingIsUnderway
  BY DEF RpcInv
<1> QED
  BY <1>1, ClientIsSafe, PTL
=============================================================================
