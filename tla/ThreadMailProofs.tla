-------------------------- MODULE ThreadMailProofs --------------------------
(***************************************************************************)
(* For any set of threads and message types and any bounds.  First,        *)
(* threads and their queues: no wake-up of a message queue is lost, a      *)
(* running thread can be reached, and Join leaves nothing of a thread      *)
(* behind.  Second, the messages: those of a sender reach each thread in   *)
(* order, and every message that was sent is in exactly one place.  For    *)
(* this the actions of ThreadQueue are reduced to the few things that can  *)
(* happen to a message; the invariant is then kept by each.  Last, the     *)
(* demo (MessageDemo) as a client of the queues: where its two threads are *)
(* says how far the script has been sent, dispatched and counted.          *)
(***************************************************************************)
EXTENDS MessageDemo, TLAPS, SequenceTheorems, FiniteSetTheorems, NaturalsInduction,
        WellFoundedInduction

(* The messages of a sequence are messages. *)
LEMMA ElementsType ==
  ASSUME NEW S, NEW s \in Seq(S) PROVE Elements(s) \subseteq S
  BY DEF Elements

LEMMA NewMessageType ==
  ASSUME NEW t \in Thread, NEW y \in Type \cup {Exit}, CallTypeOK, sent[t] < MaxSends
  PROVE  NewMessage(t, y) \in Message
  BY BoundAssumption DEF NewMessage, Message, CallTypeOK

LEMMA LifeStep ==
  ThreadTypeOK /\ CallTypeOK /\ LifeInv /\ [Next]_vars => LifeInv'
<1> SUFFICES ASSUME ThreadTypeOK, CallTypeOK, LifeInv, [Next]_vars PROVE LifeInv'
  OBVIOUS
<1> USE ThreadAssumption, TypeAssumption, BoundAssumption
    DEF ThreadTypeOK, CallTypeOK, LifeInv, MainRuns, FlagsFollowLife,
        QueueExists, StartPending, OnlyRunningCalls, RoomToStart, Call, NoCall, InUserCode,
        Become, Enter, Loop, threadVars, queueVars, loopVars, historyVars
<1>1. ASSUME NEW t \in Thread, InitThreadMessageQueue(t)
      PROVE LifeInv'
  BY <1>1 DEF InitThreadMessageQueue
<1>2. ASSUME NEW t \in Thread, ThreadMainAnnounce(t)
      PROVE LifeInv'
  BY <1>2 DEF ThreadMainAnnounce
<1>3. ASSUME NEW t \in Thread, ThreadMainSignal(t)
      PROVE LifeInv'
  BY <1>3 DEF ThreadMainSignal
<1>4. ASSUME NEW t \in Thread, ThreadEndHook(t)
      PROVE LifeInv'
  BY <1>4 DEF ThreadEndHook
<1>5. ASSUME NEW t \in Thread, RunReturns(t)
      PROVE LifeInv'
  BY <1>5 DEF RunReturns
<1>6. ASSUME NEW u \in Thread \ {Main}, ThreadStart(u)
      PROVE LifeInv'
  BY <1>6 DEF ThreadStart
<1>7. ASSUME NEW u \in Thread \ {Main}, ThreadStarted(u)
      PROVE LifeInv'
  BY <1>7 DEF ThreadStarted
<1>8. ASSUME NEW u \in Thread \ {Main}, ThreadJoin(u)
      PROVE LifeInv'
  BY <1>8 DEF ThreadJoin
<1>9. ASSUME NEW u \in Thread \ {Main}, ThreadJoined(u)
      PROVE LifeInv'
  BY <1>9 DEF ThreadJoined
<1>10. ASSUME NEW t \in Thread, NEW y \in Type, RegisterHandler(t, y)
      PROVE LifeInv'
  BY <1>10 DEF RegisterHandler
<1>11. ASSUME NEW t \in Thread, NEW v \in Thread, NEW y \in Type, SendPush(t, v, y)
      PROVE LifeInv'
  BY <1>11 DEF SendPush, Send
<1>12. ASSUME NEW t \in Thread, NEW v \in Thread, NEW y \in Type, SendRefused(t, v, y)
      PROVE LifeInv'
  BY <1>12 DEF SendRefused, Send
<1>13. ASSUME NEW t \in Thread, SendSignal(t)
      PROVE LifeInv'
  BY <1>13 DEF SendSignal
<1>14. ASSUME NEW t \in Thread, NEW v \in Thread, Stop(t, v)
      PROVE LifeInv'
  BY <1>14 DEF Stop
<1>15. ASSUME NEW t \in Thread, StopPush(t)
      PROVE LifeInv'
  BY <1>15 DEF StopPush
<1>16. ASSUME NEW t \in Thread, StopSignal(t)
      PROVE LifeInv'
  BY <1>16 DEF StopSignal
<1>17. ASSUME NEW t \in Thread, StopDangles(t)
      PROVE LifeInv'
  BY <1>17 DEF StopDangles
<1>18. ASSUME NEW t \in Thread, NEW b \in BOOLEAN, LoopStart(t, b)
      PROVE LifeInv'
  BY <1>18 DEF LoopStart
<1>19. ASSUME NEW t \in Thread, LoopWait(t)
      PROVE LifeInv'
  BY <1>19 DEF LoopWait
<1>20. ASSUME NEW t \in Thread, PopMessages(t)
      PROVE LifeInv'
  BY <1>20 DEF PopMessages
<1>21. ASSUME NEW t \in Thread, Dispatch(t)
      PROVE LifeInv'
  BY <1>21 DEF Dispatch
<1>22. ASSUME NEW t \in Thread, HandlerReturns(t)
      PROVE LifeInv'
  BY <1>22 DEF HandlerReturns
<1>23. ASSUME NEW t \in Thread, LoopExit(t)
      PROVE LifeInv'
  BY <1>23 DEF LoopExit
<1>24. ASSUME NEW t \in Thread, BatchDone(t)
      PROVE LifeInv'
  BY <1>24 DEF BatchDone
<1>25. CASE UNCHANGED vars
  BY <1>25 DEF vars
<1>26. QED
  BY <1>1, <1>2, <1>3, <1>4, <1>5, <1>6, <1>7, <1>8, <1>9, <1>10, <1>11, <1>12, <1>13, <1>14, <1>15, <1>16, <1>17, <1>18, <1>19, <1>20, <1>21, <1>22, <1>23, <1>24, <1>25
  DEF Next, Proceed, UserStep

LEMMA CallStep ==
  ThreadTypeOK /\ CallTypeOK /\ LifeInv /\ CallInv /\ [Next]_vars => CallInv'
<1> SUFFICES ASSUME ThreadTypeOK, CallTypeOK, LifeInv, CallInv, [Next]_vars PROVE CallInv'
  OBVIOUS
<1> USE ThreadAssumption, TypeAssumption, BoundAssumption
    DEF ThreadTypeOK, CallTypeOK, CallInv, MutexHeldBySender,
        SenderPointsToLive, RoomToStop, PointsToLive, LifeInv, QueueExists,
        OnlyRunningCalls, Call, NoCall, InUserCode,
        Become, Enter, Loop, threadVars, queueVars, loopVars, historyVars
<1>1. ASSUME NEW t \in Thread, InitThreadMessageQueue(t)
      PROVE CallInv'
  BY <1>1 DEF InitThreadMessageQueue
<1>2. ASSUME NEW t \in Thread, ThreadMainAnnounce(t)
      PROVE CallInv'
  BY <1>2 DEF ThreadMainAnnounce
<1>3. ASSUME NEW t \in Thread, ThreadMainSignal(t)
      PROVE CallInv'
  BY <1>3 DEF ThreadMainSignal
<1>4. ASSUME NEW t \in Thread, ThreadEndHook(t)
      PROVE CallInv'
  BY <1>4 DEF ThreadEndHook
<1>5. ASSUME NEW t \in Thread, RunReturns(t)
      PROVE CallInv'
  BY <1>5 DEF RunReturns
<1>6. ASSUME NEW u \in Thread \ {Main}, ThreadStart(u)
      PROVE CallInv'
  BY <1>6 DEF ThreadStart
<1>7. ASSUME NEW u \in Thread \ {Main}, ThreadStarted(u)
      PROVE CallInv'
  BY <1>7 DEF ThreadStarted
<1>8. ASSUME NEW u \in Thread \ {Main}, ThreadJoin(u)
      PROVE CallInv'
  BY <1>8 DEF ThreadJoin
<1>9. ASSUME NEW u \in Thread \ {Main}, ThreadJoined(u)
      PROVE CallInv'
  BY <1>9 DEF ThreadJoined
<1>10. ASSUME NEW t \in Thread, NEW y \in Type, RegisterHandler(t, y)
      PROVE CallInv'
  BY <1>10 DEF RegisterHandler
<1>11. ASSUME NEW t \in Thread, NEW v \in Thread, NEW y \in Type, SendPush(t, v, y)
      PROVE CallInv'
  BY <1>11 DEF SendPush, Send
<1>12. ASSUME NEW t \in Thread, NEW v \in Thread, NEW y \in Type, SendRefused(t, v, y)
      PROVE CallInv'
  BY <1>12 DEF SendRefused, Send
<1>13. ASSUME NEW t \in Thread, SendSignal(t)
      PROVE CallInv'
  BY <1>13 DEF SendSignal
<1>14. ASSUME NEW t \in Thread, NEW v \in Thread, Stop(t, v)
      PROVE CallInv'
  BY <1>14 DEF Stop
<1>15. ASSUME NEW t \in Thread, StopPush(t)
      PROVE CallInv'
  BY <1>15 DEF StopPush
<1>16. ASSUME NEW t \in Thread, StopSignal(t)
      PROVE CallInv'
  BY <1>16 DEF StopSignal
<1>17. ASSUME NEW t \in Thread, StopDangles(t)
      PROVE CallInv'
  BY <1>17 DEF StopDangles
<1>18. ASSUME NEW t \in Thread, NEW b \in BOOLEAN, LoopStart(t, b)
      PROVE CallInv'
  BY <1>18 DEF LoopStart
<1>19. ASSUME NEW t \in Thread, LoopWait(t)
      PROVE CallInv'
  BY <1>19 DEF LoopWait
<1>20. ASSUME NEW t \in Thread, PopMessages(t)
      PROVE CallInv'
  BY <1>20 DEF PopMessages
<1>21. ASSUME NEW t \in Thread, Dispatch(t)
      PROVE CallInv'
  BY <1>21 DEF Dispatch
<1>22. ASSUME NEW t \in Thread, HandlerReturns(t)
      PROVE CallInv'
  BY <1>22 DEF HandlerReturns
<1>23. ASSUME NEW t \in Thread, LoopExit(t)
      PROVE CallInv'
  BY <1>23 DEF LoopExit
<1>24. ASSUME NEW t \in Thread, BatchDone(t)
      PROVE CallInv'
  BY <1>24 DEF BatchDone
<1>25. CASE UNCHANGED vars
  BY <1>25 DEF vars
<1>26. QED
  BY <1>1, <1>2, <1>3, <1>4, <1>5, <1>6, <1>7, <1>8, <1>9, <1>10, <1>11, <1>12, <1>13, <1>14, <1>15, <1>16, <1>17, <1>18, <1>19, <1>20, <1>21, <1>22, <1>23, <1>24, <1>25
  DEF Next, Proceed, UserStep

LEMMA WakeupStep ==
  ThreadTypeOK /\ CallTypeOK /\ LifeInv /\ CallInv /\ MessageTypeOK /\ NoLostWakeup /\ [Next]_vars => NoLostWakeup'
<1> SUFFICES ASSUME ThreadTypeOK, CallTypeOK, LifeInv, CallInv, MessageTypeOK, NoLostWakeup, [Next]_vars PROVE NoLostWakeup'
  OBVIOUS
<1> USE ThreadAssumption, TypeAssumption, BoundAssumption
    DEF ThreadTypeOK, CallTypeOK, NoLostWakeup, WillSignal, CallInv, SenderPointsToLive,
        PointsToLive, Call, NoCall, InUserCode,
        Become, Enter, Loop, threadVars, queueVars, loopVars, historyVars
<1>1. ASSUME NEW t \in Thread, InitThreadMessageQueue(t)
      PROVE NoLostWakeup'
  BY <1>1 DEF InitThreadMessageQueue, MessageTypeOK
<1>2. ASSUME NEW t \in Thread, ThreadMainAnnounce(t)
      PROVE NoLostWakeup'
  BY <1>2 DEF ThreadMainAnnounce
<1>3. ASSUME NEW t \in Thread, ThreadMainSignal(t)
      PROVE NoLostWakeup'
  BY <1>3 DEF ThreadMainSignal
<1>4. ASSUME NEW t \in Thread, ThreadEndHook(t)
      PROVE NoLostWakeup'
  BY <1>4 DEF ThreadEndHook
<1>5. ASSUME NEW t \in Thread, RunReturns(t)
      PROVE NoLostWakeup'
  BY <1>5 DEF RunReturns
<1>6. ASSUME NEW u \in Thread \ {Main}, ThreadStart(u)
      PROVE NoLostWakeup'
  BY <1>6 DEF ThreadStart
<1>7. ASSUME NEW u \in Thread \ {Main}, ThreadStarted(u)
      PROVE NoLostWakeup'
  BY <1>7 DEF ThreadStarted
<1>8. ASSUME NEW u \in Thread \ {Main}, ThreadJoin(u)
      PROVE NoLostWakeup'
  BY <1>8 DEF ThreadJoin
<1>9. ASSUME NEW u \in Thread \ {Main}, ThreadJoined(u)
      PROVE NoLostWakeup'
  BY <1>9 DEF ThreadJoined
<1>10. ASSUME NEW t \in Thread, NEW y \in Type, RegisterHandler(t, y)
      PROVE NoLostWakeup'
  BY <1>10 DEF RegisterHandler
<1>11. ASSUME NEW t \in Thread, NEW v \in Thread, NEW y \in Type, SendPush(t, v, y)
      PROVE NoLostWakeup'
  <2> SUFFICES ASSUME NEW u \in live', event_queue_'[u] # <<>>
               PROVE (event_[u] \/ loop[u] = "pop"
                      \/ \E s \in Thread : WillSignal(s, u))'
    BY DEF NoLostWakeup
  <2>1. CASE u = v
    <3>1. WillSignal(t, u)'
      BY <2>1, <1>11 DEF SendPush, Send
    <3>2. QED
      BY <3>1
  <2>2. CASE u # v
    <3>1. u \in live /\ event_queue_[u] # <<>>
      BY <2>2, <1>11 DEF SendPush, Send, MessageTypeOK
    <3>2. event_[u] \/ loop[u] = "pop" \/ \E s \in Thread : WillSignal(s, u)
      BY <3>1 DEF NoLostWakeup
    <3>3. event_'[u] = event_[u] /\ loop'[u] = loop[u]
      BY <2>2, <3>1, <1>11 DEF SendPush, Send
    <3>4. ASSUME NEW s \in Thread, WillSignal(s, u) PROVE WillSignal(s, u)'
      <4>1. s # t
        BY <2>2, <3>4, <1>11 DEF SendPush, Send
      <4>2. QED
        BY <4>1, <3>1, <3>4, <1>11 DEF SendPush, Send
    <3>5. QED
      BY <3>2, <3>3, <3>4
  <2>3. QED
    BY <2>1, <2>2
<1>12. ASSUME NEW t \in Thread, NEW v \in Thread, NEW y \in Type, SendRefused(t, v, y)
      PROVE NoLostWakeup'
  BY <1>12 DEF SendRefused, Send
<1>13. ASSUME NEW t \in Thread, SendSignal(t)
      PROVE NoLostWakeup'
  <2> SUFFICES ASSUME NEW u \in live', event_queue_'[u] # <<>>
               PROVE (event_[u] \/ loop[u] = "pop"
                      \/ \E s \in Thread : WillSignal(s, u))'
    BY DEF NoLostWakeup
  <2>1. CASE u = op[t].to
    <3>1. event_'[u]
      BY <2>1, <1>13 DEF SendSignal
    <3>2. QED
      BY <3>1
  <2>2. CASE u # op[t].to
    <3>1. u \in live /\ event_queue_[u] # <<>>
      BY <2>2, <1>13 DEF SendSignal, MessageTypeOK
    <3>2. event_[u] \/ loop[u] = "pop" \/ \E s \in Thread : WillSignal(s, u)
      BY <3>1 DEF NoLostWakeup
    <3>3. event_'[u] = event_[u] /\ loop'[u] = loop[u]
      BY <2>2, <3>1, <1>13 DEF SendSignal
    <3>4. ASSUME NEW s \in Thread, WillSignal(s, u) PROVE WillSignal(s, u)'
      <4>1. s # t
        BY <2>2, <3>4, <1>13 DEF SendSignal
      <4>2. QED
        BY <4>1, <3>1, <3>4, <1>13 DEF SendSignal
    <3>5. QED
      BY <3>2, <3>3, <3>4
  <2>3. QED
    BY <2>1, <2>2
<1>14. ASSUME NEW t \in Thread, NEW v \in Thread, Stop(t, v)
      PROVE NoLostWakeup'
  BY <1>14 DEF Stop
<1>15. ASSUME NEW t \in Thread, StopPush(t)
      PROVE NoLostWakeup'
  <2> SUFFICES ASSUME NEW u \in live', event_queue_'[u] # <<>>
               PROVE (event_[u] \/ loop[u] = "pop"
                      \/ \E s \in Thread : WillSignal(s, u))'
    BY DEF NoLostWakeup
  <2>1. CASE u = op[t].to
    <3>1. WillSignal(t, u)'
      BY <2>1, <1>15 DEF StopPush
    <3>2. QED
      BY <3>1
  <2>2. CASE u # op[t].to
    <3>1. u \in live /\ event_queue_[u] # <<>>
      BY <2>2, <1>15 DEF StopPush, MessageTypeOK
    <3>2. event_[u] \/ loop[u] = "pop" \/ \E s \in Thread : WillSignal(s, u)
      BY <3>1 DEF NoLostWakeup
    <3>3. event_'[u] = event_[u] /\ loop'[u] = loop[u]
      BY <2>2, <3>1, <1>15 DEF StopPush
    <3>4. ASSUME NEW s \in Thread, WillSignal(s, u) PROVE WillSignal(s, u)'
      <4>1. s # t
        BY <2>2, <3>4, <1>15 DEF StopPush
      <4>2. QED
        BY <4>1, <3>1, <3>4, <1>15 DEF StopPush
    <3>5. QED
      BY <3>2, <3>3, <3>4
  <2>3. QED
    BY <2>1, <2>2
<1>16. ASSUME NEW t \in Thread, StopSignal(t)
      PROVE NoLostWakeup'
  <2> SUFFICES ASSUME NEW u \in live', event_queue_'[u] # <<>>
               PROVE (event_[u] \/ loop[u] = "pop"
                      \/ \E s \in Thread : WillSignal(s, u))'
    BY DEF NoLostWakeup
  <2>1. CASE u = op[t].to
    <3>1. event_'[u]
      BY <2>1, <1>16 DEF StopSignal
    <3>2. QED
      BY <3>1
  <2>2. CASE u # op[t].to
    <3>1. u \in live /\ event_queue_[u] # <<>>
      BY <2>2, <1>16 DEF StopSignal, MessageTypeOK
    <3>2. event_[u] \/ loop[u] = "pop" \/ \E s \in Thread : WillSignal(s, u)
      BY <3>1 DEF NoLostWakeup
    <3>3. event_'[u] = event_[u] /\ loop'[u] = loop[u]
      BY <2>2, <3>1, <1>16 DEF StopSignal
    <3>4. ASSUME NEW s \in Thread, WillSignal(s, u) PROVE WillSignal(s, u)'
      <4>1. s # t
        BY <2>2, <3>4, <1>16 DEF StopSignal
      <4>2. QED
        BY <4>1, <3>1, <3>4, <1>16 DEF StopSignal
    <3>5. QED
      BY <3>2, <3>3, <3>4
  <2>3. QED
    BY <2>1, <2>2
<1>17. ASSUME NEW t \in Thread, StopDangles(t)
      PROVE NoLostWakeup'
  BY <1>17 DEF StopDangles
<1>18. ASSUME NEW t \in Thread, NEW b \in BOOLEAN, LoopStart(t, b)
      PROVE NoLostWakeup'
  BY <1>18 DEF LoopStart
<1>19. ASSUME NEW t \in Thread, LoopWait(t)
      PROVE NoLostWakeup'
  BY <1>19 DEF LoopWait
<1>20. ASSUME NEW t \in Thread, PopMessages(t)
      PROVE NoLostWakeup'
  BY <1>20 DEF PopMessages, MessageTypeOK
<1>21. ASSUME NEW t \in Thread, Dispatch(t)
      PROVE NoLostWakeup'
  BY <1>21 DEF Dispatch
<1>22. ASSUME NEW t \in Thread, HandlerReturns(t)
      PROVE NoLostWakeup'
  BY <1>22 DEF HandlerReturns
<1>23. ASSUME NEW t \in Thread, LoopExit(t)
      PROVE NoLostWakeup'
  BY <1>23 DEF LoopExit
<1>24. ASSUME NEW t \in Thread, BatchDone(t)
      PROVE NoLostWakeup'
  BY <1>24 DEF BatchDone
<1>25. CASE UNCHANGED vars
  BY <1>25 DEF vars
<1>26. QED
  BY <1>1, <1>2, <1>3, <1>4, <1>5, <1>6, <1>7, <1>8, <1>9, <1>10, <1>11, <1>12, <1>13, <1>14, <1>15, <1>16, <1>17, <1>18, <1>19, <1>20, <1>21, <1>22, <1>23, <1>24, <1>25
  DEF Next, Proceed, UserStep

LEMMA ThreadTypeStep ==
  ThreadTypeOK /\ CallTypeOK /\ LifeInv /\ [Next]_vars => ThreadTypeOK'
<1> SUFFICES ASSUME ThreadTypeOK, CallTypeOK, LifeInv, [Next]_vars PROVE ThreadTypeOK'
  OBVIOUS
<1> USE ThreadAssumption, TypeAssumption, BoundAssumption
    DEF ThreadTypeOK, CallTypeOK, LifeInv, RoomToStart, Lives, Call, NoCall, InUserCode,
        Become, Enter, Loop, threadVars, queueVars, loopVars, historyVars
<1>1. ASSUME NEW t \in Thread, InitThreadMessageQueue(t)
      PROVE ThreadTypeOK'
  BY <1>1 DEF InitThreadMessageQueue
<1>2. ASSUME NEW t \in Thread, ThreadMainAnnounce(t)
      PROVE ThreadTypeOK'
  BY <1>2 DEF ThreadMainAnnounce
<1>3. ASSUME NEW t \in Thread, ThreadMainSignal(t)
      PROVE ThreadTypeOK'
  BY <1>3 DEF ThreadMainSignal
<1>4. ASSUME NEW t \in Thread, ThreadEndHook(t)
      PROVE ThreadTypeOK'
  BY <1>4 DEF ThreadEndHook
<1>5. ASSUME NEW t \in Thread, RunReturns(t)
      PROVE ThreadTypeOK'
  BY <1>5 DEF RunReturns
<1>6. ASSUME NEW u \in Thread \ {Main}, ThreadStart(u)
      PROVE ThreadTypeOK'
  BY <1>6 DEF ThreadStart
<1>7. ASSUME NEW u \in Thread \ {Main}, ThreadStarted(u)
      PROVE ThreadTypeOK'
  BY <1>7 DEF ThreadStarted
<1>8. ASSUME NEW u \in Thread \ {Main}, ThreadJoin(u)
      PROVE ThreadTypeOK'
  BY <1>8 DEF ThreadJoin
<1>9. ASSUME NEW u \in Thread \ {Main}, ThreadJoined(u)
      PROVE ThreadTypeOK'
  BY <1>9 DEF ThreadJoined
<1>10. ASSUME NEW t \in Thread, NEW y \in Type, RegisterHandler(t, y)
      PROVE ThreadTypeOK'
  BY <1>10 DEF RegisterHandler
<1>11. ASSUME NEW t \in Thread, NEW v \in Thread, NEW y \in Type, SendPush(t, v, y)
      PROVE ThreadTypeOK'
  BY <1>11 DEF SendPush, Send
<1>12. ASSUME NEW t \in Thread, NEW v \in Thread, NEW y \in Type, SendRefused(t, v, y)
      PROVE ThreadTypeOK'
  BY <1>12 DEF SendRefused, Send
<1>13. ASSUME NEW t \in Thread, SendSignal(t)
      PROVE ThreadTypeOK'
  BY <1>13 DEF SendSignal
<1>14. ASSUME NEW t \in Thread, NEW v \in Thread, Stop(t, v)
      PROVE ThreadTypeOK'
  BY <1>14 DEF Stop
<1>15. ASSUME NEW t \in Thread, StopPush(t)
      PROVE ThreadTypeOK'
  BY <1>15 DEF StopPush
<1>16. ASSUME NEW t \in Thread, StopSignal(t)
      PROVE ThreadTypeOK'
  BY <1>16 DEF StopSignal
<1>17. ASSUME NEW t \in Thread, StopDangles(t)
      PROVE ThreadTypeOK'
  BY <1>17 DEF StopDangles
<1>18. ASSUME NEW t \in Thread, NEW b \in BOOLEAN, LoopStart(t, b)
      PROVE ThreadTypeOK'
  BY <1>18 DEF LoopStart
<1>19. ASSUME NEW t \in Thread, LoopWait(t)
      PROVE ThreadTypeOK'
  BY <1>19 DEF LoopWait
<1>20. ASSUME NEW t \in Thread, PopMessages(t)
      PROVE ThreadTypeOK'
  BY <1>20 DEF PopMessages
<1>21. ASSUME NEW t \in Thread, Dispatch(t)
      PROVE ThreadTypeOK'
  BY <1>21 DEF Dispatch
<1>22. ASSUME NEW t \in Thread, HandlerReturns(t)
      PROVE ThreadTypeOK'
  BY <1>22 DEF HandlerReturns
<1>23. ASSUME NEW t \in Thread, LoopExit(t)
      PROVE ThreadTypeOK'
  BY <1>23 DEF LoopExit
<1>24. ASSUME NEW t \in Thread, BatchDone(t)
      PROVE ThreadTypeOK'
  BY <1>24 DEF BatchDone
<1>25. CASE UNCHANGED vars
  BY <1>25 DEF vars
<1>26. QED
  BY <1>1, <1>2, <1>3, <1>4, <1>5, <1>6, <1>7, <1>8, <1>9, <1>10, <1>11, <1>12, <1>13, <1>14, <1>15, <1>16, <1>17, <1>18, <1>19, <1>20, <1>21, <1>22, <1>23, <1>24, <1>25
  DEF Next, Proceed, UserStep

LEMMA CallTypeStep ==
  ThreadTypeOK /\ CallTypeOK /\ LifeInv /\ CallInv /\ [Next]_vars => CallTypeOK'
<1> SUFFICES ASSUME ThreadTypeOK, CallTypeOK, LifeInv, CallInv, [Next]_vars PROVE CallTypeOK'
  OBVIOUS
<1> USE ThreadAssumption, TypeAssumption, BoundAssumption
    DEF ThreadTypeOK, CallTypeOK, Calls, Loops, CallInv, SenderPointsToLive,
        PointsToLive, RoomToStop, Call, NoCall, InUserCode,
        Become, Enter, Loop, threadVars, queueVars, loopVars, historyVars
<1>1. ASSUME NEW t \in Thread, InitThreadMessageQueue(t)
      PROVE CallTypeOK'
  BY <1>1 DEF InitThreadMessageQueue
<1>2. ASSUME NEW t \in Thread, ThreadMainAnnounce(t)
      PROVE CallTypeOK'
  BY <1>2 DEF ThreadMainAnnounce
<1>3. ASSUME NEW t \in Thread, ThreadMainSignal(t)
      PROVE CallTypeOK'
  BY <1>3 DEF ThreadMainSignal
<1>4. ASSUME NEW t \in Thread, ThreadEndHook(t)
      PROVE CallTypeOK'
  BY <1>4 DEF ThreadEndHook
<1>5. ASSUME NEW t \in Thread, RunReturns(t)
      PROVE CallTypeOK'
  BY <1>5 DEF RunReturns
<1>6. ASSUME NEW u \in Thread \ {Main}, ThreadStart(u)
      PROVE CallTypeOK'
  BY <1>6 DEF ThreadStart
<1>7. ASSUME NEW u \in Thread \ {Main}, ThreadStarted(u)
      PROVE CallTypeOK'
  BY <1>7 DEF ThreadStarted
<1>8. ASSUME NEW u \in Thread \ {Main}, ThreadJoin(u)
      PROVE CallTypeOK'
  BY <1>8 DEF ThreadJoin
<1>9. ASSUME NEW u \in Thread \ {Main}, ThreadJoined(u)
      PROVE CallTypeOK'
  BY <1>9 DEF ThreadJoined
<1>10. ASSUME NEW t \in Thread, NEW y \in Type, RegisterHandler(t, y)
      PROVE CallTypeOK'
  BY <1>10 DEF RegisterHandler
<1>11. ASSUME NEW t \in Thread, NEW v \in Thread, NEW y \in Type, SendPush(t, v, y)
      PROVE CallTypeOK'
  BY <1>11 DEF SendPush, Send
<1>12. ASSUME NEW t \in Thread, NEW v \in Thread, NEW y \in Type, SendRefused(t, v, y)
      PROVE CallTypeOK'
  BY <1>12 DEF SendRefused, Send
<1>13. ASSUME NEW t \in Thread, SendSignal(t)
      PROVE CallTypeOK'
  BY <1>13 DEF SendSignal
<1>14. ASSUME NEW t \in Thread, NEW v \in Thread, Stop(t, v)
      PROVE CallTypeOK'
  BY <1>14 DEF Stop
<1>15. ASSUME NEW t \in Thread, StopPush(t)
      PROVE CallTypeOK'
  <2>1. [op[t] EXCEPT !.at = "stop_signal"]
          \in [at : Calls, to : Thread \cup {NoThread}, gen : 0 .. MaxStarts]
    OBVIOUS
  <2>2. sent[t] + 1 \in 0 .. MaxSends
    BY <1>15 DEF StopPush
  <2>3. QED
    BY <1>15, <2>1, <2>2 DEF StopPush
<1>16. ASSUME NEW t \in Thread, StopSignal(t)
      PROVE CallTypeOK'
  BY <1>16 DEF StopSignal
<1>17. ASSUME NEW t \in Thread, StopDangles(t)
      PROVE CallTypeOK'
  <2>1. crashed' \in BOOLEAN
    BY <1>17 DEF StopDangles
  <2>2. QED
    BY <1>17, <2>1 DEF StopDangles
<1>18. ASSUME NEW t \in Thread, NEW b \in BOOLEAN, LoopStart(t, b)
      PROVE CallTypeOK'
  BY <1>18 DEF LoopStart
<1>19. ASSUME NEW t \in Thread, LoopWait(t)
      PROVE CallTypeOK'
  BY <1>19 DEF LoopWait
<1>20. ASSUME NEW t \in Thread, PopMessages(t)
      PROVE CallTypeOK'
  BY <1>20 DEF PopMessages
<1>21. ASSUME NEW t \in Thread, Dispatch(t)
      PROVE CallTypeOK'
  BY <1>21 DEF Dispatch
<1>22. ASSUME NEW t \in Thread, HandlerReturns(t)
      PROVE CallTypeOK'
  BY <1>22 DEF HandlerReturns
<1>23. ASSUME NEW t \in Thread, LoopExit(t)
      PROVE CallTypeOK'
  BY <1>23 DEF LoopExit
<1>24. ASSUME NEW t \in Thread, BatchDone(t)
      PROVE CallTypeOK'
  BY <1>24 DEF BatchDone
<1>25. CASE UNCHANGED vars
  BY <1>25 DEF vars
<1>26. QED
  BY <1>1, <1>2, <1>3, <1>4, <1>5, <1>6, <1>7, <1>8, <1>9, <1>10, <1>11, <1>12, <1>13, <1>14, <1>15, <1>16, <1>17, <1>18, <1>19, <1>20, <1>21, <1>22, <1>23, <1>24, <1>25
  DEF Next, Proceed, UserStep

LEMMA MessageTypeStep ==
  ThreadTypeOK /\ CallTypeOK /\ MessageTypeOK /\ CallInv /\ [Next]_vars => MessageTypeOK'
<1> SUFFICES ASSUME ThreadTypeOK, CallTypeOK, MessageTypeOK, CallInv, [Next]_vars PROVE MessageTypeOK'
  OBVIOUS
<1> USE ThreadAssumption, TypeAssumption, BoundAssumption
    DEF MessageTypeOK, Enter, Loop, Become,
        threadVars, queueVars, loopVars, historyVars
<1>1. ASSUME NEW t \in Thread, InitThreadMessageQueue(t)
      PROVE MessageTypeOK'
  BY <1>1 DEF InitThreadMessageQueue
<1>2. ASSUME NEW t \in Thread, ThreadMainAnnounce(t)
      PROVE MessageTypeOK'
  BY <1>2 DEF ThreadMainAnnounce
<1>3. ASSUME NEW t \in Thread, ThreadMainSignal(t)
      PROVE MessageTypeOK'
  BY <1>3 DEF ThreadMainSignal
<1>4. ASSUME NEW t \in Thread, ThreadEndHook(t)
      PROVE MessageTypeOK'
  <2>1. Elements(event_queue_[t]) \subseteq Message
    BY ElementsType
  <2>2. <<>> \in Seq(Message)
    OBVIOUS
  <2>3. QED
    BY <1>4, <2>1, <2>2 DEF ThreadEndHook
<1>5. ASSUME NEW t \in Thread, RunReturns(t)
      PROVE MessageTypeOK'
  BY <1>5 DEF RunReturns
<1>6. ASSUME NEW u \in Thread \ {Main}, ThreadStart(u)
      PROVE MessageTypeOK'
  BY <1>6 DEF ThreadStart
<1>7. ASSUME NEW u \in Thread \ {Main}, ThreadStarted(u)
      PROVE MessageTypeOK'
  BY <1>7 DEF ThreadStarted
<1>8. ASSUME NEW u \in Thread \ {Main}, ThreadJoin(u)
      PROVE MessageTypeOK'
  BY <1>8 DEF ThreadJoin
<1>9. ASSUME NEW u \in Thread \ {Main}, ThreadJoined(u)
      PROVE MessageTypeOK'
  BY <1>9 DEF ThreadJoined
<1>10. ASSUME NEW t \in Thread, NEW y \in Type, RegisterHandler(t, y)
      PROVE MessageTypeOK'
  BY <1>10 DEF RegisterHandler
<1>11. ASSUME NEW t \in Thread, NEW v \in Thread, NEW y \in Type, SendPush(t, v, y)
      PROVE MessageTypeOK'
  <2>1. NewMessage(t, y) \in Message
    BY <1>11, NewMessageType DEF SendPush, Send
  <2>2. Append(event_queue_[v], NewMessage(t, y)) \in Seq(Message)
    BY <2>1
  <2>3. QED
    BY <1>11, <2>2 DEF SendPush, Send
<1>12. ASSUME NEW t \in Thread, NEW v \in Thread, NEW y \in Type, SendRefused(t, v, y)
      PROVE MessageTypeOK'
  <2>1. NewMessage(t, y) \in Message
    BY <1>12, NewMessageType DEF SendRefused, Send
  <2>2. QED
    BY <1>12, <2>1 DEF SendRefused, Send
<1>13. ASSUME NEW t \in Thread, SendSignal(t)
      PROVE MessageTypeOK'
  BY <1>13 DEF SendSignal
<1>14. ASSUME NEW t \in Thread, NEW v \in Thread, Stop(t, v)
      PROVE MessageTypeOK'
  BY <1>14 DEF Stop
<1>15. ASSUME NEW t \in Thread, StopPush(t)
      PROVE MessageTypeOK'
  <2>1. op[t].to \in Thread
    BY <1>15 DEF StopPush, PointsToLive, ThreadTypeOK
  <2>2. NewMessage(t, Exit) \in Message
    BY <1>15, NewMessageType DEF StopPush, CallInv, RoomToStop
  <2>3. Append(event_queue_[op[t].to], NewMessage(t, Exit)) \in Seq(Message)
    BY <2>1, <2>2
  <2>4. QED
    BY <1>15, <2>1, <2>3 DEF StopPush
<1>16. ASSUME NEW t \in Thread, StopSignal(t)
      PROVE MessageTypeOK'
  BY <1>16 DEF StopSignal
<1>17. ASSUME NEW t \in Thread, StopDangles(t)
      PROVE MessageTypeOK'
  BY <1>17 DEF StopDangles
<1>18. ASSUME NEW t \in Thread, NEW b \in BOOLEAN, LoopStart(t, b)
      PROVE MessageTypeOK'
  BY <1>18 DEF LoopStart
<1>19. ASSUME NEW t \in Thread, LoopWait(t)
      PROVE MessageTypeOK'
  BY <1>19 DEF LoopWait
<1>20. ASSUME NEW t \in Thread, PopMessages(t)
      PROVE MessageTypeOK'
  BY <1>20 DEF PopMessages
<1>21. ASSUME NEW t \in Thread, Dispatch(t)
      PROVE MessageTypeOK'
  <2>1. Head(local[t]) \in Message /\ Tail(local[t]) \in Seq(Message)
    BY <1>21 DEF Dispatch
  <2>2. Append(delivered[t], Head(local[t])) \in Seq(Message)
    BY <2>1
  <2>3. QED
    BY <1>21, <2>1, <2>2 DEF Dispatch
<1>22. ASSUME NEW t \in Thread, HandlerReturns(t)
      PROVE MessageTypeOK'
  BY <1>22 DEF HandlerReturns
<1>23. ASSUME NEW t \in Thread, LoopExit(t)
      PROVE MessageTypeOK'
  <2>1. Head(local[t]) \in Message /\ Tail(local[t]) \in Seq(Message)
    BY <1>23 DEF LoopExit
  <2>2. Append(delivered[t], Head(local[t])) \in Seq(Message)
    BY <2>1
  <2>3. Elements(Tail(local[t])) \subseteq Message
    BY <2>1, ElementsType
  <2>4. <<>> \in Seq(Message)
    OBVIOUS
  <2>5. QED
    BY <1>23, <2>2, <2>3, <2>4 DEF LoopExit
<1>24. ASSUME NEW t \in Thread, BatchDone(t)
      PROVE MessageTypeOK'
  BY <1>24 DEF BatchDone
<1>25. CASE UNCHANGED vars
  BY <1>25 DEF vars
<1>26. QED
  BY <1>1, <1>2, <1>3, <1>4, <1>5, <1>6, <1>7, <1>8, <1>9, <1>10, <1>11, <1>12, <1>13, <1>14, <1>15, <1>16, <1>17, <1>18, <1>19, <1>20, <1>21, <1>22, <1>23, <1>24, <1>25
  DEF Next, Proceed, UserStep

LEMMA InitEstablishes == Init => IInv
<1> SUFFICES ASSUME Init PROVE IInv
  OBVIOUS
<1> USE ThreadAssumption, TypeAssumption, BoundAssumption DEF Init, Call, NoCall
<1>1. ThreadTypeOK
  BY DEF ThreadTypeOK, Lives
<1>2. CallTypeOK
  <2>1. crashed \in BOOLEAN
    OBVIOUS
  <2>2. QED
    BY <2>1 DEF CallTypeOK, Calls, Loops
<1>3. MessageTypeOK
  BY DEF MessageTypeOK
<1>4. LifeInv
  BY DEF LifeInv, MainRuns, FlagsFollowLife, QueueExists, StartPending,
         OnlyRunningCalls, RoomToStart
<1>5. CallInv
  BY DEF CallInv, MutexHeldBySender, SenderPointsToLive, RoomToStop
<1>6. NoLostWakeup
  BY DEF NoLostWakeup
<1>7. QED
  BY <1>1, <1>2, <1>3, <1>4, <1>5, <1>6 DEF IInv, TypeOK

(* Every reachable state satisfies the inductive invariant. *)
THEOREM InvariantHolds == Spec => []IInv
<1>1. IInv /\ [Next]_vars => IInv'
  BY ThreadTypeStep, CallTypeStep, MessageTypeStep, LifeStep, CallStep,
     WakeupStep DEF IInv, TypeOK
<1>2. QED
  BY InitEstablishes, <1>1, PTL DEF Spec

(* The state of every thread, queue, call and loop has its type. *)
THEOREM TypeCorrect == Spec => []TypeOK
<1>1. IInv => TypeOK
  BY DEF IInv
<1>2. QED
  BY InvariantHolds, <1>1, PTL

(* Whatever the threads do, no queued message is left without a set event, *)
(* a sender about to set it, or an owner about to pop.                     *)
THEOREM NoWakeupIsLost == Spec => []NoLostWakeup
<1>1. IInv => NoLostWakeup
  BY DEF IInv
<1>2. QED
  BY InvariantHolds, <1>1, PTL

(* A thread that is_running_ announces has an id and a queue. *)
THEOREM RunningIsReachable == Spec => []ReachableWhileRunning
<1>1. IInv => ReachableWhileRunning
  BY ThreadAssumption
  DEF IInv, LifeInv, MainRuns, FlagsFollowLife, QueueExists,
      ReachableWhileRunning
<1>2. QED
  BY InvariantHolds, <1>1, PTL

(* Start's wait ends only after the child has set its id. *)
THEOREM StartedIsReady == Spec => []StartedMeansReady
<1>1. IInv => StartedMeansReady
  BY ThreadAssumption
  DEF IInv, LifeInv, MainRuns, FlagsFollowLife, StartPending, StartedMeansReady
<1>2. QED
  BY InvariantHolds, <1>1, PTL

(* After Join nothing of the thread is left, so its id may be reused and   *)
(* the assertions of Thread::Start and Thread::~Thread hold.               *)
THEOREM JoinIsClean == Spec => []JoinLeavesNoTrace
<1>1. IInv => JoinLeavesNoTrace
  BY ThreadAssumption
  DEF IInv, LifeInv, MainRuns, FlagsFollowLife, QueueExists, StartPending,
      OnlyRunningCalls, JoinLeavesNoTrace
<1>2. QED
  BY InvariantHolds, <1>1, PTL

(* From Start to Join and through restarts, a thread that says it runs can *)
(* be sent to, Start returns only once it is set up, and Join is complete.  *)
THEOREM ThreadLifeIsClean == Spec => []LifeIsClean
<1>1. ReachableWhileRunning /\ StartedMeansReady /\ JoinLeavesNoTrace => LifeIsClean
  BY DEF LifeIsClean
<1>2. QED
  BY RunningIsReachable, StartedIsReady, JoinIsClean, <1>1, PTL

-----------------------------------------------------------------------------
(* Two messages of one sender, the first sent before the second. *)
Earlier(x, y) == x.from = y.from => x.n < y.n
Sorted(s) == \A i, j \in DOMAIN s : i < j => Earlier(s[i], s[j])
Before(A, B) == \A x \in A, y \in B : Earlier(x, y)
Same(x, y) == x.from = y.from /\ x.n = y.n

(* A batch exists only while it is dispatched, and a queue that is not in  *)
(* message_queues_ is empty: nothing is overwritten by a pop or a restart. *)
Batches ==
  \A t \in Thread :
    /\ loop[t] \notin {"dispatch", "handler"} => local[t] = <<>>
    /\ t \notin live => event_queue_[t] = <<>>

(* Dispatched before popped before queued, in the order of each sender. *)
Lined(t) ==
  /\ Sorted(delivered[t]) /\ Sorted(local[t]) /\ Sorted(event_queue_[t])
  /\ Before(Elements(delivered[t]), Elements(local[t]))
  /\ Before(Elements(delivered[t]), Elements(event_queue_[t]))
  /\ Before(Elements(local[t]), Elements(event_queue_[t]))

(* Only messages that were sent are anywhere; no message is in two places; *)
(* every message that was sent is in one.                                  *)
Known ==
  /\ \A t \in Thread : \A m \in Holds(t) : m.n <= sent[m.from]
  /\ \A m \in discarded : m.n <= sent[m.from]

OnePlace ==
  /\ \A t, u \in Thread : t # u => \A x \in Holds(t), y \in Holds(u) : ~Same(x, y)
  /\ \A t \in Thread : \A x \in discarded, y \in Holds(t) : ~Same(x, y)

Somewhere ==
  \A s \in Thread : \A k \in 1 .. sent[s] :
    \/ \E m \in discarded : m.from = s /\ m.n = k
    \/ \E t \in Thread : \E m \in Holds(t) : m.from = s /\ m.n = k

MailInv ==
  /\ Batches
  /\ \A t \in Thread : Lined(t)
  /\ Known
  /\ OnePlace
  /\ Somewhere

-----------------------------------------------------------------------------
(* What can happen to messages. *)
mailVars == <<sent, delivered, local, event_queue_, discarded>>

IsNext(m) == m \in Message /\ m.n = sent[m.from] + 1

(* A new message is queued for u, or destroyed at once. *)
Queued(u, m) ==
  /\ IsNext(m)
  /\ sent' = [sent EXCEPT ![m.from] = @ + 1]
  /\ event_queue_' = [event_queue_ EXCEPT ![u] = Append(@, m)]
  /\ UNCHANGED <<delivered, local, discarded>>

Refused(m) ==
  /\ IsNext(m)
  /\ sent' = [sent EXCEPT ![m.from] = @ + 1]
  /\ discarded' = discarded \cup {m}
  /\ UNCHANGED <<delivered, local, event_queue_>>

(* The queue of t becomes its batch. *)
Popped(t) ==
  /\ local[t] = <<>>
  /\ local' = [local EXCEPT ![t] = event_queue_[t]]
  /\ event_queue_' = [event_queue_ EXCEPT ![t] = <<>>]
  /\ UNCHANGED <<sent, delivered, discarded>>

(* The first message of the batch is dispatched; the rest may be dropped. *)
Dispatched(t) ==
  /\ local[t] # <<>>
  /\ delivered' = [delivered EXCEPT ![t] = Append(@, Head(local[t]))]
  /\ \/ /\ local' = [local EXCEPT ![t] = Tail(@)]
        /\ UNCHANGED discarded
     \/ /\ local' = [local EXCEPT ![t] = <<>>]
        /\ discarded' = discarded \cup Elements(Tail(local[t]))
  /\ UNCHANGED <<sent, event_queue_>>

(* The queue of t is destroyed with what is in it. *)
Destroyed(t) ==
  /\ discarded' = discarded \cup Elements(event_queue_[t])
  /\ event_queue_' = [event_queue_ EXCEPT ![t] = <<>>]
  /\ UNCHANGED <<sent, delivered, local>>

MailStep ==
  \/ \E m \in Message : Refused(m) \/ \E u \in Thread : Queued(u, m)
  \/ \E t \in Thread : Popped(t) \/ Dispatched(t) \/ Destroyed(t)
  \/ UNCHANGED mailVars

(* Every step of the threads does one of these things to the messages. *)
LEMMA NextIsMailStep ==
  IInv /\ Batches /\ [Next]_vars => MailStep
<1>. SUFFICES ASSUME IInv, Batches, [Next]_vars PROVE MailStep
  OBVIOUS
<1>. USE DEF threadVars, queueVars, loopVars, historyVars, Enter, Loop, Become
<1>1. ASSUME NEW t \in Thread, InitThreadMessageQueue(t) PROVE MailStep
  <2>1. t \notin live
    BY <1>1 DEF InitThreadMessageQueue, IInv, LifeInv, QueueExists
  <2>2. event_queue_' = event_queue_
    BY <1>1, <2>1 DEF InitThreadMessageQueue, Batches, IInv, TypeOK, MessageTypeOK
  <2>. QED
    BY <1>1, <2>2 DEF InitThreadMessageQueue, MailStep, mailVars
<1>2. ASSUME NEW t \in Thread, ThreadMainAnnounce(t) PROVE MailStep
  BY <1>2 DEF ThreadMainAnnounce, MailStep, mailVars
<1>3. ASSUME NEW t \in Thread, ThreadMainSignal(t) PROVE MailStep
  BY <1>3 DEF ThreadMainSignal, MailStep, mailVars
<1>4. ASSUME NEW t \in Thread, ThreadEndHook(t) PROVE MailStep
  <2>1. Destroyed(t)
    BY <1>4 DEF ThreadEndHook, Destroyed
  <2>. QED
    BY <2>1 DEF MailStep
<1>5. ASSUME NEW t \in Thread, RunReturns(t) PROVE MailStep
  BY <1>5 DEF RunReturns, MailStep, mailVars
<1>6. ASSUME NEW u \in Thread \ {Main}, ThreadStart(u) PROVE MailStep
  BY <1>6 DEF ThreadStart, MailStep, mailVars
<1>7. ASSUME NEW u \in Thread \ {Main}, ThreadStarted(u) PROVE MailStep
  BY <1>7 DEF ThreadStarted, MailStep, mailVars
<1>8. ASSUME NEW u \in Thread \ {Main}, ThreadJoin(u) PROVE MailStep
  BY <1>8 DEF ThreadJoin, MailStep, mailVars
<1>9. ASSUME NEW u \in Thread \ {Main}, ThreadJoined(u) PROVE MailStep
  BY <1>9 DEF ThreadJoined, MailStep, mailVars
<1>10. ASSUME NEW t \in Thread, NEW y \in Type, RegisterHandler(t, y) PROVE MailStep
  BY <1>10 DEF RegisterHandler, MailStep, mailVars
<1>11. ASSUME NEW t \in Thread, NEW v \in Thread, NEW y \in Type, SendPush(t, v, y) PROVE MailStep
  <2>1. NewMessage(t, y) \in Message
    BY <1>11, NewMessageType DEF SendPush, Send, IInv, TypeOK
  <2>2. Queued(v, NewMessage(t, y))
    BY <1>11, <2>1 DEF SendPush, Send, Queued, IsNext, NewMessage
  <2>. QED
    BY <2>1, <2>2 DEF MailStep
<1>12. ASSUME NEW t \in Thread, NEW v \in Thread, NEW y \in Type, SendRefused(t, v, y) PROVE MailStep
  <2>1. NewMessage(t, y) \in Message
    BY <1>12, NewMessageType DEF SendRefused, Send, IInv, TypeOK
  <2>2. Refused(NewMessage(t, y))
    BY <1>12, <2>1 DEF SendRefused, Send, Refused, IsNext, NewMessage
  <2>. QED
    BY <2>1, <2>2 DEF MailStep
<1>13. ASSUME NEW t \in Thread, SendSignal(t) PROVE MailStep
  BY <1>13 DEF SendSignal, MailStep, mailVars
<1>14. ASSUME NEW t \in Thread, NEW v \in Thread, Stop(t, v) PROVE MailStep
  BY <1>14 DEF Stop, MailStep, mailVars
<1>15. ASSUME NEW t \in Thread, StopPush(t) PROVE MailStep
  <2>1. NewMessage(t, Exit) \in Message /\ op[t].to \in Thread
    BY <1>15, NewMessageType DEF StopPush, PointsToLive, IInv, TypeOK, ThreadTypeOK, CallInv, RoomToStop
  <2>2. Queued(op[t].to, NewMessage(t, Exit))
    BY <1>15, <2>1 DEF StopPush, Queued, IsNext, NewMessage
  <2>. QED
    BY <2>1, <2>2 DEF MailStep
<1>16. ASSUME NEW t \in Thread, StopSignal(t) PROVE MailStep
  BY <1>16 DEF StopSignal, MailStep, mailVars
<1>17. ASSUME NEW t \in Thread, StopDangles(t) PROVE MailStep
  BY <1>17 DEF StopDangles, MailStep, mailVars
<1>18. ASSUME NEW t \in Thread, NEW b \in BOOLEAN, LoopStart(t, b) PROVE MailStep
  BY <1>18 DEF LoopStart, MailStep, mailVars
<1>19. ASSUME NEW t \in Thread, LoopWait(t) PROVE MailStep
  BY <1>19 DEF LoopWait, MailStep, mailVars
<1>20. ASSUME NEW t \in Thread, PopMessages(t) PROVE MailStep
  <2>1. Popped(t)
    BY <1>20 DEF PopMessages, Popped, Batches
  <2>. QED
    BY <2>1 DEF MailStep
<1>21. ASSUME NEW t \in Thread, Dispatch(t) PROVE MailStep
  <2>1. Dispatched(t)
    BY <1>21 DEF Dispatch, Dispatched
  <2>. QED
    BY <2>1 DEF MailStep
<1>22. ASSUME NEW t \in Thread, HandlerReturns(t) PROVE MailStep
  BY <1>22 DEF HandlerReturns, MailStep, mailVars
<1>23. ASSUME NEW t \in Thread, LoopExit(t) PROVE MailStep
  <2>1. Dispatched(t)
    BY <1>23 DEF LoopExit, Dispatched
  <2>. QED
    BY <2>1 DEF MailStep
<1>24. ASSUME NEW t \in Thread, BatchDone(t) PROVE MailStep
  BY <1>24 DEF BatchDone, MailStep, mailVars
<1>25. CASE UNCHANGED vars
  BY <1>25 DEF vars, MailStep, mailVars
<1>. QED
  BY <1>1, <1>2, <1>3, <1>4, <1>5, <1>6, <1>7, <1>8, <1>9, <1>10, <1>11, <1>12, <1>13, <1>14, <1>15, <1>16, <1>17, <1>18, <1>19, <1>20, <1>21, <1>22, <1>23, <1>24, <1>25
  DEF Next, Proceed, UserStep

(* No batch is left behind by a loop, and no message by an ended thread. *)
LEMMA BatchesStep ==
  IInv /\ Batches /\ [Next]_vars => Batches'
<1>. SUFFICES ASSUME IInv, Batches, [Next]_vars PROVE Batches'
  OBVIOUS
<1>. USE DEF threadVars, queueVars, loopVars, historyVars, Enter, Loop, Become, Batches, IInv, TypeOK
<1>1. ASSUME NEW t \in Thread, InitThreadMessageQueue(t) PROVE Batches'
  BY <1>1 DEF InitThreadMessageQueue, CallTypeOK, ThreadTypeOK, MessageTypeOK, LifeInv, QueueExists, OnlyRunningCalls, InUserCode
<1>2. ASSUME NEW t \in Thread, ThreadMainAnnounce(t) PROVE Batches'
  BY <1>2 DEF ThreadMainAnnounce, CallTypeOK, ThreadTypeOK, MessageTypeOK, LifeInv, QueueExists, OnlyRunningCalls, InUserCode
<1>3. ASSUME NEW t \in Thread, ThreadMainSignal(t) PROVE Batches'
  BY <1>3 DEF ThreadMainSignal, CallTypeOK, ThreadTypeOK, MessageTypeOK, LifeInv, QueueExists, OnlyRunningCalls, InUserCode
<1>4. ASSUME NEW t \in Thread, ThreadEndHook(t) PROVE Batches'
  BY <1>4 DEF ThreadEndHook, CallTypeOK, ThreadTypeOK, MessageTypeOK, LifeInv, QueueExists, OnlyRunningCalls, InUserCode
<1>5. ASSUME NEW t \in Thread, RunReturns(t) PROVE Batches'
  BY <1>5 DEF RunReturns, CallTypeOK, ThreadTypeOK, MessageTypeOK, LifeInv, QueueExists, OnlyRunningCalls, InUserCode
<1>6. ASSUME NEW u \in Thread \ {Main}, ThreadStart(u) PROVE Batches'
  BY <1>6 DEF ThreadStart, CallTypeOK, ThreadTypeOK, MessageTypeOK, LifeInv, QueueExists, OnlyRunningCalls, InUserCode
<1>7. ASSUME NEW u \in Thread \ {Main}, ThreadStarted(u) PROVE Batches'
  BY <1>7 DEF ThreadStarted, CallTypeOK, ThreadTypeOK, MessageTypeOK, LifeInv, QueueExists, OnlyRunningCalls, InUserCode
<1>8. ASSUME NEW u \in Thread \ {Main}, ThreadJoin(u) PROVE Batches'
  BY <1>8 DEF ThreadJoin, CallTypeOK, ThreadTypeOK, MessageTypeOK, LifeInv, QueueExists, OnlyRunningCalls, InUserCode
<1>9. ASSUME NEW u \in Thread \ {Main}, ThreadJoined(u) PROVE Batches'
  BY <1>9 DEF ThreadJoined, CallTypeOK, ThreadTypeOK, MessageTypeOK, LifeInv, QueueExists, OnlyRunningCalls, InUserCode
<1>10. ASSUME NEW t \in Thread, NEW y \in Type, RegisterHandler(t, y) PROVE Batches'
  BY <1>10 DEF RegisterHandler, CallTypeOK, ThreadTypeOK, MessageTypeOK, LifeInv, QueueExists, OnlyRunningCalls, InUserCode
<1>11. ASSUME NEW t \in Thread, NEW v \in Thread, NEW y \in Type, SendPush(t, v, y) PROVE Batches'
  BY <1>11 DEF SendPush, Send, CallTypeOK, ThreadTypeOK, MessageTypeOK, LifeInv, QueueExists, OnlyRunningCalls, InUserCode
<1>12. ASSUME NEW t \in Thread, NEW v \in Thread, NEW y \in Type, SendRefused(t, v, y) PROVE Batches'
  BY <1>12 DEF SendRefused, Send, CallTypeOK, ThreadTypeOK, MessageTypeOK, LifeInv, QueueExists, OnlyRunningCalls, InUserCode
<1>13. ASSUME NEW t \in Thread, SendSignal(t) PROVE Batches'
  BY <1>13 DEF SendSignal, CallTypeOK, ThreadTypeOK, MessageTypeOK, LifeInv, QueueExists, OnlyRunningCalls, InUserCode
<1>14. ASSUME NEW t \in Thread, NEW v \in Thread, Stop(t, v) PROVE Batches'
  BY <1>14 DEF Stop, CallTypeOK, ThreadTypeOK, MessageTypeOK, LifeInv, QueueExists, OnlyRunningCalls, InUserCode
<1>15. ASSUME NEW t \in Thread, StopPush(t) PROVE Batches'
  BY <1>15 DEF StopPush, PointsToLive, CallTypeOK, MessageTypeOK
<1>16. ASSUME NEW t \in Thread, StopSignal(t) PROVE Batches'
  BY <1>16 DEF StopSignal, CallTypeOK, ThreadTypeOK, MessageTypeOK, LifeInv, QueueExists, OnlyRunningCalls, InUserCode
<1>17. ASSUME NEW t \in Thread, StopDangles(t) PROVE Batches'
  BY <1>17 DEF StopDangles, CallTypeOK, ThreadTypeOK, MessageTypeOK, LifeInv, QueueExists, OnlyRunningCalls, InUserCode
<1>18. ASSUME NEW t \in Thread, NEW b \in BOOLEAN, LoopStart(t, b) PROVE Batches'
  BY <1>18 DEF LoopStart, CallTypeOK, ThreadTypeOK, MessageTypeOK, LifeInv, QueueExists, OnlyRunningCalls, InUserCode
<1>19. ASSUME NEW t \in Thread, LoopWait(t) PROVE Batches'
  BY <1>19 DEF LoopWait, CallTypeOK, ThreadTypeOK, MessageTypeOK, LifeInv, QueueExists, OnlyRunningCalls, InUserCode
<1>20. ASSUME NEW t \in Thread, PopMessages(t) PROVE Batches'
  BY <1>20 DEF PopMessages, CallTypeOK, ThreadTypeOK, MessageTypeOK, LifeInv, QueueExists, OnlyRunningCalls, InUserCode
<1>21. ASSUME NEW t \in Thread, Dispatch(t) PROVE Batches'
  BY <1>21 DEF Dispatch, CallTypeOK, ThreadTypeOK, MessageTypeOK, LifeInv, QueueExists, OnlyRunningCalls, InUserCode
<1>22. ASSUME NEW t \in Thread, HandlerReturns(t) PROVE Batches'
  BY <1>22 DEF HandlerReturns, CallTypeOK, ThreadTypeOK, MessageTypeOK, LifeInv, QueueExists, OnlyRunningCalls, InUserCode
<1>23. ASSUME NEW t \in Thread, LoopExit(t) PROVE Batches'
  BY <1>23 DEF LoopExit, CallTypeOK, ThreadTypeOK, MessageTypeOK, LifeInv, QueueExists, OnlyRunningCalls, InUserCode
<1>24. ASSUME NEW t \in Thread, BatchDone(t) PROVE Batches'
  BY <1>24 DEF BatchDone, CallTypeOK, ThreadTypeOK, MessageTypeOK, LifeInv, QueueExists, OnlyRunningCalls, InUserCode
<1>25. CASE UNCHANGED vars
  BY <1>25 DEF vars
<1>. QED
  BY <1>1, <1>2, <1>3, <1>4, <1>5, <1>6, <1>7, <1>8, <1>9, <1>10, <1>11, <1>12, <1>13, <1>14, <1>15, <1>16, <1>17, <1>18, <1>19, <1>20, <1>21, <1>22, <1>23, <1>24, <1>25
  DEF Next, Proceed, UserStep

-----------------------------------------------------------------------------
(* The messages of a sequence that grows at its end or loses its head. *)
LEMMA ElementsOfEmpty == Elements(<<>>) = {} /\ Sorted(<<>>)
BY DEF Elements, Sorted

LEMMA ElementsOfAppend ==
  ASSUME NEW s \in Seq(Message), NEW m \in Message
  PROVE  /\ Elements(Append(s, m)) = Elements(s) \cup {m}
         /\ Sorted(s) /\ (\A x \in Elements(s) : Earlier(x, m)) => Sorted(Append(s, m))
<1>1. /\ Len(Append(s, m)) = Len(s) + 1 /\ Len(s) \in Nat
      /\ DOMAIN s = 1 .. Len(s) /\ DOMAIN Append(s, m) = 1 .. Len(s) + 1
      /\ \A i \in 1 .. Len(s) : Append(s, m)[i] = s[i]
      /\ Append(s, m)[Len(s) + 1] = m
  OBVIOUS
<1>2. Elements(Append(s, m)) = Elements(s) \cup {m}
  <2>1. \A i \in 1 .. Len(s) + 1 : i \in 1 .. Len(s) \/ i = Len(s) + 1
    BY <1>1
  <2>2. Len(s) + 1 \in 1 .. Len(s) + 1 /\ \A i \in 1 .. Len(s) : i \in 1 .. Len(s) + 1
    BY <1>1
  <2>. QED
    BY <1>1, <2>1, <2>2, Zenon DEF Elements
<1>3. ASSUME Sorted(s), \A x \in Elements(s) : Earlier(x, m) PROVE Sorted(Append(s, m))
  <2>. SUFFICES ASSUME NEW i \in 1 .. Len(s) + 1, NEW j \in 1 .. Len(s) + 1, i < j
                PROVE  Earlier(Append(s, m)[i], Append(s, m)[j])
    BY <1>1 DEF Sorted
  <2>1. i \in 1 .. Len(s)
    BY <1>1
  <2>2. CASE j = Len(s) + 1
    BY <1>1, <1>3, <2>1, <2>2 DEF Elements
  <2>3. CASE j \in 1 .. Len(s)
    BY <1>1, <1>3, <2>1, <2>3 DEF Sorted
  <2>. QED
    BY <1>1, <2>2, <2>3
<1>. QED
  BY <1>2, <1>3

LEMMA ElementsOfTail ==
  ASSUME NEW s \in Seq(Message), s # <<>>
  PROVE  /\ Head(s) \in Message /\ Tail(s) \in Seq(Message)
         /\ Elements(s) = {Head(s)} \cup Elements(Tail(s))
         /\ Sorted(s) => Sorted(Tail(s)) /\ \A y \in Elements(Tail(s)) : Earlier(Head(s), y)
<1>1. /\ Len(s) \in Nat \ {0} /\ DOMAIN s = 1 .. Len(s)
      /\ Head(s) = s[1] /\ Tail(s) \in Seq(Message)
      /\ Len(Tail(s)) = Len(s) - 1 /\ DOMAIN Tail(s) = 1 .. Len(s) - 1
      /\ \A i \in 1 .. Len(s) - 1 : Tail(s)[i] = s[i + 1]
  BY EmptySeq, HeadTailProperties
<1>2. Head(s) \in Message
  BY <1>1
<1>3. Elements(s) = {Head(s)} \cup Elements(Tail(s))
  <2>1. \A i \in 1 .. Len(s) : i = 1 \/ (i - 1 \in 1 .. Len(s) - 1 /\ s[i] = Tail(s)[i - 1])
    BY <1>1
  <2>2. 1 \in 1 .. Len(s) /\ \A i \in 1 .. Len(s) - 1 : i + 1 \in 1 .. Len(s)
    BY <1>1
  <2>3. \A x \in Elements(s) : x = Head(s) \/ x \in Elements(Tail(s))
    <3>. SUFFICES ASSUME NEW i \in 1 .. Len(s), s[i] # Head(s) PROVE s[i] \in Elements(Tail(s))
      BY <1>1 DEF Elements
    <3>1. i - 1 \in DOMAIN Tail(s) /\ s[i] = Tail(s)[i - 1]
      BY <1>1, <2>1
    <3>. QED
      BY <3>1 DEF Elements
  <2>4. Head(s) \in Elements(s) /\ Elements(Tail(s)) \subseteq Elements(s)
    BY <1>1, <2>2 DEF Elements
  <2>. QED
    BY <2>3, <2>4
<1>4. ASSUME Sorted(s) PROVE Sorted(Tail(s)) /\ \A y \in Elements(Tail(s)) : Earlier(Head(s), y)
  <2>1. ASSUME NEW i \in 1 .. Len(s) - 1, NEW j \in 1 .. Len(s) - 1, i < j
        PROVE  Earlier(Tail(s)[i], Tail(s)[j])
    BY <1>1, <1>4, <2>1 DEF Sorted
  <2>2. ASSUME NEW i \in 1 .. Len(s) - 1 PROVE Earlier(Head(s), Tail(s)[i])
    BY <1>1, <1>4, <2>2 DEF Sorted
  <2>. QED
    BY <1>1, <2>1, <2>2 DEF Sorted, Elements
<1>. QED
  BY <1>1, <1>2, <1>3, <1>4

-----------------------------------------------------------------------------
(* Each of the things that happen to messages keeps the invariant. *)
MailOK ==
  /\ \A t \in Thread : Lined(t)
  /\ Known
  /\ OnePlace
  /\ Somewhere

(* What the next message of a sender is compared with. *)
LEMMA NextIsNew ==
  ASSUME TypeOK, Known, NEW m \in Message, IsNext(m)
  PROVE  /\ \A t \in Thread : \A x \in Holds(t) : Earlier(x, m) /\ ~Same(x, m) /\ ~Same(m, x)
         /\ \A x \in discarded : ~Same(x, m) /\ ~Same(m, x)
<1>1. \A t \in Thread : Holds(t) \subseteq Message
  BY ElementsType DEF Holds, TypeOK, MessageTypeOK
<1>2. \A x \in Message : x.n \in Nat /\ x.from \in Thread /\ sent[x.from] \in Nat
  BY BoundAssumption DEF Message, TypeOK, CallTypeOK
<1>3. discarded \subseteq Message
  BY DEF TypeOK, MessageTypeOK
<1>. QED
  BY <1>1, <1>2, <1>3 DEF Known, IsNext, Earlier, Same

LEMMA RefusedKeeps ==
  ASSUME TypeOK, MailOK, NEW m \in Message, Refused(m)
  PROVE  MailOK'
<1>1. /\ \A t \in Thread : Holds(t)' = Holds(t) /\ Lined(t)' = Lined(t)
      /\ discarded' = discarded \cup {m}
  BY DEF Refused, Holds, Lined
<1>2. /\ m.from \in Thread /\ sent[m.from] \in Nat /\ m.n = sent[m.from] + 1
      /\ \A s \in Thread : sent[s] \in Nat /\ sent'[s] = IF s = m.from THEN sent[s] + 1 ELSE sent[s]
  BY BoundAssumption DEF Refused, IsNext, Message, TypeOK, CallTypeOK
<1>3. \A t \in Thread : Holds(t) \subseteq Message
  BY ElementsType DEF Holds, TypeOK, MessageTypeOK
<1>4. \A x \in Message : x.n \in Nat /\ x.from \in Thread
  BY BoundAssumption DEF Message
<1>5. discarded \subseteq Message
  BY DEF TypeOK, MessageTypeOK
<1>6. Known'
  BY <1>1, <1>2, <1>3, <1>4, <1>5 DEF MailOK, Known
<1>7. OnePlace'
  BY <1>1, NextIsNew DEF MailOK, OnePlace, Refused
<1>8. Somewhere'
  <2>. SUFFICES ASSUME NEW s \in Thread, NEW k \in 1 .. sent'[s]
                PROVE  \/ \E x \in discarded' : x.from = s /\ x.n = k
                       \/ \E t \in Thread : \E x \in Holds(t)' : x.from = s /\ x.n = k
    BY DEF Somewhere
  <2>1. CASE k \in 1 .. sent[s]
    BY <1>1, <2>1 DEF MailOK, Somewhere
  <2>2. CASE s = m.from /\ k = m.n
    BY <1>1, <2>2
  <2>. QED
    BY <1>2, <2>1, <2>2
<1>. QED
  BY <1>1, <1>6, <1>7, <1>8 DEF MailOK

LEMMA QueuedKeeps ==
  ASSUME TypeOK, MailOK, NEW u \in Thread, NEW m \in Message, Queued(u, m)
  PROVE  MailOK'
<1>1. /\ event_queue_'[u] = Append(event_queue_[u], m)
      /\ \A t \in Thread : t # u => event_queue_'[t] = event_queue_[t]
      /\ UNCHANGED <<delivered, local, discarded>>
      /\ event_queue_[u] \in Seq(Message)
  BY DEF Queued, TypeOK, MessageTypeOK
<1>2. /\ Elements(event_queue_'[u]) = Elements(event_queue_[u]) \cup {m}
      /\ Holds(u)' = Holds(u) \cup {m}
      /\ \A t \in Thread : t # u => Holds(t)' = Holds(t)
  BY <1>1, ElementsOfAppend DEF Holds
<1>3. /\ m.from \in Thread /\ sent[m.from] \in Nat /\ m.n = sent[m.from] + 1
      /\ \A s \in Thread : sent[s] \in Nat /\ sent'[s] = IF s = m.from THEN sent[s] + 1 ELSE sent[s]
  BY BoundAssumption DEF Queued, IsNext, Message, TypeOK, CallTypeOK
<1>4. \A t \in Thread : Holds(t) \subseteq Message
  BY ElementsType DEF Holds, TypeOK, MessageTypeOK
<1>5. discarded \subseteq Message /\ \A x \in Message : x.n \in Nat /\ x.from \in Thread
  BY BoundAssumption DEF Message, TypeOK, MessageTypeOK
<1>6. Known'
  <2>1. ASSUME NEW t \in Thread, NEW x \in Holds(t)' PROVE x.n <= sent'[x.from]
    <3>1. CASE x = m
      BY <1>3, <3>1
    <3>2. CASE x \in Holds(t)
      BY <1>3, <1>4, <1>5, <3>2 DEF MailOK, Known
    <3>. QED
      BY <1>2, <3>1, <3>2
  <2>2. ASSUME NEW x \in discarded' PROVE x.n <= sent'[x.from]
    BY <1>1, <1>3, <1>5, <2>2 DEF MailOK, Known
  <2>. QED
    BY <2>1, <2>2 DEF Known
<1>7. /\ \A t \in Thread : \A x \in Holds(t) : Earlier(x, m) /\ ~Same(x, m) /\ ~Same(m, x)
      /\ \A x \in discarded : ~Same(x, m) /\ ~Same(m, x)
  BY NextIsNew DEF MailOK, Queued
<1>8. OnePlace'
  BY <1>1, <1>2, <1>7 DEF MailOK, OnePlace
<1>9. ASSUME NEW t \in Thread PROVE Lined(t)'
  <2>1. CASE t # u
    BY <1>1, <2>1 DEF Lined, MailOK
  <2>2. CASE t = u
    <3>1. Sorted(event_queue_[u]) /\ \A x \in Elements(event_queue_[u]) : Earlier(x, m)
      BY <1>7 DEF MailOK, Lined, Holds
    <3>2. Sorted(event_queue_'[u])
      BY <1>1, <3>1, ElementsOfAppend
    <3>3. /\ Before(Elements(delivered[u]), Elements(event_queue_'[u]))
          /\ Before(Elements(local[u]), Elements(event_queue_'[u]))
      BY <1>2, <1>7 DEF Lined, MailOK, Before, Holds
    <3>. QED
      BY <1>1, <2>2, <3>2, <3>3 DEF Lined, MailOK
  <2>. QED
    BY <2>1, <2>2
<1>10. Somewhere'
  <2>. SUFFICES ASSUME NEW s \in Thread, NEW k \in 1 .. sent'[s]
                PROVE  \/ \E x \in discarded' : x.from = s /\ x.n = k
                       \/ \E t \in Thread : \E x \in Holds(t)' : x.from = s /\ x.n = k
    BY DEF Somewhere
  <2>1. CASE k \in 1 .. sent[s]
    BY <1>1, <1>2, <2>1 DEF MailOK, Somewhere
  <2>2. CASE s = m.from /\ k = m.n
    BY <1>2, <2>2
  <2>. QED
    BY <1>3, <2>1, <2>2
<1>. QED
  BY <1>6, <1>8, <1>9, <1>10 DEF MailOK

LEMMA PoppedKeeps ==
  ASSUME TypeOK, MailOK, NEW u \in Thread, Popped(u)
  PROVE  MailOK'
<1>1. /\ event_queue_'[u] = <<>> /\ local[u] = <<>> /\ local'[u] = event_queue_[u]
      /\ \A t \in Thread : t # u => event_queue_'[t] = event_queue_[t] /\ local'[t] = local[t]
      /\ UNCHANGED <<sent, delivered, discarded>>
  BY DEF Popped, TypeOK, MessageTypeOK
<1>2. \A t \in Thread : Holds(t)' = Holds(t)
  BY <1>1, ElementsOfEmpty DEF Holds
<1>3. Known' /\ OnePlace' /\ Somewhere'
  BY <1>1, <1>2 DEF MailOK, Known, OnePlace, Somewhere
<1>4. \A t \in Thread : t # u => Lined(t)'
  BY <1>1 DEF Lined, MailOK
<1>5. Lined(u)'
  BY <1>1, ElementsOfEmpty DEF Lined, MailOK, Before
<1>. QED
  BY <1>3, <1>4, <1>5 DEF MailOK

(* Two messages held by t of which one is in front of the other differ. *)
LEMMA EarlierDiffers ==
  ASSUME NEW x \in Message, NEW y \in Message, Earlier(x, y) PROVE ~Same(x, y) /\ ~Same(y, x)
BY BoundAssumption DEF Earlier, Same, Message

LEMMA DispatchedKeeps ==
  ASSUME TypeOK, MailOK, NEW u \in Thread, Dispatched(u)
  PROVE  MailOK'
<1>. DEFINE h == Head(local[u])
            rest == Tail(local[u])
<1>1. /\ local[u] \in Seq(Message) /\ delivered[u] \in Seq(Message) /\ local[u] # <<>>
      /\ delivered'[u] = Append(delivered[u], h)
      /\ \A t \in Thread : t # u => delivered'[t] = delivered[t] /\ local'[t] = local[t]
      /\ UNCHANGED <<sent, event_queue_>>
      /\ \/ local'[u] = rest /\ UNCHANGED discarded
         \/ local'[u] = <<>> /\ discarded' = discarded \cup Elements(rest)
  BY DEF Dispatched, TypeOK, MessageTypeOK
<1>2. /\ h \in Message /\ rest \in Seq(Message)
      /\ Elements(local[u]) = {h} \cup Elements(rest)
      /\ Sorted(rest) /\ \A y \in Elements(rest) : Earlier(h, y)
  BY <1>1, ElementsOfTail DEF MailOK, Lined
<1>3. Elements(delivered'[u]) = Elements(delivered[u]) \cup {h} /\ Sorted(delivered'[u])
  BY <1>1, <1>2, ElementsOfAppend DEF MailOK, Lined, Before
<1>. HIDE DEF h, rest
<1>4. \A t \in Thread : t # u => Holds(t)' = Holds(t) /\ Lined(t)'
  BY <1>1 DEF Holds, Lined, MailOK
<1>5. CASE local'[u] = rest /\ UNCHANGED discarded
  <2>1. \A t \in Thread : Holds(t)' = Holds(t)
    BY <1>1, <1>2, <1>3, <1>4, <1>5 DEF Holds
  <2>2. /\ Known'
        /\ OnePlace'
        /\ Somewhere'
    <3>1. Known'
      BY <1>1, <1>5, <2>1 DEF MailOK, Known
    <3>2. OnePlace'
      BY <1>5, <2>1 DEF MailOK, OnePlace
    <3>3. Somewhere'
      BY <1>1, <1>5, <2>1 DEF MailOK, Somewhere
    <3>. QED
      BY <3>1, <3>2, <3>3
  <2>3. /\ Before(Elements(delivered'[u]), Elements(rest))
        /\ Before(Elements(delivered'[u]), Elements(event_queue_[u]))
        /\ Before(Elements(rest), Elements(event_queue_[u]))
    BY <1>2, <1>3 DEF MailOK, Lined, Before
  <2>4. Lined(u)'
    BY <1>1, <1>2, <1>3, <1>5, <2>3 DEF MailOK, Lined
  <2>. QED
    BY <1>4, <2>2, <2>4 DEF MailOK
<1>6. CASE local'[u] = <<>> /\ discarded' = discarded \cup Elements(rest)
  <2>1. Holds(u)' \subseteq Holds(u) /\ Holds(u) = Holds(u)' \cup Elements(rest)
    BY <1>1, <1>2, <1>3, <1>6, ElementsOfEmpty DEF Holds
  <2>2. \A x \in Elements(rest) : \A y \in Holds(u)' : ~Same(x, y)
    <3>. SUFFICES ASSUME NEW x \in Elements(rest), NEW y \in Holds(u)' PROVE ~Same(x, y)
      OBVIOUS
    <3>1. y \in Elements(delivered[u]) \/ y = h \/ y \in Elements(event_queue_[u])
      BY <1>1, <1>3, <1>6, ElementsOfEmpty DEF Holds
    <3>2. Earlier(y, x) \/ Earlier(x, y)
      BY <1>2, <3>1 DEF MailOK, Lined, Before
    <3>3. x \in Message /\ y \in Message
      BY <1>2, <3>1, ElementsType DEF TypeOK, MessageTypeOK
    <3>. QED
      BY <3>2, <3>3, EarlierDiffers
  <2>3. Elements(rest) \subseteq Holds(u)
    BY <2>1
  <2>4. Known'
    BY <1>1, <1>4, <1>6, <2>1 DEF MailOK, Known
  <2>5. OnePlace'
    <3>1. \A t, v \in Thread : t # v => \A x \in Holds(t)', y \in Holds(v)' : ~Same(x, y)
      BY <1>4, <2>1 DEF MailOK, OnePlace
    <3>2. \A t \in Thread : \A x \in discarded, y \in Holds(t)' : ~Same(x, y)
      BY <1>4, <2>1 DEF MailOK, OnePlace
    <3>3. \A t \in Thread : \A x \in Elements(rest), y \in Holds(t)' : ~Same(x, y)
      BY <1>4, <2>2, <2>3 DEF MailOK, OnePlace
    <3>. QED
      BY <1>6, <3>1, <3>2, <3>3 DEF OnePlace
  <2>6. Somewhere'
    BY <1>1, <1>4, <1>6, <2>1 DEF MailOK, Somewhere
  <2>7. Before(Elements(delivered'[u]), Elements(event_queue_[u]))
    BY <1>2, <1>3 DEF MailOK, Lined, Before
  <2>8. Lined(u)'
    BY <1>1, <1>3, <1>6, <2>7, ElementsOfEmpty DEF MailOK, Lined, Before
  <2>. QED
    BY <1>4, <2>4, <2>5, <2>6, <2>8 DEF MailOK
<1>. QED
  BY <1>1, <1>5, <1>6

LEMMA DestroyedKeeps ==
  ASSUME TypeOK, MailOK, NEW u \in Thread, Destroyed(u)
  PROVE  MailOK'
<1>1. /\ event_queue_'[u] = <<>>
      /\ \A t \in Thread : t # u => event_queue_'[t] = event_queue_[t]
      /\ discarded' = discarded \cup Elements(event_queue_[u])
      /\ UNCHANGED <<sent, delivered, local>>
  BY DEF Destroyed, TypeOK, MessageTypeOK
<1>2. \A t \in Thread : t # u => Holds(t)' = Holds(t) /\ Lined(t)'
  BY <1>1 DEF Holds, Lined, MailOK
<1>3. Holds(u)' \subseteq Holds(u) /\ Holds(u) = Holds(u)' \cup Elements(event_queue_[u])
  BY <1>1, ElementsOfEmpty DEF Holds
<1>4. \A x \in Elements(event_queue_[u]) : \A y \in Holds(u)' : ~Same(x, y)
  <2>. SUFFICES ASSUME NEW x \in Elements(event_queue_[u]), NEW y \in Holds(u)' PROVE ~Same(x, y)
    OBVIOUS
  <2>1. y \in Elements(delivered[u]) \/ y \in Elements(local[u])
    BY <1>1, ElementsOfEmpty DEF Holds
  <2>2. Earlier(y, x)
    BY <2>1 DEF MailOK, Lined, Before
  <2>3. x \in Message /\ y \in Message
    BY <2>1, ElementsType DEF TypeOK, MessageTypeOK
  <2>. QED
    BY <2>2, <2>3, EarlierDiffers
<1>5. Known'
  BY <1>1, <1>2, <1>3 DEF MailOK, Known
<1>6. OnePlace'
  <2>1. \A t, v \in Thread : t # v => \A x \in Holds(t)', y \in Holds(v)' : ~Same(x, y)
    BY <1>2, <1>3 DEF MailOK, OnePlace
  <2>2. \A t \in Thread : \A x \in discarded, y \in Holds(t)' : ~Same(x, y)
    BY <1>2, <1>3 DEF MailOK, OnePlace
  <2>3. \A t \in Thread : \A x \in Elements(event_queue_[u]), y \in Holds(t)' : ~Same(x, y)
    BY <1>2, <1>3, <1>4 DEF MailOK, OnePlace
  <2>. QED
    BY <1>1, <2>1, <2>2, <2>3 DEF OnePlace
<1>7. Somewhere'
  BY <1>1, <1>2, <1>3 DEF MailOK, Somewhere
<1>8. Lined(u)'
  BY <1>1, ElementsOfEmpty DEF MailOK, Lined, Before
<1>. QED
  BY <1>2, <1>5, <1>6, <1>7, <1>8 DEF MailOK

(* Together: the invariant of the messages is inductive. *)
LEMMA MailInvStep == IInv /\ MailInv /\ [Next]_vars => MailInv'
<1>. SUFFICES ASSUME IInv, MailInv, [Next]_vars PROVE MailInv'
  OBVIOUS
<1>1. MailStep /\ Batches'
  BY NextIsMailStep, BatchesStep DEF MailInv
<1>2. TypeOK /\ MailOK
  BY DEF IInv, MailInv, MailOK
<1>3. ASSUME UNCHANGED mailVars PROVE MailOK'
  <2>1. \A t \in Thread : Holds(t)' = Holds(t) /\ Lined(t)'
    BY <1>2, <1>3 DEF mailVars, Holds, MailOK, Lined
  <2>2. Known'
    BY <1>2, <1>3, <2>1 DEF mailVars, MailOK, Known
  <2>3. OnePlace'
    BY <1>2, <1>3, <2>1 DEF mailVars, MailOK, OnePlace
  <2>4. Somewhere'
    BY <1>2, <1>3, <2>1 DEF mailVars, MailOK, Somewhere
  <2>. QED
    BY <2>1, <2>2, <2>3, <2>4 DEF MailOK
<1>4. MailOK'
  BY <1>1, <1>2, <1>3, RefusedKeeps, QueuedKeeps, PoppedKeeps, DispatchedKeeps, DestroyedKeeps DEF MailStep
<1>. QED
  BY <1>1, <1>4 DEF MailInv, MailOK

LEMMA MailInitial == Init => MailInv
<1>. SUFFICES ASSUME Init PROVE MailInv
  OBVIOUS
<1>1. \A t \in Thread : local[t] = <<>> /\ event_queue_[t] = <<>> /\ delivered[t] = <<>> /\ sent[t] = 0
  BY DEF Init
<1>2. \A t \in Thread : Holds(t) = {} /\ Lined(t)
  BY <1>1, ElementsOfEmpty DEF Holds, Lined, Before
<1>3. discarded = {}
  BY DEF Init
<1>. QED
  BY <1>1, <1>2, <1>3 DEF MailInv, Batches, Known, OnePlace, Somewhere

-----------------------------------------------------------------------------
(* The three parts of a thread's messages, joined, are InOrder's sequence. *)
LEMMA LinedIsInOrder ==
  ASSUME TypeOK, \A t \in Thread : Lined(t)
  PROVE  InOrder
<1>. SUFFICES ASSUME NEW t \in Thread,
                     NEW i \in DOMAIN (delivered[t] \o local[t] \o event_queue_[t]),
                     NEW j \in DOMAIN (delivered[t] \o local[t] \o event_queue_[t]), i < j
              PROVE  Earlier((delivered[t] \o local[t] \o event_queue_[t])[i],
                             (delivered[t] \o local[t] \o event_queue_[t])[j])
  BY DEF InOrder, Earlier
<1>. DEFINE d == delivered[t]
            l == local[t]
            q == event_queue_[t]
            s == d \o l \o q
<1>1. d \in Seq(Message) /\ l \in Seq(Message) /\ q \in Seq(Message)
  BY DEF TypeOK, MessageTypeOK
<1>2. Lined(t)
  OBVIOUS
<1>3. /\ Sorted(d) /\ Sorted(l) /\ Sorted(q)
      /\ Before(Elements(d), Elements(l)) /\ Before(Elements(d), Elements(q)) /\ Before(Elements(l), Elements(q))
  BY <1>2 DEF Lined
<1>. HIDE DEF d, l, q
<1>4. /\ Len(d) \in Nat /\ Len(l) \in Nat /\ Len(q) \in Nat
      /\ DOMAIN d = 1 .. Len(d) /\ DOMAIN l = 1 .. Len(l) /\ DOMAIN q = 1 .. Len(q)
      /\ DOMAIN s = 1 .. Len(d) + Len(l) + Len(q)
  BY <1>1
<1>5. /\ \A k \in 1 .. Len(d) : s[k] = d[k]
      /\ \A k \in Len(d) + 1 .. Len(d) + Len(l) : s[k] = l[k - Len(d)]
      /\ \A k \in Len(d) + Len(l) + 1 .. Len(d) + Len(l) + Len(q) : s[k] = q[k - Len(d) - Len(l)]
  BY <1>1
<1>. HIDE DEF s
<1>6. i \in DOMAIN s /\ j \in DOMAIN s
  BY DEF s, d, l, q
<1>7. Earlier(s[i], s[j])
  <2>1. CASE j \in 1 .. Len(d)
    BY <1>3, <1>4, <1>5, <1>6, <2>1 DEF Sorted
  <2>2. CASE j \in Len(d) + 1 .. Len(d) + Len(l)
    <3>1. s[j] = l[j - Len(d)] /\ j - Len(d) \in DOMAIN l
      BY <1>4, <1>5, <2>2
    <3>2. CASE i \in 1 .. Len(d)
      BY <1>3, <1>4, <1>5, <3>1, <3>2 DEF Before, Elements
    <3>3. CASE i \in Len(d) + 1 .. Len(d) + Len(l)
      <4>1. s[i] = l[i - Len(d)] /\ i - Len(d) \in DOMAIN l /\ i - Len(d) < j - Len(d)
        BY <1>4, <1>5, <2>2, <3>3
      <4>. QED
        BY <1>3, <3>1, <4>1 DEF Sorted
    <3>. QED
      BY <1>4, <1>6, <2>2, <3>2, <3>3
  <2>3. CASE j \in Len(d) + Len(l) + 1 .. Len(d) + Len(l) + Len(q)
    <3>1. s[j] = q[j - Len(d) - Len(l)] /\ j - Len(d) - Len(l) \in DOMAIN q
      BY <1>4, <1>5, <2>3
    <3>2. CASE i \in 1 .. Len(d)
      BY <1>3, <1>4, <1>5, <3>1, <3>2 DEF Before, Elements
    <3>3. CASE i \in Len(d) + 1 .. Len(d) + Len(l)
      <4>1. s[i] = l[i - Len(d)] /\ i - Len(d) \in DOMAIN l
        BY <1>4, <1>5, <3>3
      <4>. QED
        BY <1>3, <3>1, <4>1 DEF Before, Elements
    <3>4. CASE i \in Len(d) + Len(l) + 1 .. Len(d) + Len(l) + Len(q)
      <4>1. /\ s[i] = q[i - Len(d) - Len(l)] /\ i - Len(d) - Len(l) \in DOMAIN q
            /\ i - Len(d) - Len(l) < j - Len(d) - Len(l)
        BY <1>4, <1>5, <2>3, <3>4
      <4>. QED
        BY <1>3, <3>1, <4>1 DEF Sorted
    <3>. QED
      BY <1>4, <1>6, <2>3, <3>2, <3>3, <3>4
  <2>. QED
    BY <1>4, <1>6, <2>1, <2>2, <2>3
<1>. QED
  BY <1>7 DEF s, d, l, q

(* A message in exactly one place has no receiver, or just one. *)
LEMMA OnePlaceIsEnough ==
  ASSUME OnePlace, Somewhere
  PROVE  NothingVanishes
<1>. SUFFICES ASSUME NEW s \in Thread, NEW k \in 1 .. sent[s]
     PROVE LET Is(m) == m.from = s /\ m.n = k
               receivers == {t \in Thread : \E m \in Holds(t) : Is(m)}
           IN  IF \E m \in discarded : Is(m) THEN receivers = {}
               ELSE Cardinality(receivers) = 1
  BY DEF NothingVanishes
<1>. DEFINE receivers == {t \in Thread : \E m \in Holds(t) : m.from = s /\ m.n = k}
<1>1. ASSUME \E m \in discarded : m.from = s /\ m.n = k PROVE receivers = {}
  BY <1>1 DEF OnePlace, Same
<1>2. ASSUME ~ \E m \in discarded : m.from = s /\ m.n = k PROVE Cardinality(receivers) = 1
  <2>1. PICK t \in Thread : \E m \in Holds(t) : m.from = s /\ m.n = k
    BY <1>2 DEF Somewhere
  <2>2. receivers = {t}
    BY <2>1 DEF OnePlace, Same
  <2>. QED
    BY <2>2, FS_Singleton
<1>. QED
  BY <1>1, <1>2

(* The messages a thread has dispatched, popped and has queued are, for    *)
(* each sender, in the order in which they were sent.                      *)
THEOREM MessagesInOrder == Spec => []InOrder
<1>1. IInv /\ MailInv => InOrder
  BY LinedIsInOrder DEF IInv, MailInv
<1>. QED
  BY InvariantHolds, MailInitial, MailInvStep, <1>1, PTL DEF Spec

(* The queues own every message that was sent until exactly one thread has *)
(* dispatched it, or it is destroyed and nobody has it.                    *)
THEOREM NoMessageVanishes == Spec => []NothingVanishes
<1>1. MailInv => NothingVanishes
  BY OnePlaceIsEnough DEF MailInv
<1>. QED
  BY InvariantHolds, MailInitial, MailInvStep, <1>1, PTL DEF Spec

-----------------------------------------------------------------------------
(* The demo.  What the worker is sent: the messages of Script in order,    *)
(* then Exit.                                                              *)
ScriptMessage(i) ==
  [from |-> Main, n |-> i, type |-> IF i <= Len(Script) THEN Script[i].type ELSE Exit]

(* d was dispatched, l popped and q is queued of the k messages sent. *)
WorkerMail(d, l, q, k) ==
  /\ k <= Len(Script) + 1
  /\ Len(d) + Len(l) + Len(q) = k
  /\ \A i \in 1 .. Len(d) : d[i] = ScriptMessage(i)
  /\ \A i \in 1 .. Len(l) : l[i] = ScriptMessage(Len(d) + i)
  /\ \A i \in 1 .. Len(q) : q[i] = ScriptMessage(Len(d) + Len(l) + i)

(* Main gets what the worker sends, its report, and nothing else. *)
MainMail(d, l, q, k) ==
  /\ k <= 1
  /\ Len(d) + Len(l) + Len(q) = k
  /\ \A i \in 1 .. Len(d) : d[i].from = Worker
  /\ \A i \in 1 .. Len(l) : l[i].from = Worker
  /\ \A i \in 1 .. Len(q) : q[i].from = Worker

DemoMail ==
  /\ WorkerMail(delivered[Worker], local[Worker], event_queue_[Worker], sent[Main])
  /\ MainMail(delivered[Main], local[Main], event_queue_[Main], sent[Worker])
  /\ discarded = {}

(* The worker is inside of a handler that has not counted yet.  The counts *)
(* are those of the messages it has handled, and it reports with the last. *)
Counting == loop[Worker] = "handler" /\ at[Worker] = "loop"
Handled == IF Counting THEN Len(delivered[Worker]) - 1 ELSE Len(delivered[Worker])

Counts ==
  /\ Counting => Len(delivered[Worker]) \in 1 .. Len(Script)
  /\ count_ \in [WorkerTypes -> Nat]
  /\ \A y \in WorkerTypes :
       count_[y] = CountAfter(y)[IF Handled <= Len(Script) THEN Handled ELSE Len(Script)]
  /\ sent[Worker] = 1 => ~Counting /\ Len(Script) >= 1 /\ Len(delivered[Worker]) >= Len(Script)

(* Where Main is (a) and what it may then be doing: inside of the call o,  *)
(* its loop at l, k messages sent and n dispatched, the worker at w and in *)
(* the state x of its life.                                                *)
MainAt(a, done, o, l, run_once, k, n, w, x) ==
  /\ a \in {"top", "start", "send", "loop", "stopped", "join"}
  /\ done \in BOOLEAN
  /\ done => a \in {"loop", "join"} /\ n = 1 /\ l # "handler"
  /\ l = "handler" => n = 1
  /\ l # "off" => run_once /\ a \in {"loop", "stopped"}
  /\ a \in {"top", "start"} => o = NoCall /\ k = 0 /\ x = "new" /\ w = "top"
  /\ a = "send" => k <= Len(Script)
                   /\ (o.at = "none" \/ (o.at \in {"start", "send_signal"} /\ o.to = Worker))
  /\ a = "loop" => o.at = "none" /\ (~done => k = Len(Script)) /\ (done => k = Len(Script) + 1)
  /\ a = "stopped" =>
       /\ l = "handler"
       /\ o.at = "none" \/ (o.at \in {"stop_push", "stop_signal"} /\ o.to = Worker)
       /\ o.at = "stop_push" => k = Len(Script)
       /\ o.at # "stop_push" => k = Len(Script) + 1
  /\ a = "join" => done /\ ((o = NoCall /\ x = "new") \/ (o.at = "join" /\ o.to = Worker))

MainPhase ==
  MainAt(at[Main], done_, op[Main], loop[Main], once[Main], sent[Main], Len(delivered[Main]),
         at[Worker], life[Worker])

(* The same of the worker, with the handlers hs registered. *)
WorkerAt(a, o, l, run_once, k, n, hs, x) ==
  /\ a \in {"top", "second", "ready", "loop", "reported", "returned"}
  /\ l # "off" => ~run_once /\ a \in {"loop", "reported"}
  /\ a \in {"top", "second", "ready"} => n = 0
  /\ a \in {"second", "ready", "loop", "reported"} => x = "running"
  /\ a = "top" => x \notin {"ending", "ended"}
  /\ a = "second" => kMessageType1 \in hs
  /\ a \in {"ready", "loop", "reported", "returned"} => kMessageType1 \in hs /\ kMessageType2 \in hs
  /\ a = "loop" /\ l = "off" => n = Len(Script) + 1
  /\ a = "returned" => n = Len(Script) + 1
  /\ a = "reported" => /\ l = "handler" /\ k = 1
                       /\ o.at = "none" \/ (o.at = "send_signal" /\ o.to = Main)
  /\ a # "reported" => o.at = "none"

WorkerPhase ==
  WorkerAt(at[Worker], op[Worker], loop[Worker], once[Worker], sent[Worker],
           Len(delivered[Worker]), handlers_, life[Worker])

Place == {"top", "start", "send", "loop", "stopped", "join", "second", "ready", "reported", "returned"}

OthersRest == \A t \in Thread \ {Main, Worker} : life[t] = "new"

DemoInv == at \in [Thread -> Place] /\ DemoMail /\ Counts /\ MainPhase /\ WorkerPhase /\ OthersRest

(* The recursion that CountAfter is defined by has a solution. *)
CountStep(before, y, i) == before + (IF Script[i].type = y THEN Script[i].data ELSE 0)

CountsUpTo(f, y, n) == f = [i \in 0 .. n |-> IF i = 0 THEN 0 ELSE CountStep(f[i - 1], y, i)]

LEMMA CountExtends ==
  ASSUME NEW y, NEW n \in Nat, NEW f, CountsUpTo(f, y, n)
  PROVE  \E g : CountsUpTo(g, y, n + 1)
<1> DEFINE g == [i \in 0 .. n + 1 |-> IF i <= n THEN f[i] ELSE CountStep(f[n], y, n + 1)]
<1>1. \A i \in 0 .. n : f[i] = IF i = 0 THEN 0 ELSE CountStep(f[i - 1], y, i)
  BY DEF CountsUpTo
<1>2. (\A i \in 0 .. n : g[i] = f[i]) /\ g[n + 1] = CountStep(f[n], y, n + 1)
  OBVIOUS
<1>3. ASSUME NEW i \in 0 .. n + 1
      PROVE  g[i] = IF i = 0 THEN 0 ELSE CountStep(g[i - 1], y, i)
  <2> HIDE DEF g
  <2>1. CASE i = n + 1
    <3>1. i # 0 /\ i - 1 = n /\ n \in 0 .. n
      BY <2>1
    <3> QED
      BY <1>2, <2>1, <3>1
  <2>2. CASE i # n + 1
    <3>1. i \in 0 .. n /\ (i # 0 => i - 1 \in 0 .. n)
      BY <2>2
    <3> QED
      BY <1>1, <1>2, <3>1
  <2> QED
    BY <2>1, <2>2
<1> DEFINE h == [i \in 0 .. n + 1 |-> IF i = 0 THEN 0 ELSE CountStep(g[i - 1], y, i)]
<1>4. g = h
  <2>1. \A i \in 0 .. n + 1 : g[i] = h[i]
    BY <1>3
  <2>2. g = [i \in 0 .. n + 1 |-> g[i]]
    OBVIOUS
  <2> QED
    BY <2>1, <2>2
<1>5. CountsUpTo(g, y, n + 1)
  BY <1>4 DEF CountsUpTo
<1> QED
  BY <1>5

LEMMA CountExists ==
  ASSUME NEW y, NEW n \in Nat
  PROVE  \E f : CountsUpTo(f, y, n)
<1> DEFINE Wrong == {i \in Nat : ~ \E f : CountsUpTo(f, y, i)}
<1>1. SUFFICES ASSUME Wrong # {} PROVE FALSE
  OBVIOUS
<1> DEFINE R == OpToRel(<, Nat)
<1>2. PICK k \in Wrong : \A j \in Wrong : <<j, k>> \notin R
  BY <1>1, NatLessThanWellFounded, WFMin
<1>3. k \in Nat /\ ~ \E f : CountsUpTo(f, y, k)
  OBVIOUS
<1>4. k # 0
  <2> DEFINE f == [i \in 0 .. 0 |-> 0]
  <2>1. f = [i \in 0 .. 0 |-> IF i = 0 THEN 0 ELSE CountStep(f[i - 1], y, i)]
    OBVIOUS
  <2>2. CountsUpTo(f, y, 0)
    BY <2>1 DEF CountsUpTo
  <2> QED
    BY <1>3, <2>2
<1>5. k - 1 \in Nat /\ (k - 1) + 1 = k
  BY <1>3, <1>4
<1>6. \E f : CountsUpTo(f, y, k - 1)
  <2>1. <<k - 1, k>> \in R
    BY <1>3, <1>5 DEF OpToRel
  <2>2. k - 1 \notin Wrong
    BY <1>2, <2>1
  <2> QED
    BY <1>5, <2>2
<1>7. \E f : CountsUpTo(f, y, (k - 1) + 1)
  BY <1>5, <1>6, CountExtends
<1> QED
  BY <1>3, <1>5, <1>7

LEMMA ScriptLength == Len(Script) \in Nat /\ \A i \in 1 .. Len(Script) : Script[i] \in [type : WorkerTypes, data : Nat]
<1>1. ASSUME NEW S, NEW s \in Seq(S) PROVE Len(s) \in Nat /\ \A i \in 1 .. Len(s) : s[i] \in S
  OBVIOUS
<1> QED
  BY <1>1, DemoAssumption, Zenon

LEMMA CountAfterIs ==
  ASSUME NEW y
  PROVE  /\ CountAfter(y)[0] = 0
         /\ \A i \in 1 .. Len(Script) : CountAfter(y)[i] = CountStep(CountAfter(y)[i - 1], y, i)
<1> DEFINE n == Len(Script)
           u == CHOOSE f : CountsUpTo(f, y, n)
<1>1. CountsUpTo(u, y, n)
  BY ScriptLength, CountExists
<1>2. CountAfter(y) = u
  BY DEF CountAfter, CountsUpTo, CountStep
<1> HIDE DEF u
<1>3. \A i \in 0 .. n : u[i] = IF i = 0 THEN 0 ELSE CountStep(u[i - 1], y, i)
  BY <1>1 DEF CountsUpTo
<1> QED
  BY <1>2, <1>3, ScriptLength

-----------------------------------------------------------------------------
(* Every step of the demo is a step that ThreadQueue allows. *)
LEMMA DemoTypes ==
  ASSUME IInv, DemoInv
  PROVE  /\ Main \in Thread /\ Worker \in Thread /\ Worker # Main
         /\ at \in [Thread -> Place]
         /\ delivered \in [Thread -> Seq(Message)] /\ local \in [Thread -> Seq(Message)]
         /\ event_queue_ \in [Thread -> Seq(Message)]
         /\ sent \in [Thread -> Nat] /\ sent[Main] \in Nat /\ sent[Worker] \in Nat
         /\ Len(delivered[Main]) \in Nat /\ Len(delivered[Worker]) \in Nat
         /\ Len(local[Main]) \in Nat /\ Len(local[Worker]) \in Nat
         /\ Len(event_queue_[Main]) \in Nat /\ Len(event_queue_[Worker]) \in Nat
<1>1. Main \in Thread /\ Worker \in Thread /\ Worker # Main
  BY DemoAssumption, ThreadAssumption
<1>2. /\ delivered \in [Thread -> Seq(Message)] /\ local \in [Thread -> Seq(Message)]
      /\ event_queue_ \in [Thread -> Seq(Message)]
  BY DEF IInv, TypeOK, MessageTypeOK
<1>3. sent \in [Thread -> Nat] /\ sent[Main] \in Nat /\ sent[Worker] \in Nat
  BY <1>1, BoundAssumption DEF IInv, TypeOK, CallTypeOK
<1> QED
  BY <1>1, <1>2, <1>3 DEF DemoInv

LEMMA CurrentOfMain ==
  ASSUME IInv, DemoInv, loop[Main] = "handler"
  PROVE  Current(Main).from = Worker
<1>1. Len(delivered[Main]) = 1 /\ MainMail(delivered[Main], local[Main], event_queue_[Main], sent[Worker])
  BY DEF DemoInv, MainPhase, MainAt, DemoMail
<1> QED
  BY <1>1, DemoTypes DEF MainMail, Current

LEMMA CurrentOfWorker ==
  ASSUME IInv, DemoInv, Counting
  PROVE  /\ Len(delivered[Worker]) \in 1 .. Len(Script)
         /\ Current(Worker) = ScriptMessage(Len(delivered[Worker]))
         /\ Current(Worker).from = Main /\ Current(Worker).n = Len(delivered[Worker])
         /\ Current(Worker).type = Script[Len(delivered[Worker])].type
         /\ Current(Worker).type \in WorkerTypes
<1>1. /\ Len(delivered[Worker]) \in 1 .. Len(Script)
      /\ WorkerMail(delivered[Worker], local[Worker], event_queue_[Worker], sent[Main])
  BY DEF DemoInv, Counts, DemoMail
<1>2. Current(Worker) = ScriptMessage(Len(delivered[Worker]))
  BY <1>1, DemoTypes DEF WorkerMail, Current
<1> QED
  BY <1>1, <1>2, ScriptLength DEF ScriptMessage

LEMMA MainIsClient == ASSUME IInv, DemoInv, MainProgram PROVE UserStep(Main) \/ UNCHANGED vars
<1> USE DemoTypes, DemoAssumption
<1>1. CASE RegisterHandler(Main, kMessageType3)
  BY <1>1 DEF UserStep
<1>2. CASE ThreadStart(Worker) \/ ThreadJoin(Worker)
  BY <1>2 DEF UserStep
<1>3. CASE sent[Main] < Len(Script) /\ SendPush(Main, Worker, Script[sent[Main] + 1].type)
  <2>1. sent[Main] + 1 \in 1 .. Len(Script)
    BY <1>3, ScriptLength
  <2>2. Script[sent[Main] + 1].type \in Type
    BY <2>1, ScriptLength
  <2> QED
    BY <1>3, <2>2 DEF UserStep
<1>4. CASE LoopStart(Main, TRUE)
  BY <1>4 DEF UserStep
<1> QED
  BY <1>1, <1>2, <1>3, <1>4 DEF MainProgram

LEMMA WorkerIsClient == ASSUME IInv, DemoInv, WorkerRun \/ WorkerHandler PROVE UserStep(Worker)
<1> USE DemoTypes, DemoAssumption
<1>1. CASE RegisterHandler(Worker, kMessageType1) \/ RegisterHandler(Worker, kMessageType2)
  BY <1>1 DEF UserStep, WorkerTypes
<1>2. CASE LoopStart(Worker, FALSE) \/ RunReturns(Worker) \/ HandlerReturns(Worker)
  BY <1>2 DEF UserStep
<1>3. CASE SendPush(Worker, Current(Worker).from, kMessageType3) /\ Counting
  <2>1. Current(Worker).from = Main
    BY <1>3, CurrentOfWorker
  <2> QED
    BY <1>3, <2>1 DEF UserStep
<1> QED
  BY <1>1, <1>2, <1>3 DEF WorkerRun, WorkerHandler, Counting, Move

LEMMA DemoIsClientStep == ASSUME IInv, DemoInv, DemoNext PROVE [Next]_vars
<1>1. ASSUME NEW t \in Thread, Proceed(t) \/ UserStep(t) PROVE Next
  BY <1>1 DEF Next, DemoNext
<1>2. CASE MainProgram
  BY <1>1, <1>2, MainIsClient, DemoTypes
<1>3. CASE WorkerRun \/ WorkerHandler
  BY <1>1, <1>3, WorkerIsClient, DemoTypes
<1>4. CASE MainHandler
  <2>1. Current(Main).from = Worker
    BY <1>4, CurrentOfMain DEF MainHandler
  <2>2. UserStep(Main)
    BY <1>4, <2>1, DemoTypes DEF MainHandler, UserStep
  <2> QED
    BY <1>1, <2>2, DemoTypes
<1>5. CASE Library
  BY <1>1, <1>5 DEF Library
<1> QED
  BY <1>2, <1>3, <1>4, <1>5 DEF DemoNext

-----------------------------------------------------------------------------
(* What sending, popping and dispatching do to the mail. *)
LEMMA WorkerMailSends ==
  ASSUME NEW d \in Seq(Message), NEW l \in Seq(Message), NEW q \in Seq(Message), NEW k \in Nat,
         WorkerMail(d, l, q, k), k <= Len(Script), NEW m \in Message, m = ScriptMessage(k + 1)
  PROVE  WorkerMail(d, l, Append(q, m), k + 1)
<1>1. Len(d) \in Nat /\ Len(l) \in Nat /\ Len(q) \in Nat
  OBVIOUS
<1>2. /\ Len(Append(q, m)) = Len(q) + 1 /\ Append(q, m)[Len(q) + 1] = m
      /\ \A i \in 1 .. Len(q) : Append(q, m)[i] = q[i]
  BY AppendProperties
<1>3. ASSUME NEW i \in 1 .. Len(q) + 1
      PROVE  Append(q, m)[i] = ScriptMessage(Len(d) + Len(l) + i)
  <2>1. CASE i \in 1 .. Len(q)
    BY <1>2, <2>1 DEF WorkerMail
  <2>2. CASE i = Len(q) + 1
    <3>1. Len(d) + Len(l) + i = k + 1
      <4>1. Len(d) + Len(l) + Len(q) = k
        BY DEF WorkerMail
      <4> QED
        BY <1>1, <2>2, <4>1
    <3> QED
      BY <1>2, <2>2, <3>1
  <2> QED
    BY <1>1, <2>1, <2>2
<1> QED
  BY <1>1, <1>2, <1>3, ScriptLength DEF WorkerMail

LEMMA WorkerMailPops ==
  ASSUME NEW d \in Seq(Message), NEW q \in Seq(Message), NEW k, WorkerMail(d, <<>>, q, k)
  PROVE  WorkerMail(d, q, <<>>, k)
<1>1. Len(d) \in Nat /\ Len(q) \in Nat /\ Len(<<>>) = 0 /\ Len(d) + 0 = Len(d)
  BY EmptySeq
<1> QED
  BY <1>1 DEF WorkerMail

LEMMA WorkerMailDispatches ==
  ASSUME NEW d \in Seq(Message), NEW l \in Seq(Message), NEW q \in Seq(Message), NEW k \in Nat,
         WorkerMail(d, l, q, k), l # <<>>
  PROVE  /\ Head(l) \in Message /\ Head(l) = ScriptMessage(Len(d) + 1)
         /\ Append(d, Head(l)) \in Seq(Message) /\ Tail(l) \in Seq(Message)
         /\ Len(Append(d, Head(l))) = Len(d) + 1
         /\ WorkerMail(Append(d, Head(l)), Tail(l), q, k)
<1> DEFINE m == Head(l)
           e == Append(d, m)
<1>1. Len(d) \in Nat /\ Len(l) \in Nat /\ Len(q) \in Nat /\ Len(l) >= 1
  BY EmptySeq
<1>2. /\ m = l[1] /\ m \in Message /\ Tail(l) \in Seq(Message) /\ Len(Tail(l)) = Len(l) - 1
      /\ \A i \in 1 .. Len(l) - 1 : Tail(l)[i] = l[i + 1]
  BY <1>1, HeadTailProperties
<1>3. /\ e \in Seq(Message) /\ Len(e) = Len(d) + 1 /\ e[Len(d) + 1] = m
      /\ \A i \in 1 .. Len(d) : e[i] = d[i]
  BY <1>2, AppendProperties
<1>4. m = ScriptMessage(Len(d) + 1)
  BY <1>1, <1>2 DEF WorkerMail
<1> HIDE DEF e, m
<1>5. \A i \in 1 .. Len(d) + 1 : e[i] = ScriptMessage(i)
  <2> TAKE i \in 1 .. Len(d) + 1
  <2>1. i \in 1 .. Len(d) \/ i = Len(d) + 1
    BY <1>1
  <2> QED
    BY <2>1, <1>3, <1>4 DEF WorkerMail
<1>6. \A i \in 1 .. Len(l) - 1 : Tail(l)[i] = ScriptMessage(Len(e) + i)
  <2> TAKE i \in 1 .. Len(l) - 1
  <2>1. i + 1 \in 1 .. Len(l) /\ Len(e) + i = Len(d) + (i + 1)
    BY <1>1, <1>3
  <2>2. l[i + 1] = ScriptMessage(Len(d) + (i + 1))
    BY <2>1 DEF WorkerMail
  <2> QED
    BY <2>1, <2>2, <1>2
<1>7. \A i \in 1 .. Len(q) : q[i] = ScriptMessage(Len(e) + Len(Tail(l)) + i)
  <2>1. Len(e) + Len(Tail(l)) = Len(d) + Len(l)
    BY <1>1, <1>2, <1>3
  <2> QED
    BY <2>1 DEF WorkerMail
<1>8. Len(e) + Len(Tail(l)) + Len(q) = k
  <2>1. Len(d) + Len(l) + Len(q) = k
    BY DEF WorkerMail
  <2>2. \A a, b, c \in Nat : a + b + c = k => (a + 1) + (b - 1) + c = k
    OBVIOUS
  <2>3. (Len(d) + 1) + (Len(l) - 1) + Len(q) = k
    BY <1>1, <2>1, <2>2
  <2> QED
    BY <1>2, <1>3, <2>3
<1>9. WorkerMail(e, Tail(l), q, k)
  BY <1>2, <1>3, <1>5, <1>6, <1>7, <1>8 DEF WorkerMail
<1> QED
  BY <1>2, <1>3, <1>4, <1>9 DEF e, m

(* Exit is the last message of all. *)
LEMMA ExitIsLast ==
  ASSUME NEW d \in Seq(Message), NEW l \in Seq(Message), NEW q \in Seq(Message), NEW k \in Nat,
         WorkerMail(d, l, q, k), l # <<>>, Head(l).type = Exit
  PROVE  Len(d) = Len(Script) /\ k = Len(Script) + 1 /\ Tail(l) = <<>> /\ q = <<>>
<1>1. Len(d) \in Nat /\ Len(l) \in Nat /\ Len(q) \in Nat /\ Len(l) >= 1
  BY EmptySeq
<1>2. Head(l) = ScriptMessage(Len(d) + 1)
  BY WorkerMailDispatches
<1>3. ~(Len(d) + 1 <= Len(Script))
  <2>1. SUFFICES ASSUME Len(d) + 1 <= Len(Script) PROVE FALSE
    OBVIOUS
  <2>2. Len(d) + 1 \in 1 .. Len(Script) /\ ScriptMessage(Len(d) + 1).type = Script[Len(d) + 1].type
    BY <1>1, <2>1, ScriptLength DEF ScriptMessage
  <2>3. Script[Len(d) + 1].type \in Type
    BY <2>2, ScriptLength, DemoAssumption
  <2> QED
    BY <1>2, <2>2, <2>3, TypeAssumption
<1>4. Len(d) = Len(Script) /\ k = Len(Script) + 1 /\ Len(l) = 1 /\ Len(q) = 0
  <2>1. Len(d) + Len(l) + Len(q) = k /\ k <= Len(Script) + 1
    BY DEF WorkerMail
  <2>2. \A a, b, c, n \in Nat : a + b + c = k /\ k <= n + 1 /\ ~(a + 1 <= n) /\ b >= 1 =>
          a = n /\ k = n + 1 /\ b = 1 /\ c = 0
    OBVIOUS
  <2> QED
    BY <1>1, <1>3, <2>1, <2>2, ScriptLength
<1>5. q = <<>>
  BY <1>4, EmptySeq
<1>6. Tail(l) \in Seq(Message) /\ Len(Tail(l)) = 0
  BY <1>1, <1>4, HeadTailProperties
<1> QED
  BY <1>4, <1>5, <1>6, EmptySeq

LEMMA MainMailSends ==
  ASSUME NEW d \in Seq(Message), NEW l \in Seq(Message), NEW q \in Seq(Message), NEW k \in Nat,
         MainMail(d, l, q, k), k = 0, NEW m \in Message, m.from = Worker
  PROVE  MainMail(d, l, Append(q, m), k + 1)
<1>1. Len(d) \in Nat /\ Len(l) \in Nat /\ Len(q) \in Nat
  OBVIOUS
<1>2. Len(Append(q, m)) = Len(q) + 1 /\ \A i \in 1 .. Len(q) + 1 : Append(q, m)[i] = IF i <= Len(q) THEN q[i] ELSE m
  BY AppendProperties
<1> QED
  BY <1>1, <1>2 DEF MainMail

LEMMA MainMailPops ==
  ASSUME NEW d \in Seq(Message), NEW q \in Seq(Message), NEW k, MainMail(d, <<>>, q, k)
  PROVE  MainMail(d, q, <<>>, k)
<1>1. Len(d) \in Nat /\ Len(q) \in Nat /\ Len(<<>>) = 0
  BY EmptySeq
<1> QED
  BY <1>1 DEF MainMail

LEMMA MainMailDispatches ==
  ASSUME NEW d \in Seq(Message), NEW l \in Seq(Message), NEW q \in Seq(Message), NEW k \in Nat,
         MainMail(d, l, q, k), l # <<>>
  PROVE  /\ Append(d, Head(l)) \in Seq(Message) /\ Tail(l) \in Seq(Message)
         /\ Len(d) = 0 /\ k = 1 /\ Len(Append(d, Head(l))) = 1
         /\ MainMail(Append(d, Head(l)), Tail(l), q, k)
<1>1. Len(d) \in Nat /\ Len(l) \in Nat /\ Len(q) \in Nat /\ Len(l) >= 1
  BY EmptySeq
<1>2. /\ Head(l) = l[1] /\ Head(l) \in Message /\ Tail(l) \in Seq(Message) /\ Len(Tail(l)) = Len(l) - 1
      /\ \A i \in 1 .. Len(l) - 1 : Tail(l)[i] = l[i + 1]
  BY <1>1, HeadTailProperties
<1>3. /\ Append(d, Head(l)) \in Seq(Message) /\ Len(Append(d, Head(l))) = Len(d) + 1
      /\ \A i \in 1 .. Len(d) + 1 : Append(d, Head(l))[i] = IF i <= Len(d) THEN d[i] ELSE Head(l)
  BY <1>2, AppendProperties
<1>4. Len(d) = 0 /\ Len(l) = 1 /\ Len(q) = 0 /\ k = 1
  <2>1. Len(d) + Len(l) + Len(q) = k /\ k <= 1
    BY DEF MainMail
  <2>2. PICK a, b, c \in Nat : a = Len(d) /\ b = Len(l) /\ c = Len(q) /\ b >= 1
    BY <1>1
  <2>3. a + b + c = k /\ k <= 1
    BY <2>1, <2>2
  <2>4. a = 0 /\ b = 1 /\ c = 0 /\ k = 1
    BY <2>2, <2>3
  <2> QED
    BY <2>2, <2>4
<1>5. \A i \in 1 .. Len(d) + 1 : Append(d, Head(l))[i].from = Worker
  BY <1>1, <1>2, <1>3, <1>4 DEF MainMail
<1>6. \A i \in 1 .. Len(q) : q[i].from = Worker
  BY DEF MainMail
<1>7. Len(Tail(l)) = 0 /\ Len(Append(d, Head(l))) = 1
  BY <1>2, <1>3, <1>4
<1>8. MainMail(Append(d, Head(l)), Tail(l), q, k)
  <2>1. 1 + 0 + 0 = 1 /\ 1 <= 1 /\ 1 .. 0 = {}
    OBVIOUS
  <2>2. \A i \in 1 .. 1 : Append(d, Head(l))[i].from = Worker
    BY <1>4, <1>5
  <2>3. \A i \in 1 .. 0 : Tail(l)[i].from = Worker
    BY <2>1
  <2> QED
    BY <1>4, <1>6, <1>7, <2>1, <2>2, <2>3 DEF MainMail
<1> QED
  BY <1>2, <1>3, <1>4, <1>7, <1>8

-----------------------------------------------------------------------------
(* Steps that leave the mail and the counts alone. *)
Quiet ==
  /\ UNCHANGED <<sent, delivered, local, event_queue_, discarded, count_>>
  /\ Counting' <=> Counting

LEMMA QuietKeeps == ASSUME DemoInv, Quiet PROVE DemoMail' /\ Counts'
<1>1. /\ sent' = sent /\ delivered' = delivered /\ local' = local /\ event_queue_' = event_queue_
      /\ discarded' = discarded /\ count_' = count_ /\ (Counting' <=> Counting)
  BY DEF Quiet
<1>2. Handled' = Handled
  BY <1>1 DEF Handled
<1>3. DemoMail'
  BY <1>1 DEF DemoInv, DemoMail
<1> HIDE DEF Quiet
<1>4. Counts'
  BY <1>1, <1>2 DEF DemoInv, Counts
<1> QED
  BY <1>3, <1>4

Phases == at \in [Thread -> Place] /\ MainPhase /\ WorkerPhase /\ OthersRest

(* What a step of the other thread leaves alone. *)
MainStays ==
  /\ at'[Main] = at[Main] /\ done_' = done_ /\ op'[Main] = op[Main]
  /\ loop'[Main] = loop[Main] /\ once'[Main] = once[Main]
  /\ sent'[Main] = sent[Main] /\ delivered'[Main] = delivered[Main]
  /\ life[Worker] = "new" => life'[Worker] = "new" /\ at'[Worker] = at[Worker]

WorkerStays ==
  /\ at'[Worker] = at[Worker] /\ op'[Worker] = op[Worker]
  /\ loop'[Worker] = loop[Worker] /\ once'[Worker] = once[Worker]
  /\ sent'[Worker] = sent[Worker] /\ delivered'[Worker] = delivered[Worker]
  /\ handlers_ \subseteq handlers_' /\ life'[Worker] = life[Worker]

LEMMA MainStaysKeeps == ASSUME MainPhase, MainStays PROVE MainPhase'
  BY DEF MainPhase, MainAt, MainStays

LEMMA WorkerStaysKeeps == ASSUME WorkerPhase, WorkerStays PROVE WorkerPhase'
  BY DEF WorkerPhase, WorkerAt, WorkerStays

LEMMA InvFacts ==
  ASSUME IInv, MailInv, DemoInv
  PROVE  /\ Phases /\ Batches
         /\ ThreadTypeOK /\ CallTypeOK /\ MainRuns /\ OnlyRunningCalls /\ QueueExists /\ MutexHeldBySender
         /\ Main \in Thread /\ Worker \in Thread /\ Worker # Main
         /\ Len(Script) \in Nat
  BY DemoTypes, ScriptLength DEF IInv, MailInv, DemoInv, Phases, TypeOK, LifeInv, CallInv

(* Main's own statements, but for Send. *)
LEMMA MainRegisters ==
  ASSUME IInv, MailInv, DemoInv, Move(Main, "top", "start"), RegisterHandler(Main, kMessageType3),
         UNCHANGED <<count_, done_>>
  PROVE  Quiet /\ Phases'
<1> USE InvFacts, DemoTypes
    DEF Move, RegisterHandler, threadVars, queueVars, loopVars, historyVars
<1>1. WorkerStays /\ Quiet /\ OthersRest' /\ at' \in [Thread -> Place]
  BY DEF Place, WorkerStays, Quiet, Counting, OthersRest, Phases
<1>2. /\ at'[Main] = "start" /\ at[Main] = "top" /\ done_' = done_ /\ op' = op /\ loop' = loop /\ once' = once
      /\ sent' = sent /\ delivered' = delivered /\ life' = life /\ at'[Worker] = at[Worker]
  OBVIOUS
<1>3. MainPhase'
  BY <1>2 DEF Phases, MainPhase, MainAt
<1> QED
  BY <1>1, <1>3, WorkerStaysKeeps DEF Phases

LEMMA MainStartsWorker ==
  ASSUME IInv, MailInv, DemoInv, Move(Main, "start", "send"), ThreadStart(Worker),
         UNCHANGED <<count_, done_>>
  PROVE  Quiet /\ Phases'
<1> USE InvFacts, DemoTypes
    DEF Move, ThreadStart, Become, Enter, threadVars, queueVars, loopVars, historyVars
<1>1. Quiet /\ OthersRest' /\ at' \in [Thread -> Place]
  BY DEF Place, Quiet, Counting, OthersRest, Phases, ThreadTypeOK
<1>2. /\ at'[Main] = "send" /\ at[Main] = "start" /\ done_' = done_ /\ loop' = loop /\ once' = once
      /\ sent' = sent /\ delivered' = delivered /\ at'[Worker] = at[Worker] /\ handlers_' = handlers_
      /\ life'[Worker] = "starting" /\ life[Worker] = "new"
      /\ op'[Main].at = "start" /\ op'[Main].to = Worker /\ op'[Worker] = op[Worker]
  BY DEF Call, ThreadTypeOK, CallTypeOK
<1>3. MainPhase'
  BY <1>2 DEF Phases, MainPhase, MainAt
<1>4. WorkerPhase'
  BY <1>2 DEF Phases, WorkerPhase, WorkerAt
<1> QED
  BY <1>1, <1>3, <1>4 DEF Phases

LEMMA MainGoesToLoop ==
  ASSUME IInv, MailInv, DemoInv, Move(Main, "send", "loop"), sent[Main] = Len(Script), InUserCode(Main),
         UNCHANGED <<vars, count_, done_>>
  PROVE  Quiet /\ Phases'
<1> USE InvFacts, DemoTypes
    DEF Move, vars, threadVars, queueVars, loopVars, historyVars
<1>1. WorkerStays /\ Quiet /\ OthersRest' /\ at' \in [Thread -> Place]
  BY DEF Place, WorkerStays, Quiet, Counting, OthersRest, Phases
<1>2. /\ at'[Main] = "loop" /\ at[Main] = "send" /\ done_' = done_ /\ op' = op /\ loop' = loop /\ once' = once
      /\ sent' = sent /\ delivered' = delivered /\ life' = life /\ at'[Worker] = at[Worker]
      /\ op[Main].at = "none"
  BY DEF InUserCode
<1>3. MainPhase'
  BY <1>2 DEF Phases, MainPhase, MainAt
<1> QED
  BY <1>1, <1>3, WorkerStaysKeeps DEF Phases

LEMMA MainRunsOnce ==
  ASSUME IInv, MailInv, DemoInv, Move(Main, "loop", "loop"), ~done_, LoopStart(Main, TRUE),
         UNCHANGED <<count_, done_>>
  PROVE  Quiet /\ Phases'
<1> USE InvFacts, DemoTypes
    DEF Move, LoopStart, Loop, threadVars, queueVars, loopVars, historyVars
<1>1. WorkerStays /\ Quiet /\ OthersRest' /\ at' \in [Thread -> Place]
  BY DEF Place, WorkerStays, Quiet, Counting, OthersRest, Phases, CallTypeOK
<1>2. /\ at'[Main] = "loop" /\ at[Main] = "loop" /\ done_' = done_ /\ op' = op
      /\ loop'[Main] = "wait" /\ once'[Main] = TRUE
      /\ sent' = sent /\ delivered' = delivered /\ life' = life /\ at'[Worker] = at[Worker]
  BY DEF CallTypeOK
<1>3. MainPhase'
  BY <1>2 DEF Phases, MainPhase, MainAt
<1> QED
  BY <1>1, <1>3, WorkerStaysKeeps DEF Phases

LEMMA MainJoins ==
  ASSUME IInv, MailInv, DemoInv, Move(Main, "loop", "join"), done_, ThreadJoin(Worker),
         UNCHANGED <<count_, done_>>
  PROVE  Quiet /\ Phases'
<1> USE InvFacts, DemoTypes
    DEF Move, ThreadJoin, InUserCode, Enter, threadVars, queueVars, loopVars, historyVars
<1>1. WorkerStays /\ Quiet /\ OthersRest' /\ at' \in [Thread -> Place]
  BY DEF Place, WorkerStays, Quiet, Counting, OthersRest, Phases, CallTypeOK
<1>2. /\ at'[Main] = "join" /\ at[Main] = "loop" /\ done_' = TRUE /\ done_ = TRUE
      /\ op'[Main].at = "join" /\ op'[Main].to = Worker
      /\ loop' = loop /\ once' = once /\ loop[Main] \in {"off", "handler"}
      /\ sent' = sent /\ delivered' = delivered /\ life' = life /\ at'[Worker] = at[Worker]
  BY DEF CallTypeOK, Call, Phases, MainPhase, MainAt
<1>3. MainPhase'
  BY <1>2 DEF Phases, MainPhase, MainAt
<1> QED
  BY <1>1, <1>3, WorkerStaysKeeps DEF Phases

LEMMA MainStops ==
  ASSUME IInv, MailInv, DemoInv, loop[Main] = "handler", Move(Main, "loop", "stopped"), Stop(Main, Worker),
         UNCHANGED <<count_, done_>>
  PROVE  Quiet /\ Phases'
<1> USE InvFacts, DemoTypes
    DEF Move, Stop, Enter, threadVars, queueVars, loopVars, historyVars
<1>1. WorkerStays /\ Quiet /\ OthersRest' /\ at' \in [Thread -> Place]
  BY DEF Place, WorkerStays, Quiet, Counting, OthersRest, Phases, CallTypeOK
<1>2. /\ at'[Main] = "stopped" /\ at[Main] = "loop" /\ done_' = done_
      /\ op'[Main].at = "stop_push" /\ op'[Main].to = Worker
      /\ loop' = loop /\ once' = once
      /\ sent' = sent /\ delivered' = delivered /\ life' = life /\ at'[Worker] = at[Worker]
  BY DEF CallTypeOK, Call
<1>3. MainPhase'
  BY <1>2 DEF Phases, MainPhase, MainAt
<1> QED
  BY <1>1, <1>3, WorkerStaysKeeps DEF Phases

LEMMA MainIsDone ==
  ASSUME IInv, MailInv, DemoInv, loop[Main] = "handler", Move(Main, "stopped", "loop"), HandlerReturns(Main),
         done_' = TRUE, UNCHANGED count_
  PROVE  Quiet /\ Phases'
<1> USE InvFacts, DemoTypes
    DEF Move, HandlerReturns, Loop, threadVars, queueVars, loopVars, historyVars
<1>1. WorkerStays /\ Quiet /\ OthersRest' /\ at' \in [Thread -> Place]
  BY DEF Place, WorkerStays, Quiet, Counting, OthersRest, Phases, CallTypeOK
<1>2. /\ at'[Main] = "loop" /\ at[Main] = "stopped" /\ op' = op /\ op[Main].at = "none"
      /\ loop'[Main] = "dispatch" /\ once' = once
      /\ sent' = sent /\ delivered' = delivered /\ life' = life /\ at'[Worker] = at[Worker]
  BY DEF CallTypeOK
<1>3. MainPhase'
  BY <1>2 DEF Phases, MainPhase, MainAt
<1> QED
  BY <1>1, <1>3, WorkerStaysKeeps DEF Phases

(* The worker's Run, and the end of a handler that has reported. *)
LEMMA WorkerRegisters1 ==
  ASSUME IInv, MailInv, DemoInv, Move(Worker, "top", "second"), RegisterHandler(Worker, kMessageType1),
         UNCHANGED <<count_, done_>>
  PROVE  Quiet /\ Phases'
<1> USE InvFacts, DemoTypes
    DEF Move, RegisterHandler, InUserCode, threadVars, queueVars, loopVars, historyVars
<1>1. MainStays /\ Quiet /\ OthersRest' /\ at' \in [Thread -> Place]
  BY DEF Place, Quiet, Counting, OthersRest, Phases, ThreadTypeOK, CallTypeOK, MainStays
<1>2. /\ at'[Worker] = "second" /\ at[Worker] = "top" /\ op' = op /\ loop' = loop /\ once' = once
      /\ sent' = sent /\ delivered' = delivered /\ life' = life /\ life[Worker] = "running"
      /\ handlers_' = handlers_ \cup {kMessageType1}
  BY DEF Phases
<1>3. WorkerPhase'
  BY <1>2 DEF Phases, WorkerPhase, WorkerAt
<1> QED
  BY <1>1, MainStaysKeeps, <1>3 DEF Phases

LEMMA WorkerRegisters2 ==
  ASSUME IInv, MailInv, DemoInv, Move(Worker, "second", "ready"), RegisterHandler(Worker, kMessageType2),
         UNCHANGED <<count_, done_>>
  PROVE  Quiet /\ Phases'
<1> USE InvFacts, DemoTypes
    DEF Move, RegisterHandler, InUserCode, threadVars, queueVars, loopVars, historyVars
<1>1. MainStays /\ Quiet /\ OthersRest' /\ at' \in [Thread -> Place]
  BY DEF Place, Quiet, Counting, OthersRest, Phases, ThreadTypeOK, CallTypeOK, MainStays
<1>2. /\ at'[Worker] = "ready" /\ at[Worker] = "second" /\ op' = op /\ loop' = loop /\ once' = once
      /\ sent' = sent /\ delivered' = delivered /\ life' = life /\ life[Worker] = "running"
      /\ handlers_' = handlers_ \cup {kMessageType2}
  BY DEF Phases
<1>3. WorkerPhase'
  BY <1>2 DEF Phases, WorkerPhase, WorkerAt
<1> QED
  BY <1>1, MainStaysKeeps, <1>3 DEF Phases

LEMMA WorkerStarts ==
  ASSUME IInv, MailInv, DemoInv, Move(Worker, "ready", "loop"), LoopStart(Worker, FALSE),
         UNCHANGED <<count_, done_>>
  PROVE  Quiet /\ Phases'
<1> USE InvFacts, DemoTypes
    DEF Move, LoopStart, Loop, InUserCode, threadVars, queueVars, loopVars, historyVars
<1>1. MainStays /\ Quiet /\ OthersRest' /\ at' \in [Thread -> Place]
  BY DEF Place, Quiet, Counting, OthersRest, Phases, ThreadTypeOK, CallTypeOK, MainStays
<1>2. /\ at'[Worker] = "loop" /\ at[Worker] = "ready" /\ op' = op /\ loop'[Worker] = "wait" /\ once'[Worker] = FALSE
      /\ sent' = sent /\ delivered' = delivered /\ life' = life /\ life[Worker] = "running"
      /\ handlers_' = handlers_
  BY DEF CallTypeOK
<1>3. WorkerPhase'
  BY <1>2 DEF Phases, WorkerPhase, WorkerAt
<1> QED
  BY <1>1, MainStaysKeeps, <1>3 DEF Phases

LEMMA WorkerReturns ==
  ASSUME IInv, MailInv, DemoInv, Move(Worker, "loop", "returned"), RunReturns(Worker),
         UNCHANGED <<count_, done_>>
  PROVE  Quiet /\ Phases'
<1> USE InvFacts, DemoTypes
    DEF Move, RunReturns, Become, InUserCode, threadVars, queueVars, loopVars, historyVars
<1>1. MainStays /\ Quiet /\ OthersRest' /\ at' \in [Thread -> Place]
  BY DEF Place, Quiet, Counting, OthersRest, Phases, ThreadTypeOK, CallTypeOK, MainStays
<1>2. /\ at'[Worker] = "returned" /\ at[Worker] = "loop" /\ op' = op /\ loop' = loop /\ loop[Worker] = "off" /\ once' = once
      /\ sent' = sent /\ delivered' = delivered /\ life'[Worker] = "ending"
      /\ handlers_' = handlers_
  BY DEF ThreadTypeOK
<1>3. WorkerPhase'
  BY <1>2 DEF Phases, WorkerPhase, WorkerAt
<1> QED
  BY <1>1, MainStaysKeeps, <1>3 DEF Phases

LEMMA WorkerHasReported ==
  ASSUME IInv, MailInv, DemoInv, loop[Worker] = "handler", Move(Worker, "reported", "loop"), HandlerReturns(Worker),
         UNCHANGED <<count_, done_>>
  PROVE  Quiet /\ Phases'
<1> USE InvFacts, DemoTypes
    DEF Move, HandlerReturns, Loop, threadVars, queueVars, loopVars, historyVars
<1>1. MainStays /\ Quiet /\ OthersRest' /\ at' \in [Thread -> Place]
  BY DEF Place, Quiet, Counting, OthersRest, Phases, ThreadTypeOK, CallTypeOK, MainStays, OnlyRunningCalls
<1>2. /\ at'[Worker] = "loop" /\ at[Worker] = "reported" /\ op' = op /\ op[Worker].at = "none"
      /\ loop'[Worker] = "dispatch" /\ once' = once
      /\ sent' = sent /\ delivered' = delivered /\ life' = life /\ life[Worker] = "running"
      /\ handlers_' = handlers_
  BY DEF CallTypeOK, OnlyRunningCalls
<1>3. WorkerPhase'
  BY <1>2 DEF Phases, WorkerPhase, WorkerAt
<1> QED
  BY <1>1, MainStaysKeeps, <1>3 DEF Phases

(* Inside of the library only Main and the worker move. *)
LEMMA OnlyTwo ==
  ASSUME IInv, MailInv, DemoInv, NEW t \in Thread, life[t] # "new" \/ loop[t] # "off" \/ op[t].at # "none"
  PROVE  t = Main \/ t = Worker
  BY InvFacts DEF Phases, OthersRest, OnlyRunningCalls

LEMMA WorkerIsInited ==
  ASSUME IInv, MailInv, DemoInv, InitThreadMessageQueue(Worker), UNCHANGED <<at, count_, done_>>
  PROVE  Quiet /\ Phases'
<1> USE InvFacts, DemoTypes
    DEF InitThreadMessageQueue, Become, threadVars, queueVars, loopVars, historyVars
<1>0. event_queue_' = event_queue_
  BY DEF Batches, QueueExists
<1>1. MainStays /\ Quiet /\ OthersRest' /\ at' \in [Thread -> Place]
  BY <1>0 DEF Quiet, Counting, OthersRest, Phases, ThreadTypeOK, CallTypeOK, MainStays
<1>2. /\ at' = at /\ done_' = done_ /\ once' = once
      /\ sent' = sent /\ delivered' = delivered /\ handlers_' = handlers_
      /\ op' = op /\ loop' = loop /\ life'[Worker] = "inited" /\ life[Worker] = "starting"
  BY <1>0 DEF ThreadTypeOK
<1>3. WorkerPhase'
  BY <1>2 DEF Phases, WorkerPhase, WorkerAt
<1> QED
  BY <1>1, MainStaysKeeps, <1>3 DEF Phases

LEMMA WorkerAnnounces ==
  ASSUME IInv, MailInv, DemoInv, ThreadMainAnnounce(Worker), UNCHANGED <<at, count_, done_>>
  PROVE  Quiet /\ Phases'
<1> USE InvFacts, DemoTypes
    DEF ThreadMainAnnounce, Become, threadVars, queueVars, loopVars, historyVars
<1>1. MainStays /\ Quiet /\ OthersRest' /\ at' \in [Thread -> Place]
  BY DEF Quiet, Counting, OthersRest, Phases, ThreadTypeOK, CallTypeOK, MainStays
<1>2. /\ at' = at /\ done_' = done_ /\ once' = once
      /\ sent' = sent /\ delivered' = delivered /\ handlers_' = handlers_
      /\ op' = op /\ loop' = loop /\ life'[Worker] = "announced" /\ life[Worker] = "inited"
  BY DEF ThreadTypeOK
<1>3. WorkerPhase'
  BY <1>2 DEF Phases, WorkerPhase, WorkerAt
<1> QED
  BY <1>1, MainStaysKeeps, <1>3 DEF Phases

LEMMA WorkerSignals ==
  ASSUME IInv, MailInv, DemoInv, ThreadMainSignal(Worker), UNCHANGED <<at, count_, done_>>
  PROVE  Quiet /\ Phases'
<1> USE InvFacts, DemoTypes
    DEF ThreadMainSignal, Become, threadVars, queueVars, loopVars, historyVars
<1>1. MainStays /\ Quiet /\ OthersRest' /\ at' \in [Thread -> Place]
  BY DEF Quiet, Counting, OthersRest, Phases, ThreadTypeOK, CallTypeOK, MainStays
<1>2. /\ at' = at /\ done_' = done_ /\ once' = once
      /\ sent' = sent /\ delivered' = delivered /\ handlers_' = handlers_
      /\ op' = op /\ loop' = loop /\ life'[Worker] = "running" /\ life[Worker] = "announced"
  BY DEF ThreadTypeOK
<1>3. WorkerPhase'
  BY <1>2 DEF Phases, WorkerPhase, WorkerAt
<1> QED
  BY <1>1, MainStaysKeeps, <1>3 DEF Phases

LEMMA WorkerEnds ==
  ASSUME IInv, MailInv, DemoInv, ThreadEndHook(Worker), UNCHANGED <<at, count_, done_>>
  PROVE  Quiet /\ Phases'
<1> USE InvFacts, DemoTypes
    DEF ThreadEndHook, Become, threadVars, queueVars, loopVars, historyVars
<1>0. event_queue_' = event_queue_ /\ discarded' = discarded
  <2>1. Len(delivered[Worker]) = Len(Script) + 1
    BY DEF Phases, WorkerPhase, WorkerAt
  <2>2. /\ Len(delivered[Worker]) + Len(local[Worker]) + Len(event_queue_[Worker]) = sent[Main]
        /\ sent[Main] <= Len(Script) + 1
    BY DEF DemoInv, DemoMail, WorkerMail
  <2>3. \A a, b, c, k, n \in Nat : a + b + c = k /\ k <= n + 1 /\ a = n + 1 => c = 0
    OBVIOUS
  <2>4. Len(event_queue_[Worker]) = 0
    BY <2>1, <2>2, <2>3
  <2>5. event_queue_[Worker] = <<>>
    BY <2>4, EmptySeq
  <2> QED
    BY <2>5, ElementsOfEmpty
<1>1. MainStays /\ Quiet /\ OthersRest' /\ at' \in [Thread -> Place]
  BY <1>0 DEF Quiet, Counting, OthersRest, Phases, ThreadTypeOK, CallTypeOK, MainStays
<1>2. /\ at' = at /\ done_' = done_ /\ once' = once
      /\ sent' = sent /\ delivered' = delivered /\ handlers_' = handlers_
      /\ op' = op /\ loop' = loop /\ life'[Worker] = "ended" /\ life[Worker] = "ending"
  BY <1>0 DEF ThreadTypeOK
<1>3. WorkerPhase'
  BY <1>2 DEF Phases, WorkerPhase, WorkerAt
<1> QED
  BY <1>1, MainStaysKeeps, <1>3 DEF Phases

LEMMA MainHasSent ==
  ASSUME IInv, MailInv, DemoInv, SendSignal(Main), UNCHANGED <<at, count_, done_>>
  PROVE  Quiet /\ Phases'
<1> USE InvFacts, DemoTypes
    DEF SendSignal, Enter, threadVars, queueVars, loopVars, historyVars
<1>1. WorkerStays /\ Quiet /\ OthersRest' /\ at' \in [Thread -> Place]
  BY DEF Quiet, Counting, OthersRest, Phases, ThreadTypeOK, CallTypeOK, WorkerStays
<1>2. /\ at' = at /\ done_' = done_ /\ once' = once
      /\ sent' = sent /\ delivered' = delivered /\ handlers_' = handlers_
      /\ op'[Main].at = "none" /\ op[Main].at = "send_signal" /\ loop' = loop /\ life' = life
  BY DEF CallTypeOK, NoCall, Call
<1>3. MainPhase'
  BY <1>2 DEF Phases, MainPhase, MainAt
<1> QED
  BY <1>1, <1>3, WorkerStaysKeeps DEF Phases

LEMMA WorkerHasSent ==
  ASSUME IInv, MailInv, DemoInv, SendSignal(Worker), UNCHANGED <<at, count_, done_>>
  PROVE  Quiet /\ Phases'
<1> USE InvFacts, DemoTypes
    DEF SendSignal, Enter, threadVars, queueVars, loopVars, historyVars
<1>1. MainStays /\ Quiet /\ OthersRest' /\ at' \in [Thread -> Place]
  BY DEF Quiet, Counting, OthersRest, Phases, ThreadTypeOK, CallTypeOK, MainStays
<1>2. /\ at' = at /\ done_' = done_ /\ once' = once
      /\ sent' = sent /\ delivered' = delivered /\ handlers_' = handlers_
      /\ op'[Worker].at = "none" /\ op[Worker].at = "send_signal" /\ loop' = loop /\ life' = life
  BY DEF CallTypeOK, NoCall, Call
<1>3. WorkerPhase'
  BY <1>2 DEF Phases, WorkerPhase, WorkerAt
<1> QED
  BY <1>1, MainStaysKeeps, <1>3 DEF Phases

LEMMA MainHasStopped ==
  ASSUME IInv, MailInv, DemoInv, StopSignal(Main), UNCHANGED <<at, count_, done_>>
  PROVE  Quiet /\ Phases'
<1> USE InvFacts, DemoTypes
    DEF StopSignal, Enter, threadVars, queueVars, loopVars, historyVars
<1>1. WorkerStays /\ Quiet /\ OthersRest' /\ at' \in [Thread -> Place]
  BY DEF Quiet, Counting, OthersRest, Phases, ThreadTypeOK, CallTypeOK, WorkerStays
<1>2. /\ at' = at /\ done_' = done_ /\ once' = once
      /\ sent' = sent /\ delivered' = delivered /\ handlers_' = handlers_
      /\ op'[Main].at = "none" /\ op[Main].at = "stop_signal" /\ loop' = loop /\ life' = life
  BY DEF CallTypeOK, NoCall, Call
<1>3. MainPhase'
  BY <1>2 DEF Phases, MainPhase, MainAt
<1> QED
  BY <1>1, <1>3, WorkerStaysKeeps DEF Phases

LEMMA MainDangles ==
  ASSUME IInv, MailInv, DemoInv, StopDangles(Main), UNCHANGED <<at, count_, done_>>
  PROVE  Quiet /\ Phases'
<1> USE InvFacts, DemoTypes
    DEF StopDangles, threadVars, queueVars, loopVars, historyVars
<1>1. WorkerStays /\ MainStays /\ Quiet /\ OthersRest' /\ at' \in [Thread -> Place]
  BY DEF Quiet, Counting, OthersRest, Phases, ThreadTypeOK, CallTypeOK, MainStays, WorkerStays
<1> QED
  BY <1>1, MainStaysKeeps, WorkerStaysKeeps DEF Phases

LEMMA MainWakes ==
  ASSUME IInv, MailInv, DemoInv, LoopWait(Main), UNCHANGED <<at, count_, done_>>
  PROVE  Quiet /\ Phases'
<1> USE InvFacts, DemoTypes
    DEF LoopWait, Loop, threadVars, queueVars, loopVars, historyVars
<1>1. WorkerStays /\ Quiet /\ OthersRest' /\ at' \in [Thread -> Place]
  BY DEF Quiet, Counting, OthersRest, Phases, ThreadTypeOK, CallTypeOK, WorkerStays
<1>2. /\ at' = at /\ done_' = done_ /\ once' = once
      /\ sent' = sent /\ delivered' = delivered /\ handlers_' = handlers_
      /\ op' = op /\ loop'[Main] = "pop" /\ loop[Main] = "wait" /\ life' = life
  BY DEF CallTypeOK
<1>3. MainPhase'
  BY <1>2 DEF Phases, MainPhase, MainAt
<1> QED
  BY <1>1, <1>3, WorkerStaysKeeps DEF Phases

LEMMA MainBatchDone ==
  ASSUME IInv, MailInv, DemoInv, BatchDone(Main), UNCHANGED <<at, count_, done_>>
  PROVE  Quiet /\ Phases'
<1> USE InvFacts, DemoTypes
    DEF BatchDone, Loop, threadVars, queueVars, loopVars, historyVars
<1>1. WorkerStays /\ Quiet /\ OthersRest' /\ at' \in [Thread -> Place]
  BY DEF Quiet, Counting, OthersRest, Phases, ThreadTypeOK, CallTypeOK, WorkerStays
<1>2. /\ at' = at /\ done_' = done_ /\ once' = once
      /\ sent' = sent /\ delivered' = delivered /\ handlers_' = handlers_
      /\ op' = op /\ loop'[Main] \in {"off", "wait"} /\ (loop'[Main] = "off" <=> once[Main])
      /\ loop[Main] = "dispatch" /\ life' = life
  BY DEF CallTypeOK
<1>3. MainPhase'
  BY <1>2 DEF Phases, MainPhase, MainAt
<1> QED
  BY <1>1, <1>3, WorkerStaysKeeps DEF Phases

LEMMA WorkerWakes ==
  ASSUME IInv, MailInv, DemoInv, LoopWait(Worker), UNCHANGED <<at, count_, done_>>
  PROVE  Quiet /\ Phases'
<1> USE InvFacts, DemoTypes
    DEF LoopWait, Loop, threadVars, queueVars, loopVars, historyVars
<1>1. MainStays /\ Quiet /\ OthersRest' /\ at' \in [Thread -> Place]
  BY DEF Quiet, Counting, OthersRest, Phases, ThreadTypeOK, CallTypeOK, MainStays
<1>2. /\ at' = at /\ done_' = done_ /\ once' = once
      /\ sent' = sent /\ delivered' = delivered /\ handlers_' = handlers_
      /\ op' = op /\ loop'[Worker] = "pop" /\ loop[Worker] = "wait" /\ life' = life
  BY DEF CallTypeOK
<1>3. WorkerPhase'
  BY <1>2 DEF Phases, WorkerPhase, WorkerAt
<1> QED
  BY <1>1, MainStaysKeeps, <1>3 DEF Phases

LEMMA WorkerBatchDone ==
  ASSUME IInv, MailInv, DemoInv, BatchDone(Worker), UNCHANGED <<at, count_, done_>>
  PROVE  Quiet /\ Phases'
<1> USE InvFacts, DemoTypes
    DEF BatchDone, Loop, threadVars, queueVars, loopVars, historyVars
<1>1. MainStays /\ Quiet /\ OthersRest' /\ at' \in [Thread -> Place]
  BY DEF Quiet, Counting, OthersRest, Phases, ThreadTypeOK, CallTypeOK, MainStays
<1>2. /\ at' = at /\ done_' = done_ /\ once' = once
      /\ sent' = sent /\ delivered' = delivered /\ handlers_' = handlers_
      /\ op' = op /\ loop'[Worker] \in {"off", "wait"} /\ (loop'[Worker] = "off" <=> once[Worker])
      /\ loop[Worker] = "dispatch" /\ life' = life
  BY DEF CallTypeOK
<1>3. WorkerPhase'
  BY <1>2 DEF Phases, WorkerPhase, WorkerAt
<1> QED
  BY <1>1, MainStaysKeeps, <1>3 DEF Phases

LEMMA MainHasStarted ==
  ASSUME IInv, MailInv, DemoInv, ThreadStarted(Worker), UNCHANGED <<at, count_, done_>>
  PROVE  Quiet /\ Phases'
<1> USE InvFacts, DemoTypes
    DEF ThreadStarted, Enter, threadVars, queueVars, loopVars, historyVars
<1>1. WorkerStays /\ Quiet /\ OthersRest' /\ at' \in [Thread -> Place]
  BY DEF Quiet, Counting, OthersRest, Phases, ThreadTypeOK, CallTypeOK, WorkerStays
<1>2. /\ at' = at /\ done_' = done_ /\ once' = once
      /\ sent' = sent /\ delivered' = delivered /\ handlers_' = handlers_
      /\ op'[Main].at = "none" /\ op[Main].at = "start" /\ loop' = loop /\ life' = life
  BY DEF CallTypeOK, NoCall, Call
<1>3. MainPhase'
  BY <1>2 DEF Phases, MainPhase, MainAt
<1> QED
  BY <1>1, <1>3, WorkerStaysKeeps DEF Phases

LEMMA MainHasJoined ==
  ASSUME IInv, MailInv, DemoInv, ThreadJoined(Worker), UNCHANGED <<at, count_, done_>>
  PROVE  Quiet /\ Phases'
<1> USE InvFacts, DemoTypes
    DEF ThreadJoined, Enter, Become, threadVars, queueVars, loopVars, historyVars
<1>1. Quiet /\ OthersRest' /\ at' \in [Thread -> Place]
  BY DEF Quiet, Counting, OthersRest, Phases, ThreadTypeOK, CallTypeOK
<1>2. /\ at' = at /\ done_' = done_ /\ once' = once
      /\ sent' = sent /\ delivered' = delivered /\ handlers_' = handlers_
      /\ op'[Main] = NoCall /\ op[Main].at = "join" /\ loop' = loop
      /\ life'[Worker] = "new" /\ life[Worker] = "ended" /\ op'[Worker] = op[Worker]
  BY DEF ThreadTypeOK, CallTypeOK
<1>3. MainPhase'
  BY <1>2 DEF Phases, MainPhase, MainAt
<1>4. WorkerPhase'
  BY <1>2 DEF Phases, WorkerPhase, WorkerAt
<1> QED
  BY <1>1, <1>3, <1>4 DEF Phases

-----------------------------------------------------------------------------
(* Steps that move mail. *)
CountsFor(n) == \A y \in WorkerTypes : count_[y] = CountAfter(y)[n]

(* The worker dispatches nothing: its counts stay what they are. *)
LEMMA CountsStay ==
  ASSUME DemoInv, count_' = count_, delivered'[Worker] = delivered[Worker],
         sent'[Worker] = sent[Worker], Counting' <=> Counting
  PROVE  Counts'
<1>1. Handled' = Handled
  BY DEF Handled
<1> QED
  BY <1>1 DEF DemoInv, Counts

LEMMA MailParts ==
  ASSUME IInv, DemoInv
  PROVE  /\ WorkerMail(delivered[Worker], local[Worker], event_queue_[Worker], sent[Main])
         /\ MainMail(delivered[Main], local[Main], event_queue_[Main], sent[Worker])
         /\ delivered[Worker] \in Seq(Message) /\ local[Worker] \in Seq(Message) /\ event_queue_[Worker] \in Seq(Message)
         /\ delivered[Main] \in Seq(Message) /\ local[Main] \in Seq(Message) /\ event_queue_[Main] \in Seq(Message)
         /\ sent[Main] \in Nat /\ sent[Worker] \in Nat
         /\ discarded = {}
  BY DemoTypes DEF DemoInv, DemoMail

LEMMA MainSends ==
  ASSUME IInv, MailInv, DemoInv, Move(Main, "send", "send"), sent[Main] < Len(Script),
         SendPush(Main, Worker, Script[sent[Main] + 1].type), UNCHANGED <<count_, done_>>
  PROVE  DemoMail' /\ Counts' /\ Phases'
<1> USE InvFacts, DemoTypes
    DEF Move, SendPush, Send, Enter, threadVars, queueVars, loopVars, historyVars
<1> DEFINE m == NewMessage(Main, Script[sent[Main] + 1].type)
<1>1. sent[Main] + 1 \in 1 .. Len(Script) /\ sent[Main] <= Len(Script)
  OBVIOUS
<1>2. m \in Message
  <2>1. Script[sent[Main] + 1].type \in Type
    BY <1>1, ScriptLength, DemoAssumption
  <2> QED
    BY <2>1, NewMessageType
<1>3. m = ScriptMessage(sent[Main] + 1)
  BY <1>1 DEF NewMessage, ScriptMessage
<1>4. /\ WorkerStays /\ OthersRest' /\ at' \in [Thread -> Place] /\ count_' = count_
      /\ local' = local /\ delivered' = delivered /\ discarded' = discarded /\ sent'[Worker] = sent[Worker]
      /\ sent'[Main] = sent[Main] + 1 /\ (Counting' <=> Counting)
  BY DEF WorkerStays, OthersRest, Phases, CallTypeOK, Counting
<1>5. event_queue_'[Worker] = Append(event_queue_[Worker], m) /\ event_queue_'[Main] = event_queue_[Main]
  OBVIOUS
<1>6. /\ at'[Main] = "send" /\ at[Main] = "send" /\ done_' = done_ /\ loop' = loop /\ once' = once
      /\ sent'[Main] = sent[Main] + 1 /\ delivered' = delivered /\ life' = life /\ at'[Worker] = at[Worker]
      /\ op'[Main].at = "send_signal" /\ op'[Main].to = Worker /\ sent[Main] + 1 <= Len(Script)
  BY <1>1 DEF CallTypeOK, Call
<1>7. MainPhase'
  BY <1>6 DEF Phases, MainPhase, MainAt
<1> HIDE DEF m, SendPush, Send
<1>8. WorkerMail(delivered[Worker], local[Worker], Append(event_queue_[Worker], m), sent[Main] + 1)
  BY <1>1, <1>2, <1>3, MailParts, WorkerMailSends
<1>9. DemoMail'
  BY <1>4, <1>5, <1>8, MailParts DEF DemoMail
<1>10. Counts'
  BY <1>4, CountsStay
<1> QED
  BY <1>4, <1>7, <1>9, <1>10, WorkerStaysKeeps DEF Phases

LEMMA MainStopPushes ==
  ASSUME IInv, MailInv, DemoInv, StopPush(Main), UNCHANGED <<at, count_, done_>>
  PROVE  DemoMail' /\ Counts' /\ Phases'
<1> USE InvFacts, DemoTypes
    DEF StopPush, Enter, threadVars, queueVars, loopVars, historyVars
<1> DEFINE m == NewMessage(Main, Exit)
<1>1. op[Main].at = "stop_push" /\ op[Main].to = Worker /\ sent[Main] = Len(Script) /\ at[Main] = "stopped"
  BY DEF Phases, MainPhase, MainAt, NoCall, Call
<1>2. m \in Message
  BY <1>1, NewMessageType, DemoAssumption
<1>3. m = ScriptMessage(sent[Main] + 1)
  BY <1>1 DEF NewMessage, ScriptMessage
<1>4. /\ WorkerStays /\ OthersRest' /\ at' \in [Thread -> Place] /\ count_' = count_
      /\ local' = local /\ delivered' = delivered /\ discarded' = discarded /\ sent'[Worker] = sent[Worker]
      /\ sent'[Main] = sent[Main] + 1 /\ (Counting' <=> Counting)
  BY DEF WorkerStays, OthersRest, Phases, CallTypeOK, Counting
<1>5. event_queue_'[Worker] = Append(event_queue_[Worker], m) /\ event_queue_'[Main] = event_queue_[Main]
  BY <1>1
<1>6. /\ at' = at /\ done_' = done_ /\ loop' = loop /\ once' = once
      /\ sent'[Main] = sent[Main] + 1 /\ delivered' = delivered /\ life' = life
      /\ op'[Main].at = "stop_signal" /\ op'[Main].to = Worker
  BY <1>1 DEF CallTypeOK
<1>7. MainPhase'
  BY <1>1, <1>6 DEF Phases, MainPhase, MainAt
<1> HIDE DEF m, StopPush
<1>8. WorkerMail(delivered[Worker], local[Worker], Append(event_queue_[Worker], m), sent[Main] + 1)
  BY <1>1, <1>2, <1>3, MailParts, WorkerMailSends
<1>9. DemoMail'
  BY <1>4, <1>5, <1>8, MailParts DEF DemoMail
<1>10. Counts'
  BY <1>4, CountsStay
<1> QED
  BY <1>4, <1>7, <1>9, <1>10, WorkerStaysKeeps DEF Phases

LEMMA MainPops ==
  ASSUME IInv, MailInv, DemoInv, PopMessages(Main), UNCHANGED <<at, count_, done_>>
  PROVE  DemoMail' /\ Counts' /\ Phases'
<1> USE InvFacts, DemoTypes
    DEF PopMessages, Loop, threadVars, queueVars, loopVars, historyVars
<1>1. local[Main] = <<>> /\ loop[Main] = "pop"
  BY DEF Batches
<1>2. /\ WorkerStays /\ OthersRest' /\ at' \in [Thread -> Place] /\ (Counting' <=> Counting)
      /\ delivered' = delivered /\ discarded' = discarded /\ sent' = sent
      /\ local'[Worker] = local[Worker] /\ event_queue_'[Worker] = event_queue_[Worker]
      /\ local'[Main] = event_queue_[Main] /\ event_queue_'[Main] = <<>>
  BY DEF WorkerStays, OthersRest, Phases, CallTypeOK, Counting
<1>3. /\ at' = at /\ done_' = done_ /\ loop'[Main] = "dispatch" /\ once' = once /\ op' = op
      /\ sent' = sent /\ delivered' = delivered /\ life' = life
  BY DEF CallTypeOK
<1>4. MainPhase'
  BY <1>1, <1>3 DEF Phases, MainPhase, MainAt
<1>5. DemoMail'
  BY <1>1, <1>2, MailParts, MainMailPops DEF DemoMail
<1>6. Counts'
  BY <1>2, CountsStay
<1> QED
  BY <1>2, <1>4, <1>5, <1>6, WorkerStaysKeeps DEF Phases

LEMMA WorkerPops ==
  ASSUME IInv, MailInv, DemoInv, PopMessages(Worker), UNCHANGED <<at, count_, done_>>
  PROVE  DemoMail' /\ Counts' /\ Phases'
<1> USE InvFacts, DemoTypes
    DEF PopMessages, Loop, threadVars, queueVars, loopVars, historyVars
<1>1. local[Worker] = <<>> /\ loop[Worker] = "pop"
  BY DEF Batches
<1>2. /\ MainStays /\ OthersRest' /\ at' \in [Thread -> Place] /\ (Counting' <=> Counting)
      /\ delivered' = delivered /\ discarded' = discarded /\ sent' = sent
      /\ local'[Main] = local[Main] /\ event_queue_'[Main] = event_queue_[Main]
      /\ local'[Worker] = event_queue_[Worker] /\ event_queue_'[Worker] = <<>>
  BY DEF MainStays, OthersRest, Phases, CallTypeOK, Counting
<1>3. /\ at' = at /\ done_' = done_ /\ loop'[Worker] = "dispatch" /\ once' = once /\ op' = op
      /\ sent' = sent /\ delivered' = delivered /\ life' = life /\ handlers_' = handlers_
  BY DEF CallTypeOK
<1>4. WorkerPhase'
  BY <1>1, <1>3 DEF Phases, WorkerPhase, WorkerAt
<1>5. DemoMail'
  BY <1>1, <1>2, MailParts, WorkerMailPops DEF DemoMail
<1>6. Counts'
  BY <1>2, CountsStay
<1> QED
  BY <1>2, <1>4, <1>5, <1>6, MainStaysKeeps DEF Phases

LEMMA MainDispatches ==
  ASSUME IInv, MailInv, DemoInv, Dispatch(Main), UNCHANGED <<at, count_, done_>>
  PROVE  DemoMail' /\ Counts' /\ Phases'
<1> USE InvFacts, DemoTypes
    DEF Dispatch, Loop, threadVars, queueVars, loopVars, historyVars
<1>1. loop[Main] = "dispatch" /\ local[Main] # <<>>
  OBVIOUS
<1>2. /\ WorkerStays /\ OthersRest' /\ at' \in [Thread -> Place] /\ (Counting' <=> Counting)
      /\ discarded' = discarded /\ sent' = sent /\ event_queue_' = event_queue_
      /\ delivered'[Worker] = delivered[Worker] /\ local'[Worker] = local[Worker]
      /\ delivered'[Main] = Append(delivered[Main], Head(local[Main])) /\ local'[Main] = Tail(local[Main])
  BY DEF WorkerStays, OthersRest, Phases, CallTypeOK, Counting
<1>3. /\ Len(delivered[Main]) = 0 /\ Len(delivered'[Main]) = 1
      /\ MainMail(delivered'[Main], local'[Main], event_queue_[Main], sent[Worker])
  BY <1>1, <1>2, MailParts, MainMailDispatches
<1>4. /\ at' = at /\ done_' = done_ /\ loop'[Main] \in {"handler", "dispatch"} /\ once' = once /\ op' = op
      /\ sent' = sent /\ life' = life
  BY DEF CallTypeOK
<1> HIDE DEF Dispatch
<1>5. MainPhase'
  BY <1>1, <1>3, <1>4 DEF Phases, MainPhase, MainAt
<1>6. DemoMail'
  BY <1>2, <1>3, MailParts DEF DemoMail
<1>7. Counts'
  BY <1>2, CountsStay
<1> QED
  BY <1>2, <1>5, <1>6, <1>7, WorkerStaysKeeps DEF Phases

(* A message that is not Exit is one of Script, and has a handler. *)
LEMMA WorkerDispatches ==
  ASSUME IInv, MailInv, DemoInv, Dispatch(Worker), UNCHANGED <<at, count_, done_>>
  PROVE  DemoMail' /\ Counts' /\ Phases'
<1> USE InvFacts, DemoTypes
    DEF Dispatch, Loop, threadVars, queueVars, loopVars, historyVars
<1> DEFINE m == Head(local[Worker])
           n == Len(delivered[Worker])
<1>1. loop[Worker] = "dispatch" /\ local[Worker] # <<>>
  OBVIOUS
<1>2. /\ at[Worker] = "loop" /\ kMessageType1 \in handlers_ /\ kMessageType2 \in handlers_
      /\ ~once[Worker] /\ life[Worker] = "running" /\ op[Worker].at = "none"
  BY <1>1 DEF Phases, WorkerPhase, WorkerAt
<1>3. m.type # Exit
  BY <1>2
<1>4. /\ MainStays /\ OthersRest' /\ at' \in [Thread -> Place]
      /\ discarded' = discarded /\ sent' = sent /\ event_queue_' = event_queue_
      /\ delivered'[Main] = delivered[Main] /\ local'[Main] = local[Main]
      /\ delivered'[Worker] = Append(delivered[Worker], m) /\ local'[Worker] = Tail(local[Worker])
  BY <1>2 DEF MainStays, OthersRest, Phases, CallTypeOK
<1>5. /\ m \in Message /\ m = ScriptMessage(n + 1) /\ Len(delivered'[Worker]) = n + 1
      /\ WorkerMail(delivered'[Worker], local'[Worker], event_queue_[Worker], sent[Main])
  BY <1>1, <1>4, MailParts, WorkerMailDispatches
<1>6. n + 1 \in 1 .. Len(Script) /\ m.type \in WorkerTypes
  <2>1. n \in Nat /\ n + 1 <= Len(Script)
    BY <1>3, <1>5 DEF ScriptMessage
  <2>2. n + 1 \in 1 .. Len(Script) /\ m.type = Script[n + 1].type
    BY <1>5, <2>1 DEF ScriptMessage
  <2> QED
    BY <2>2, ScriptLength
<1>7. m.type \in handlers_
  BY <1>2, <1>6 DEF WorkerTypes
<1>8. /\ at' = at /\ done_' = done_ /\ loop'[Worker] = "handler" /\ once' = once /\ op' = op
      /\ sent' = sent /\ life' = life /\ handlers_' = handlers_
  BY <1>7 DEF CallTypeOK
<1> HIDE DEF Dispatch, m
<1>9. WorkerPhase'
  BY <1>2, <1>8 DEF Phases, WorkerPhase, WorkerAt
<1>10. DemoMail'
  BY <1>4, <1>5, MailParts DEF DemoMail
<1>11. Counting' /\ ~Counting
  BY <1>1, <1>2, <1>8 DEF Counting
<1>12. Handled' = n /\ Handled = n
  <2>1. (n + 1) - 1 = n
    OBVIOUS
  <2> QED
    BY <1>5, <1>11, <2>1 DEF Handled
<1>13. sent[Worker] # 1
  <2>1. sent[Worker] = 1 => n >= Len(Script)
    BY DEF DemoInv, Counts
  <2> QED
    BY <1>6, <2>1
<1>14. count_' = count_
  OBVIOUS
<1>15. Counts'
  <2>1. Len(delivered'[Worker]) \in 1 .. Len(Script) /\ sent'[Worker] # 1
    BY <1>4, <1>5, <1>6, <1>13
  <2>2. /\ count_ \in [WorkerTypes -> Nat]
        /\ \A y \in WorkerTypes : count_[y] = CountAfter(y)[IF Handled <= Len(Script) THEN Handled ELSE Len(Script)]
    BY DEF DemoInv, Counts
  <2>3. Handled' = Handled
    BY <1>12
  <2> HIDE DEF n
  <2> QED
    BY <1>14, <2>1, <2>2, <2>3 DEF Counts
<1> QED
  BY <1>4, <1>9, <1>10, <1>15, MainStaysKeeps DEF Phases

(* Exit ends the loop with nothing left behind it. *)
LEMMA WorkerExits ==
  ASSUME IInv, MailInv, DemoInv, LoopExit(Worker), UNCHANGED <<at, count_, done_>>
  PROVE  DemoMail' /\ Counts' /\ Phases'
<1> USE InvFacts, DemoTypes
    DEF LoopExit, Loop, threadVars, queueVars, loopVars, historyVars
<1> DEFINE m == Head(local[Worker])
           n == Len(delivered[Worker])
<1>1. loop[Worker] = "dispatch" /\ local[Worker] # <<>> /\ m.type = Exit
  OBVIOUS
<1>2. n = Len(Script) /\ Tail(local[Worker]) = <<>>
  BY <1>1, MailParts, ExitIsLast
<1>3. /\ MainStays /\ OthersRest' /\ at' \in [Thread -> Place]
      /\ sent' = sent /\ event_queue_' = event_queue_
      /\ delivered'[Main] = delivered[Main] /\ local'[Main] = local[Main]
      /\ delivered'[Worker] = Append(delivered[Worker], m) /\ local'[Worker] = <<>>
  BY DEF MainStays, OthersRest, Phases, CallTypeOK
<1>4. discarded' = discarded
  BY <1>2, ElementsOfEmpty
<1>5. /\ Len(delivered'[Worker]) = n + 1
      /\ WorkerMail(delivered'[Worker], local'[Worker], event_queue_[Worker], sent[Main])
  <2>1. /\ Len(Append(delivered[Worker], m)) = n + 1
        /\ WorkerMail(Append(delivered[Worker], m), Tail(local[Worker]), event_queue_[Worker], sent[Main])
    BY <1>1, MailParts, WorkerMailDispatches
  <2>2. local'[Worker] = Tail(local[Worker])
    BY <1>2, <1>3
  <2> QED
    BY <1>3, <2>1, <2>2
<1>6. /\ at' = at /\ done_' = done_ /\ loop'[Worker] = "off" /\ once' = once /\ op' = op
      /\ sent' = sent /\ life' = life /\ handlers_' = handlers_ /\ count_' = count_
  BY DEF CallTypeOK
<1> HIDE DEF LoopExit, m
<1>7. WorkerPhase'
  <2>1. at[Worker] = "loop"
    BY <1>1 DEF Phases, WorkerPhase, WorkerAt
  <2> QED
    BY <1>1, <1>2, <1>5, <1>6, <2>1 DEF Phases, WorkerPhase, WorkerAt
<1>8. DemoMail'
  BY <1>3, <1>4, <1>5, MailParts DEF DemoMail
<1>9. ~Counting' /\ ~Counting
  BY <1>1, <1>6 DEF Counting
<1>10. Handled' = Len(Script) + 1 /\ Handled = Len(Script)
  BY <1>2, <1>5, <1>9 DEF Handled
<1>11. Counts'
  <2>1. /\ count_ \in [WorkerTypes -> Nat]
        /\ \A y \in WorkerTypes : count_[y] = CountAfter(y)[Len(Script)]
    BY <1>10 DEF DemoInv, Counts
  <2>2. sent'[Worker] = 1 => Len(Script) >= 1
    BY <1>6 DEF DemoInv, Counts
  <2>3. ~(Handled' <= Len(Script)) /\ Len(delivered'[Worker]) >= Len(Script)
    BY <1>2, <1>5, <1>10
  <2> HIDE DEF n
  <2> QED
    BY <1>6, <1>9, <2>1, <2>2, <2>3 DEF Counts
<1> QED
  BY <1>3, <1>7, <1>8, <1>11, MainStaysKeeps DEF Phases

(* The handler adds the data of its message to the count of its type. *)
LEMMA WorkerAdds ==
  ASSUME IInv, DemoInv, Counting,
         count_' = [count_ EXCEPT ![Current(Worker).type] = count_[Current(Worker).type] + Script[Current(Worker).n].data]
  PROVE  /\ count_' \in [WorkerTypes -> Nat]
         /\ \A y \in WorkerTypes : count_'[y] = CountAfter(y)[Len(delivered[Worker])]
         /\ sent[Worker] = 0
         /\ (count_[Current(Worker).type] + Script[Current(Worker).n].data = Full =>
               Len(delivered[Worker]) = Len(Script))
<1> DEFINE n == Len(delivered[Worker])
           x == Script[n].type
           v == Script[n].data
<1>1. n \in 1 .. Len(Script) /\ Current(Worker).n = n /\ Current(Worker).type = x /\ x \in WorkerTypes /\ v \in Nat
  BY CurrentOfWorker, ScriptLength
<1>2. n - 1 <= Len(Script) /\ Len(Script) \in Nat /\ n \in Nat
  BY <1>1, ScriptLength
<1>3. Handled = n - 1
  BY DEF Handled
<1>4. count_ \in [WorkerTypes -> Nat] /\ \A y \in WorkerTypes : count_[y] = CountAfter(y)[n - 1]
  BY <1>2, <1>3 DEF DemoInv, Counts
<1>5. count_' = [count_ EXCEPT ![x] = count_[x] + v]
  BY <1>1
<1>6. \A y \in WorkerTypes : CountAfter(y)[n] = count_[y] + (IF x = y THEN v ELSE 0)
  BY <1>1, <1>4, CountAfterIs DEF CountStep
<1>7. sent[Worker] = 0
  <2>1. sent[Worker] # 1 /\ sent[Worker] <= 1 /\ sent[Worker] \in Nat
    BY MailParts DEF DemoInv, Counts, MainMail
  <2> QED
    BY <2>1
<1> HIDE DEF n, x, v
<1>8. /\ count_' \in [WorkerTypes -> Nat] /\ count_'[x] = count_[x] + v /\ count_[x] + v \in Nat
      /\ \A y \in WorkerTypes \ {x} : count_'[y] = count_[y] /\ count_[y] \in Nat
  BY <1>1, <1>4, <1>5
<1>9. \A y \in WorkerTypes : count_'[y] = CountAfter(y)[n]
  <2> TAKE y \in WorkerTypes
  <2>1. CASE y = x
    BY <1>6, <1>8, <2>1
  <2>2. CASE y # x
    <3>1. CountAfter(y)[n] = count_[y] + 0
      BY <1>6, <2>2
    <3> QED
      BY <1>8, <2>2, <3>1
  <2> QED
    BY <2>1, <2>2
<1>10. count_[x] + v = Full => n = Len(Script)
  <2>1. CountAfter(x)[n] = count_[x] + v
    BY <1>1, <1>6
  <2>2. CountAfter(x)[n] = Full => n = Len(Script)
    BY <1>1, ScriptAssumption DEF x
  <2> QED
    BY <2>1, <2>2
<1> QED
  BY <1>1, <1>7, <1>8, <1>9, <1>10 DEF n, x, v

LEMMA WorkerCounts ==
  ASSUME IInv, MailInv, DemoInv, loop[Worker] = "handler", Move(Worker, "loop", "loop"), HandlerReturns(Worker),
         count_' = [count_ EXCEPT ![Current(Worker).type] = count_[Current(Worker).type] + Script[Current(Worker).n].data],
         UNCHANGED done_
  PROVE  DemoMail' /\ Counts' /\ Phases'
<1> USE InvFacts, DemoTypes
    DEF Move, HandlerReturns, Loop, threadVars, queueVars, loopVars, historyVars
<1> DEFINE n == Len(delivered[Worker])
<1>1. Counting /\ ~Counting'
  BY DEF Counting, CallTypeOK
<1>2. /\ MainStays /\ OthersRest' /\ at' \in [Thread -> Place]
      /\ discarded' = discarded /\ sent' = sent /\ event_queue_' = event_queue_
      /\ delivered' = delivered /\ local' = local
  BY DEF MainStays, OthersRest, Phases, CallTypeOK
<1>3. /\ at'[Worker] = "loop" /\ at[Worker] = "loop" /\ loop'[Worker] = "dispatch" /\ once' = once /\ op' = op
      /\ sent' = sent /\ delivered' = delivered /\ life' = life /\ handlers_' = handlers_
  BY DEF CallTypeOK
<1>4. WorkerPhase'
  BY <1>3 DEF Phases, WorkerPhase, WorkerAt
<1>5. DemoMail'
  BY <1>2, MailParts DEF DemoMail
<1>6. /\ count_' \in [WorkerTypes -> Nat] /\ sent[Worker] = 0
      /\ \A y \in WorkerTypes : count_'[y] = CountAfter(y)[n]
  BY <1>1, WorkerAdds
<1>7. n \in 1 .. Len(Script)
  BY <1>1, CurrentOfWorker
<1>8. Handled' = n /\ n <= Len(Script)
  BY <1>1, <1>2, <1>7 DEF Handled
<1>9. sent'[Worker] # 1
  BY <1>2, <1>6
<1> HIDE DEF n, HandlerReturns
<1>10. Counts'
  BY <1>1, <1>6, <1>8, <1>9 DEF Counts
<1> QED
  BY <1>2, <1>4, <1>5, <1>10, MainStaysKeeps DEF Phases

(* The report goes out with the last message of Script, and only then. *)
LEMMA WorkerReports ==
  ASSUME IInv, MailInv, DemoInv, loop[Worker] = "handler", Move(Worker, "loop", "reported"),
         count_[Current(Worker).type] + Script[Current(Worker).n].data = Full,
         SendPush(Worker, Current(Worker).from, kMessageType3),
         count_' = [count_ EXCEPT ![Current(Worker).type] = count_[Current(Worker).type] + Script[Current(Worker).n].data],
         UNCHANGED done_
  PROVE  DemoMail' /\ Counts' /\ Phases'
<1> USE InvFacts, DemoTypes
    DEF Move, SendPush, Send, Enter, threadVars, queueVars, loopVars, historyVars
<1> DEFINE n == Len(delivered[Worker])
           m == NewMessage(Worker, kMessageType3)
<1>1. Counting /\ ~Counting' /\ at[Worker] = "loop" /\ at'[Worker] = "reported"
  BY DEF Counting, CallTypeOK
<1>2. Current(Worker).from = Main /\ n \in 1 .. Len(Script)
  BY <1>1, CurrentOfWorker
<1>3. /\ count_' \in [WorkerTypes -> Nat] /\ sent[Worker] = 0 /\ n = Len(Script)
      /\ \A y \in WorkerTypes : count_'[y] = CountAfter(y)[n]
  BY <1>1, WorkerAdds
<1>4. m \in Message /\ m.from = Worker
  BY NewMessageType, DemoAssumption DEF NewMessage
<1>5. /\ MainStays /\ OthersRest' /\ at' \in [Thread -> Place]
      /\ discarded' = discarded /\ delivered' = delivered /\ local' = local
      /\ sent'[Main] = sent[Main] /\ sent'[Worker] = sent[Worker] + 1
      /\ event_queue_'[Worker] = event_queue_[Worker]
      /\ event_queue_'[Main] = Append(event_queue_[Main], m)
  BY <1>2 DEF MainStays, OthersRest, Phases, CallTypeOK, OnlyRunningCalls, Place
<1>6. /\ loop' = loop /\ loop[Worker] = "handler" /\ once' = once
      /\ op'[Worker].at = "send_signal" /\ op'[Worker].to = Main
      /\ sent'[Worker] = 1 /\ delivered' = delivered /\ life' = life /\ handlers_' = handlers_
  BY <1>2, <1>3, <1>5 DEF CallTypeOK, Call
<1>7. WorkerPhase'
  BY <1>1, <1>6 DEF Phases, WorkerPhase, WorkerAt
<1> HIDE DEF m, SendPush, Send
<1>8. MainMail(delivered[Main], local[Main], Append(event_queue_[Main], m), sent[Worker] + 1)
  BY <1>3, <1>4, MailParts, MainMailSends
<1>9. DemoMail'
  BY <1>5, <1>8, MailParts DEF DemoMail
<1>10. Handled' = n
  BY <1>1, <1>5 DEF Handled
<1> HIDE DEF n
<1>11. Len(delivered'[Worker]) = n
  BY <1>5 DEF n
<1>12. n \in Nat /\ n <= Len(Script) /\ n >= Len(Script) /\ Len(Script) >= 1
  BY <1>2, <1>3
<1>13. Counts'
  BY <1>1, <1>3, <1>10, <1>11, <1>12 DEF Counts
<1> QED
  BY <1>5, <1>7, <1>9, <1>13, MainStaysKeeps DEF Phases

-----------------------------------------------------------------------------
DemoInvKept == DemoMail' /\ Counts' /\ Phases'

LEMMA KeptIsInv == DemoInvKept => DemoInv'
  BY DEF DemoInvKept, DemoInv, Phases

LEMMA QuietIsKept == ASSUME DemoInv, Quiet, Phases' PROVE DemoInvKept
  BY QuietKeeps DEF DemoInvKept

LEMMA LibraryKeeps ==
  ASSUME IInv, MailInv, DemoInv, Library
  PROVE  DemoInvKept
<1>1. PICK t \in Thread : Proceed(t)
  BY DEF Library
<1>2. UNCHANGED <<at, count_, done_>>
  BY DEF Library
<1>3. /\ Main \in Thread /\ Worker \in Thread /\ Worker # Main /\ life[Main] = "running"
      /\ op[Main] \in [at : Calls, to : Thread \cup {NoThread}, gen : 0 .. MaxStarts]
  BY InvFacts DEF MainRuns, CallTypeOK
<1>4. CASE InitThreadMessageQueue(t) \/ ThreadMainAnnounce(t) \/ ThreadMainSignal(t) \/ ThreadEndHook(t)
  <2>1. t = Worker
    BY <1>3, <1>4, OnlyTwo DEF InitThreadMessageQueue, ThreadMainAnnounce, ThreadMainSignal, ThreadEndHook
  <2> QED
    BY <1>2, <1>4, <2>1, QuietIsKept, WorkerIsInited, WorkerAnnounces, WorkerSignals, WorkerEnds
<1>5. CASE SendSignal(t)
  <2>1. t = Main \/ t = Worker
    BY <1>5, OnlyTwo DEF SendSignal
  <2> QED
    BY <1>2, <1>5, <2>1, QuietIsKept, MainHasSent, WorkerHasSent
<1>6. CASE StopPush(t) \/ StopSignal(t) \/ StopDangles(t)
  <2>1. op[t].at \in {"stop_push", "stop_signal"}
    BY <1>6 DEF StopPush, StopSignal, StopDangles
  <2>2. t = Main \/ t = Worker
    BY <2>1, OnlyTwo
  <2>3. t # Worker
    BY <2>1, InvFacts DEF Phases, WorkerPhase, WorkerAt
  <2> QED
    BY <1>2, <1>6, <2>2, <2>3, QuietIsKept, MainStopPushes, MainHasStopped, MainDangles DEF DemoInvKept
<1>7. CASE LoopWait(t) \/ BatchDone(t)
  <2>1. t = Main \/ t = Worker
    BY <1>7, OnlyTwo DEF LoopWait, BatchDone
  <2> QED
    BY <1>2, <1>7, <2>1, QuietIsKept, MainWakes, WorkerWakes, MainBatchDone, WorkerBatchDone
<1>8. CASE PopMessages(t) \/ Dispatch(t)
  <2>1. t = Main \/ t = Worker
    BY <1>8, OnlyTwo DEF PopMessages, Dispatch
  <2> QED
    BY <1>2, <1>8, <2>1, MainPops, WorkerPops, MainDispatches, WorkerDispatches DEF DemoInvKept
<1>9. CASE LoopExit(t)
  <2>1. loop[t] # "off" /\ ~once[t]
    BY <1>9 DEF LoopExit
  <2>2. t = Main \/ t = Worker
    BY <2>1, OnlyTwo
  <2>3. t # Main
    BY <2>1, InvFacts DEF Phases, MainPhase, MainAt
  <2> QED
    BY <1>2, <1>9, <2>2, <2>3, WorkerExits DEF DemoInvKept
<1>10. ASSUME NEW u \in Thread \ {Main}, ThreadStarted(u) \/ ThreadJoined(u)
       PROVE  DemoInvKept
  <2>1. op[Main].at \in {"start", "join"} /\ op[Main].to = u
    BY <1>10 DEF ThreadStarted, ThreadJoined
  <2>2. u = Worker
    BY <1>3, <2>1, InvFacts DEF Phases, MainPhase, MainAt, NoCall, Call
  <2> QED
    BY <1>2, <1>10, <2>2, QuietIsKept, MainHasStarted, MainHasJoined
<1> QED
  BY <1>1, <1>4, <1>5, <1>6, <1>7, <1>8, <1>9, <1>10 DEF Proceed

LEMMA ProgramKeeps ==
  ASSUME IInv, MailInv, DemoInv, MainProgram \/ MainHandler \/ WorkerRun \/ WorkerHandler
  PROVE  DemoInvKept
<1>1. CASE MainProgram
  BY <1>1, QuietIsKept, MainRegisters, MainStartsWorker, MainSends, MainGoesToLoop, MainRunsOnce, MainJoins
     DEF MainProgram, DemoInvKept
<1>2. CASE MainHandler
  <2>1. Current(Main).from = Worker
    BY <1>2, CurrentOfMain DEF MainHandler
  <2> QED
    BY <1>2, <2>1, QuietIsKept, MainStops, MainIsDone DEF MainHandler
<1>3. CASE WorkerRun
  BY <1>3, QuietIsKept, WorkerRegisters1, WorkerRegisters2, WorkerStarts, WorkerReturns DEF WorkerRun
<1>4. CASE WorkerHandler
  BY <1>4, QuietIsKept, WorkerCounts, WorkerReports, WorkerHasReported DEF WorkerHandler, DemoInvKept
<1> QED
  BY <1>1, <1>2, <1>3, <1>4

LEMMA DemoStep ==
  IInv /\ MailInv /\ DemoInv /\ [DemoNext]_demoVars => [Next]_vars /\ (IInv /\ MailInv /\ DemoInv)'
<1> SUFFICES ASSUME IInv, MailInv, DemoInv, [DemoNext]_demoVars
             PROVE  [Next]_vars /\ (IInv /\ MailInv /\ DemoInv)'
  OBVIOUS
<1>1. [Next]_vars
  BY DemoIsClientStep DEF demoVars
<1>2. IInv'
  BY <1>1, ThreadTypeStep, CallTypeStep, MessageTypeStep, LifeStep, CallStep, WakeupStep DEF IInv, TypeOK
<1>3. MailInv'
  BY <1>1, MailInvStep
<1>4. CASE DemoNext
  <2>1. DemoInvKept
    BY <1>4, ProgramKeeps, LibraryKeeps DEF DemoNext
  <2> QED
    BY <1>1, <1>2, <1>3, <2>1, KeptIsInv
<1>5. CASE UNCHANGED demoVars
  <2>1. Quiet
    BY <1>5 DEF Quiet, Counting, demoVars, vars, loopVars, historyVars, queueVars
  <2>2. Phases'
    BY <1>5, InvFacts
       DEF Phases, MainPhase, WorkerPhase, OthersRest, demoVars, vars, threadVars, loopVars, historyVars, queueVars
  <2> QED
    BY <1>1, <1>2, <1>3, <2>1, <2>2, QuietIsKept, KeptIsInv
<1> QED
  BY <1>4, <1>5

LEMMA DemoInitial == DemoInit => Init /\ IInv /\ MailInv /\ DemoInv
<1> SUFFICES ASSUME DemoInit PROVE Init /\ IInv /\ MailInv /\ DemoInv
  OBVIOUS
<1>1. Init /\ IInv /\ MailInv
  BY InitEstablishes, MailInitial DEF DemoInit
<1>2. /\ Main \in Thread /\ Worker \in Thread /\ Worker # Main /\ Len(Script) \in Nat
  BY DemoAssumption, ThreadAssumption, ScriptLength
<1>3. /\ at \in [Thread -> Place] /\ at[Main] = "top" /\ at[Worker] = "top" /\ done_ = FALSE
      /\ op[Main] = NoCall /\ op[Worker] = NoCall /\ NoCall.at = "none"
      /\ loop[Main] = "off" /\ loop[Worker] = "off"
      /\ sent[Main] = 0 /\ sent[Worker] = 0 /\ life[Worker] = "new"
      /\ delivered[Main] = <<>> /\ delivered[Worker] = <<>> /\ local[Main] = <<>> /\ local[Worker] = <<>>
      /\ event_queue_[Main] = <<>> /\ event_queue_[Worker] = <<>> /\ discarded = {}
  BY <1>1, <1>2 DEF DemoInit, Init, Place, NoCall, Call
<1>4. Len(<<>>) = 0
  BY EmptySeq
<1>5. MainPhase /\ WorkerPhase /\ OthersRest
  <2>1. MainPhase
    BY <1>2, <1>3, <1>4 DEF MainPhase, MainAt
  <2>2. WorkerPhase
    BY <1>2, <1>3, <1>4 DEF WorkerPhase, WorkerAt
  <2>3. OthersRest
    BY <1>1 DEF OthersRest, Init
  <2> QED
    BY <2>1, <2>2, <2>3
<1>6. DemoMail
  BY <1>2, <1>3, <1>4 DEF DemoMail, WorkerMail, MainMail
<1>7. Counts
  <2>1. ~Counting /\ Handled = 0
    BY <1>3, <1>4 DEF Counting, Handled
  <2>2. count_ \in [WorkerTypes -> Nat] /\ \A y \in WorkerTypes : count_[y] = CountAfter(y)[0]
    BY CountAfterIs DEF DemoInit
  <2>3. 0 <= Len(Script)
    BY <1>2
  <2> QED
    BY <1>3, <2>1, <2>2, <2>3 DEF Counts
<1> QED
  BY <1>1, <1>3, <1>5, <1>6, <1>7 DEF DemoInv

LEMMA DemoInvImplies == IInv /\ DemoInv => CountsAreComplete
<1> SUFFICES ASSUME IInv, DemoInv PROVE CountsAreComplete
  OBVIOUS
<1>1. Len(Script) \in Nat /\ Len(delivered[Worker]) \in Nat /\ Len(delivered[Main]) \in Nat
  BY DemoTypes, ScriptLength
<1>2. ASSUME Len(delivered[Main]) = 1
      PROVE  /\ \A y \in WorkerTypes : count_[y] = CountAfter(y)[Len(Script)]
             /\ Len(Script) >= 1 /\ Len(delivered[Worker]) >= Len(Script)
  <2>1. sent[Worker] = 1
    <3>1. /\ sent[Worker] <= 1 /\ Len(delivered[Main]) + Len(local[Main]) + Len(event_queue_[Main]) = sent[Worker]
      BY DEF DemoInv, DemoMail, MainMail
    <3>2. \A a, b, k \in Nat : k <= 1 /\ 1 + a + b = k => k = 1
      OBVIOUS
    <3> QED
      BY <1>2, <3>1, <3>2, DemoTypes
  <2>2. ~Counting /\ Len(Script) >= 1 /\ Len(delivered[Worker]) >= Len(Script)
    BY <2>1 DEF DemoInv, Counts
  <2>3. Handled >= Len(Script) /\ Handled \in Nat
    BY <1>1, <2>2 DEF Handled
  <2>4. (IF Handled <= Len(Script) THEN Handled ELSE Len(Script)) = Len(Script)
    BY <1>1, <2>3
  <2>5. \A y \in WorkerTypes : count_[y] = CountAfter(y)[Len(Script)]
    BY <2>4 DEF DemoInv, Counts
  <2> QED
    BY <2>2, <2>5
<1>3. AllCounted
  <2> SUFFICES ASSUME Joined
               PROVE  /\ \A y \in WorkerTypes : count_[y] = CountAfter(y)[Len(Script)]
                      /\ discarded = {} /\ Worker \notin live
    BY DEF AllCounted
  <2>1. Len(delivered[Main]) = 1 /\ life[Worker] = "new"
    BY DEF Joined, DemoInv, MainPhase, MainAt, NoCall, Call
  <2>2. Worker \notin live
    BY <2>1, DemoTypes DEF IInv, LifeInv, QueueExists
  <2>3. discarded = {}
    BY DEF DemoInv, DemoMail
  <2> QED
    BY <1>2, <2>1, <2>2, <2>3
<1>4. StopAfterData
  <2> SUFFICES ASSUME at[Main] = "stopped" PROVE \E y \in WorkerTypes : count_[y] = Full /\ at[Worker] # "top"
    BY DEF StopAfterData
  <2>1. Len(delivered[Main]) = 1
    BY DEF DemoInv, MainPhase, MainAt
  <2>2. /\ Len(Script) >= 1 /\ Len(delivered[Worker]) >= Len(Script)
        /\ \A y \in WorkerTypes : count_[y] = CountAfter(y)[Len(Script)]
    BY <1>2, <2>1
  <2>3. at[Worker] # "top"
    BY <1>1, <2>2 DEF DemoInv, WorkerPhase, WorkerAt
  <2>4. Len(Script) \in 1 .. Len(Script)
    BY <1>1, <2>2
  <2>5. /\ Script[Len(Script)].type \in WorkerTypes
        /\ CountAfter(Script[Len(Script)].type)[Len(Script)] = Full
    BY <2>4, ScriptLength, ScriptAssumption
  <2> QED
    BY <2>2, <2>3, <2>5
<1> QED
  BY <1>3, <1>4 DEF CountsAreComplete

(* The demo's threads use the queues only as any threads may, for any      *)
(* messages that fill their count with the last of them: what holds of     *)
(* ThreadQueue holds of the program that main.cc is.                       *)
THEOREM DemoUsesQueues == DemoSpec => Spec
<1>1. DemoSpec => DemoSafety
  BY DEF DemoSpec
<1>2. DemoSafety => Spec
  BY DemoInitial, DemoStep, PTL DEF DemoSafety, Spec
<1> QED
  BY <1>1, <1>2

(* Whatever the order in which the two threads, the messages and the       *)
(* report run: the worker is stopped only once its count is full, and when *)
(* Main has joined it every message was counted and none was dropped.      *)
THEOREM DemoCountsAreComplete == DemoSpec => []CountsAreComplete
<1>1. DemoSpec => DemoSafety
  BY DEF DemoSpec
<1>2. DemoSafety => [](IInv /\ MailInv /\ DemoInv)
  BY DemoInitial, DemoStep, PTL DEF DemoSafety
<1>3. IInv /\ MailInv /\ DemoInv => CountsAreComplete
  BY DemoInvImplies
<1> QED
  BY <1>1, <1>2, <1>3, PTL
=============================================================================
