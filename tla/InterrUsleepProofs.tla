------------------------- MODULE InterrUsleepProofs -------------------------
(***************************************************************************)
(* Proofs about InterrUsleep for any set of threads and signal handlers,   *)
(* any sleep times and any clock bound, whether or not the handle is       *)
(* closed while it is in use.                                              *)
(***************************************************************************)
EXTENDS InterrUsleep, TLAPS

(* The invariant holds at the start: the mutex is free, nobody waits and   *)
(* nobody is inside the module.                                            *)
LEMMA InitIInv == Init => IInv
  BY ActorsAssumption
  DEF Init, IInv, TypeOK, MutexDiscipline, WaitersWait, FreshHandle, LoopExit,
      NoLostWakeup, Committed, StatusJustified, Pcs, Critical, Actors

(* An actor that is inside the module preserves the invariant with each of *)
(* its steps.                                                              *)
LEMMA StepIInv == ASSUME IInv, NEW a \in Actors, Step(a) PROVE IInv'
<1> USE ActorsAssumption
    DEF IInv, TypeOK, WaitersWait, FreshHandle, LoopExit, StatusJustified, MutexDiscipline,
        NoLostWakeup, Committed, Pcs, Critical, Actors, At, Goto, Leave, Acquire, Release,
        ctxvars, syncvars, sleepvars
<1>1. CASE OpenReturn(a) BY <1>1 DEF OpenReturn
<1>2. CASE OpenFail(a) BY <1>2 DEF OpenFail
<1>3. CASE SleepLock(a) BY <1>3 DEF SleepLock
<1>4. CASE SleepTest(a)
  \* Who passes the test sees the flag clear: nothing is owed to it yet.
  <2>1. flag_exit = 0 /\ flag_exit' = 0
    BY <1>4 DEF SleepTest, KeepsWaiting
  <2>2. NoLostWakeup'
    BY <2>1
  <2>3. (TypeOK /\ MutexDiscipline /\ WaitersWait /\ FreshHandle /\ LoopExit /\ StatusJustified)'
    BY <1>4 DEF SleepTest, KeepsWaiting
  <2> QED BY <2>2, <2>3
<1>5. CASE SleepWait(a)
  \* The flag may be set by now; who set it is still in front of the mutex
  \* that the sleeper releases only as it blocks.
  <2>1. Committed' = Committed /\ \A x \in Actors : x # a => pc'[x] = pc[x]
    BY <1>5 DEF SleepWait
  <2>2. NoLostWakeup'
    BY <1>5, <2>1 DEF SleepWait
  <2>3. (TypeOK /\ MutexDiscipline /\ WaitersWait)'
    BY <1>5 DEF SleepWait
  <2>4. (FreshHandle /\ LoopExit /\ StatusJustified)'
    BY <1>5 DEF SleepWait
  <2> QED BY <2>2, <2>3, <2>4
<1>6. CASE SleepStop(a) BY <1>6 DEF SleepStop, KeepsWaiting
<1>7. CASE WaitRelock(a) BY <1>7 DEF WaitRelock
<1>8. CASE SleepReturn(a)
  \* The status is read off the local ret_code, LoopExit says what it means.
  <2>1. StatusJustified'
    BY <1>8 DEF SleepReturn
  <2>2. (TypeOK /\ MutexDiscipline /\ WaitersWait /\ FreshHandle /\ LoopExit /\ NoLostWakeup)'
    BY <1>8 DEF SleepReturn
  <2> QED BY <2>1, <2>2
<1>9. CASE UnlockSetFlag(a)
  \* The actor that sets the flag has the broadcast ahead of it.
  <2>1. pc'[a] = "ulock"
    BY <1>9 DEF UnlockSetFlag
  <2>2. NoLostWakeup'
    BY <2>1
  <2>3. (TypeOK /\ MutexDiscipline /\ WaitersWait /\ FreshHandle /\ LoopExit /\ StatusJustified)'
    BY <1>9 DEF UnlockSetFlag
  <2> QED BY <2>2, <2>3
<1>10. CASE UnlockLock(a) BY <1>10 DEF UnlockLock
<1>11. CASE UnlockBroadcast(a)
  \* The broadcaster holds the mutex, so nobody is between test and wait: the
  \* broadcast leaves nobody waiting and nobody about to.
  <2>1. \A x \in Actors : x # a => pc[x] # "block"
    BY <1>11 DEF UnlockBroadcast
  <2>2. \A x \in Actors : pc'[x] # "wait" /\ pc'[x] # "block"
    BY <1>11, <2>1 DEF UnlockBroadcast, Broadcast
  <2>3. NoLostWakeup'
    BY <2>2
  <2>4. (TypeOK /\ MutexDiscipline /\ WaitersWait /\ FreshHandle /\ LoopExit /\ StatusJustified)'
    BY <1>11 DEF UnlockBroadcast, Broadcast
  <2> QED BY <2>3, <2>4
<1>12. CASE UnlockUnlock(a) BY <1>12 DEF UnlockUnlock
<1>13. CASE CloseDestroy(a) BY <1>13 DEF CloseDestroy
<1>14. CASE CloseFree(a) BY <1>14 DEF CloseFree
<1> QED
  BY <1>1, <1>2, <1>3, <1>4, <1>5, <1>6, <1>7, <1>8, <1>9, <1>10, <1>11, <1>12, <1>13,
     <1>14 DEF Step

(* So do the calls, the clock, the end of a wait and a signal.             *)
LEMMA EnvironmentIInv == ASSUME IInv, Environment PROVE IInv'
<1> USE ActorsAssumption, BoundsAssumption
    DEF IInv, TypeOK, WaitersWait, FreshHandle, LoopExit, StatusJustified, MutexDiscipline,
        NoLostWakeup, Committed, Pcs, Critical, Actors, At, Goto, Call, ctxvars, syncvars, sleepvars
<1>1. CASE Tick BY <1>1 DEF Tick
<1>2. ASSUME NEW t \in Threads, OpenCall(t) PROVE IInv' BY <1>2 DEF OpenCall
<1>3. ASSUME NEW t \in Threads, SleepCall(t) PROVE IInv'
  \* A new deadline is never taken for an old time-out: ret_code is 0 then.
  <2>1. PICK usec \in Usecs : tout' = [tout EXCEPT ![t] = now + usec]
    BY <1>3 DEF SleepCall
  <2>2. ret_code[t] # "ETIMEDOUT"
    BY <1>3 DEF SleepCall
  <2>3. (LoopExit /\ StatusJustified)'
    BY <1>3, <2>1, <2>2 DEF SleepCall
  <2>4. (TypeOK /\ MutexDiscipline /\ WaitersWait /\ FreshHandle /\ NoLostWakeup)'
    BY <1>3, <2>1 DEF SleepCall
  <2> QED BY <2>3, <2>4
<1>4. ASSUME NEW t \in Threads, SleepFails(t) PROVE IInv' BY <1>4 DEF SleepFails
<1>5. ASSUME NEW t \in Threads, UnblockCall(t) PROVE IInv' BY <1>5 DEF UnblockCall
<1>6. ASSUME NEW t \in Threads, CloseCall(t) PROVE IInv' BY <1>6 DEF CloseCall
<1>7. ASSUME NEW t \in Threads, WaitTimesOut(t) PROVE IInv'
  BY <1>7 DEF WaitTimesOut, WaitEnds
<1>8. ASSUME NEW t \in Threads, WaitSpurious(t) PROVE IInv'
  BY <1>8 DEF WaitSpurious, WaitEnds
<1>9. ASSUME NEW h \in Handlers, NEW a \in Actors, SignalDelivered(h, a) PROVE IInv'
  BY <1>9 DEF SignalDelivered
<1> QED
  BY <1>1, <1>2, <1>3, <1>4, <1>5, <1>6, <1>7, <1>8, <1>9 DEF Environment

(* A step that changes nothing preserves it.                                *)
LEMMA StutterIInv == ASSUME IInv, UNCHANGED vars PROVE IInv'
  BY DEF IInv, TypeOK, WaitersWait, FreshHandle, LoopExit, StatusJustified, MutexDiscipline,
         NoLostWakeup, Committed, vars, ctxvars, syncvars, sleepvars

(* The inductive invariant holds in every reachable state.                 *)
THEOREM Inductive == Spec => []IInv
<1>1. Init => IInv BY InitIInv
<1>2. IInv /\ [Next]_vars => IInv'
  BY StepIInv, EnvironmentIInv, StutterIInv DEF Next
<1> QED BY <1>1, <1>2, PTL DEF Spec

(* Type correctness. *)
THEOREM TypeCorrect == Spec => []TypeOK
<1>1. IInv => TypeOK BY DEF IInv
<1> QED BY <1>1, Inductive, PTL

(* Whoever is in a critical section of interr_usleep.c holds interr_mutex, *)
(* and nobody else does.                                                   *)
THEOREM MutexHeld == Spec => []MutexDiscipline
<1>1. IInv => MutexDiscipline BY DEF IInv
<1> QED BY <1>1, Inductive, PTL

(* Writing flag_exit before locking loses no wake-up, also of a sleeper    *)
(* that tested the flag before the write and blocks after it, for any      *)
(* number of sleepers, unblockers, closers and signals.                    *)
THEOREM WakeupsNotLost == Spec => []NoLostWakeup
<1>1. IInv => NoLostWakeup BY DEF IInv
<1> QED BY <1>1, Inductive, PTL

(* The status of interr_usleep() tells the truth.                          *)
THEOREM StatusTrue == Spec => []StatusJustified
<1>1. IInv => StatusJustified BY DEF IInv
<1> QED BY <1>1, Inductive, PTL

(* An interrupted handle stays interrupted, and nobody but a sleeper that  *)
(* had already passed the loop test blocks on it.                          *)
THEOREM InterruptionSticks == Spec => InterruptSticks
<1> DEFINE Sticks == flag_exit = 1 => flag_exit' = 1 /\ Committed' \subseteq Committed
<1>1. ASSUME IInv, NEW a \in Actors, Step(a) PROVE Sticks
  <2> USE DEF IInv, TypeOK, At, Goto, Leave, Committed
  <2>1. flag_exit = 1 => flag_exit' = 1
    BY <1>1
    DEF Step, OpenReturn, OpenFail, SleepLock, SleepTest, SleepStop, SleepWait, WaitRelock,
        SleepReturn, UnlockSetFlag, UnlockLock, UnlockBroadcast, UnlockUnlock, CloseDestroy,
        CloseFree, syncvars
  <2>2. CASE SleepTest(a) \/ SleepWait(a)
    BY <1>1, <2>1, <2>2 DEF SleepTest, SleepWait, KeepsWaiting, syncvars
  <2>3. CASE UnlockBroadcast(a)
    BY <1>1, <2>1, <2>3 DEF UnlockBroadcast, Broadcast
  <2>4. CASE OpenReturn(a) \/ OpenFail(a) \/ SleepLock(a) \/ SleepStop(a) \/ WaitRelock(a)
    BY <1>1, <2>1, <2>4 DEF OpenReturn, OpenFail, SleepLock, SleepStop, WaitRelock
  <2>5. CASE SleepReturn(a) \/ UnlockSetFlag(a) \/ UnlockLock(a)
    BY <1>1, <2>1, <2>5 DEF SleepReturn, UnlockSetFlag, UnlockLock
  <2>6. CASE UnlockUnlock(a) \/ CloseDestroy(a) \/ CloseFree(a)
    BY <1>1, <2>1, <2>6 DEF UnlockUnlock, CloseDestroy, CloseFree
  <2> QED BY <1>1, <2>2, <2>3, <2>4, <2>5, <2>6 DEF Step
<1>2. ASSUME IInv, Environment PROVE Sticks
  \* Only an open clears the flag, and it works on a fresh handle.
  <2> USE DEF IInv, TypeOK, At, Goto, Call, Committed, Actors
  <2>1. CASE Tick
    BY <1>2, <2>1 DEF Tick, syncvars
  <2>2. ASSUME NEW t \in Threads, OpenCall(t) PROVE Sticks
    BY <1>2, <2>2 DEF OpenCall, FreshHandle
  <2>3. ASSUME NEW t \in Threads, SleepCall(t) \/ SleepFails(t) \/ UnblockCall(t) \/ CloseCall(t)
        PROVE Sticks
    BY <1>2, <2>3 DEF SleepCall, SleepFails, UnblockCall, CloseCall, syncvars
  <2>4. ASSUME NEW t \in Threads, WaitTimesOut(t) \/ WaitSpurious(t) PROVE Sticks
    BY <1>2, <2>4 DEF WaitTimesOut, WaitSpurious, WaitEnds
  <2>5. ASSUME NEW h \in Handlers, NEW a \in Actors, SignalDelivered(h, a) PROVE Sticks
    BY <1>2, <2>5 DEF SignalDelivered, syncvars
  <2> QED BY <1>2, <2>1, <2>2, <2>3, <2>4, <2>5 DEF Environment
<1>3. ASSUME IInv, UNCHANGED vars PROVE Sticks
  BY <1>3 DEF vars, syncvars, Committed
<1>4. IInv /\ [Next]_vars => [Sticks]_vars
  BY <1>1, <1>2, <1>3 DEF Next
<1> QED BY <1>4, Inductive, PTL DEF Spec, InterruptSticks
-----------------------------------------------------------------------------
(* The initial state maps to an initial state of InterruptibleSleep.       *)
LEMMA RefinesInit == Init => Promise!Init
  BY DEF Init, Promise!Init, Actors, SleepPcs

(* Each step of an actor maps to a step of the promise or to a stutter.    *)
LEMMA RefinesStep == ASSUME IInv, NEW a \in Actors, Step(a) PROVE [Promise!Next]_(Promise!vars)
<1> USE DEF IInv, TypeOK, At, Goto, Leave, ctxvars, syncvars, sleepvars, SleepPcs, Actors
<1>1. CASE OpenReturn(a)
  BY <1>1 DEF OpenReturn, Promise!Next, Promise!SetUsable, Promise!vars
<1>2. CASE CloseFree(a)
  BY <1>2 DEF CloseFree, Promise!Next, Promise!SetUsable, Promise!vars
<1>3. CASE UnlockSetFlag(a)
  BY <1>3 DEF UnlockSetFlag, Promise!Next, Promise!Interrupt
<1>4. CASE SleepReturn(a)
  <2>1. CASE a \in Threads
    <3>1. a \in {t \in Threads : pc[t] \in SleepPcs}
      BY <1>4, <2>1 DEF SleepReturn
    <3>2. Promise!Return(a)
      BY <1>4, <2>1, <3>1 DEF SleepReturn, Promise!Return, LoopExit
    <3> QED BY <2>1, <3>2 DEF Promise!Next
  <2>2. CASE a \notin Threads
    BY <1>4, <2>2 DEF SleepReturn, Promise!vars
  <2> QED BY <2>1, <2>2
<1>5. CASE UnlockBroadcast(a)
  BY <1>5 DEF UnlockBroadcast, Broadcast, WaitersWait, Promise!vars
<1>6. CASE OpenFail(a) \/ SleepLock(a) \/ SleepTest(a) \/ SleepStop(a) \/ SleepWait(a)
         \/ WaitRelock(a)
  BY <1>6 DEF OpenFail, SleepLock, SleepTest, SleepStop, SleepWait, WaitRelock, Promise!vars
<1>7. CASE UnlockLock(a) \/ UnlockUnlock(a) \/ CloseDestroy(a)
  BY <1>7 DEF UnlockLock, UnlockUnlock, CloseDestroy, Promise!vars
<1> QED
  BY <1>1, <1>2, <1>3, <1>4, <1>5, <1>6, <1>7 DEF Step

(* So does each step of the environment.                                   *)
LEMMA RefinesEnvironment == ASSUME IInv, Environment PROVE [Promise!Next]_(Promise!vars)
<1> USE DEF IInv, TypeOK, At, Goto, Call, ctxvars, syncvars, sleepvars, SleepPcs, Actors
<1>1. CASE Tick
  BY <1>1 DEF Tick, Promise!Next, Promise!Tick
<1>2. ASSUME NEW t \in Threads, OpenCall(t) PROVE UNCHANGED Promise!vars
  BY <1>2 DEF OpenCall, FreshHandle, Promise!vars
<1>3. ASSUME NEW t \in Threads, SleepCall(t) PROVE Promise!Sleep(t)
  <2>1. PICK usec \in Usecs : tout' = [tout EXCEPT ![t] = now + usec]
    BY <1>3 DEF SleepCall
  <2>2. [x \in Threads |-> tout'[x]] = [[x \in Threads |-> tout[x]] EXCEPT ![t] = now + usec]
    BY <2>1
  <2>3. [x \in Threads |-> result'[x]] = [[x \in Threads |-> result[x]] EXCEPT ![t] = "pending"]
    BY <1>3 DEF SleepCall
  <2>4. /\ t \notin {x \in Threads : pc[x] \in SleepPcs}
        /\ {x \in Threads : pc'[x] \in SleepPcs} = {x \in Threads : pc[x] \in SleepPcs} \cup {t}
    BY <1>3 DEF SleepCall
  <2>5. ptr = "ctx" /\ UNCHANGED <<ptr, flag_exit, now>>
    BY <1>3 DEF SleepCall
  <2> QED BY <2>2, <2>3, <2>4, <2>5 DEF Promise!Sleep
<1>4. ASSUME NEW t \in Threads, SleepFails(t) PROVE Promise!Refuse(t)
  BY <1>4 DEF SleepFails, Promise!Refuse
<1>5. ASSUME NEW t \in Threads, UnblockCall(t) \/ CloseCall(t) PROVE UNCHANGED Promise!vars
  BY <1>5 DEF UnblockCall, CloseCall, Promise!vars
<1>6. ASSUME NEW t \in Threads, WaitTimesOut(t) \/ WaitSpurious(t)
      PROVE UNCHANGED Promise!vars
  BY <1>6 DEF WaitTimesOut, WaitSpurious, WaitEnds, WaitersWait, Promise!vars
<1>7. ASSUME NEW h \in Handlers, NEW a \in Actors, SignalDelivered(h, a)
      PROVE UNCHANGED Promise!vars
  BY <1>7 DEF SignalDelivered, Promise!vars
<1> QED
  BY <1>1, <1>2, <1>3, <1>4, <1>5, <1>6, <1>7 DEF Environment, Promise!Next

(* interr_usleep.c implements what interr_usleep.h promises.               *)
THEOREM Refinement == Spec => ImplementsPromise
<1>1. Init => Promise!Init BY RefinesInit
<1>2. IInv /\ [Next]_vars => [Promise!Next]_(Promise!vars)
  <2>1. ASSUME UNCHANGED vars PROVE UNCHANGED Promise!vars
    BY <2>1 DEF vars, ctxvars, syncvars, sleepvars, Promise!vars
  <2> QED BY <2>1, RefinesStep, RefinesEnvironment DEF Next
<1> QED BY <1>1, <1>2, Inductive, PTL DEF Spec, ImplementsPromise, Promise!Spec

-----------------------------------------------------------------------------
(* A logger that open() created is open only while the context refers to   *)
(* it and has not been freed. Unlike LoggersBalanced this is inductive:    *)
(* the close finds, through ctx->utils_logs_ctx, the logger it must close.  *)
LoggerHeld ==
  /\ "external" \in loggers
  /\ "own" \in loggers => logger = "own" /\ phase \notin {"none", "freed"}

(* Every step keeps LoggerHeld: a failed open goes through the same close  *)
(* as a complete one.                                                      *)
LEMMA LoggerStep == ASSUME LoggerHeld, [Next]_vars PROVE LoggerHeld'
<1> USE DEF LoggerHeld, ctxvars
<1>1. ASSUME NEW a \in Actors, OpenReturn(a) \/ CloseDestroy(a) PROVE LoggerHeld'
  BY <1>1 DEF OpenReturn, CloseDestroy
<1>2. ASSUME NEW a \in Actors, CloseFree(a) PROVE LoggerHeld'
  BY <1>2 DEF CloseFree
<1>3. ASSUME NEW a \in Actors, Step(a), ~OpenReturn(a), ~CloseDestroy(a), ~CloseFree(a)
      PROVE UNCHANGED ctxvars
  BY <1>3 DEF Step, OpenFail, SleepLock, SleepTest, SleepStop, SleepWait, WaitRelock,
              SleepReturn, UnlockSetFlag, UnlockLock, UnlockBroadcast, UnlockUnlock
<1>4. ASSUME NEW t \in Threads, OpenCall(t) PROVE LoggerHeld'
  BY <1>4 DEF OpenCall
<1>5. ASSUME Environment, \A t \in Threads : ~OpenCall(t) PROVE UNCHANGED ctxvars
  BY <1>5 DEF Environment, Tick, SleepCall, SleepFails, UnblockCall, CloseCall, WaitTimesOut,
              WaitSpurious, WaitEnds, SignalDelivered
<1>6. ASSUME UNCHANGED vars PROVE UNCHANGED ctxvars
  BY <1>6 DEF vars
<1> QED BY <1>1, <1>2, <1>3, <1>4, <1>5, <1>6 DEF Next

(* interr_usleep_close() releases exactly the logger interr_usleep_open()   *)
(* created, after a complete and after a failed open, also when the handle *)
(* is closed while others use it.                                          *)
THEOREM LoggersReleased == Spec => []LoggersBalanced
<1>1. Init => LoggerHeld BY DEF Init, LoggerHeld
<1>2. LoggerHeld /\ [Next]_vars => LoggerHeld' BY LoggerStep
<1>3. LoggerHeld => LoggersBalanced BY DEF LoggerHeld, LoggersBalanced
<1> QED BY <1>1, <1>2, <1>3, PTL DEF Spec
=============================================================================
