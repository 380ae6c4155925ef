---------------------------- MODULE InterrUsleep ----------------------------
(***************************************************************************)
(* The interruptible sleep of src/libs/utils/interr_usleep.c: one context  *)
(* with an exit flag, a mutex and a condition variable, used by any number *)
(* of threads and by signal handlers that run on top of them.              *)
(*                                                                         *)
(* One action per step that other threads can observe. The mutex and the   *)
(* condition variable are POSIX's: timedwait releases the mutex and blocks *)
(* atomically, may wake up spuriously, and reacquires the mutex before it  *)
(* returns, also after a time-out.                                         *)
(***************************************************************************)
EXTENDS Integers, FiniteSets

CONSTANTS
  Threads,         \* the threads of the process
  Handlers,        \* signal deliveries (main_proc_quit_signal_handler runs)
  Nobody,          \* the owner of a free mutex
  Usecs,           \* arguments of interr_usleep()
  MaxNow,          \* bound of CLOCK_MONOTONIC
  QuiescentClose   \* TRUE: the handle is closed only when no one uses it

Actors == Threads \cup Handlers

ASSUME ActorsAssumption == /\ Nobody \notin Actors
                           /\ Threads \cap Handlers = {}
ASSUME BoundsAssumption == /\ Usecs \subseteq Nat
                           /\ MaxNow \in Nat
                           /\ QuiescentClose \in BOOLEAN

VARIABLES
  ptr,        \* the caller's interr_usleep_ctx_t*: "NULL" or "ctx"
  phase,      \* life of the context structure
  logger,     \* ctx->utils_logs_ctx and who must release it
  loggers,    \* the logger instances that are open
  flag_exit,  \* ctx->flag_exit
  owner,      \* who holds interr_mutex
  waiting,    \* who is blocked in pthread_cond_timedwait()
  pc,         \* where each thread or handler is
  op,         \* the operation an actor runs UNLOCK() for
  on,         \* on[h]: whom the running handler h interrupted
  ret_code,   \* local ret_code of interr_usleep()
  tout,       \* local monotime_tout of interr_usleep()
  result,     \* status of the last interr_usleep() of each actor
  now         \* CLOCK_MONOTONIC

ctxvars == <<ptr, phase, logger, loggers>>
syncvars == <<flag_exit, owner, waiting>>
sleepvars == <<ret_code, tout, result>>
vars == <<ctxvars, syncvars, pc, op, on, sleepvars, now>>

Pcs == {"idle",                                           \* outside the module
        "lock", "test", "block", "wait", "relock", "unlock", \* interr_usleep()
        "init",                                           \* interr_usleep_open()
        "set", "ulock", "bcast", "uunlock",               \* UNLOCK()
        "destroy", "free"}                                \* interr_usleep_close()

(* The steps taken with interr_mutex held. *)
Critical == {"test", "block", "unlock", "bcast", "uunlock"}

(* The steps of interr_usleep(), and the steps of a close. *)
SleepPcs == {"lock", "test", "block", "wait", "relock", "unlock"}
Closing(a) == op[a] = "close"

TypeOK ==
  /\ ptr \in {"NULL", "ctx"}
  /\ phase \in {"none", "opening", "open", "destroyed", "freed"}
  /\ logger \in {"NULL", "own", "external"}
  /\ loggers \in SUBSET {"own", "external"}
  /\ flag_exit \in {0, 1}
  /\ owner \in Actors \cup {Nobody}
  /\ waiting \in SUBSET Actors
  /\ pc \in [Actors -> Pcs]
  /\ op \in [Actors -> {"none", "sleep", "open", "unblock", "close"}]
  /\ on \in [Handlers -> Actors \cup {Nobody}]
  /\ ret_code \in [Actors -> {"0", "ETIMEDOUT"}]
  /\ tout \in [Actors -> Nat]
  /\ result \in [Actors -> {"none", "pending", "0", "EINTR", "-1"}]
  /\ now \in Nat

Init ==
  /\ ptr = "NULL"
  /\ phase = "none"
  /\ logger = "NULL"
  /\ loggers = {"external"}
  /\ flag_exit = 0
  /\ owner = Nobody
  /\ waiting = {}
  /\ pc = [a \in Actors |-> "idle"]
  /\ op = [a \in Actors |-> "none"]
  /\ on = [h \in Handlers |-> Nobody]
  /\ ret_code = [a \in Actors |-> "0"]
  /\ tout = [a \in Actors |-> 0]
  /\ result = [a \in Actors |-> "none"]
  /\ now = 0
-----------------------------------------------------------------------------
(* A thread, or a handler, does not run while a handler that interrupted it *)
(* has not returned.                                                        *)
Running(a) == \A h \in Handlers : on[h] # a

At(a, l) == pc[a] = l /\ Running(a)
Goto(a, l) == pc' = [pc EXCEPT ![a] = l]
Leave(a) == Goto(a, "idle") /\ op' = [op EXCEPT ![a] = "none"]

(* An idle thread enters the module. The program that closes a handle only *)
(* when it is quiet makes no call while it is being closed.                *)
Call(t, o, l) ==
  /\ At(t, "idle")
  /\ QuiescentClose => \A a \in Actors : ~Closing(a)
  /\ op' = [op EXCEPT ![t] = o]
  /\ Goto(t, l)

Acquire(a) == owner = Nobody /\ owner' = a
Release(a) == owner = a /\ owner' = Nobody
-----------------------------------------------------------------------------
(* interr_usleep_open(): the structure is private to the caller until the  *)
(* function returns it. Without memory it returns NULL and nothing happens. *)
OpenCall(t) ==
  /\ phase = "none"
  /\ Call(t, "open", "init")
  /\ phase' = "opening"
  /\ flag_exit' = 0
  /\ \/ logger' = "external" /\ UNCHANGED loggers
     \/ logger' = "own" /\ loggers' = loggers \cup {"own"}
     \/ logger' = "NULL" /\ UNCHANGED loggers         \* utils_logs_open() failed
  /\ UNCHANGED <<ptr, owner, waiting, on, sleepvars, now>>

OpenReturn(t) ==
  /\ At(t, "init")
  /\ logger # "NULL"
  /\ phase' = "open"
  /\ ptr' = "ctx"
  /\ Leave(t)
  /\ UNCHANGED <<logger, loggers, syncvars, on, sleepvars, now>>

(* Logger, mutex or condition variable could not be created: the partly   *)
(* initialised structure goes through interr_usleep_close(). Its mutex and *)
(* condition are then all zeroes (calloc), which glibc takes for free ones. *)
OpenFail(t) ==
  /\ At(t, "init")
  /\ op' = [op EXCEPT ![t] = "close"]
  /\ Goto(t, "set")
  /\ UNCHANGED <<ctxvars, syncvars, on, sleepvars, now>>
-----------------------------------------------------------------------------
(* interr_usleep() *)
SleepCall(t) ==
  \E usec \in Usecs :
    /\ ptr = "ctx"
    /\ now + usec <= MaxNow
    /\ Call(t, "sleep", "lock")
    /\ tout' = [tout EXCEPT ![t] = now + usec]
    /\ result' = [result EXCEPT ![t] = "pending"]
    /\ UNCHANGED <<ctxvars, syncvars, on, ret_code, now>>

(* No handle, or clock_gettime() failed. *)
SleepFails(t) ==
  /\ At(t, "idle")
  /\ result' = [result EXCEPT ![t] = "-1"]
  /\ UNCHANGED <<ctxvars, syncvars, pc, op, on, ret_code, tout, now>>

SleepLock(t) ==
  /\ At(t, "lock")
  /\ Acquire(t)
  /\ ret_code' = [ret_code EXCEPT ![t] = "0"]
  /\ Goto(t, "test")
  /\ UNCHANGED <<ctxvars, flag_exit, waiting, op, on, tout, result, now>>

(* Mutant: a time-out does not end the loop. *)
KeepsWaitingForever(t) == flag_exit = 0

(* The loop condition, read with the mutex held. *)
KeepsWaiting(t) == flag_exit = 0 /\ ret_code[t] # "ETIMEDOUT"

(* The test and the wait are two steps: the mutex keeps out the broadcast  *)
(* of UNLOCK(), but not its write of the flag.                             *)
SleepTest(t) ==
  /\ At(t, "test")
  /\ KeepsWaiting(t)
  /\ Goto(t, "block")
  /\ UNCHANGED <<ctxvars, syncvars, op, on, sleepvars, now>>

SleepWait(t) ==
  /\ At(t, "block")
  /\ Release(t)
  /\ waiting' = waiting \cup {t}
  /\ Goto(t, "wait")
  /\ UNCHANGED <<ctxvars, flag_exit, op, on, sleepvars, now>>

SleepStop(t) ==
  /\ At(t, "test")
  /\ ~KeepsWaiting(t)
  /\ Goto(t, "unlock")
  /\ UNCHANGED <<ctxvars, syncvars, op, on, sleepvars, now>>

(* The wait ends by itself: at the deadline, or spuriously at any time. The *)
(* kernel does it, so it happens to an interrupted thread too.              *)
WaitEnds(t, code) ==
  /\ t \in waiting
  /\ waiting' = waiting \ {t}
  /\ ret_code' = [ret_code EXCEPT ![t] = code]
  /\ Goto(t, "relock")
  /\ UNCHANGED <<ctxvars, flag_exit, owner, op, on, tout, result, now>>

(* Mutant: the deadline is of another clock, and expires early. *)
WaitTimesOutEarly(t) == WaitEnds(t, "ETIMEDOUT")

WaitTimesOut(t) == now >= tout[t] /\ WaitEnds(t, "ETIMEDOUT")
WaitSpurious(t) == WaitEnds(t, "0")

(* Mutant: "if" in place of "while" around the wait. *)
WaitRelockOnce(t) ==
  /\ At(t, "relock")
  /\ Acquire(t)
  /\ Goto(t, "unlock")
  /\ UNCHANGED <<ctxvars, flag_exit, waiting, op, on, sleepvars, now>>

WaitRelock(t) ==
  /\ At(t, "relock")
  /\ Acquire(t)
  /\ Goto(t, "test")
  /\ UNCHANGED <<ctxvars, flag_exit, waiting, op, on, sleepvars, now>>

(* Mutants: the raw code is returned; the mutex is not unlocked; the flag  *)
(* is consumed by the first sleep it ends.                                 *)
SleepReturnRaw(t) ==
  /\ At(t, "unlock")
  /\ Release(t)
  /\ result' = [result EXCEPT ![t] = ret_code[t]]
  /\ Leave(t)
  /\ UNCHANGED <<ctxvars, flag_exit, waiting, on, ret_code, tout, now>>
SleepReturnLocked(t) ==
  /\ At(t, "unlock")
  /\ result' = [result EXCEPT ![t] = IF ret_code[t] = "ETIMEDOUT" THEN "0" ELSE "EINTR"]
  /\ Leave(t)
  /\ UNCHANGED <<ctxvars, syncvars, on, ret_code, tout, now>>
SleepReturnResets(t) ==
  /\ At(t, "unlock")
  /\ Release(t)
  /\ flag_exit' = 0
  /\ result' = [result EXCEPT ![t] = IF ret_code[t] = "ETIMEDOUT" THEN "0" ELSE "EINTR"]
  /\ Leave(t)
  /\ UNCHANGED <<ctxvars, waiting, on, ret_code, tout, now>>

(* pthread_mutex_unlock(), then the status computed from ret_code. *)
SleepReturn(t) ==
  /\ At(t, "unlock")
  /\ Release(t)
  /\ result' = [result EXCEPT ![t] = IF ret_code[t] = "ETIMEDOUT" THEN "0" ELSE "EINTR"]
  /\ ret_code' = [ret_code EXCEPT ![t] = "0"]
  /\ Leave(t)
  /\ UNCHANGED <<ctxvars, flag_exit, waiting, on, tout, now>>
-----------------------------------------------------------------------------
(* interr_usleep_unblock(), which ignores NULL, from a thread ... *)
UnblockCall(t) ==
  /\ ptr = "ctx"
  /\ Call(t, "unblock", "set")
  /\ UNCHANGED <<ctxvars, syncvars, on, sleepvars, now>>

(* ... or from a signal handler on top of whatever actor a was doing. *)
SignalDelivered(h, a) ==
  /\ h # a
  /\ ptr = "ctx"
  /\ a \in Handlers => on[a] # Nobody
  /\ Running(a)
  /\ Call(h, "unblock", "set")
  /\ on' = [on EXCEPT ![h] = a]
  /\ UNCHANGED <<ctxvars, syncvars, sleepvars, now>>

(* UNLOCK(): the flag is written before the mutex is taken. *)
UnlockSetFlag(a) ==
  /\ At(a, "set")
  /\ flag_exit' = 1
  /\ Goto(a, "ulock")
  /\ UNCHANGED <<ctxvars, owner, waiting, op, on, sleepvars, now>>

(* pthread_cond_broadcast(): whoever waits stops waiting, with status 0. *)
Broadcast(a, l) ==
  /\ waiting' = {}
  /\ pc' = [x \in Actors |-> IF x = a THEN l
                             ELSE IF x \in waiting THEN "relock" ELSE pc[x]]
  /\ ret_code' = [x \in Actors |-> IF x \in waiting THEN "0" ELSE ret_code[x]]

(* Mutant: UNLOCK() broadcasts without taking the mutex. *)
UnlockBroadcastsUnlocked(a) ==
  /\ At(a, "ulock")
  /\ Broadcast(a, IF Closing(a) THEN "destroy" ELSE "idle")
  /\ op' = [op EXCEPT ![a] = IF Closing(a) THEN "close" ELSE "none"]
  /\ on' = [h \in Handlers |-> IF h = a THEN Nobody ELSE on[h]]
  /\ UNCHANGED <<ctxvars, flag_exit, owner, tout, result, now>>

UnlockLock(a) ==
  /\ At(a, "ulock")
  /\ Acquire(a)
  /\ Goto(a, "bcast")
  /\ UNCHANGED <<ctxvars, flag_exit, waiting, op, on, sleepvars, now>>

(* Mutant: pthread_cond_signal() wakes one of the waiters. *)
UnlockSignal(a) ==
  /\ At(a, "bcast")
  /\ \/ waiting = {} /\ Goto(a, "uunlock") /\ UNCHANGED waiting
     \/ \E x \in waiting : /\ waiting' = waiting \ {x}
                           /\ pc' = [pc EXCEPT ![a] = "uunlock", ![x] = "relock"]
  /\ UNCHANGED <<ctxvars, flag_exit, owner, op, on, sleepvars, now>>

UnlockBroadcast(a) ==
  /\ At(a, "bcast")
  /\ Broadcast(a, "uunlock")
  /\ UNCHANGED <<ctxvars, flag_exit, owner, op, on, tout, result, now>>

UnlockUnlock(a) ==
  /\ At(a, "uunlock")
  /\ Release(a)
  /\ IF op[a] = "close" THEN Goto(a, "destroy") /\ UNCHANGED op ELSE Leave(a)
  /\ on' = [h \in Handlers |-> IF h = a THEN Nobody ELSE on[h]]
  /\ UNCHANGED <<ctxvars, flag_exit, waiting, sleepvars, now>>
-----------------------------------------------------------------------------
(* interr_usleep_close(): UNLOCK(), then destroy, release and free. *)
CloseCall(t) ==
  /\ ptr = "ctx"
  /\ \A a \in Actors : ~Closing(a)
  /\ QuiescentClose => \A a \in Actors : pc[a] = "idle"
  /\ Call(t, "close", "set")
  /\ UNCHANGED <<ctxvars, syncvars, on, sleepvars, now>>

(* pthread_mutex_destroy() and pthread_cond_destroy(); failures are logged. *)
CloseDestroy(t) ==
  /\ At(t, "destroy")
  /\ phase' = "destroyed"
  /\ Goto(t, "free")
  /\ UNCHANGED <<ptr, logger, loggers, syncvars, op, on, sleepvars, now>>

(* Mutant: the logger is released whoever created it. *)
CloseFreeAnyLogger(t) ==
  /\ At(t, "free")
  /\ phase' = "freed"
  /\ ptr' = "NULL"
  /\ loggers' = loggers \ {logger}
  /\ logger' = "NULL"
  /\ Leave(t)
  /\ UNCHANGED <<syncvars, on, sleepvars, now>>

(* Only a logger that open() created is released; the pointer is cleared. *)
CloseFree(t) ==
  /\ At(t, "free")
  /\ phase' = "freed"
  /\ ptr' = "NULL"
  /\ loggers' = loggers \ (IF logger = "own" THEN {"own"} ELSE {})
  /\ logger' = "NULL"
  /\ Leave(t)
  /\ UNCHANGED <<syncvars, on, sleepvars, now>>
-----------------------------------------------------------------------------
Tick ==
  /\ now < MaxNow
  /\ now' = now + 1
  /\ UNCHANGED <<ctxvars, syncvars, pc, op, on, sleepvars>>

(* The steps an actor that is inside the module takes by itself. *)
Step(a) ==
  \/ OpenReturn(a) \/ OpenFail(a)
  \/ SleepLock(a) \/ SleepTest(a) \/ SleepStop(a) \/ SleepWait(a)
  \/ WaitRelock(a) \/ SleepReturn(a)
  \/ UnlockSetFlag(a) \/ UnlockLock(a) \/ UnlockBroadcast(a) \/ UnlockUnlock(a)
  \/ CloseDestroy(a) \/ CloseFree(a)

(* What the program, the kernel and the user decide. *)
Environment ==
  \/ Tick
  \/ \E t \in Threads : \/ OpenCall(t) \/ SleepCall(t) \/ SleepFails(t)
                        \/ UnblockCall(t) \/ CloseCall(t)
                        \/ WaitTimesOut(t) \/ WaitSpurious(t)
  \/ \E h \in Handlers, a \in Actors : SignalDelivered(h, a)

Next == Environment \/ \E a \in Actors : Step(a)

(* Every actor that can go on does, and a mutex that is free again and     *)
(* again is obtained. Nothing is assumed of the program, of the user or of *)
(* the clock.                                                              *)
Fairness ==
  \A a \in Actors : /\ WF_vars(Step(a))
                    /\ SF_vars(SleepLock(a) \/ WaitRelock(a) \/ UnlockLock(a))

(* Time passes, and the time-out of a wait comes in the end, however often *)
(* the wait is left and entered again.                                     *)
Timer(t) == WF_vars(Tick) /\ SF_vars(WaitTimesOut(t))

Spec == Init /\ [][Next]_vars
FairSpec == Spec /\ Fairness
-----------------------------------------------------------------------------
(* interr_mutex is held exactly by the actor inside a critical section: in *)
(* particular timedwait() gives it up, and every path out of UNLOCK() and  *)
(* interr_usleep() unlocks it.                                             *)
MutexDiscipline ==
  \A a \in Actors : owner = a <=> pc[a] \in Critical

(* Who has found the flag clear and is in timedwait() or on its way there. *)
Committed == {a \in Actors : pc[a] \in {"block", "wait"}}

(* No lost wake-up although UNLOCK() writes flag_exit before it locks: if  *)
(* the flag is set while a sleeper is blocked in the condition, or has     *)
(* passed the loop test and is about to block, a broadcast is still to     *)
(* come, and it comes after the sleeper has blocked.                       *)
NoLostWakeup ==
  flag_exit = 1 /\ Committed # {} => \E a \in Actors : pc[a] \in {"ulock", "bcast"}

(* interr_usleep() returns 0 only when the whole time has passed, and      *)
(* EINTR only if the handle was unblocked or closed: a spurious wake-up    *)
(* ends no sleep.                                                          *)
StatusJustified ==
  \A t \in Threads : /\ result[t] = "0" => now >= tout[t]
                     /\ result[t] = "EINTR" => flag_exit = 1

(* The conjuncts that make the properties above inductive. *)

(* timedwait() is left by a change of pc only. *)
WaitersWait == \A a \in Actors : a \in waiting <=> pc[a] = "wait"

(* Before the handle is opened nothing happens to it. *)
FreshHandle == phase = "none" => /\ flag_exit = 0
                                 /\ ptr = "NULL"
                                 /\ \A a \in Actors : pc[a] = "idle"

(* ETIMEDOUT is truthful, and a loop left without it was left for the flag. *)
LoopExit ==
  \A a \in Actors :
    /\ ret_code[a] = "ETIMEDOUT" => /\ now >= tout[a]
                                    /\ pc[a] \in {"relock", "test", "unlock"}
    /\ pc[a] = "unlock" /\ ret_code[a] = "0" => flag_exit = 1

(* The inductive invariant. *)
IInv == /\ TypeOK /\ MutexDiscipline /\ WaitersWait /\ FreshHandle
        /\ LoopExit /\ NoLostWakeup /\ StatusJustified

(* Closing, after a complete or a failed open, releases the logger that    *)
(* open created and never the one the caller passed.                       *)
LoggersBalanced ==
  /\ "external" \in loggers
  /\ phase \in {"none", "freed"} => "own" \notin loggers

(* An interrupted handle stays interrupted: flag_exit is never cleared, and *)
(* once it is set only the sleepers that had already passed the loop test   *)
(* can still block. Each of the others, and each later sleep, returns       *)
(* without waiting.                                                         *)
InterruptSticks ==
  [][flag_exit = 1 => flag_exit' = 1 /\ Committed' \subseteq Committed]_vars

(* Once a handle is unblocked, every sleep on it ends, with no help from   *)
(* the clock: pthread_cond_broadcast() reaches all of the sleepers.        *)
UnblockWakesAll ==
  \A t \in Threads : flag_exit = 1 /\ pc[t] \in SleepPcs ~> pc[t] = "idle"

(* A sleep whose own timer works ends, whatever the other threads do with  *)
(* the mutex and whatever becomes of their waits.                          *)
EverySleepEnds ==
  \A t \in Threads : Timer(t) => (pc[t] \in SleepPcs ~> pc[t] = "idle")

(* Closing a handle "unlocks" the sleeps on it: by the time close()        *)
(* destroys the mutex and the condition, the sleepers are out of           *)
(* interr_usleep() and no longer need them.                                *)
SleepersLeaveBeforeDestroy ==
  phase \in {"destroyed", "freed"} => \A t \in Threads : pc[t] \notin SleepPcs

(* The module implements the promise of its header. *)
Promise == INSTANCE InterruptibleSleep WITH
  Sleepers <- Threads,
  sleeping <- {t \in Threads : pc[t] \in SleepPcs},
  until <- [t \in Threads |-> tout[t]],
  status <- [t \in Threads |-> result[t]],
  interrupted <- flag_exit,
  usable <- (ptr = "ctx")

(* interr_usleep_*() implements the interruptible sleep its header states. *)
ImplementsPromise == Promise!Spec
=============================================================================
