------------------------- MODULE InterruptibleSleep -------------------------
(***************************************************************************)
(* What interr_usleep.h promises its callers, without mutex, condition     *)
(* variable or flag: a sleep lasts until its deadline or until the handle  *)
(* is interrupted, an interrupted handle stays interrupted, and the status *)
(* a sleep returns tells which of the two ended it.                        *)
(***************************************************************************)
EXTENDS Naturals

CONSTANTS Sleepers,  \* threads that call interr_usleep()
          Usecs,     \* the arguments they pass
          MaxNow     \* bound of the clock

VARIABLES sleeping,     \* the threads inside interr_usleep()
          until,        \* until[t]: the instant t's sleep expires
          status,       \* status[t]: what t's last sleep returned
          interrupted,  \* 1 once the handle was unblocked or closed
          usable,       \* the handle may be slept on
          now           \* CLOCK_MONOTONIC

vars == <<sleeping, until, status, interrupted, usable, now>>

Init == /\ sleeping = {}
        /\ until = [t \in Sleepers |-> 0]
        /\ status = [t \in Sleepers |-> "none"]
        /\ interrupted = 0
        /\ usable = FALSE
        /\ now = 0

(* A handle becomes usable once and is withdrawn once. *)
SetUsable == /\ usable' \in BOOLEAN
             /\ usable' # usable
             /\ UNCHANGED <<sleeping, until, status, interrupted, now>>

Sleep(t) == /\ t \notin sleeping
            /\ usable
            /\ \E usec \in Usecs : until' = [until EXCEPT ![t] = now + usec]
            /\ sleeping' = sleeping \cup {t}
            /\ status' = [status EXCEPT ![t] = "pending"]
            /\ UNCHANGED <<interrupted, usable, now>>

(* The call fails at once: always without a handle. *)
Refuse(t) == /\ t \notin sleeping
             /\ status' = [status EXCEPT ![t] = "-1"]
             /\ UNCHANGED <<sleeping, until, interrupted, usable, now>>

Interrupt == /\ interrupted' = 1
             /\ UNCHANGED <<sleeping, until, status, usable, now>>

(* The sleep is over: 0 only at or after the deadline, EINTR only if the  *)
(* handle was interrupted; when both hold either status may be returned.  *)
Return(t) == /\ t \in sleeping
             /\ sleeping' = sleeping \ {t}
             /\ \/ /\ now >= until[t]
                   /\ status' = [status EXCEPT ![t] = "0"]
                \/ /\ interrupted = 1
                   /\ status' = [status EXCEPT ![t] = "EINTR"]
             /\ UNCHANGED <<until, interrupted, usable, now>>

Tick == /\ now < MaxNow
        /\ now' = now + 1
        /\ UNCHANGED <<sleeping, until, status, interrupted, usable>>

Next == \/ SetUsable
        \/ Interrupt
        \/ Tick
        \/ \E t \in Sleepers : Sleep(t) \/ Refuse(t) \/ Return(t)

Spec == Init /\ [][Next]_vars
=============================================================================
