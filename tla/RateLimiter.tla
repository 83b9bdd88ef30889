---------------------------- MODULE RateLimiter ----------------------------
(***************************************************************************)
(* SlidingWindowRateLimiter of src/nyse_ats/data/rate_limiter.py, shared   *)
(* by the adapter threads that call an upstream API.                       *)
(*                                                                         *)
(* A thread calls acquire() (blocking) or try_acquire() (not blocking).    *)
(* Both read the clock, drop expired stamps and grant a slot or not while  *)
(* they hold the lock; a blocked acquire() sleeps outside the lock and     *)
(* starts over.  Time is discrete and may pass between any two steps.      *)
(***************************************************************************)
EXTENDS Integers, Sequences

CONSTANTS
    Thread,     \* the threads that share the limiter
    Free,       \* the lock is held by nobody
    Max,        \* max_requests
    Window,     \* window_seconds, in clock ticks
    MaxCalls,   \* bound: calls a thread makes
    MaxTime     \* bound: how far the clock runs when nobody sleeps

ASSUME ThreadAssumption == Free \notin Thread
\* __init__ raises ValueError unless both are positive.
ASSUME LimitAssumption  == Max \in Nat \ {0} /\ Window \in Nat \ {0}
ASSUME BoundAssumption  == MaxCalls \in Nat /\ MaxTime \in Nat

VARIABLES
    clock,       \* time.monotonic()
    timestamps,  \* the deque _timestamps
    lock,        \* holder of _lock, or Free
    pc,          \* where each thread is
    mode,        \* "acquire" or "try_acquire"
    now,         \* each thread's local now
    wakeAt,      \* when a sleeping thread's wait_time is over
    calls,       \* calls made by each thread
    granted      \* history: every stamp granted, in the order of the grants

vars == <<clock, timestamps, lock, pc, mode, now, wakeAt, calls, granted>>

TypeOK ==
    /\ clock \in Nat
    /\ timestamps \in Seq(Nat)
    /\ Len(timestamps) <= Max
    /\ lock \in Thread \cup {Free}
    /\ pc \in [Thread -> {"idle", "want_lock", "locked", "asleep"}]
    /\ mode \in [Thread -> {"acquire", "try_acquire"}]
    /\ now \in [Thread -> Nat]
    /\ wakeAt \in [Thread -> Int]
    /\ calls \in [Thread -> 0..MaxCalls]
    /\ granted \in Seq(Nat)

Init ==
    /\ clock = 0
    /\ timestamps = <<>>
    /\ lock = Free
    /\ pc = [t \in Thread |-> "idle"]
    /\ mode = [t \in Thread |-> "acquire"]
    /\ now = [t \in Thread |-> 0]
    /\ wakeAt = [t \in Thread |-> 0]
    /\ calls = [t \in Thread |-> 0]
    /\ granted = <<>>

Goto(t, place) == pc' = [pc EXCEPT ![t] = place]

\* The call releases the lock and returns; its local variables are gone.
Return(t) ==
    /\ lock' = Free
    /\ Goto(t, "idle")
    /\ mode' = [mode EXCEPT ![t] = "acquire"]
    /\ now' = [now EXCEPT ![t] = 0]
    /\ wakeAt' = [wakeAt EXCEPT ![t] = 0]

\* Mutant of HeadExpired: the cutoff is rounded up by a tick.
HeadExpiredEarly(t) ==
    /\ timestamps # <<>>
    /\ Head(timestamps) <= now[t] - Window + 1

\* Is there an entry to popleft: the oldest stamp is at or before the cutoff.
HeadExpired(t) ==
    /\ timestamps # <<>>
    /\ Head(timestamps) <= now[t] - Window

\* An adapter thread makes a call.
Call(t) ==
    /\ pc[t] = "idle"
    /\ calls[t] < MaxCalls
    /\ calls' = [calls EXCEPT ![t] = @ + 1]
    /\ \E m \in {"acquire", "try_acquire"} : mode' = [mode EXCEPT ![t] = m]
    /\ Goto(t, "want_lock")
    /\ UNCHANGED <<clock, timestamps, lock, now, wakeAt, granted>>

\* with self._lock: now = time.monotonic()
EnterLock(t) ==
    /\ pc[t] = "want_lock"
    /\ lock = Free
    /\ lock' = t
    /\ now' = [now EXCEPT ![t] = clock]
    /\ Goto(t, "locked")
    /\ UNCHANGED <<clock, timestamps, mode, wakeAt, calls, granted>>

\* One turn of the loop of _purge_expired.
PurgeExpired(t) ==
    /\ pc[t] = "locked"
    /\ HeadExpired(t)
    /\ timestamps' = Tail(timestamps)
    /\ UNCHANGED <<clock, lock, pc, mode, now, wakeAt, calls, granted>>

\* Mutants of Grant: one slot too many, and the stamp put at the wrong end.
GrantOneMore(t) ==
    /\ pc[t] = "locked"
    /\ ~HeadExpired(t)
    /\ Len(timestamps) <= Max
    /\ timestamps' = Append(timestamps, now[t])
    /\ granted' = Append(granted, now[t])
    /\ Return(t)
    /\ UNCHANGED <<clock, calls>>

GrantAtFront(t) ==
    /\ pc[t] = "locked"
    /\ ~HeadExpired(t)
    /\ Len(timestamps) < Max
    /\ timestamps' = <<now[t]>> \o timestamps
    /\ granted' = Append(granted, now[t])
    /\ Return(t)
    /\ UNCHANGED <<clock, calls>>

\* A slot is free: append the stamp, release the lock, return.
Grant(t) ==
    /\ pc[t] = "locked"
    /\ ~HeadExpired(t)
    /\ Len(timestamps) < Max
    /\ timestamps' = Append(timestamps, now[t])
    /\ granted' = Append(granted, now[t])
    /\ Return(t)
    /\ UNCHANGED <<clock, calls>>

\* try_acquire() returns False.
Refuse(t) ==
    /\ pc[t] = "locked"
    /\ mode[t] = "try_acquire"
    /\ ~HeadExpired(t)
    /\ Len(timestamps) >= Max
    /\ Return(t)
    /\ UNCHANGED <<clock, timestamps, calls, granted>>

\* Mutant of Block: the thread sleeps inside the with block.
BlockHoldingLock(t) ==
    /\ pc[t] = "locked"
    /\ mode[t] = "acquire"
    /\ ~HeadExpired(t)
    /\ Len(timestamps) >= Max
    /\ wakeAt' = [wakeAt EXCEPT ![t] = clock + (Head(timestamps) + Window - now[t])]
    /\ now' = [now EXCEPT ![t] = 0]
    /\ Goto(t, "asleep")
    /\ UNCHANGED <<clock, timestamps, lock, mode, calls, granted>>

\* acquire() computes wait_time under the lock and sleeps after releasing it; the
\* sleep starts no earlier than the release, so it ends no earlier than wait_time
\* after it.
Block(t) ==
    /\ pc[t] = "locked"
    /\ mode[t] = "acquire"
    /\ ~HeadExpired(t)
    /\ Len(timestamps) >= Max
    /\ wakeAt' = [wakeAt EXCEPT ![t] = clock + (Head(timestamps) + Window - now[t])]
    /\ now' = [now EXCEPT ![t] = 0]
    /\ lock' = Free
    /\ Goto(t, "asleep")
    /\ UNCHANGED <<clock, timestamps, mode, calls, granted>>

\* The sleep is over: once more round the while loop.
Wake(t) ==
    /\ pc[t] = "asleep"
    /\ clock >= wakeAt[t]
    /\ wakeAt' = [wakeAt EXCEPT ![t] = 0]
    /\ Goto(t, "want_lock")
    /\ UNCHANGED <<clock, timestamps, lock, mode, now, calls, granted>>

\* Time passes.  MaxTime cuts the clock off only when nobody is asleep.
Tick ==
    /\ \/ clock < MaxTime
       \/ \E t \in Thread : pc[t] = "asleep" /\ clock < wakeAt[t]
    /\ clock' = clock + 1
    /\ UNCHANGED <<timestamps, lock, pc, mode, now, wakeAt, calls, granted>>

Finish(t) ==
    \/ EnterLock(t)
    \/ PurgeExpired(t)
    \/ Grant(t)
    \/ Refuse(t)
    \/ Block(t)
    \/ Wake(t)

Next == (\E t \in Thread : Call(t) \/ Finish(t)) \/ Tick

Spec == Init /\ [][Next]_vars

\* The clock runs and a thread inside a call is scheduled.  Nobody has to call, and
\* the lock need not be fair: a thread takes it finitely often.
Fairness == WF_vars(Tick) /\ \A t \in Thread : WF_vars(Finish(t))

FairSpec == Spec /\ Fairness

-----------------------------------------------------------------------------
(***************************************************************************)
(* Properties.                                                             *)
(***************************************************************************)

\* Any Max + 1 consecutive grants span at least a window: no half-open window of
\* window_seconds, wherever it starts, holds more than max_requests grants.
WindowBound ==
    \A i \in 1..Len(granted) - Max : granted[i + Max] - granted[i] >= Window

\* The limiter forgets no grant that still counts: every stamp it dropped has left
\* the window of every thread that may still grant, and what it keeps are the
\* latest grants, in order.
RemembersRecent ==
    LET kept    == Len(timestamps)
        dropped == Len(granted) - kept
    IN  /\ dropped >= 0
        /\ \A i \in 1..kept : timestamps[i] = granted[dropped + i]
        /\ \A i \in 1..dropped : granted[i] <= clock - Window

\* Callers that make finitely many calls are all served: every acquire() returns.
\* The limiter is no queue, so with endless callers one of them may starve.
AcquireReturns ==
    \A t \in Thread : pc[t] = "want_lock" ~> pc[t] = "idle"
=============================================================================
