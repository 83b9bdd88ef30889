------------------------- MODULE RateLimiterProofs -------------------------
(***************************************************************************)
(* Theorems about RateLimiter, for every number of threads, every limit    *)
(* and every window.                                                       *)
(***************************************************************************)
EXTENDS RateLimiter, TLAPS

\* The invariant of the lock: its holder is the one thread inside the with block.
LockHeld == \A t \in Thread : pc[t] = "locked" <=> lock = t

\* Stamps are granted in order, none from the future, and none after the time the
\* thread inside the lock has read.
StampsInOrder ==
    /\ \A i \in 1..Len(granted) : granted[i] <= clock
    /\ \A i, j \in 1..Len(granted) : i <= j => granted[i] <= granted[j]
    /\ \A t \in Thread : lock = t =>
        /\ now[t] <= clock
        /\ \A i \in 1..Len(granted) : granted[i] <= now[t]

\* Whatever the deque has forgotten lies a window before the time the thread
\* inside the lock has read.
ForgottenIsOld ==
    \A t \in Thread : lock = t =>
        \A i \in 1..Len(granted) - Len(timestamps) : granted[i] <= now[t] - Window

LimiterInv ==
    TypeOK /\ LockHeld /\ StampsInOrder /\ RemembersRecent /\ ForgottenIsOld /\ WindowBound

-----------------------------------------------------------------------------
USE LimitAssumption, BoundAssumption, ThreadAssumption DEF Goto, Return, HeadExpired

\* Every step keeps the types, and with them the size of the deque.
LEMMA StepTypes == TypeOK /\ LockHeld /\ [Next]_vars => TypeOK'
<1> SUFFICES ASSUME TypeOK, LockHeld, [Next]_vars PROVE TypeOK'
  OBVIOUS
<1> USE DEF TypeOK, LockHeld
<1>1. ASSUME NEW t \in Thread, Call(t) PROVE TypeOK'
  BY <1>1 DEF Call
<1>2. ASSUME NEW t \in Thread, EnterLock(t) PROVE TypeOK'
  BY <1>2 DEF EnterLock
<1>3. ASSUME NEW t \in Thread, PurgeExpired(t) PROVE TypeOK'
  BY <1>3 DEF PurgeExpired
<1>4. ASSUME NEW t \in Thread, Grant(t) PROVE TypeOK'
  BY <1>4 DEF Grant
<1>5. ASSUME NEW t \in Thread, Refuse(t) PROVE TypeOK'
  BY <1>5 DEF Refuse
<1>6. ASSUME NEW t \in Thread, Block(t) PROVE TypeOK'
  <2>1. Head(timestamps) \in Nat
    BY <1>6 DEF Block
  <2>2. clock + (Head(timestamps) + Window - now[t]) \in Int
    BY <2>1
  <2>3. wakeAt' \in [Thread -> Int]
    BY <1>6, <2>2 DEF Block
  <2>4. QED
    BY <1>6, <2>3 DEF Block
<1>7. ASSUME NEW t \in Thread, Wake(t) PROVE TypeOK'
  BY <1>7 DEF Wake
<1>8. CASE Tick
  BY <1>8 DEF Tick
<1>9. CASE UNCHANGED vars
  BY <1>9 DEF vars
<1>10. QED
  BY <1>1, <1>2, <1>3, <1>4, <1>5, <1>6, <1>7, <1>8, <1>9 DEF Next, Finish

\* Every step keeps the lock's invariant.
LEMMA StepLock == TypeOK /\ LockHeld /\ [Next]_vars => LockHeld'
  BY DEF TypeOK, LockHeld, Next, Finish, Call, EnterLock, PurgeExpired, Grant, Refuse,
         Block, Wake, Tick, vars
\* What a grant does to the two sequences: both end in the new stamp.
LEMMA GrantAppends ==
    ASSUME TypeOK, NEW t \in Thread, Grant(t)
    PROVE  /\ now[t] \in Nat
           /\ Len(granted') = Len(granted) + 1
           /\ Len(timestamps') = Len(timestamps) + 1
           /\ \A i \in 1..Len(granted) : granted'[i] = granted[i]
           /\ \A i \in 1..Len(timestamps) : timestamps'[i] = timestamps[i]
           /\ granted'[Len(granted')] = now[t]
           /\ timestamps'[Len(timestamps')] = now[t]
  BY DEF TypeOK, Grant

\* What a purge does: the oldest stamp, a window old, leaves the deque.
LEMMA PurgeDrops ==
    ASSUME TypeOK, NEW t \in Thread, PurgeExpired(t)
    PROVE  /\ Len(timestamps) \in Nat \ {0}
           /\ Len(timestamps') = Len(timestamps) - 1
           /\ \A i \in 1..Len(timestamps') : timestamps'[i] = timestamps[i + 1]
           /\ timestamps[1] <= now[t] - Window
  BY DEF TypeOK, PurgeExpired

\* What the invariant says of a thread inside the lock, in terms of lengths.
LEMMA InsideLock ==
    ASSUME LimiterInv, NEW t \in Thread, lock = t
    PROVE  /\ clock \in Nat /\ now[t] \in Nat /\ now[t] <= clock
           /\ Len(granted) \in Nat /\ Len(timestamps) \in Nat
           /\ Len(timestamps) <= Len(granted)
           /\ \A i \in 1..Len(granted) : granted[i] \in Nat /\ granted[i] <= now[t]
           /\ \A i \in 1..Len(timestamps) :
                 timestamps[i] = granted[(Len(granted) - Len(timestamps)) + i]
           /\ \A i \in 1..Len(granted) - Len(timestamps) :
                 granted[i] <= now[t] - Window
  BY DEF LimiterInv, TypeOK, StampsInOrder, RemembersRecent, ForgottenIsOld

\* Every step keeps the rest of the invariant.
LEMMA StepLimiter ==
    ASSUME LimiterInv, [Next]_vars, TypeOK', LockHeld'
    PROVE  StampsInOrder' /\ RemembersRecent' /\ ForgottenIsOld' /\ WindowBound'
<1> DEFINE n == Len(granted)
           k == Len(timestamps)
<1>1. ASSUME NEW t \in Thread, EnterLock(t)
      PROVE  StampsInOrder' /\ RemembersRecent' /\ ForgottenIsOld' /\ WindowBound'
  <2>1. /\ UNCHANGED <<clock, timestamps, granted>>
        /\ \A u \in Thread : lock' = u => now'[u] = clock
        /\ clock \in Nat
    BY <1>1 DEF EnterLock, LimiterInv, TypeOK
  <2>2. StampsInOrder' /\ RemembersRecent' /\ ForgottenIsOld' /\ WindowBound'
    BY <2>1 DEF LimiterInv, StampsInOrder, RemembersRecent, ForgottenIsOld, WindowBound
  <2>3. QED
    BY <2>2
<1>2. ASSUME NEW t \in Thread, PurgeExpired(t)
      PROVE  StampsInOrder' /\ RemembersRecent' /\ ForgottenIsOld' /\ WindowBound'
  <2>1. UNCHANGED <<clock, granted, lock, now>> /\ lock = t
    BY <1>2 DEF PurgeExpired, LimiterInv, LockHeld
  <2>2. /\ k \in Nat \ {0}
        /\ Len(timestamps') = k - 1
        /\ \A i \in 1..Len(timestamps') : timestamps'[i] = timestamps[i + 1]
        /\ timestamps[1] <= now[t] - Window
    BY <1>2, PurgeDrops DEF LimiterInv
  <2> HIDE DEF n, k
  <2>3. /\ clock \in Nat /\ now[t] \in Nat /\ now[t] <= clock
        /\ n \in Nat /\ k <= n
        /\ \A i \in 1..n : granted[i] \in Nat
        /\ \A i \in 1..k : timestamps[i] = granted[(n - k) + i]
        /\ \A i \in 1..n - k : granted[i] <= now[t] - Window
    BY <2>1, InsideLock DEF n, k
  <2>4. granted[(n - k) + 1] <= now[t] - Window
    BY <2>2, <2>3
  <2>5. \A i \in 1..n - (k - 1) : granted[i] <= now[t] - Window
    <3>1. TAKE i \in 1..n - (k - 1)
    <3>2. i \in 1..n - k \/ i = (n - k) + 1
      BY <2>2, <2>3
    <3>3. QED
      BY <3>2, <2>3, <2>4
  <2>6. \A i \in 1..k - 1 : timestamps'[i] = granted[(n - (k - 1)) + i]
    <3>1. TAKE i \in 1..k - 1
    <3>2. i + 1 \in 1..k /\ (n - k) + (i + 1) = (n - (k - 1)) + i
      BY <2>2, <2>3
    <3>3. QED
      BY <3>2, <2>2, <2>3
  <2>7. \A i \in 1..n - (k - 1) : granted[i] <= clock - Window
    <3>1. TAKE i \in 1..n - (k - 1)
    <3>2. granted[i] \in Nat
      BY <2>2, <2>3
    <3>3. QED
      BY <3>2, <2>3, <2>5
  <2>8. ForgottenIsOld'
    BY <2>1, <2>2, <2>5 DEF ForgottenIsOld, n
  <2>9. RemembersRecent'
    BY <2>1, <2>2, <2>3, <2>6, <2>7 DEF RemembersRecent, n
  <2>10. StampsInOrder' /\ WindowBound'
    BY <2>1 DEF LimiterInv, StampsInOrder, WindowBound
  <2>11. QED
    BY <2>8, <2>9, <2>10
<1>3. ASSUME NEW t \in Thread, Grant(t)
      PROVE  StampsInOrder' /\ RemembersRecent' /\ ForgottenIsOld' /\ WindowBound'
  <2>1. clock' = clock /\ lock = t /\ lock' = Free /\ k < Max
    BY <1>3 DEF Grant, LimiterInv, LockHeld
  <2>2. /\ Len(granted') = n + 1
        /\ Len(timestamps') = k + 1
        /\ \A i \in 1..n : granted'[i] = granted[i]
        /\ \A i \in 1..k : timestamps'[i] = timestamps[i]
        /\ granted'[n + 1] = now[t]
        /\ timestamps'[k + 1] = now[t]
    <3>1. TypeOK
      BY DEF LimiterInv
    <3>2. QED
      BY <1>3, <3>1, GrantAppends
  <2>3. \A i, j \in 1..n : i <= j => granted[i] <= granted[j]
    BY DEF LimiterInv, StampsInOrder
  <2>4. \A i \in 1..n - k : granted[i] <= clock - Window
    BY DEF LimiterInv, RemembersRecent
  <2>5. \A i \in 1..n - Max : granted[i + Max] - granted[i] >= Window
    BY DEF LimiterInv, WindowBound
  <2>6. /\ clock \in Nat /\ now[t] \in Nat /\ now[t] <= clock
        /\ n \in Nat /\ k \in Nat /\ k <= n
        /\ \A i \in 1..n : granted[i] \in Nat /\ granted[i] <= now[t]
        /\ \A i \in 1..k : timestamps[i] = granted[(n - k) + i]
        /\ \A i \in 1..n - k : granted[i] <= now[t] - Window
    BY <2>1, InsideLock
  <2> HIDE DEF n, k
  <2>7. StampsInOrder'
    <3>1. \A i \in 1..n + 1 : granted'[i] <= clock
      <4>1. TAKE i \in 1..n + 1
      <4>2. i \in 1..n \/ i = n + 1
        BY <2>6
      <4>3. QED
        BY <4>2, <2>2, <2>6
    <3>2. \A i, j \in 1..n + 1 : i <= j => granted'[i] <= granted'[j]
      <4>1. TAKE i, j \in 1..n + 1
      <4>2. (i \in 1..n \/ i = n + 1) /\ (j \in 1..n \/ j = n + 1)
        BY <2>6
      <4>3. QED
        BY <4>2, <2>2, <2>3, <2>6
    <3>3. QED
      BY <2>1, <2>2, <3>1, <3>2, ThreadAssumption DEF StampsInOrder
  <2>8. ForgottenIsOld'
    BY <2>1, ThreadAssumption DEF ForgottenIsOld
  <2>9. RemembersRecent'
    <3>1. \A i \in 1..k + 1 : timestamps'[i] = granted'[(n - k) + i]
      <4>1. TAKE i \in 1..k + 1
      <4>2. (i \in 1..k /\ (n - k) + i \in 1..n) \/ (i = k + 1 /\ (n - k) + i = n + 1)
        BY <2>6
      <4>3. QED
        BY <4>2, <2>2, <2>6
    <3>2. \A i \in 1..n - k : granted'[i] <= clock - Window
      <4>1. TAKE i \in 1..n - k
      <4>2. i \in 1..n
        BY <2>6
      <4>3. QED
        BY <4>2, <2>2, <2>4
    <3>3. (n + 1) - (k + 1) = n - k /\ n - k >= 0
      BY <2>6
    <3>4. QED
      BY <2>1, <2>2, <3>1, <3>2, <3>3 DEF RemembersRecent
  <2>10. \A i \in 1..(n + 1) - Max : granted'[i + Max] - granted'[i] >= Window
    <3>1. TAKE i \in 1..(n + 1) - Max
    <3>2. CASE i + Max = n + 1
      <4>1. i \in 1..n - k /\ i \in 1..n
        BY <3>2, <2>1, <2>6, LimitAssumption
      <4>2. granted'[i + Max] = now[t] /\ granted'[i] = granted[i]
        BY <3>2, <4>1, <2>2
      <4>3. granted[i] \in Nat /\ granted[i] <= now[t] - Window /\ now[t] \in Nat
        BY <4>1, <2>6
      <4>4. QED
        BY <4>2, <4>3, LimitAssumption
    <3>3. CASE i + Max # n + 1
      <4>1. i \in 1..n - Max /\ i \in 1..n /\ i + Max \in 1..n
        BY <3>3, <2>6, LimitAssumption
      <4>2. QED
        BY <4>1, <2>2, <2>5
    <3>4. QED
      BY <3>2, <3>3
  <2>11. WindowBound'
    BY <2>2, <2>10 DEF WindowBound
  <2>12. QED
    BY <2>7, <2>8, <2>9, <2>11
<1>4. ASSUME NEW t \in Thread, Refuse(t) \/ Block(t)
      PROVE  StampsInOrder' /\ RemembersRecent' /\ ForgottenIsOld' /\ WindowBound'
  <2>1. UNCHANGED <<clock, timestamps, granted>> /\ lock' = Free
    BY <1>4 DEF Refuse, Block
  <2>2. QED
    BY <2>1, ThreadAssumption
    DEF LimiterInv, StampsInOrder, RemembersRecent, ForgottenIsOld, WindowBound
<1>5. ASSUME NEW t \in Thread, Call(t) \/ Wake(t)
      PROVE  StampsInOrder' /\ RemembersRecent' /\ ForgottenIsOld' /\ WindowBound'
  <2>1. UNCHANGED <<clock, timestamps, granted, lock, now>>
    BY <1>5 DEF Call, Wake
  <2>2. QED
    BY <2>1
    DEF LimiterInv, StampsInOrder, RemembersRecent, ForgottenIsOld, WindowBound
<1>6. CASE Tick
  <2>1. UNCHANGED <<timestamps, granted, lock, now>> /\ clock' = clock + 1
        /\ clock \in Nat /\ now \in [Thread -> Nat]
        /\ \A i \in 1..n : granted[i] \in Nat
    BY <1>6 DEF Tick, LimiterInv, TypeOK
  <2>2. QED
    BY <2>1 DEF LimiterInv, TypeOK, StampsInOrder, RemembersRecent, ForgottenIsOld, WindowBound
<1>7. CASE UNCHANGED vars
  BY <1>7
  DEF vars, LimiterInv, StampsInOrder, RemembersRecent, ForgottenIsOld, WindowBound
<1>8. QED
  BY <1>1, <1>2, <1>3, <1>4, <1>5, <1>6, <1>7 DEF Next, Finish

-----------------------------------------------------------------------------

\* The invariant of the limiter is inductive.
LEMMA LimiterInvariant == Spec => []LimiterInv
<1>1. Init => LimiterInv
  BY DEF Init, LimiterInv, TypeOK, LockHeld, StampsInOrder, RemembersRecent,
         ForgottenIsOld, WindowBound
<1>2. LimiterInv /\ [Next]_vars => LimiterInv'
  <2> SUFFICES ASSUME LimiterInv, [Next]_vars PROVE LimiterInv'
    OBVIOUS
  <2>1. TypeOK' /\ LockHeld'
    BY StepTypes, StepLock DEF LimiterInv
  <2>2. QED
    BY <2>1, StepLimiter DEF LimiterInv
<1>3. QED
  BY <1>1, <1>2, PTL DEF Spec

\* Types, and a deque never longer than max_requests.
THEOREM LimiterTypes == Spec => []TypeOK
  BY LimiterInvariant, PTL DEF LimiterInv

\* No half-open window ever holds more than max_requests grants, whatever the
\* threads, the limit, the window and the schedule.
THEOREM NeverOverTheLimit == Spec => []WindowBound
  BY LimiterInvariant, PTL DEF LimiterInv

\* The deque is the exact tail of the grants that can still count.
THEOREM NothingForgotten == Spec => []RemembersRecent
  BY LimiterInvariant, PTL DEF LimiterInv

=============================================================================
