---------------------------- MODULE ThrottleProofs -----------------------------
(***************************************************************************)
(* The safety properties of the two guards that refuse work: Breaker, in    *)
(* front of CyberArk, for any number of concurrent calls and any threshold  *)
(* and cooldown, and BruteForce, in front of the authenticator, for any     *)
(* sources, attempts and configuration.                                     *)
(***************************************************************************)
EXTENDS Breaker, BruteForce, FiniteSetTheorems, SequenceTheorems, WellFoundedInduction, TLAPS

(* The breaker. *)

(* While the breaker is closed, its counter is the number of failures since  *)
(* the last success, and has not reached the threshold.                      *)
ClosedCounts == ~open => failures = failed /\ failures < Threshold

IInv == TypeOK /\ HalfOpenHasTrial /\ ClosedCounts

LEMMA InitEstablishes == Init => IInv
<1> SUFFICES ASSUME Init PROVE IInv
  OBVIOUS
<1>1. TypeOK
  <2>1. failures \in 0..Threshold /\ failed \in 0..Threshold /\ coolDown \in 0..Cooldown
    BY BreakerAssumption DEF BreakerAssumption, Init
  <2>2. open \in BOOLEAN /\ halfOpen \in BOOLEAN
    BY Zenon DEF Init
  <2>3. /\ call \in [Calls -> {"idle", "fetching", "ok", "refused"}]
        /\ trial \in [Calls -> BOOLEAN]
    BY DEF Init
  <2> QED
    BY <2>1, <2>2, <2>3, Zenon DEF TypeOK
<1>2. HalfOpenHasTrial
  BY Zenon DEF Init, HalfOpenHasTrial
<1>3. failures = failed /\ failures < Threshold
  BY BreakerAssumption DEF BreakerAssumption, Init
<1> QED
  BY <1>1, <1>2, <1>3, Zenon DEF IInv, ClosedCounts

(* Counting stays in range, whatever the threshold. *)
LEMMA CountedInRange == \A n \in 0..Threshold : Counted(n) \in 0..Threshold
  BY BreakerAssumption DEF BreakerAssumption, Counted

(* Every step of Allow, Success, Fail and of time preserves IInv. *)
LEMMA StepPreserves == IInv /\ [Next]_vars => IInv'
<1> SUFFICES ASSUME IInv, [Next]_vars PROVE IInv'
  OBVIOUS
<1> USE BreakerAssumption DEF BreakerAssumption, IInv, TypeOK, HalfOpenHasTrial, ClosedCounts, breaker
<1>1. ASSUME NEW c \in Calls, AllowClosed(c) PROVE IInv'
  BY <1>1 DEF AllowClosed
<1>2. ASSUME NEW c \in Calls, AllowTrial(c) PROVE IInv'
  BY <1>2 DEF AllowTrial
<1>3. ASSUME NEW c \in Calls, AllowRefuses(c) PROVE IInv'
  BY <1>3 DEF AllowRefuses
<1>4. ASSUME NEW c \in Calls, Success(c) PROVE IInv'
  <2>1. TypeOK'
    <3>1. failures' \in 0..Threshold /\ failed' \in 0..Threshold /\ coolDown' \in 0..Cooldown
      BY <1>4 DEF Success
    <3>2. open' \in BOOLEAN /\ halfOpen' \in BOOLEAN
      BY <1>4, Zenon DEF Success
    <3>3. /\ call' \in [Calls -> {"idle", "fetching", "ok", "refused"}]
          /\ trial' \in [Calls -> BOOLEAN]
      BY <1>4 DEF Success
    <3> QED
      BY <3>1, <3>2, <3>3, Zenon
  <2>2. HalfOpenHasTrial'
    BY <1>4, Zenon DEF Success
  <2>3. failures' = failed' /\ failures' < Threshold
    BY <1>4 DEF Success
  <2> QED
    BY <2>1, <2>2, <2>3, Zenon
<1>5. ASSUME NEW c \in Calls, Fail(c) PROVE IInv'
  <2>1. failures' \in 0..Threshold /\ failed' \in 0..Threshold /\ coolDown' \in 0..Cooldown
    BY <1>5, CountedInRange DEF Fail
  <2>2. open' \in BOOLEAN /\ halfOpen' = FALSE
    BY <1>5, Zenon DEF Fail
  <2>3. TypeOK'
    BY <1>5, <2>1, <2>2 DEF Fail
  <2>4. HalfOpenHasTrial'
    BY <2>2, Zenon
  <2>5. ASSUME ~open' PROVE failures' = failed' /\ failures' < Threshold
    <3>1. ~halfOpen /\ ~open
      BY <1>5, <2>5, Zenon DEF Fail
    <3>2. failures' = Counted(failures) /\ ~(failures + 1 >= Threshold)
      BY <1>5, <2>5, <3>1, Zenon DEF Fail
    <3> QED
      BY <1>5, <3>1, <3>2 DEF Fail, Counted
  <2> QED
    BY <2>3, <2>4, <2>5, Zenon
<1>6. ASSUME NEW c \in Calls, Retry(c) PROVE IInv'
  BY <1>6 DEF Retry
<1>7. CASE Tick
  BY <1>7 DEF Tick
<1>8. CASE UNCHANGED vars
  BY <1>8 DEF vars
<1> QED
  BY <1>1, <1>2, <1>3, <1>4, <1>5, <1>6, <1>7, <1>8 DEF Next

(* The strengthened invariant holds in every reachable state. *)
THEOREM Invariance == Spec => []IInv
  BY InitEstablishes, StepPreserves, PTL DEF Spec

(* The fields of the breaker stay in their ranges: in particular the counter *)
(* never passes the threshold and openUntil is never beyond one cooldown.    *)
THEOREM TypeCorrect == Spec => []TypeOK
  BY Invariance, PTL DEF IInv

(* The breaker never jams half-open without a trial in flight. *)
THEOREM NeverJams == Spec => []HalfOpenHasTrial
  BY Invariance, PTL DEF IInv

(* Threshold failures with no success between them leave the breaker open. *)
THEOREM FailuresOpen == Spec => []DownOpens
<1>1. IInv => DownOpens
  BY BreakerAssumption DEF BreakerAssumption, IInv, TypeOK, ClosedCounts, DownOpens
<1> QED
  BY <1>1, Invariance, PTL

(* No fetch starts on an open breaker that is cooling down or on trial. *)
THEOREM OpenIsShut == Spec => OpenAdmitsNoFetch
<1>1. IInv /\ [Next]_vars
        => [\A c \in Calls : /\ call[c] = "idle" /\ call'[c] = "fetching"
                             /\ open
                             => coolDown = 0 /\ ~halfOpen /\ halfOpen']_vars
  BY DEF IInv, TypeOK, Next, AllowClosed, AllowTrial, AllowRefuses, Success, Fail,
         Retry, Tick, breaker, vars, CooledDown
<1> QED
  BY <1>1, Invariance, PTL DEF Spec, OpenAdmitsNoFetch

-----------------------------------------------------------------------------
(* The limiter. *)

(* A set of naturals that is not empty has a least element. *)
LEMMA LeastNatural ==
    ASSUME NEW T, T \subseteq Nat, T # {}
    PROVE  \E m \in T : \A n \in T : m <= n
<1> DEFINE R == OpToRel(<, Nat)
<1>1. R = {ss \in Nat \X Nat : ss[1] < ss[2]}
  BY Zenon DEF OpToRel
<1>2. IsWellFoundedOn(R, Nat)
  BY NatLessThanWellFounded
<1> HIDE DEF R
<1>3. PICK m \in T : \A n \in T : ~(<<n, m>> \in R)
  BY <1>2, WFMin
<1>4. ASSUME NEW n \in T
      PROVE  m <= n
  <2>1. m \in Nat /\ n \in Nat /\ <<n, m>> \in Nat \X Nat
    OBVIOUS
  <2>2. <<n, m>> \notin R
    BY <1>3
  <2>3. ~(n < m)
    BY <2>1, <2>2, <1>1
  <2> QED
    BY <2>1, <2>3
<1> QED
  BY <1>4

(* One doubling of backoffFor. *)
Doubled(x) == IF 2 * x >= MaxBackoff THEN MaxBackoff ELSE 2 * x

(* There is a function that satisfies the equation of BackoffFor: its values *)
(* up to each level agree wherever two of them are defined.                  *)
LEMMA BackoffIs ==
    \A n \in Nat : BackoffFor[n] = IF n <= 1 THEN BaseBackoff ELSE Doubled(BackoffFor[n - 1])
<1> DEFINE Step(f, k) == IF k <= 1 THEN BaseBackoff ELSE Doubled(f[k - 1])
           Upto(f, n) == f = [k \in 0..n |-> Step(f, k)]
           Whole(f) == f = [k \in Nat |-> Step(f, k)]
<1>1. \A n \in Nat : \E f : Upto(f, n)
  <2> DEFINE T == {n \in Nat : ~ \E f : Upto(f, n)}
  <2> SUFFICES ASSUME T # {}
               PROVE  FALSE
    OBVIOUS
  <2>1. PICK m \in T : \A n \in T : m <= n
    <3>1. T \subseteq Nat
      OBVIOUS
    <3> HIDE DEF T
    <3> QED
      BY <3>1, LeastNatural
  <2>2. CASE m = 0
    <3> DEFINE f == [k \in 0..0 |-> BaseBackoff]
    <3>1. f = [k \in 0..0 |-> Step(f, k)]
      OBVIOUS
    <3> QED
      BY <2>2, <3>1
  <2>3. CASE m # 0
    <3>1. m \in Nat /\ m - 1 \in Nat /\ m - 1 \notin T
      <4>1. m \in Nat
        OBVIOUS
      <4> HIDE DEF T
      <4> QED
        BY <4>1, <2>1, <2>3
    <3>2. PICK f : Upto(f, m - 1)
      BY <3>1
    <3> DEFINE g == [k \in 0..m |-> IF k = m THEN Step(f, m) ELSE f[k]]
    <3>3. ASSUME NEW k \in 0..m
          PROVE  g[k] = Step(g, k)
      <4>1. CASE k <= 1
        BY <4>1, <3>1, <3>2
      <4>2. CASE k > 1
        <5>1. k - 1 \in 0..(m - 1) /\ k - 1 \in 0..m /\ k - 1 # m /\ (k # m => k \in 0..(m - 1))
          BY <4>2, <3>1
        <5>2. g[k - 1] = f[k - 1]
          BY <5>1
        <5>3. g[k] = Doubled(f[k - 1])
          BY <5>1, <4>2, <3>2
        <5> QED
          BY <5>2, <5>3, <4>2
      <4> QED
        BY <4>1, <4>2
    <3>4. g = [k \in 0..m |-> g[k]]
      OBVIOUS
    <3>5. Upto(g, m)
      BY <3>3, <3>4
    <3> QED
      BY <3>5
  <2> QED
    BY <2>2, <2>3
<1>2. ASSUME NEW f, NEW g, NEW m \in Nat, NEW n \in Nat, Upto(f, m), Upto(g, n),
             NEW k \in Nat, k <= m, k <= n
      PROVE  f[k] = g[k]
  <2> DEFINE T == {i \in Nat : i <= m /\ i <= n /\ f[i] # g[i]}
  <2> SUFFICES ASSUME T # {}
               PROVE  FALSE
    BY <1>2
  <2>1. PICK i \in T : \A j \in T : i <= j
    <3>1. T \subseteq Nat
      OBVIOUS
    <3> HIDE DEF T
    <3> QED
      BY <3>1, LeastNatural
  <2>2. f[i] = Step(f, i) /\ g[i] = Step(g, i)
    BY <1>2
  <2>3. i > 1 /\ i - 1 \in Nat /\ i - 1 \notin T
    BY <2>1, <2>2
  <2>4. f[i - 1] = g[i - 1]
    BY <2>3
  <2> QED
    BY <2>2, <2>3, <2>4
<1> DEFINE A(n) == CHOOSE f : Upto(f, n)
           F == [n \in Nat |-> A(n)[n]]
<1>3. \A n \in Nat : Upto(A(n), n)
  <2> HIDE DEF Upto
  <2> QED
    BY <1>1
<1>4. ASSUME NEW n \in Nat
      PROVE  F[n] = Step(F, n)
  <2>1. Upto(A(n), n)
    BY <1>3
  <2>2. A(n)[n] = Step(A(n), n)
    <3> HIDE DEF A
    <3> QED
      BY <2>1
  <2>3. CASE n <= 1
    BY <2>2, <2>3
  <2>4. CASE n > 1
    <3>1. n - 1 \in Nat /\ n - 1 <= n
      BY <2>4
    <3>2. Upto(A(n - 1), n - 1)
      BY <3>1, <1>3
    <3>3. A(n)[n - 1] = A(n - 1)[n - 1]
      <4> HIDE DEF A, Upto
      <4> QED
        BY <2>1, <3>1, <3>2, <1>2
    <3>4. F[n - 1] = A(n - 1)[n - 1] /\ F[n] = A(n)[n]
      BY <3>1
    <3> HIDE DEF A, F
    <3> QED
      BY <2>2, <2>4, <3>3, <3>4
  <2> QED
    BY <2>3, <2>4
<1>5. \E f : Whole(f)
  <2>1. F = [n \in Nat |-> F[n]]
    OBVIOUS
  <2> HIDE DEF F
  <2>2. Whole(F)
    BY <1>4, <2>1
  <2> QED
    BY <2>2
<1>6. BackoffFor = CHOOSE f : Whole(f)
  BY DEF BackoffFor, Doubled
<1>7. Whole(BackoffFor)
  <2> HIDE DEF Whole
  <2> QED
    BY <1>5, <1>6
<1> QED
  BY <1>7

(* No lockout is empty, and none, whatever its level, exceeds MaxBackoff. *)
LEMMA BackoffInRange ==
    \A n \in Nat : BackoffFor[n] \in 1..MaxBackoff
<1> DEFINE T == {n \in Nat : BackoffFor[n] \notin 1..MaxBackoff}
<1> SUFFICES ASSUME T # {}
             PROVE  FALSE
  OBVIOUS
<1>1. PICK m \in T : \A n \in T : m <= n
  <2>1. T \subseteq Nat
    OBVIOUS
  <2> HIDE DEF T
  <2> QED
    BY <2>1, LeastNatural
<1>2. m \in Nat /\ BackoffFor[m] \notin 1..MaxBackoff
  OBVIOUS
<1>3. m > 1
  BY <1>2, BackoffIs, LimiterAssumption DEF LimiterAssumption
<1>4. m - 1 \in Nat /\ m - 1 \notin T
  <2> HIDE DEF T
  <2> QED
    BY <1>1, <1>2, <1>3
<1>5. BackoffFor[m - 1] \in 1..MaxBackoff
  BY <1>4
<1>6. BackoffFor[m] = Doubled(BackoffFor[m - 1])
  BY <1>2, <1>3, BackoffIs
<1> QED
  BY <1>2, <1>5, <1>6, LimiterAssumption DEF LimiterAssumption, Doubled

(* RecordFailure climbs the levels one at a time. *)
LEMMA NextLevelType ==
    \A n \in Nat : NextLevel(n) \in Nat
  BY DEF NextLevel

(* How an entry and the failures recorded for it belong together.  While its *)
(* window is open the failures it counts are the last ones and no older than *)
(* the window, and those before them, from the window before, are fewer than *)
(* MaxFailures; once the window is over, no failure from before it is left.  *)
(* An entry reclaimed as idle has no recent failure.                         *)
Explains(e, ages) ==
    /\ ages \in Seq(0..Window)
    /\ \A i, j \in 1..Len(ages) : i < j => ages[j] <= ages[i]
    /\ e = Untracked => ages = << >>
    /\ e # Untracked =>
          /\ \A i \in 1..Len(ages) : e.idle <= ages[i]
          /\ e.winAge > Window =>
                /\ Len(ages) <= e.failures
                /\ \A i \in 1..Len(ages) : ages[i] > 0
          /\ e.winAge <= Window =>
                /\ e.failures <= Len(ages)
                /\ Len(ages) < e.failures + MaxFailures
                /\ \A i \in 1..Len(ages) :
                      i > Len(ages) - e.failures <=> ages[i] <= e.winAge

(* The history of a source is bounded. *)
LEMMA ExplainsBounds ==
    ASSUME NEW e \in Entry \cup {Untracked}, NEW ages, Explains(e, ages)
    PROVE  Len(ages) <= 2 * MaxFailures
<1>1. Len(ages) \in Nat
  BY LenProperties DEF Explains
<1>2. CASE e = Untracked
  BY <1>2, LimiterAssumption DEF Explains, LimiterAssumption
<1>3. CASE e # Untracked
  <2>1. e.failures \in 0..(MaxFailures - 1) /\ e.winAge \in 0..(Window + 1)
    BY <1>3 DEF Entry
  <2>2. Len(ages) <= e.failures \/ Len(ages) < e.failures + MaxFailures
    BY <2>1, <1>3, LimiterAssumption DEF Explains, LimiterAssumption
  <2> QED
    BY <1>1, <2>1, <2>2, LimiterAssumption DEF LimiterAssumption
<1> QED
  BY <1>2, <1>3

(* A new entry explains an empty history. *)
LEMMA FreshExplains ==
    Fresh \in Entry /\ Fresh # Untracked /\ Explains(Fresh, << >>)
<1>1. Fresh \in Entry
  BY LimiterAssumption DEF LimiterAssumption, Fresh, Entry
<1>2. Fresh # Untracked
  BY <1>1, UntrackedAssumption DEF UntrackedAssumption
<1>3. << >> \in Seq(0..Window) /\ Len(<< >>) = 0
  BY EmptySeq
<1> QED
  BY <1>1, <1>2, <1>3, LimiterAssumption DEF LimiterAssumption, Explains, Fresh

(* An entry is its five fields. *)
Fields(f, w, l, v, i) == [failures |-> f, winAge |-> w, lockLeft |-> l, level |-> v, idle |-> i]

(* The entry of a failure that is counted. *)
LEMMA CountedFields ==
    ASSUME NEW e \in Entry, NEW x, NEW y
    PROVE  [e EXCEPT !.failures = x, !.idle = 0, !.winAge = y]
              = Fields(x, y, e.lockLeft, e.level, 0)
<1> DEFINE c == [e EXCEPT !.failures = x]
           d == [c EXCEPT !.idle = 0]
           f == [d EXCEPT !.winAge = y]
<1>1. c = Fields(x, e.winAge, e.lockLeft, e.level, e.idle)
  BY DEF Entry, Fields
<1>2. d = Fields(x, e.winAge, e.lockLeft, e.level, 0)
  <2> HIDE DEF c
  <2> QED
    BY <1>1 DEF Fields
<1>3. f = Fields(x, y, e.lockLeft, e.level, 0)
  <2> HIDE DEF d
  <2> QED
    BY <1>2 DEF Fields
<1>4. [e EXCEPT !.failures = x, !.idle = 0, !.winAge = y] = f
  OBVIOUS
<1> HIDE DEF f
<1> QED
  BY <1>3, <1>4

(* The entry a tick later. *)
Aged(e) == Fields(e.failures, Older(e.winAge), IF e.lockLeft = 0 THEN 0 ELSE e.lockLeft - 1,
                  e.level, Older(e.idle))

LEMMA AgedFields ==
    ASSUME NEW e \in Entry
    PROVE  [e EXCEPT !.winAge = Older(@), !.idle = Older(@),
                     !.lockLeft = IF @ = 0 THEN 0 ELSE @ - 1] = Aged(e)
<1> DEFINE x == Older(e.winAge)
           y == Older(e.idle)
           z == IF e.lockLeft = 0 THEN 0 ELSE e.lockLeft - 1
           c == [e EXCEPT !.winAge = x]
           d == [c EXCEPT !.idle = y]
           f == [d EXCEPT !.lockLeft = z]
<1>4. [e EXCEPT !.winAge = Older(@), !.idle = Older(@), !.lockLeft = IF @ = 0 THEN 0 ELSE @ - 1]
        = [e EXCEPT !.winAge = x, !.idle = y, !.lockLeft = z]
  OBVIOUS
<1> HIDE DEF x, y, z
<1>1. c = Fields(e.failures, x, e.lockLeft, e.level, e.idle)
  BY DEF Entry, Fields
<1>2. d = Fields(e.failures, x, e.lockLeft, e.level, y)
  <2> HIDE DEF c
  <2> QED
    BY <1>1 DEF Fields
<1>3. f = Fields(e.failures, x, z, e.level, y)
  <2> HIDE DEF d
  <2> QED
    BY <1>2 DEF Fields
<1>5. [e EXCEPT !.winAge = x, !.idle = y, !.lockLeft = z] = f
  OBVIOUS
<1> HIDE DEF f
<1> QED
  BY <1>3, <1>4, <1>5 DEF Aged, x, y, z

(* RecordFailure keeps the entry and its history together. *)
LEMMA FailedExplains ==
    ASSUME NEW e \in Entry, NEW ages, Explains(e, ages)
    PROVE  /\ Failed(e) \in Entry
           /\ Failed(e) # Untracked
           /\ e.lockLeft > 0 => /\ Explains(Failed(e), ages)
                                /\ Failed(e).lockLeft = e.lockLeft
           /\ ~(e.lockLeft > 0) /\ Failed(e).lockLeft > 0 =>
                 /\ Explains(Failed(e), << >>)
                 /\ Len(ages) + 1 >= MaxFailures
           /\ ~(e.lockLeft > 0) /\ ~(Failed(e).lockLeft > 0) =>
                 Explains(Failed(e), Append(ages, 0))
<1> USE LimiterAssumption DEF LimiterAssumption
<1>0. /\ e.failures \in 0..(MaxFailures - 1) /\ e.winAge \in 0..(Window + 1)
      /\ e.lockLeft \in 0..MaxBackoff /\ e.level \in Nat /\ e.idle \in 0..(Window + 1)
      /\ e # Untracked
  BY UntrackedAssumption DEF UntrackedAssumption, Entry
<1>a. Len(ages) \in Nat /\ ages \in Seq(0..Window)
  BY LenProperties DEF Explains
<1>e. << >> \in Seq(0..Window) /\ Len(<< >>) = 0
  BY EmptySeq
<1> DEFINE stale == e.winAge > Window
           n == IF stale THEN 1 ELSE e.failures + 1
           lv == NextLevel(e.level)
           bk == BackoffFor[lv]
           locked == [failures |-> 0, winAge |-> 0, level |-> lv, idle |-> 0, lockLeft |-> bk]
           w == IF stale THEN 0 ELSE e.winAge
           counted == [e EXCEPT !.failures = n, !.idle = 0, !.winAge = w]
           renewed == [e EXCEPT !.idle = 0]
<1>b. lv \in Nat /\ bk \in 1..MaxBackoff
  BY <1>0, NextLevelType, BackoffInRange
<1>c. Failed(e) = IF e.lockLeft > 0 THEN renewed
                  ELSE IF n >= MaxFailures THEN locked ELSE counted
  BY DEF Failed
<1> HIDE DEF lv, bk
<1>1. CASE e.lockLeft > 0
  <2>1. /\ renewed \in Entry /\ renewed.lockLeft = e.lockLeft /\ renewed.idle = 0
        /\ renewed.failures = e.failures /\ renewed.winAge = e.winAge
    BY <1>0 DEF Entry
  <2>2. Failed(e) = renewed /\ renewed # Untracked
    BY <1>1, <1>c, <2>1, UntrackedAssumption DEF UntrackedAssumption
  <2>3. \A i \in 1..Len(ages) : 0 <= ages[i]
    BY <1>a
  <2> HIDE DEF renewed
  <2>4. Explains(renewed, ages)
    BY <2>1, <2>2, <2>3, <1>0 DEF Explains
  <2> QED
    BY <1>1, <2>1, <2>2, <2>4
<1>2. CASE ~(e.lockLeft > 0) /\ n >= MaxFailures
  <2>1. /\ locked \in Entry /\ locked.lockLeft > 0 /\ locked.idle = 0
        /\ locked.failures = 0 /\ locked.winAge = 0
    BY <1>b DEF Entry
  <2>2. Failed(e) = locked /\ locked # Untracked
    BY <1>2, <1>c, <2>1, UntrackedAssumption DEF UntrackedAssumption
  <2> HIDE DEF locked
  <2>3. Explains(locked, << >>)
    BY <2>1, <2>2, <1>e DEF Explains
  <2>4. Len(ages) + 1 >= MaxFailures
    BY <1>2, <1>0, <1>a DEF Explains
  <2> QED
    BY <1>2, <2>1, <2>2, <2>3, <2>4
<1>3. CASE ~(e.lockLeft > 0) /\ ~(n >= MaxFailures)
  <2>0. n \in 0..(MaxFailures - 1) /\ e.lockLeft = 0
    BY <1>0, <1>3
  <2>1. /\ counted \in Entry /\ counted.lockLeft = 0 /\ counted.idle = 0
        /\ counted.failures = n /\ counted.winAge = w
    <3>1. w \in 0..(Window + 1)
      BY <1>0
    <3> HIDE DEF n, w, stale
    <3>3. counted = Fields(n, w, e.lockLeft, e.level, 0)
      BY CountedFields
    <3> HIDE DEF counted
    <3> QED
      BY <1>0, <2>0, <3>1, <3>3 DEF Entry, Fields
  <2>2. Failed(e) = counted /\ counted # Untracked
    BY <1>3, <1>c, <2>1, UntrackedAssumption DEF UntrackedAssumption
  <2> HIDE DEF counted
  <2> DEFINE t == Append(ages, 0)
             m == Len(ages)
  <2>3. /\ t \in Seq(0..Window) /\ Len(t) = m + 1 /\ t[m + 1] = 0
        /\ \A i \in 1..m : t[i] = ages[i]
    BY <1>a
  <2>4. m \in Nat /\ \A i \in 1..m : ages[i] \in 0..Window
    BY <1>a
  <2>7. \A i, j \in 1..(m + 1) : i < j => t[j] <= t[i]
    <3>1. \A i, j \in 1..m : i < j => ages[j] <= ages[i]
      BY DEF Explains
    <3> HIDE DEF t, m
    <3> TAKE i, j \in 1..(m + 1)
    <3>2. CASE j = m + 1
      <4>1. t[i] \in 0..Window
        BY <2>3, <2>4
      <4> QED
        BY <3>2, <4>1, <2>3
    <3>3. CASE j # m + 1
      <4> SUFFICES ASSUME i < j
                   PROVE  t[j] <= t[i]
        OBVIOUS
      <4>1. i \in 1..m /\ j \in 1..m
        BY <3>3, <2>4
      <4> QED
        BY <3>1, <4>1, <2>3
    <3> QED
      BY <3>2, <3>3
  <2>5. CASE stale
    <3>1. counted.winAge = 0 /\ counted.failures = 1 /\ m <= MaxFailures - 1
      BY <2>1, <2>5, <1>0, <1>a DEF Explains
    <3>2. \A i \in 1..m : ages[i] > 0
      BY <2>5, <1>0 DEF Explains
    <3> HIDE DEF t, m
    <3>4. \A i \in 1..(m + 1) : i > (m + 1) - 1 <=> t[i] <= 0
      <4> TAKE i \in 1..(m + 1)
      <4>1. CASE i = m + 1
        BY <4>1, <2>3, <2>4
      <4>2. CASE i \in 1..m
        BY <4>2, <2>3, <2>4, <3>2
      <4> QED
        BY <4>1, <4>2, <2>4
    <3>5. \A i \in 1..(m + 1) : 0 <= t[i]
      BY <2>3, <2>4
    <3>3. Explains(counted, t)
      <4>1. 1 <= m + 1 /\ m + 1 < 1 + MaxFailures
        BY <3>1, <2>4
      <4> QED
        BY <4>1, <3>1, <3>4, <3>5, <2>1, <2>2, <2>3, <2>7 DEF Explains
    <3> QED
      BY <2>1, <2>2, <3>3, <1>3 DEF t
  <2>6. CASE ~stale
    <3>1. counted.winAge = e.winAge /\ counted.failures = e.failures + 1 /\ e.winAge <= Window
      BY <2>1, <2>6, <1>0
    <3>2. /\ e.failures <= m /\ m < e.failures + MaxFailures
          /\ \A i \in 1..m : i > m - e.failures <=> ages[i] <= e.winAge
      BY <3>1, <1>0 DEF Explains
    <3> HIDE DEF t, m, stale, n
    <3>3. \A i \in 1..(m + 1) : i > (m + 1) - (e.failures + 1) <=> t[i] <= e.winAge
      <4> TAKE i \in 1..(m + 1)
      <4>1. CASE i = m + 1
        BY <4>1, <2>3, <2>4, <1>0
      <4>2. CASE i \in 1..m
        <5> DEFINE a == ages[i]
                   b == e.failures
        <5>1. t[i] = a /\ a \in 0..Window /\ b \in Nat
          BY <4>2, <2>3, <2>4, <1>0
        <5>2. i > m - b <=> a <= e.winAge
          BY <4>2, <3>2
        <5>3. (m + 1) - (b + 1) = m - b
          <6> HIDE DEF b
          <6> QED
            BY <5>1, <2>4
        <5> QED
          BY <5>1, <5>2, <5>3
      <4> QED
        BY <4>1, <4>2, <2>4
    <3>4. \A i \in 1..(m + 1) : 0 <= t[i]
      BY <2>3, <2>4
    <3>5. Explains(counted, t)
      <4> DEFINE b == e.failures
      <4>1. b \in Nat /\ b + 1 <= m + 1 /\ m + 1 < (b + 1) + MaxFailures /\ ~(e.winAge > Window)
        <5>1. b \in Nat /\ b <= m /\ m < b + MaxFailures /\ e.winAge \in Nat
          BY <3>2, <1>0
        <5> HIDE DEF b
        <5> QED
          BY <5>1, <2>4, <3>1
      <4> HIDE DEF b
      <4>2. counted.failures = b + 1 /\ \A i \in 1..(m + 1) : i > (m + 1) - (b + 1) <=> t[i] <= e.winAge
        BY <3>1, <3>3 DEF b
      <4> QED
        BY <4>1, <4>2, <3>1, <3>4, <2>1, <2>2, <2>3, <2>7 DEF Explains
    <3> QED
      BY <2>1, <2>2, <3>5, <1>3 DEF t
  <2> QED
    BY <2>5, <2>6
<1> QED
  BY <1>1, <1>2, <1>3

(* What a tick leaves of a history: the failures still in the window, one    *)
(* tick older.                                                               *)
LEMMA RecentIs ==
    ASSUME NEW ages \in Seq(0..Window),
           \A i, j \in 1..Len(ages) : i < j => ages[j] <= ages[i]
    PROVE  \E d \in 0..Len(ages) :
              /\ \A i \in 1..Len(ages) : i <= d <=> ages[i] = Window
              /\ Recent(ages) \in Seq(0..Window)
              /\ Len(Recent(ages)) = Len(ages) - d
              /\ \A i \in 1..(Len(ages) - d) : Recent(ages)[i] = ages[i + d] + 1
<1> USE LimiterAssumption DEF LimiterAssumption
<1> DEFINE m == Len(ages)
           older == [i \in 1..m |-> Older(ages[i])]
           gone == {i \in 1..m : older[i] > Window}
           T == {i \in 1..(m + 1) : i = m + 1 \/ ages[i] # Window}
<1>1. m \in Nat /\ \A i \in 1..m : ages[i] \in 0..Window
  OBVIOUS
<1>2. \A i \in 1..m : older[i] = ages[i] + 1
  BY <1>1 DEF Older
<1>3. PICK l \in T : \A i \in T : l <= i
  <2>1. T \subseteq Nat /\ m + 1 \in T
    BY <1>1
  <2> HIDE DEF T
  <2> QED
    BY <2>1, LeastNatural
<1> DEFINE d == l - 1
<1>4. l \in 1..(m + 1) /\ d \in 0..m /\ l = d + 1
  <2> HIDE DEF m
  <2> QED
    BY <1>1
<1>5. ASSUME NEW i \in 1..m
      PROVE  i <= d <=> ages[i] = Window
  <2>1. ASSUME i <= d PROVE ages[i] = Window
    <3>1. ~(l <= i)
      BY <2>1, <1>1, <1>4
    <3>2. i \notin T
      BY <3>1, <1>3
    <3>3. i \in 1..(m + 1)
      BY <1>1
    <3> QED
      BY <3>2, <3>3
  <2>2. ASSUME ages[i] = Window, ~(i <= d) PROVE FALSE
    <3>1. l <= i /\ l # m + 1 /\ l \in 1..m
      <4> HIDE DEF m, T
      <4> QED
        BY <2>2, <1>1, <1>4
    <3>2. ages[l] # Window /\ ages[l] \in 0..Window
      BY <3>1, <1>1
    <3>3. l = i \/ ages[i] <= ages[l]
      BY <3>1
    <3> QED
      BY <2>2, <3>2, <3>3
  <2> QED
    BY <2>1, <2>2
<1>6. gone = 1..d
  <2>1. ASSUME NEW i \in 1..m PROVE older[i] > Window <=> i <= d
    <3>1. ages[i] \in 0..Window /\ older[i] = ages[i] + 1
      BY <1>1, <1>2
    <3>2. i <= d <=> ages[i] = Window
      BY <1>5
    <3> HIDE DEF older, d, m
    <3> QED
      BY <3>1, <3>2
  <2>2. 1..d \subseteq 1..m
    <3> HIDE DEF d, m
    <3> QED
      BY <1>1, <1>4
  <2>3. \A i \in 1..d : i <= d
    <3> HIDE DEF d, m
    <3> QED
      BY <1>4
  <2>4. \A i \in 1..m : i <= d => i \in 1..d
    <3> HIDE DEF d, m
    <3> QED
      BY <1>1, <1>4
  <2> HIDE DEF older, d, m
  <2> QED
    BY <2>1, <2>2, <2>3, <2>4
<1>7. Cardinality(gone) = d
  <2> HIDE DEF d, m, gone
  <2>1. Cardinality(1..d) = d
    BY <1>1, <1>4, FS_Interval
  <2> QED
    BY <2>1, <1>6
<1>8. Recent(ages) = SubSeq(older, d + 1, m)
  <2>1. Recent(ages) = SubSeq(older, Cardinality(gone) + 1, m)
    BY DEF Recent
  <2> HIDE DEF gone, older, d, m
  <2> QED
    BY <2>1, <1>7
<1>9. older \in Seq(Nat) /\ Len(older) = m
  <2>1. \A i \in 1..m : older[i] \in Nat
    BY <1>1, <1>2
  <2> HIDE DEF m
  <2> QED
    BY <2>1, <1>1
<1> DEFINE r == [i \in 1..(m - d) |-> older[i + d]]
<1>10. Recent(ages) = r
  <2>1. SubSeq(older, d + 1, m) = [i \in 1..(m - (d + 1) + 1) |-> older[i + (d + 1) - 1]]
    <3> HIDE DEF older, d, m
    <3> QED
      BY <1>9, <1>1, <1>4
  <2>2. m - (d + 1) + 1 = m - d /\ \A i \in 1..(m - d) : i + (d + 1) - 1 = i + d
    <3> HIDE DEF d, m
    <3> QED
      BY <1>1, <1>4
  <2> HIDE DEF older, d, m
  <2> QED
    BY <2>1, <2>2, <1>8
<1>11. ASSUME NEW i \in 1..(m - d)
       PROVE  i + d \in 1..m /\ r[i] = ages[i + d] + 1 /\ ages[i + d] + 1 \in 0..Window
  <2>1. i + d \in 1..m /\ ~(i + d <= d)
    <3> HIDE DEF d, m
    <3> QED
      BY <1>1, <1>4
  <2>2. older[i + d] = ages[i + d] + 1 /\ ages[i + d] \in 0..Window /\ ages[i + d] # Window
    <3> HIDE DEF older, d
    <3> QED
      BY <2>1, <1>1, <1>2, <1>5
  <2>3. ages[i + d] + 1 \in 0..Window
    BY <2>2
  <2> HIDE DEF older, d, m
  <2> QED
    BY <2>1, <2>2, <2>3
<1>12. m - d \in Nat
  <2> HIDE DEF d, m
  <2> QED
    BY <1>1, <1>4
<1>13. r \in Seq(0..Window) /\ Len(r) = m - d
  <2>1. \A i \in 1..(m - d) : r[i] \in 0..Window
    <3> HIDE DEF r
    <3> QED
      BY <1>11
  <2> HIDE DEF older, d, m
  <2> QED
    BY <2>1, <1>12
<1> HIDE DEF r, d, older, gone
<1> QED
  BY <1>4, <1>5, <1>10, <1>11, <1>13

(* A tick keeps the entry and its history together: the failures it counts   *)
(* stay in the window as long as the window does, and those from before the  *)
(* window are gone by the time it is over.                                   *)
LEMMA AgedExplains ==
    ASSUME NEW e \in Entry, NEW ages, Explains(e, ages)
    PROVE  /\ Aged(e) \in Entry
           /\ Aged(e) # Untracked
           /\ Explains(Aged(e), Recent(ages))
           /\ e.lockLeft = 0 => Aged(e).lockLeft = 0
           /\ e.lockLeft > 0 => Aged(e).lockLeft = e.lockLeft - 1
<1> USE LimiterAssumption DEF LimiterAssumption
<1>0. /\ e.failures \in 0..(MaxFailures - 1) /\ e.winAge \in 0..(Window + 1)
      /\ e.lockLeft \in 0..MaxBackoff /\ e.level \in Nat /\ e.idle \in 0..(Window + 1)
      /\ e # Untracked
  BY UntrackedAssumption DEF UntrackedAssumption, Entry
<1> DEFINE m == Len(ages)
           b == e.failures
           u == e.winAge
           v == e.idle
           t == Recent(ages)
           g == Aged(e)
<1>1. ages \in Seq(0..Window) /\ m \in Nat /\ \A i \in 1..m : ages[i] \in 0..Window
  BY DEF Explains
<1>2. \A i, j \in 1..m : i < j => ages[j] <= ages[i]
  BY DEF Explains
<1>3. PICK d \in 0..m : /\ \A i \in 1..m : i <= d <=> ages[i] = Window
                        /\ t \in Seq(0..Window)
                        /\ Len(t) = m - d
                        /\ \A i \in 1..(m - d) : t[i] = ages[i + d] + 1
  <2> HIDE DEF t
  <2> QED
    BY <1>1, <1>2, RecentIs DEF t
<1>4. /\ g \in Entry
      /\ g.failures = b /\ g.winAge = Older(u) /\ g.idle = Older(v)
      /\ g.lockLeft = IF e.lockLeft = 0 THEN 0 ELSE e.lockLeft - 1
  <2>1. Older(u) \in 0..(Window + 1) /\ Older(v) \in 0..(Window + 1)
    BY <1>0 DEF Older
  <2> DEFINE z == IF e.lockLeft = 0 THEN 0 ELSE e.lockLeft - 1
  <2>2. z \in 0..MaxBackoff
    BY <1>0
  <2>3. g = Fields(b, Older(u), z, e.level, Older(v))
    BY DEF Aged
  <2> HIDE DEF g, z
  <2>4. g \in Entry
    BY <2>1, <2>2, <2>3, <1>0 DEF Entry, Fields
  <2>5. g.failures = b /\ g.winAge = Older(u) /\ g.idle = Older(v) /\ g.lockLeft = z
    BY <2>3 DEF Fields
  <2> QED
    BY <2>4, <2>5 DEF z
<1>5. g # Untracked
  <2> HIDE DEF g
  <2> QED
    BY <1>4, UntrackedAssumption DEF UntrackedAssumption
<1>6. /\ b \in Nat /\ u \in 0..(Window + 1) /\ v \in 0..(Window + 1)
      /\ \A i \in 1..m : v <= ages[i]
      /\ u > Window => m <= b
      /\ u <= Window => /\ b <= m /\ m < b + MaxFailures
                        /\ \A i \in 1..m : i > m - b <=> ages[i] <= u
      /\ b \in 0..(MaxFailures - 1)
  BY <1>0 DEF Explains
<1> DEFINE p == m - d
<1>7. p \in 0..m /\ p \in Nat /\ m = p + d /\ d \in Nat
      /\ \A i \in 1..p : i + d \in 1..m /\ ~(i + d <= d)
  <2> HIDE DEF m
  <2> QED
    BY <1>1, <1>3
<1>8. ASSUME NEW i \in 1..p
      PROVE  t[i] = ages[i + d] + 1 /\ ages[i + d] \in 0..(Window - 1) /\ ages[i + d] \in Nat
  <2> HIDE DEF m, t, p
  <2>1. i + d \in 1..m /\ ~(i + d <= d) /\ ages[i + d] \in 0..Window /\ ages[i + d] # Window
    BY <1>1, <1>3, <1>7
  <2>2. ages[i + d] \in 0..(Window - 1) /\ ages[i + d] \in Nat
    BY <2>1
  <2> QED
    BY <2>2, <1>3 DEF p
<1> HIDE DEF m, b, u, v, t, g, p
<1>9. \A i, j \in 1..p : i < j => t[j] <= t[i]
  <2> SUFFICES ASSUME NEW i \in 1..p, NEW j \in 1..p, i < j
               PROVE  t[j] <= t[i]
    OBVIOUS
  <2>1. i + d \in 1..m /\ j + d \in 1..m /\ i + d < j + d
    BY <1>7
  <2>2. ages[j + d] <= ages[i + d]
    BY <2>1, <1>2
  <2>3. /\ t[i] = ages[i + d] + 1 /\ ages[i + d] \in Nat
        /\ t[j] = ages[j + d] + 1 /\ ages[j + d] \in Nat
    BY <1>8
  <2> QED
    BY <2>2, <2>3
<1>10. \A i \in 1..p : Older(v) <= t[i]
  <2> TAKE i \in 1..p
  <2>1. v <= ages[i + d]
    BY <1>6, <1>7
  <2>2. t[i] = ages[i + d] + 1 /\ ages[i + d] \in 0..(Window - 1)
    BY <1>8
  <2>3. v <= Window /\ v + 1 <= t[i]
    BY <2>1, <2>2, <1>6
  <2> QED
    BY <2>3, <1>6 DEF Older
<1>11. \A i \in 1..p : t[i] > 0
  BY <1>8
<1>12. CASE u > Window
  <2>1. Older(u) > Window /\ ~(Older(u) <= Window)
    BY <1>12, <1>6 DEF Older
  <2>2. p <= b
    BY <1>12, <1>6, <1>7
  <2>3. Explains(g, t)
    BY <2>1, <2>2, <1>3, <1>4, <1>5, <1>9, <1>10, <1>11 DEF Explains, p
  <2> QED
    BY <2>3, <1>4, <1>5, <1>0 DEF g, t
<1>13. CASE u <= Window
  <2>0. Older(u) = u + 1 /\ b <= m /\ m < b + MaxFailures
    BY <1>13, <1>6 DEF Older
  <2>1. CASE u = Window
    <3>1. Older(u) > Window /\ ~(Older(u) <= Window)
      BY <2>0, <2>1
    <3>2. m - b <= d
      <4> SUFFICES ASSUME ~(m - b <= d)
                   PROVE  FALSE
        OBVIOUS
      <4>1. m - b \in 1..m /\ ~(m - b > m - b)
        BY <1>1, <1>6, <1>7, <2>0
      <4>2. ages[m - b] \in 0..Window /\ ~(ages[m - b] <= u)
        BY <4>1, <1>1, <1>6, <2>1
      <4> QED
        BY <4>2, <2>1
    <3>3. p <= b
      BY <3>2, <1>6, <1>7, <1>1
    <3> QED
      BY <3>1, <3>3, <1>3, <1>4, <1>5, <1>9, <1>10, <1>11, <1>0 DEF Explains, p, g, t
  <2>2. CASE u # Window
    <3>1. Older(u) <= Window /\ ~(Older(u) > Window)
      BY <2>0, <2>2, <1>13, <1>6
    <3>2. d <= m - b
      <4> SUFFICES ASSUME ~(d <= m - b)
                   PROVE  FALSE
        OBVIOUS
      <4>1. d \in 1..m /\ d > m - b
        BY <1>1, <1>6, <1>7, <2>0
      <4>2. ages[d] <= u /\ ages[d] = Window
        BY <4>1, <1>13, <1>6, <1>3
      <4> QED
        BY <4>2, <2>2, <1>13, <1>6
    <3>3. b <= p /\ p < b + MaxFailures
      BY <3>2, <2>0, <1>1, <1>6, <1>7
    <3>4. \A i \in 1..p : i > p - b <=> t[i] <= Older(u)
      <4> TAKE i \in 1..p
      <4>1. i + d \in 1..m
        BY <1>7
      <4>2. i + d > m - b <=> ages[i + d] <= u
        BY <4>1, <1>13, <1>6
      <4>3. i + d > m - b <=> i > p - b
        BY <1>6, <1>7
      <4>4. t[i] = ages[i + d] + 1 /\ ages[i + d] \in Nat
        BY <1>8
      <4>5. ages[i + d] <= u <=> t[i] <= u + 1
        BY <4>4, <1>6
      <4> QED
        BY <4>2, <4>3, <4>5, <2>0
    <3> QED
      BY <3>1, <3>3, <3>4, <1>3, <1>4, <1>5, <1>9, <1>10, <1>0 DEF Explains, p, g, t
  <2> QED
    BY <2>1, <2>2
<1> QED
  BY <1>12, <1>13, <1>6

(* The strengthened invariant of the limiter. *)
Explained == \A k \in Keys : Explains(entries[k], recent[k])

LimiterInv ==
    /\ LimiterTypeOK
    /\ IsFiniteSet(Tracked)
    /\ recent = [k \in Keys |-> recent[k]]
    /\ Explained

(* What insertLocked changes: entries that are neither locked nor recently   *)
(* seen may go, and the source may get a new one.                            *)
LEMMA InsertedIs ==
    ASSUME LimiterInv, NEW k \in Keys
    PROVE  /\ Inserted(k) \in [Keys -> Entry \cup {Untracked}]
           /\ IsFiniteSet({j \in Keys : Inserted(k)[j] # Untracked})
           /\ Cardinality({j \in Keys : Inserted(k)[j] # Untracked}) <= MaxEntries
           /\ \A j \in Keys : Explains(Inserted(k)[j], recent[j])
           /\ \A j \in Keys : Locked(j) => Inserted(k)[j] = entries[j]
           /\ \A j \in Keys : \/ Inserted(k)[j] = entries[j]
                              \/ Inserted(k)[j] = Untracked
                              \/ Inserted(k)[j] = Fresh
<1> USE LimiterAssumption DEF LimiterAssumption
<1>0. /\ entries \in [Keys -> Entry \cup {Untracked}]
      /\ IsFiniteSet(Tracked) /\ Cardinality(Tracked) <= MaxEntries
      /\ \A j \in Keys : Explains(entries[j], recent[j])
  BY DEF LimiterInv, LimiterTypeOK, Explained
<1>1. CASE entries[k] # Untracked
  <2>1. Inserted(k) = entries
    BY <1>1 DEF Inserted
  <2> QED
    BY <2>1, <1>0 DEF Tracked
<1>2. CASE entries[k] = Untracked
  <2> DEFINE es == IF Cardinality(Tracked) >= MaxEntries THEN Reclaim(entries) ELSE entries
             L == {j \in Keys : es[j] # Untracked}
  <2>1. es \in [Keys -> Entry \cup {Untracked}]
    BY <1>0 DEF Reclaim
  <2>2. ASSUME NEW j \in Keys
        PROVE  \/ es[j] = entries[j]
               \/ /\ es[j] = Untracked
                  /\ entries[j] # Untracked
                  /\ entries[j].lockLeft = 0
                  /\ entries[j].idle > Window
    BY <1>0 DEF Reclaim
  <2>3. Inserted(k) = IF Cardinality(L) >= MaxEntries THEN es ELSE [es EXCEPT ![k] = Fresh]
    BY <1>2 DEF Inserted
  <2> HIDE DEF es
  <2>4. L \in SUBSET Tracked
    BY <2>2 DEF Tracked
  <2>5. IsFiniteSet(L) /\ Cardinality(L) <= Cardinality(Tracked) /\ Cardinality(L) \in Nat
        /\ Cardinality(Tracked) \in Nat
    <3> HIDE DEF L
    <3> QED
      BY <2>4, <1>0, FS_Subset, FS_CardinalityType
  <2>6. ASSUME NEW j \in Keys
        PROVE  Explains(es[j], recent[j])
    <3>1. CASE es[j] = entries[j]
      BY <3>1, <1>0
    <3>2. CASE es[j] # entries[j]
      <4>1. /\ es[j] = Untracked /\ entries[j] # Untracked /\ entries[j].idle > Window
            /\ entries[j] \in Entry
        BY <3>2, <2>2, <1>0
      <4>2. Explains(entries[j], recent[j])
        BY <1>0
      <4> DEFINE e == entries[j]
                 ages == recent[j]
      <4>3. ages \in Seq(0..Window) /\ \A i \in 1..Len(ages) : e.idle <= ages[i]
        BY <4>1, <4>2 DEF Explains
      <4>4. e.idle \in 0..(Window + 1) /\ e.idle > Window
        BY <4>1 DEF Entry
      <4> HIDE DEF e, ages
      <4>5. ages = << >>
        <5>1. Len(ages) \in Nat /\ \A i \in 1..Len(ages) : ages[i] \in 0..Window
          BY <4>3
        <5>2. ASSUME 1 \in 1..Len(ages) PROVE FALSE
          <6>1. ages[1] \in 0..Window /\ e.idle <= ages[1]
            BY <5>1, <5>2, <4>3
          <6> QED
            BY <6>1, <4>4
        <5>3. Len(ages) = 0
          BY <5>1, <5>2
        <5> QED
          BY <5>3, <4>3, EmptySeq
      <4>6. Len(ages) = 0 /\ 1..0 = {} /\ << >> \in Seq(0..Window) /\ Len(<< >>) = 0
        BY <4>5
      <4> QED
        BY <4>1, <4>5, <4>6 DEF Explains, ages
    <3> QED
      BY <3>1, <3>2
  <2>7. \A j \in Keys : Locked(j) => es[j] = entries[j] /\ j # k
    BY <2>2, <1>2 DEF Locked
  <2>8. CASE Cardinality(L) >= MaxEntries
    <3>1. Inserted(k) = es
      BY <2>3, <2>8
    <3>2. Cardinality(L) <= MaxEntries
      BY <2>5, <1>0
    <3> QED
      BY <3>1, <3>2, <2>1, <2>2, <2>5, <2>6, <2>7
  <2>9. CASE ~(Cardinality(L) >= MaxEntries)
    <3> DEFINE N == [es EXCEPT ![k] = Fresh]
               M == {j \in Keys : N[j] # Untracked}
    <3>1. Inserted(k) = N
      BY <2>3, <2>9
    <3>2. es[k] = Untracked
      BY <2>2, <1>2
    <3>3. N \in [Keys -> Entry \cup {Untracked}] /\ N[k] = Fresh /\ \A j \in Keys : j # k => N[j] = es[j]
      BY <2>1, FreshExplains
    <3> HIDE DEF N
    <3>4. M = L \cup {k}
      BY <3>3, FreshExplains
    <3>5. IsFiniteSet(M) /\ Cardinality(M) <= MaxEntries
      <4>1. /\ IsFiniteSet(L \cup {k})
            /\ Cardinality(L \cup {k}) = IF k \in L THEN Cardinality(L) ELSE Cardinality(L) + 1
        <5> HIDE DEF L
        <5> QED
          BY <2>5, FS_AddElement
      <4> HIDE DEF L, M
      <4> QED
        BY <4>1, <3>4, <2>5, <2>9
    <3>6. recent[k] = << >>
      BY <1>0, <1>2 DEF Explains
    <3>7. \A j \in Keys : Explains(N[j], recent[j])
      BY <3>3, <3>6, <2>6, FreshExplains
    <3> QED
      BY <3>1, <3>3, <3>5, <3>7, <2>2, <2>7
  <2> QED
    BY <2>8, <2>9
<1> QED
  BY <1>1, <1>2

(* What RecordFailure does to the state and to the lockouts. *)
LEMMA RecordFailureStep ==
    ASSUME LimiterInv, NEW k \in Keys, RecordFailure(k)
    PROVE  /\ entries' \in [Keys -> Entry \cup {Untracked}]
           /\ IsFiniteSet(Tracked') /\ Cardinality(Tracked') <= MaxEntries
           /\ recent' = [j \in Keys |-> recent'[j]]
           /\ Explained'
           /\ \A j \in Keys : Locked(j) => entries'[j] # Untracked
                                           /\ entries'[j].lockLeft = entries[j].lockLeft
           /\ \A j \in Keys : ~Locked(j) /\ entries'[j] # Untracked /\ entries'[j].lockLeft > 0
                                 => Len(recent[j]) + 1 >= MaxFailures
<1> USE LimiterAssumption DEF LimiterAssumption
<1> DEFINE es == Inserted(k)
           L == {j \in Keys : es[j] # Untracked}
<1>1. /\ es \in [Keys -> Entry \cup {Untracked}]
      /\ IsFiniteSet(L) /\ Cardinality(L) <= MaxEntries
      /\ \A j \in Keys : Explains(es[j], recent[j])
      /\ \A j \in Keys : Locked(j) => es[j] = entries[j]
      /\ \A j \in Keys : es[j] = entries[j] \/ es[j] = Untracked \/ es[j] = Fresh
  BY InsertedIs
<1>2. entries' = IF es[k] = Untracked THEN es ELSE [es EXCEPT ![k] = Failed(es[k])]
  BY DEF RecordFailure
<1>3. recent' = [recent EXCEPT ![k] =
                   IF es[k] = Untracked \/ es[k].lockLeft > 0 THEN recent[k]
                   ELSE IF entries'[k].lockLeft > 0 THEN << >>
                   ELSE Append(recent[k], 0)]
  BY DEF RecordFailure
<1>4. recent = [j \in Keys |-> recent[j]]
  BY DEF LimiterInv
<1> HIDE DEF es
<1>5. \A j \in Keys : j # k => entries'[j] = es[j] /\ recent'[j] = recent[j]
  BY <1>1, <1>2, <1>3, <1>4
<1>6. recent' = [j \in Keys |-> recent'[j]]
  BY <1>3, <1>4
<1>7. ASSUME NEW j \in Keys, j # k
      PROVE  ~Locked(j) => ~(entries'[j] # Untracked /\ entries'[j].lockLeft > 0)
  BY <1>7, <1>1, <1>5 DEF Locked, Fresh
<1>8. CASE es[k] = Untracked
  <2>1. entries' = es /\ recent' = recent
    BY <1>8, <1>2, <1>3, <1>4
  <2>2. Explained'
    BY <2>1, <1>1 DEF Explained
  <2>3. Tracked' = L
    BY <2>1 DEF Tracked
  <2>4. ~Locked(k)
    BY <1>1, <1>8 DEF Locked
  <2>5. \A j \in Keys : Locked(j) => entries'[j] # Untracked /\ entries'[j].lockLeft = entries[j].lockLeft
    BY <2>1, <1>1 DEF Locked
  <2> QED
    BY <2>1, <2>2, <2>3, <2>5, <1>1, <1>6, <1>7, <1>8
<1>9. CASE es[k] # Untracked
  <2> DEFINE e == es[k]
             f == Failed(e)
  <2>1. e \in Entry /\ Explains(e, recent[k])
    BY <1>1, <1>9
  <2>2. /\ f \in Entry
        /\ f # Untracked
        /\ e.lockLeft > 0 => Explains(f, recent[k]) /\ f.lockLeft = e.lockLeft
        /\ ~(e.lockLeft > 0) /\ f.lockLeft > 0 =>
              Explains(f, << >>) /\ Len(recent[k]) + 1 >= MaxFailures
        /\ ~(e.lockLeft > 0) /\ ~(f.lockLeft > 0) => Explains(f, Append(recent[k], 0))
    <3> HIDE DEF e
    <3> QED
      BY <2>1, FailedExplains
  <2> HIDE DEF f
  <2>3. entries' = [es EXCEPT ![k] = f]
    BY <1>2, <1>9 DEF f
  <2>4. entries'[k] = f /\ entries' \in [Keys -> Entry \cup {Untracked}]
    BY <2>2, <2>3, <1>1
  <2>5. Tracked' = L
    BY <2>2, <2>4, <1>5, <1>9 DEF Tracked
  <2>6. recent'[k] = IF e.lockLeft > 0 THEN recent[k]
                     ELSE IF f.lockLeft > 0 THEN << >> ELSE Append(recent[k], 0)
    BY <1>3, <1>4, <1>9, <2>4
  <2>7. Explains(f, recent'[k])
    BY <2>2, <2>6
  <2>8. Explained'
    BY <2>4, <2>7, <1>1, <1>5 DEF Explained
  <2>9. Locked(k) => f.lockLeft = entries[k].lockLeft
    BY <2>2, <1>1 DEF Locked
  <2>10. ~Locked(k) => ~(e.lockLeft > 0)
    BY <1>1, <1>9 DEF Locked, Fresh
  <2>11. \A j \in Keys : Locked(j) => entries'[j] # Untracked /\ entries'[j].lockLeft = entries[j].lockLeft
    BY <2>2, <2>4, <2>9, <1>1, <1>5 DEF Locked
  <2>12. \A j \in Keys : ~Locked(j) /\ entries'[j] # Untracked /\ entries'[j].lockLeft > 0
                           => Len(recent[j]) + 1 >= MaxFailures
    BY <2>2, <2>4, <2>10, <1>7
  <2> QED
    BY <2>4, <2>5, <2>8, <2>11, <2>12, <1>1, <1>6
<1> QED
  BY <1>8, <1>9

(* What a step may do to the lockout of k. *)
LockoutStep(k) ==
    /\ ~Locked(k) /\ entries'[k] # Untracked /\ entries'[k].lockLeft > 0
          => Len(recent[k]) + 1 >= MaxFailures
    /\ Locked(k) =>
          \/ /\ entries'[k] # Untracked
             /\ entries[k].lockLeft - 1 <= entries'[k].lockLeft
             /\ entries'[k].lockLeft <= entries[k].lockLeft
          \/ \E a \in Attempts :
                attempt[a] = <<"login", k>> /\ attempt'[a] = <<"in", k>>

(* The facts about a step that make up the invariant. *)
LEMMA InvFrom ==
    ASSUME entries' \in [Keys -> Entry \cup {Untracked}],
           IsFiniteSet(Tracked'), Cardinality(Tracked') <= MaxEntries,
           attempt' \in [Attempts -> ({"login", "in"} \X Keys) \cup {Idle}],
           recent' = [j \in Keys |-> recent'[j]], Explained'
    PROVE  LimiterInv'
<1>1. \A k \in Keys : Len(recent'[k]) <= 2 * MaxFailures
  BY ExplainsBounds DEF Explained
<1> QED
  BY <1>1 DEF LimiterInv, LimiterTypeOK

LEMMA LimiterInitInv == LimiterInit => LimiterInv
<1> SUFFICES ASSUME LimiterInit PROVE LimiterInv
  OBVIOUS
<1> USE LimiterAssumption DEF LimiterAssumption
<1>1. entries \in [Keys -> Entry \cup {Untracked}] /\ \A k \in Keys : entries[k] = Untracked
  BY DEF LimiterInit
<1>2. Tracked = {}
  BY <1>1 DEF Tracked
<1>3. IsFiniteSet(Tracked) /\ Cardinality(Tracked) <= MaxEntries
  BY <1>2, FS_EmptySet
<1>4. attempt \in [Attempts -> ({"login", "in"} \X Keys) \cup {Idle}]
  BY DEF LimiterInit
<1>5. recent = [k \in Keys |-> recent[k]] /\ \A k \in Keys : recent[k] = << >>
  BY DEF LimiterInit
<1>6. << >> \in Seq(0..Window) /\ Len(<< >>) = 0 /\ 1..0 = {}
  BY EmptySeq
<1>7. Explained
  BY <1>1, <1>5, <1>6 DEF Explained, Explains
<1>8. \A k \in Keys : Len(recent[k]) <= 2 * MaxFailures
  BY <1>5, <1>6
<1> QED
  BY <1>1, <1>3, <1>4, <1>5, <1>7, <1>8 DEF LimiterInv, LimiterTypeOK

(* Every step of a login, of the target leg and of time preserves the        *)
(* invariant and treats the lockouts fairly.                                 *)
LEMMA LimiterStep ==
    ASSUME LimiterInv, [LimiterNext]_limiterVars
    PROVE  LimiterInv' /\ \A k \in Keys : LockoutStep(k)
<1> USE LimiterAssumption DEF LimiterAssumption
<1>0. /\ entries \in [Keys -> Entry \cup {Untracked}]
      /\ IsFiniteSet(Tracked) /\ Cardinality(Tracked) <= MaxEntries
      /\ attempt \in [Attempts -> ({"login", "in"} \X Keys) \cup {Idle}]
      /\ recent = [j \in Keys |-> recent[j]]
      /\ \A j \in Keys : Explains(entries[j], recent[j])
  BY DEF LimiterInv, LimiterTypeOK, Explained
<1>l. \A k \in Keys : Locked(k) => entries[k].lockLeft \in Nat /\ entries[k] # Untracked
  BY <1>0 DEF Locked, Entry
<1>1. ASSUME NEW a \in Attempts, NEW k \in Keys, Begin(a, k)
      PROVE  LimiterInv' /\ \A j \in Keys : LockoutStep(j)
  <2> DEFINE e == entries[k]
             r == [e EXCEPT !.idle = 0]
  <2>1. entries' = [entries EXCEPT ![k] = IF e = Untracked THEN e ELSE r] /\ recent' = recent
    BY <1>1 DEF Begin
  <2>2. attempt' \in [Attempts -> ({"login", "in"} \X Keys) \cup {Idle}]
    BY <1>0, <1>1 DEF Begin
  <2>3. ASSUME e # Untracked
        PROVE  /\ r \in Entry /\ r # Untracked /\ r.lockLeft = e.lockLeft
               /\ Explains(r, recent[k])
    <3>1. e \in Entry
      BY <1>0, <2>3
    <3> HIDE DEF e
    <3>2. /\ r \in Entry /\ r.lockLeft = e.lockLeft /\ r.idle = 0
          /\ r.failures = e.failures /\ r.winAge = e.winAge
      BY <3>1 DEF Entry
    <3> HIDE DEF r
    <3>3. r # Untracked
      BY <3>2, UntrackedAssumption DEF UntrackedAssumption
    <3>4. Explains(e, recent[k])
      BY <1>0 DEF e
    <3>5. \A i \in 1..Len(recent[k]) : 0 <= recent[k][i]
      BY <3>4 DEF Explains
    <3>6. Explains(r, recent[k])
      BY <3>2, <3>3, <3>4, <3>5, <2>3 DEF Explains
    <3> QED
      BY <3>2, <3>3, <3>6
  <2> HIDE DEF r
  <2>4. /\ entries' \in [Keys -> Entry \cup {Untracked}]
        /\ entries'[k] = (IF e = Untracked THEN e ELSE r)
        /\ \A j \in Keys : j # k => entries'[j] = entries[j]
    BY <2>1, <2>3, <1>0
  <2>5. Tracked' = Tracked
    BY <2>3, <2>4 DEF Tracked
  <2>6. Explained'
    BY <2>1, <2>3, <2>4, <1>0 DEF Explained
  <2>7. \A j \in Keys : LockoutStep(j)
    <3> TAKE j \in Keys
    <3>1. entries[j] = Untracked <=> entries'[j] = Untracked
      BY <2>3, <2>4
    <3>2. entries[j] # Untracked => entries'[j].lockLeft = entries[j].lockLeft
      BY <2>3, <2>4
    <3> QED
      BY <3>1, <3>2, <1>l DEF LockoutStep, Locked
  <2> QED
    BY <2>1, <2>2, <2>4, <2>5, <2>6, <2>7, <1>0, InvFrom
<1>2. ASSUME NEW a \in Attempts, NEW k \in Keys, RecordFailure(k),
             attempt' = [attempt EXCEPT ![a] = Idle]
      PROVE  LimiterInv' /\ \A j \in Keys : LockoutStep(j)
  <2>1. /\ entries' \in [Keys -> Entry \cup {Untracked}]
        /\ IsFiniteSet(Tracked') /\ Cardinality(Tracked') <= MaxEntries
        /\ recent' = [j \in Keys |-> recent'[j]]
        /\ Explained'
        /\ \A j \in Keys : Locked(j) => entries'[j] # Untracked
                                        /\ entries'[j].lockLeft = entries[j].lockLeft
        /\ \A j \in Keys : ~Locked(j) /\ entries'[j] # Untracked /\ entries'[j].lockLeft > 0
                              => Len(recent[j]) + 1 >= MaxFailures
    BY <1>2, RecordFailureStep
  <2>2. attempt' \in [Attempts -> ({"login", "in"} \X Keys) \cup {Idle}]
    BY <1>0, <1>2
  <2>3. \A j \in Keys : LockoutStep(j)
    <3> TAKE j \in Keys
    <3>1. Locked(j) => entries[j].lockLeft - 1 <= entries[j].lockLeft
                       /\ entries[j].lockLeft <= entries[j].lockLeft
      BY <1>l
    <3> QED
      BY <2>1, <3>1 DEF LockoutStep
  <2> QED
    BY <2>1, <2>2, <2>3, InvFrom
<1>3. ASSUME NEW a \in Attempts, NEW k \in Keys, Refused(a, k) \/ TargetRefused(a, k)
      PROVE  LimiterInv' /\ \A j \in Keys : LockoutStep(j)
  <2>1. RecordFailure(k) /\ attempt' = [attempt EXCEPT ![a] = Idle]
    BY <1>3 DEF Refused, TargetRefused
  <2> QED
    BY <2>1, <1>2
<1>4. ASSUME NEW a \in Attempts, NEW k \in Keys, Authenticated(a, k)
      PROVE  LimiterInv' /\ \A j \in Keys : LockoutStep(j)
  <2>1. /\ entries' = [entries EXCEPT ![k] = Untracked]
        /\ recent' = [recent EXCEPT ![k] = << >>]
        /\ attempt[a] = <<"login", k>>
        /\ attempt' = [attempt EXCEPT ![a] = <<"in", k>>]
    BY <1>4 DEF Authenticated, RecordSuccess
  <2>2. /\ entries' \in [Keys -> Entry \cup {Untracked}]
        /\ entries'[k] = Untracked
        /\ \A j \in Keys : j # k => entries'[j] = entries[j]
    BY <2>1, <1>0
  <2>3. /\ recent' = [j \in Keys |-> recent'[j]] /\ recent'[k] = << >>
        /\ \A j \in Keys : j # k => recent'[j] = recent[j]
    BY <2>1, <1>0
  <2>4. /\ attempt' \in [Attempts -> ({"login", "in"} \X Keys) \cup {Idle}]
        /\ attempt'[a] = <<"in", k>>
    BY <2>1, <1>0
  <2>5. Tracked' \in SUBSET Tracked
    BY <2>2 DEF Tracked
  <2>6. IsFiniteSet(Tracked') /\ Cardinality(Tracked') <= MaxEntries
    <3>1. /\ IsFiniteSet(Tracked') /\ Cardinality(Tracked') <= Cardinality(Tracked)
          /\ Cardinality(Tracked) \in Nat /\ Cardinality(Tracked') \in Nat
      BY <2>5, <1>0, FS_Subset, FS_CardinalityType
    <3> QED
      BY <3>1, <1>0
  <2>7. << >> \in Seq(0..Window) /\ Len(<< >>) = 0 /\ 1..0 = {}
    BY EmptySeq
  <2>8. Explains(Untracked, << >>)
    BY <2>7 DEF Explains
  <2>9. Explained'
    BY <2>2, <2>3, <2>8, <1>0 DEF Explained
  <2>10. \A j \in Keys : LockoutStep(j)
    <3> TAKE j \in Keys
    <3>1. CASE j = k
      BY <3>1, <2>1, <2>2, <2>4 DEF LockoutStep
    <3>2. CASE j # k
      BY <3>2, <2>2, <1>l DEF LockoutStep, Locked
    <3> QED
      BY <3>1, <3>2
  <2> QED
    BY <2>2, <2>3, <2>4, <2>6, <2>9, <2>10, InvFrom
<1>5. ASSUME entries' = entries, recent' = recent,
             attempt' \in [Attempts -> ({"login", "in"} \X Keys) \cup {Idle}]
      PROVE  LimiterInv' /\ \A j \in Keys : LockoutStep(j)
  <2>1. Tracked' = Tracked /\ Explained'
    BY <1>5, <1>0 DEF Tracked, Explained
  <2>2. \A j \in Keys : LockoutStep(j)
    BY <1>5, <1>l DEF LockoutStep, Locked
  <2> QED
    BY <1>5, <2>1, <2>2, <1>0, InvFrom
<1>6. ASSUME NEW a \in Attempts, NEW k \in Keys, Ends(a, k)
      PROVE  LimiterInv' /\ \A j \in Keys : LockoutStep(j)
  <2>1. attempt' \in [Attempts -> ({"login", "in"} \X Keys) \cup {Idle}]
    BY <1>6, <1>0 DEF Ends
  <2> QED
    BY <2>1, <1>5, <1>6 DEF Ends
<1>7. CASE LimiterTick
  <2>1. /\ entries' = [k \in Keys |->
               IF entries[k] = Untracked THEN Untracked
               ELSE [entries[k] EXCEPT !.winAge = Older(@), !.idle = Older(@),
                                       !.lockLeft = IF @ = 0 THEN 0 ELSE @ - 1]]
        /\ recent' = [k \in Keys |-> Recent(recent[k])]
        /\ attempt' = attempt
    BY <1>7 DEF LimiterTick
  <2>2. ASSUME NEW k \in Keys
        PROVE  entries'[k] = IF entries[k] = Untracked THEN Untracked ELSE Aged(entries[k])
    <3>1. CASE entries[k] = Untracked
      BY <3>1, <2>1
    <3>2. CASE entries[k] # Untracked
      <4>1. entries[k] \in Entry
        BY <3>2, <1>0
      <4>2. entries'[k] = [entries[k] EXCEPT !.winAge = Older(@), !.idle = Older(@),
                                             !.lockLeft = IF @ = 0 THEN 0 ELSE @ - 1]
        BY <3>2, <2>1
      <4> QED
        BY <4>1, <4>2, <3>2, AgedFields
    <3> QED
      BY <3>1, <3>2
  <2>3. recent' = [k \in Keys |-> recent'[k]] /\ \A k \in Keys : recent'[k] = Recent(recent[k])
    BY <2>1
  <2>4. \A k \in Keys : entries[k] # Untracked =>
             /\ Aged(entries[k]) \in Entry /\ Aged(entries[k]) # Untracked
             /\ Explains(Aged(entries[k]), Recent(recent[k]))
             /\ entries[k].lockLeft = 0 => Aged(entries[k]).lockLeft = 0
             /\ entries[k].lockLeft > 0 => Aged(entries[k]).lockLeft = entries[k].lockLeft - 1
    BY <1>0, AgedExplains
  <2>5. ASSUME NEW k \in Keys, entries[k] = Untracked
        PROVE  Explains(Untracked, Recent(recent[k]))
    <3>1. recent[k] = << >>
      BY <2>5, <1>0 DEF Explains
    <3>2. << >> \in Seq(0..Window) /\ Len(<< >>) = 0
      BY EmptySeq
    <3> DEFINE s == recent[k]
    <3>3. s \in Seq(0..Window) /\ Len(s) = 0 /\ \A i, j \in 1..Len(s) : i < j => s[j] <= s[i]
      BY <3>1, <3>2
    <3> HIDE DEF s
    <3>4. PICK d \in 0..Len(s) : Recent(s) \in Seq(0..Window) /\ Len(Recent(s)) = Len(s) - d
      BY <3>3, RecentIs
    <3>5. Len(Recent(s)) = 0
      <4> DEFINE z == Len(s)
                 y == Len(Recent(s))
      <4>1. z = 0 /\ d \in 0..z /\ y = z - d
        BY <3>3, <3>4
      <4> HIDE DEF z, y
      <4>2. d \in 0..0
        BY <4>1
      <4>3. d = 0
        BY <4>2
      <4>4. y = 0
        BY <4>1, <4>3
      <4> QED
        BY <4>4 DEF y
    <3>6. Recent(<< >>) \in Seq(0..Window) /\ Len(Recent(<< >>)) = 0
      BY <3>1, <3>4, <3>5 DEF s
    <3>7. Recent(<< >>) = << >>
      BY <3>6, EmptySeq
    <3>8. Explains(Untracked, << >>)
      BY <3>2 DEF Explains
    <3> QED
      BY <3>1, <3>7, <3>8
  <2>6. Explained'
    BY <2>2, <2>3, <2>4, <2>5 DEF Explained
  <2>7. entries' = [k \in Keys |-> entries'[k]] /\ \A k \in Keys : entries'[k] \in Entry \cup {Untracked}
    <3>1. entries' = [k \in Keys |-> entries'[k]]
      BY <2>1
    <3> QED
      BY <3>1, <2>2, <2>4
  <2>8. entries' \in [Keys -> Entry \cup {Untracked}]
    BY <2>7
  <2>9. Tracked' = Tracked
    BY <2>2, <2>4 DEF Tracked
  <2>10. \A k \in Keys : LockoutStep(k)
    <3> TAKE k \in Keys
    <3>1. CASE entries[k] = Untracked
      BY <3>1, <2>2 DEF LockoutStep, Locked
    <3>2. CASE entries[k] # Untracked
      <4>1. entries[k].lockLeft \in Nat
        BY <3>2, <1>0 DEF Entry
      <4>2. entries'[k] = Aged(entries[k])
        BY <3>2, <2>2
      <4>3. CASE entries[k].lockLeft = 0
        BY <4>2, <4>3, <3>2, <2>4 DEF LockoutStep, Locked
      <4>4. CASE entries[k].lockLeft > 0
        <5> DEFINE x == entries[k].lockLeft
        <5>1. entries'[k] # Untracked /\ entries'[k].lockLeft = x - 1
          BY <4>2, <4>4, <3>2, <2>4
        <5>2. x - 1 <= x - 1 /\ x - 1 <= x
          BY <4>1
        <5> QED
          BY <5>1, <5>2, <4>4, <3>2 DEF LockoutStep, Locked
      <4> QED
        BY <4>1, <4>3, <4>4
    <3> QED
      BY <3>1, <3>2
  <2> QED
    BY <2>1, <2>3, <2>6, <2>8, <2>9, <2>10, <1>0, InvFrom
<1>8. CASE UNCHANGED limiterVars
  BY <1>8, <1>5, <1>0 DEF limiterVars
<1> QED
  BY <1>1, <1>3, <1>4, <1>6, <1>7, <1>8 DEF LimiterNext

(* The invariant of the limiter holds in every reachable state. *)
THEOREM LimiterInvariance == LimiterSpec => []LimiterInv
  BY LimiterInitInv, LimiterStep, PTL DEF LimiterSpec

(* For any sources, attempts and configuration: no lockout is longer than    *)
(* MaxBackoff, the map never holds more than MaxEntries sources however many *)
(* there are, and the failures of a source within a window stay bounded.     *)
THEOREM LimiterTypeCorrect == LimiterSpec => []LimiterTypeOK
<1>1. LimiterInv => LimiterTypeOK
  BY DEF LimiterInv
<1> QED
  BY <1>1, LimiterInvariance, PTL

(* For any sources, attempts and configuration: a lockout is earned by       *)
(* MaxFailures failures of that source within one window, and ends only by   *)
(* time or by a login from the source.                                       *)
THEOREM FairLockouts == LimiterSpec => LockoutsAreFair
<1>1. LimiterInv /\ [LimiterNext]_limiterVars => [\A k \in Keys : LockoutStep(k)]_limiterVars
  BY LimiterStep
<1> QED
  BY <1>1, LimiterInvariance, PTL DEF LimiterSpec, LockoutsAreFair, LockoutStep
=============================================================================
