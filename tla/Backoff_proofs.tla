---------------------------- MODULE Backoff_proofs ----------------------------
(***************************************************************************)
(* The bounds of Backoff for any durations and factors that options set    *)
(* and streaks of any length.                                              *)
(***************************************************************************)
EXTENDS Backoff, TLAPS

\* A truncated factor that the comparison let pass keeps the delay below the maximum.
LEMMA UncappedDelay ==
    ASSUME NEW b \in Nat \ {0}, NEW m \in Nat, NEW n \in Nat, NEW d \in Nat \ {0},
           ~(n > (m \div b) * d)
    PROVE  b * (n \div d) \in Nat /\ b * (n \div d) =< m
<1> DEFINE q == m \div b
           t == n \div d
<1>1. q \in Nat /\ b * q =< m
  OBVIOUS
<1>2. t \in Nat /\ d * t =< n
  OBVIOUS
<1> HIDE DEF q, t
<1>3. n =< q * d
  BY <1>1 DEF q
<1>4. t =< q
  <2>1. SUFFICES ASSUME q + 1 =< t PROVE FALSE
    BY <1>1, <1>2
  <2>2. d * (q + 1) =< d * t
    BY <1>1, <1>2, <2>1
  <2> QED
    BY <1>1, <1>2, <1>3, <2>2
<1>5. b * t =< b * q /\ b * t \in Nat
  BY <1>1, <1>2, <1>4
<1> QED
  BY <1>1, <1>2, <1>5 DEF t

\* A factor of at least 1 truncates to at least 1.
LEMMA TruncatedFactor ==
    ASSUME NEW n \in Nat, NEW d \in Nat \ {0}, d =< n
    PROVE  n \div d \in Nat \ {0}
OBVIOUS

\* Products of fractions of at least 1 stay at least 1.
LEMMA ProductGrows ==
    ASSUME NEW n \in Nat, NEW d \in Nat \ {0}, NEW fn \in Nat, NEW fd \in Nat \ {0}
    PROVE  /\ n * fn \in Nat /\ d * fd \in Nat \ {0}
           /\ d =< n /\ fd =< fn => d * fd =< n * fn
<1>1. n * fn \in Nat /\ d * fd \in Nat \ {0}
  OBVIOUS
<1>2. ASSUME d =< n, fd =< fn PROVE d * fd =< n * fn
  <2>1. d * fd =< n * fd
    BY <1>2
  <2>2. n * fd =< n * fn
    BY <1>2
  <2> QED
    BY <2>1, <2>2
<1> QED
  BY <1>1, <1>2

\* The growth does not shrink under a factor of at least 1, and no wait was drawn yet while
\* options change the configuration.
GrowthInv ==
    /\ phase = "options" => bound = 0 /\ growth = Fresh
    /\ factor[2] =< factor[1] => growth[2] =< growth[1]

Inv == TypeOK /\ GrowthInv /\ DelayNeverExceedsMax /\ PanicsOnlyIfMisconfigured

\* The bound of a wait is positive but for the configurations that panic.
LEMMA BoundOfWait ==
    ASSUME TypeOK, GrowthInv, base # 0
    PROVE  /\ SleepBound \in Nat /\ SleepBound =< max
           /\ max # 0 /\ factor[2] =< factor[1] => SleepBound # 0
<1>1. /\ base \in Nat \ {0} /\ max \in Nat
      /\ growth[1] \in Nat /\ growth[2] \in Nat \ {0}
  BY DEF TypeOK
<1>2. CASE AboveMax(growth)
  BY <1>1, <1>2 DEF SleepBound
<1>3. CASE ~AboveMax(growth)
  <2>1. /\ SleepBound = base * (growth[1] \div growth[2])
        /\ SleepBound \in Nat /\ SleepBound =< max
    BY <1>1, <1>3, UncappedDelay DEF SleepBound, AboveMax
  <2>2. ASSUME factor[2] =< factor[1] PROVE SleepBound # 0
    <3>1. growth[1] \div growth[2] \in Nat \ {0}
      BY <1>1, <2>2, TruncatedFactor DEF GrowthInv
    <3> QED
      BY <1>1, <2>1, <3>1
  <2> QED
    BY <2>1, <2>2
<1> QED
  BY <1>2, <1>3

LEMMA InvInit == Init => Inv
BY BackoffAssumption
   DEF Init, Inv, TypeOK, GrowthInv, DelayNeverExceedsMax, PanicsOnlyIfMisconfigured, Fresh

LEMMA InvStep == Inv /\ [Next]_vars => Inv'
<1> SUFFICES ASSUME Inv, [Next]_vars
             PROVE  Inv'
  OBVIOUS
<1> USE BackoffAssumption
    DEF Inv, TypeOK, GrowthInv, DelayNeverExceedsMax, PanicsOnlyIfMisconfigured, config
<1>1. ASSUME NEW d \in Bases, WithBackoffBase(d)
      PROVE  Inv'
  BY <1>1 DEF WithBackoffBase
<1>2. ASSUME NEW d \in Maxes, WithBackoffMax(d)
      PROVE  Inv'
  BY <1>2 DEF WithBackoffMax
<1>3. ASSUME NEW f \in Factors, WithBackoffFactor(f)
      PROVE  Inv'
  <2>1. phase = "options" /\ factor' = f /\ f \in Nat \X (Nat \ {0})
    BY <1>3 DEF WithBackoffFactor
  <2> QED
    BY <1>3, <2>1 DEF WithBackoffFactor, Fresh
<1>4. CASE NewBackoff
  BY <1>4 DEF NewBackoff, Fresh
<1>5. CASE Wait
  <2>1. /\ base # 0 /\ SleepBound \in Nat /\ SleepBound =< max
    BY <1>5, BoundOfWait DEF Wait, Panics
  <2>2. /\ growth'[1] = growth[1] * factor[1] /\ growth'[2] = growth[2] * factor[2]
        /\ growth' \in Nat \X (Nat \ {0})
        /\ factor[2] =< factor[1] => growth'[2] =< growth'[1]
    <3>1. growth' = <<growth[1] * factor[1], growth[2] * factor[2]>>
      BY <1>5 DEF Wait
    <3>2. /\ growth[1] \in Nat /\ growth[2] \in Nat \ {0}
          /\ factor[1] \in Nat /\ factor[2] \in Nat \ {0}
      OBVIOUS
    <3> QED
      BY <3>1, <3>2, ProductGrows
  <2> QED
    BY <1>5, <2>1, <2>2 DEF Wait
<1>6. CASE WaitPanics
  <2>1. base = 0 \/ max = 0 \/ factor[1] < factor[2]
    <3>1. base # 0 => SleepBound = 0
      BY <1>6 DEF WaitPanics, Panics
    <3> QED
      BY <3>1, BoundOfWait
  <2> QED
    BY <1>6, <2>1 DEF WaitPanics
<1>7. CASE Clear
  BY <1>7 DEF Clear, Fresh
<1>8. CASE Panicked \/ UNCHANGED vars
  BY <1>8 DEF Panicked, vars
<1> QED
  BY <1>1, <1>2, <1>3, <1>4, <1>5, <1>6, <1>7, <1>8 DEF Next

\* Whatever the options set and however often a record fails, no wait is longer than the
\* maximum.
THEOREM NoDelayBeyondMax == Spec => []DelayNeverExceedsMax
BY InvInit, InvStep, PTL DEF Spec, Inv

\* With positive durations and a factor of at least 1 retrying never panics, after any
\* number of failures.
THEOREM NoPanic == Spec => []PanicsOnlyIfMisconfigured
BY InvInit, InvStep, PTL DEF Spec, Inv

-----------------------------------------------------------------------------
\* What the next wait is drawn below follows the last one: from a factor of 1 on it is not
\* less; under a smaller factor only the maximum was ever drawn below a second time.
StreakInv ==
    phase = "batch" =>
        /\ bound = 0 => growth = Fresh
        /\ bound # 0 =>
              /\ base # 0
              /\ factor[2] =< factor[1] => bound =< SleepBound
              /\ factor[1] < factor[2] => growth[1] < growth[2] /\ bound = FirstBound

\* A larger growth is above the maximum if a smaller one is, and truncates to no less.
LEMMA LargerGrowth ==
    ASSUME NEW n \in Nat, NEW d \in Nat \ {0}, NEW fn \in Nat, NEW fd \in Nat \ {0}, fd =< fn,
           NEW q \in Nat
    PROVE  /\ n > q * d => n * fn > q * (d * fd)
           /\ n \div d =< (n * fn) \div (d * fd)
<1>1. n * fd =< n * fn /\ n * fd \in Nat /\ n * fn \in Nat /\ d * fd \in Nat \ {0}
  OBVIOUS
<1>2. ASSUME n > q * d PROVE n * fn > q * (d * fd)
  <2>1. n * fd > (q * d) * fd
    BY <1>2
  <2>2. (q * d) * fd = q * (d * fd)
    OBVIOUS
  <2> QED
    BY <1>1, <2>1, <2>2
<1>3. n \div d =< (n * fn) \div (d * fd)
  <2>1. PICK t \in Nat : t = n \div d /\ d * t =< n
    OBVIOUS
  <2>2. (d * t) * fd =< n * fd
    BY <2>1
  <2>3. (d * t) * fd = (d * fd) * t
    BY <2>1
  <2>4. PICK N, D : N = n * fn /\ D = d * fd
    OBVIOUS
  <2>5. N \in Nat /\ D \in Nat \ {0} /\ D * t =< N
    BY <1>1, <2>1, <2>2, <2>3, <2>4
  <2>6. t =< N \div D
    <3>1. PICK r : r = N \div D
      OBVIOUS
    <3>2. r \in Nat /\ N < D * (r + 1)
      BY <2>5, <3>1
    <3>3. SUFFICES ASSUME r + 1 =< t PROVE FALSE
      BY <2>1, <3>1, <3>2
    <3>4. D * (r + 1) =< D * t
      BY <2>1, <2>5, <3>2, <3>3
    <3> QED
      BY <2>1, <2>5, <3>2, <3>4
  <2> QED
    BY <2>1, <2>4, <2>6
<1> QED
  BY <1>2, <1>3

\* The first wait of a streak.
LEMMA FirstWait ==
    ASSUME TypeOK, base # 0, growth = Fresh
    PROVE  SleepBound = FirstBound
<1>1. base \in Nat \ {0} /\ max \in Nat /\ growth[1] = 1 /\ growth[2] = 1
  BY DEF TypeOK, Fresh
<1>2. PICK q \in Nat : q = max \div base /\ base * q =< max /\ max < base * (q + 1)
  BY <1>1
<1>3. q = 0 <=> max < base
  <2>1. q = 0 => max < base
    BY <1>1, <1>2
  <2>2. q # 0 => base * q >= base
    BY <1>1, <1>2
  <2> QED
    BY <1>1, <1>2, <2>1, <2>2
<1>4. AboveMax(growth) <=> q = 0
  BY <1>1, <1>2 DEF AboveMax
<1>5. base * (growth[1] \div growth[2]) = base
  BY <1>1
<1> QED
  BY <1>1, <1>3, <1>4, <1>5 DEF SleepBound, FirstBound

\* A growth below 1 is drawn below the maximum, where that is less than the base, or panics.
LEMMA ShrunkWait ==
    ASSUME TypeOK, base # 0, growth[1] < growth[2], SleepBound # 0
    PROVE  SleepBound = FirstBound
<1>1. /\ base \in Nat \ {0} /\ max \in Nat
      /\ growth[1] \in Nat /\ growth[2] \in Nat \ {0}
  BY DEF TypeOK
<1>2. PICK q \in Nat : q = max \div base /\ max < base * (q + 1)
  BY <1>1
<1>3. growth[1] \div growth[2] = 0
  BY <1>1
<1>4. AboveMax(growth)
  BY <1>1, <1>3 DEF SleepBound
<1>5. q = 0
  <2>1. growth[1] > q * growth[2]
    BY <1>2, <1>4 DEF AboveMax
  <2>2. q # 0 => q * growth[2] >= growth[2]
    BY <1>1, <1>2
  <2> QED
    BY <1>1, <1>2, <2>1, <2>2
<1> QED
  BY <1>1, <1>2, <1>4, <1>5 DEF SleepBound, FirstBound

\* A wait of the streak, against the last one and the next.
LEMMA WaitInStreak ==
    ASSUME Inv, StreakInv, Wait
    PROVE  /\ base # 0 /\ bound' = SleepBound /\ bound' # 0
           /\ bound = 0 => bound' = FirstBound
           /\ bound # 0 => bound =< bound'
           /\ factor[2] =< factor[1] => SleepBound =< SleepBound'
           /\ factor[1] < factor[2] => bound' = FirstBound /\ growth'[1] < growth'[2]
<1>1. /\ phase = "batch" /\ base # 0 /\ SleepBound # 0 /\ bound' = SleepBound
      /\ growth' = <<growth[1] * factor[1], growth[2] * factor[2]>>
      /\ base' = base /\ max' = max
  BY DEF Wait, Panics, config
<1>2. /\ base \in Nat \ {0} /\ max \in Nat /\ bound \in Nat
      /\ growth[1] \in Nat /\ growth[2] \in Nat \ {0}
      /\ factor[1] \in Nat /\ factor[2] \in Nat \ {0}
      /\ SleepBound \in Nat
  BY <1>1, BoundOfWait DEF Inv, TypeOK
<1>3. bound = 0 => SleepBound = FirstBound
  BY <1>1, FirstWait DEF StreakInv, Inv
<1>4. ASSUME factor[1] < factor[2] PROVE SleepBound = FirstBound /\ growth'[1] < growth'[2]
  <2>1. bound # 0 => SleepBound = FirstBound
    BY <1>1, <1>4, ShrunkWait DEF StreakInv, Inv
  <2>2. growth[1] =< growth[2]
    BY <1>1, <1>2, <1>4 DEF StreakInv, Fresh
  <2>3. growth[1] * factor[1] =< growth[2] * factor[1]
    BY <1>2, <2>2
  <2>4. growth[2] * factor[1] < growth[2] * factor[2]
    BY <1>2, <1>4
  <2> QED
    BY <1>1, <1>2, <1>3, <2>1, <2>3, <2>4
<1>5. bound # 0 => bound =< SleepBound
  <2>1. CASE factor[2] =< factor[1]
    BY <1>1, <2>1 DEF StreakInv
  <2>2. CASE factor[1] < factor[2]
    BY <1>1, <1>2, <1>4, <2>2 DEF StreakInv
  <2> QED
    BY <1>2, <2>1, <2>2
<1>6. ASSUME factor[2] =< factor[1] PROVE SleepBound =< SleepBound'
  <2>1. PICK q \in Nat : q = max \div base
    BY <1>2
  <2>2. PICK n, d : n = growth[1] /\ d = growth[2]
    OBVIOUS
  <2>3. PICK n1, d1 : n1 = n * factor[1] /\ d1 = d * factor[2]
    OBVIOUS
  <2>4. /\ SleepBound = IF n > q * d THEN max ELSE base * (n \div d)
        /\ SleepBound' = IF n1 > q * d1 THEN max ELSE base * (n1 \div d1)
    BY <1>1, <2>1, <2>2, <2>3 DEF SleepBound, AboveMax
  <2>5. /\ n > q * d => n1 > q * d1
        /\ n \div d =< n1 \div d1
    BY <1>2, <1>6, <2>1, <2>2, <2>3, LargerGrowth
  <2>6. n1 \in Nat /\ d1 \in Nat \ {0}
    BY <1>2, <2>2, <2>3, ProductGrows
  <2>7. base * (n \div d) =< base * (n1 \div d1)
    <3>1. PICK t \in Nat, t1 \in Nat : t = n \div d /\ t1 = n1 \div d1
      BY <1>2, <2>2, <2>6
    <3>2. base * t =< base * t1
      BY <1>2, <2>5, <3>1
    <3> QED
      BY <3>1, <3>2
  <2>8. SleepBound =< max
    BY <1>1, BoundOfWait DEF Inv
  <2> QED
    BY <1>2, <2>4, <2>5, <2>7, <2>8
<1> QED
  BY <1>1, <1>3, <1>4, <1>5, <1>6

LEMMA StreakInit == Init => StreakInv
BY DEF Init, StreakInv

LEMMA StreakStep == Inv /\ StreakInv /\ [Next]_vars => StreakInv'
<1> SUFFICES ASSUME Inv, StreakInv, [Next]_vars
             PROVE  StreakInv'
  OBVIOUS
<1>1. ASSUME phase' = "options" \/ phase' = "panicked" PROVE StreakInv'
  BY <1>1 DEF StreakInv
<1>2. CASE \/ \E d \in Bases : WithBackoffBase(d)
           \/ \E d \in Maxes : WithBackoffMax(d)
           \/ \E f \in Factors : WithBackoffFactor(f)
  BY <1>1, <1>2 DEF WithBackoffBase, WithBackoffMax, WithBackoffFactor
<1>3. CASE NewBackoff \/ Clear
  BY <1>3 DEF NewBackoff, Clear, StreakInv
<1>4. CASE Wait
  <2>1. /\ factor' = factor /\ base' = base /\ max' = max
    BY <1>4 DEF Wait, config
  <2>2. FirstBound' = FirstBound
    BY <2>1 DEF FirstBound
  <2>3. PICK s, s1 : s = SleepBound /\ s1 = SleepBound'
    OBVIOUS
  <2>4. /\ base # 0 /\ bound' = s /\ s # 0
        /\ factor[2] =< factor[1] => s =< s1
        /\ factor[1] < factor[2] => bound' = FirstBound /\ growth'[1] < growth'[2]
    BY <1>4, <2>3, WaitInStreak
  <2> QED
    BY <2>1, <2>2, <2>3, <2>4 DEF StreakInv
<1>5. CASE WaitPanics
  BY <1>1, <1>5 DEF WaitPanics
<1>6. CASE Panicked \/ UNCHANGED vars
  BY <1>6 DEF Panicked, vars, StreakInv, SleepBound, AboveMax, FirstBound
<1> QED
  BY <1>2, <1>3, <1>4, <1>5, <1>6 DEF Next

\* For all durations and factors, a streak of failures starts with the base or the maximum
\* and never waits below less than before; a success starts it over.
THEOREM StreaksGrow == Spec => DelaysGrow
<1> DEFINE Grows == bound' # bound /\ bound' # 0 =>
                       IF bound = 0 THEN bound' = FirstBound ELSE bound < bound'
<1>1. Inv /\ StreakInv /\ [Next]_vars => [Grows]_vars
  <2> SUFFICES ASSUME Inv, StreakInv, Next
               PROVE  Grows
    OBVIOUS
  <2>1. CASE Wait
    <3>1. bound \in Nat /\ bound' \in Nat
      BY InvStep DEF Inv, TypeOK
    <3> QED
      BY <2>1, <3>1, WaitInStreak
  <2>2. CASE ~Wait
    BY <2>2 DEF Next, WithBackoffBase, WithBackoffMax, WithBackoffFactor, NewBackoff, WaitPanics,
                Clear, Panicked, vars, config
  <2> QED
    BY <2>1, <2>2
<1> HIDE DEF Grows
<1>2. Spec => [][Grows]_vars
  BY <1>1, InvInit, InvStep, StreakInit, StreakStep, PTL DEF Spec
<1> QED
  BY <1>2 DEF DelaysGrow, Grows

=============================================================================
