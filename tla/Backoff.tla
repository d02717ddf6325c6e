------------------------------- MODULE Backoff -------------------------------
(***************************************************************************)
(* How long a batch waits before it tries a record again that failed       *)
(* transiently (backoff.go), and how options.go arrives at the base, the   *)
(* maximum and the factor.  A wait is drawn at random below a bound; the   *)
(* bound is what is modelled.  Durations are in milliseconds.              *)
(***************************************************************************)
EXTENDS Integers

CONSTANTS
    Bases, Maxes,   \* durations that options may set
    Factors,        \* factors that options may set, as fractions <<numerator, denominator>>
    MaxWaits        \* bound: waits of a batch without a success in between

ASSUME BackoffAssumption ==
    /\ Bases \subseteq Nat /\ Maxes \subseteq Nat
    /\ Factors \subseteq Nat \X (Nat \ {0})
    /\ MaxWaits \in Nat

VARIABLES
    phase,          \* options are applied, a batch runs, or the process panicked
    base, max, factor,
    growth,         \* factor to the power of backoff.attempt, as a fraction
    bound,          \* what the last wait was drawn below; 0 before the first one
    waits           \* waits since the attempt counter was last at 0

vars == <<phase, base, max, factor, growth, bound, waits>>
config == <<base, max, factor>>

\* Slip: the first factor is 0.
Nothing == <<0, 1>>

\* factor ^ 0
Fresh == <<1, 1>>

TypeOK ==
    /\ phase \in {"options", "batch", "panicked"}
    /\ base \in Nat /\ max \in Nat
    /\ factor \in Nat \X (Nat \ {0})
    /\ growth \in Nat \X (Nat \ {0})
    /\ bound \in Nat
    /\ waits \in 0 .. MaxWaits

\* newDefaultConfig
Init ==
    /\ phase = "options"
    /\ base = 200 /\ max = 10000 /\ factor = <<2, 1>>
    /\ growth = Fresh
    /\ bound = 0 /\ waits = 0

WithBackoffBase(d) ==
    /\ phase = "options"
    /\ base' = d
    /\ UNCHANGED <<phase, max, factor, growth, bound, waits>>

WithBackoffMax(d) ==
    /\ phase = "options"
    /\ max' = d
    /\ UNCHANGED <<phase, base, factor, growth, bound, waits>>

WithBackoffFactor(f) ==
    /\ phase = "options"
    /\ factor' = f
    /\ UNCHANGED <<phase, base, max, growth, bound, waits>>

\* Every batch has a backoff of its own.
NewBackoff ==
    /\ phase \in {"options", "batch"}
    /\ phase' = "batch"
    /\ growth' = Fresh /\ bound' = 0 /\ waits' = 0
    /\ UNCHANGED config

\* Slip: the quotient of the durations is rounded up.
AboveRoundedUp(g) == g[1] > (max \div base + 1) * g[2]

\* The comparison with b.max/b.base, a quotient of integers.
AboveMax(g) == g[1] > (max \div base) * g[2]

\* What the wait is drawn below; the factor is truncated.
SleepBound == IF AboveMax(growth) THEN max ELSE base * (growth[1] \div growth[2])

\* A division by zero, or a random number below 0.
Panics == IF base = 0 THEN TRUE ELSE SleepBound = 0

WaitPanics ==
    /\ phase = "batch" /\ Panics
    /\ phase' = "panicked"
    /\ UNCHANGED <<config, growth, bound, waits>>

\* The attempt is counted whether or not the context ends the wait.
Wait ==
    /\ phase = "batch" /\ waits < MaxWaits /\ ~Panics
    /\ bound' = SleepBound
    /\ growth' = <<growth[1] * factor[1], growth[2] * factor[2]>>
    /\ waits' = waits + 1
    /\ UNCHANGED <<phase, config>>

\* Slip: the counter goes on after a success.
ClearNothing ==
    /\ phase = "batch"
    /\ bound' = 0 /\ waits' = 0
    /\ UNCHANGED <<phase, config, growth>>

\* A record succeeded.  A record that is dead-lettered clears nothing.
Clear ==
    /\ phase = "batch"
    /\ growth' = Fresh /\ bound' = 0 /\ waits' = 0
    /\ UNCHANGED <<phase, config>>

Panicked == phase = "panicked" /\ UNCHANGED vars

Next ==
    \/ \E d \in Bases : WithBackoffBase(d)
    \/ \E d \in Maxes : WithBackoffMax(d)
    \/ \E f \in Factors : WithBackoffFactor(f)
    \/ NewBackoff \/ Wait \/ WaitPanics \/ Clear \/ Panicked

Spec == Init /\ [][Next]_vars

-----------------------------------------------------------------------------
\* No wait is drawn beyond the maximum, whatever the base and the factor, also where the
\* integer quotient and the truncated factor round (backoff.go:46-53, and
\* backoff_test.go:39 for one configuration).
DelayNeverExceedsMax == bound =< max

\* Retrying never crashes the process if no duration is zero and the factor does not
\* shrink the delay: neither the division nor rand.N panics, however long the streak.
PanicsOnlyIfMisconfigured ==
    phase = "panicked" => base = 0 \/ max = 0 \/ factor[1] < factor[2]

\* The first wait after a success, and of a batch, is drawn below the base, or the maximum
\* if that is less; later ones never below less than the one before, also where the
\* growth meets the maximum (backoff.go:26-28 and 46-53).
FirstBound == IF base =< max THEN base ELSE max
DelaysGrow ==
    [][bound' # bound /\ bound' # 0 =>
          IF bound = 0 THEN bound' = FirstBound ELSE bound < bound']_vars

=============================================================================
