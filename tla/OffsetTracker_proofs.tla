------------------------- MODULE OffsetTracker_proofs -------------------------
(***************************************************************************)
(* The tracker commits the end of the run and the epoch of its last        *)
(* record, for logs of any length, any epochs and any order of             *)
(* registrations.  The loop of the code is a recursive function here: it   *)
(* is shown to have the value that its last round leaves.                  *)
(***************************************************************************)
EXTENDS OffsetTracker, CommitRun_proofs

\* What the tracker knows of partition p follows from the set of registered next-offsets:
\* their epochs, and the least and the greatest of them.
Registered(p) == DOMAIN processed[p]

PartitionInv(p) ==
    /\ Registered(p) \subseteq {o + 1 : o \in DOMAIN log[p]}
    /\ \A n \in Registered(p) : processed[p][n] = log[p][n - 1]
    /\ epochOffsetRange[p] \in [min : EpochOffset, max : EpochOffset]
    /\ IF Registered(p) = {}
       THEN processed[p] = <<>> /\ epochOffsetRange[p].min = Zero /\ epochOffsetRange[p].max = Zero
       ELSE LET least == epochOffsetRange[p].min
                greatest == epochOffsetRange[p].max
            IN  /\ least.offset \in Registered(p) /\ greatest.offset \in Registered(p)
                /\ \A n \in Registered(p) : least.offset =< n /\ n =< greatest.offset
                /\ least.epoch = log[p][least.offset - 1]

TrackerInv ==
    /\ log \in [Partitions -> Logs]
    /\ DOMAIN processed = Partitions /\ DOMAIN epochOffsetRange = Partitions
    /\ \A p \in Partitions : PartitionInv(p)

\* A record of a log has an offset and an epoch.
LEMMA LogEntry ==
    ASSUME NEW l \in Logs
    PROVE  \A o \in DOMAIN l : o \in 0 .. LogEnd - 1 /\ l[o] \in 0 .. MaxEpoch
<1>1. PICK O \in (SUBSET Offsets) \ {{}} : l \in [O -> 0 .. MaxEpoch]
  BY DEF Logs
<1> QED
  BY <1>1 DEF Offsets

LEMMA TrackerInit == Init => TrackerInv
BY TrackerAssumption
   DEF Init, NewTracker, TrackerInv, PartitionInv, Registered, EpochOffset, Zero

\* The entry of a record is never the zero value, which stands for no entry.
LEMMA EntryTyped ==
    ASSUME TrackerInv, NEW p \in Partitions, NEW o \in DOMAIN log[p]
    PROVE  /\ o \in 0 .. LogEnd - 1 /\ Entry(p, o) \in EpochOffset
           /\ Entry(p, o).offset = o + 1 /\ Entry(p, o).epoch = log[p][o]
           /\ Entry(p, o) # Zero
<1>1. log[p] \in Logs
  BY DEF TrackerInv
<1>2. o \in 0 .. LogEnd - 1 /\ log[p][o] \in 0 .. MaxEpoch
  BY <1>1, LogEntry
<1>3. o + 1 \in 0 .. LogEnd /\ o + 1 # 0
  BY <1>2, TrackerAssumption
<1> QED
  BY <1>2, <1>3 DEF Entry, EpochOffset, Zero

\* The range after one more entry.
LEMMA RangeExtended ==
    ASSUME NEW range \in [min : EpochOffset, max : EpochOffset], NEW entry \in EpochOffset
    PROVE  /\ ExtendRange(range, entry) \in [min : EpochOffset, max : EpochOffset]
           /\ ExtendRange(range, entry).min =
                 IF range.min = Zero \/ entry.offset < range.min.offset THEN entry ELSE range.min
           /\ ExtendRange(range, entry).max =
                 IF range.max = Zero \/ entry.offset > range.max.offset THEN entry ELSE range.max
BY DEF ExtendRange

LEMMA RegisterKeeps ==
    ASSUME TrackerInv, NEW p \in Partitions, NEW o \in DOMAIN log[p],
           RegisterSingleAsProcessed(p, o)
    PROVE  TrackerInv'
<1> DEFINE D == Registered(p)
           range == epochOffsetRange[p]
           entry == Entry(p, o)
<1>1. /\ o \in 0 .. LogEnd - 1 /\ entry \in EpochOffset /\ entry.offset = o + 1
      /\ entry.epoch = log[p][o] /\ entry # Zero
  BY EntryTyped
<1>2. /\ log' = log /\ DOMAIN processed' = Partitions /\ DOMAIN epochOffsetRange' = Partitions
      /\ processed'[p] = WithEntry(processed[p], entry)
      /\ epochOffsetRange'[p] = ExtendRange(range, entry)
      /\ \A q \in Partitions \ {p} :
            processed'[q] = processed[q] /\ epochOffsetRange'[q] = epochOffsetRange[q]
  BY DEF RegisterSingleAsProcessed, TrackerInv
<1> HIDE DEF entry
<1>3. /\ Registered(p)' = D \cup {o + 1}
      /\ \A n \in Registered(p)' : processed'[p][n] = IF n = o + 1 THEN log[p][o] ELSE processed[p][n]
  BY <1>1, <1>2 DEF Registered, WithEntry
<1>4. PartitionInv(p)
  BY DEF TrackerInv
<1>5. /\ range \in [min : EpochOffset, max : EpochOffset]
      /\ \A n \in D : n \in Nat \ {0} /\ n - 1 \in DOMAIN log[p]
  <2>1. \A d \in DOMAIN log[p] : d \in 0 .. LogEnd - 1
    BY LogEntry DEF TrackerInv
  <2> QED
    BY <1>4, <2>1 DEF PartitionInv
<1>6. /\ epochOffsetRange'[p] \in [min : EpochOffset, max : EpochOffset]
      /\ epochOffsetRange'[p].min =
            IF range.min = Zero \/ entry.offset < range.min.offset THEN entry ELSE range.min
      /\ epochOffsetRange'[p].max =
            IF range.max = Zero \/ entry.offset > range.max.offset THEN entry ELSE range.max
  <2>1. PICK r : r = range
    OBVIOUS
  <2>2. PICK new : new = ExtendRange(r, entry)
    OBVIOUS
  <2>3. /\ new \in [min : EpochOffset, max : EpochOffset]
        /\ new.min = IF r.min = Zero \/ entry.offset < r.min.offset THEN entry ELSE r.min
        /\ new.max = IF r.max = Zero \/ entry.offset > r.max.offset THEN entry ELSE r.max
    BY <1>1, <1>5, <2>1, <2>2, RangeExtended
  <2> QED
    BY <1>2, <2>1, <2>2, <2>3
<1>7. D # {} => range.min # Zero /\ range.max # Zero
  <2>1. D # {} => range.min.offset \in Nat \ {0} /\ range.max.offset \in Nat \ {0}
    BY <1>4, <1>5 DEF PartitionInv
  <2> QED
    BY <2>1 DEF Zero
<1>8. \A n \in Registered(p)' : processed'[p][n] = log'[p][n - 1]
  BY <1>1, <1>2, <1>3, <1>4 DEF PartitionInv
<1>9. Registered(p)' \subseteq {d + 1 : d \in DOMAIN log'[p]}
  BY <1>2, <1>3, <1>4 DEF PartitionInv
<1> DEFINE least == epochOffsetRange'[p].min
           greatest == epochOffsetRange'[p].max
<1>10. /\ least.offset \in Registered(p)' /\ greatest.offset \in Registered(p)'
       /\ \A n \in Registered(p)' : least.offset =< n /\ n =< greatest.offset
       /\ least.epoch = log'[p][least.offset - 1]
  <2>1. o + 1 \in Nat /\ (o + 1) - 1 = o
    BY <1>1
  <2>2. CASE D = {}
    <3>1. least = entry /\ greatest = entry
      BY <1>4, <1>6, <2>2 DEF PartitionInv
    <3> HIDE DEF least, greatest
    <3> QED
      BY <1>1, <1>2, <1>3, <2>1, <2>2, <3>1
  <2>3. CASE D # {}
    <3>1. /\ range.min.offset \in D /\ range.max.offset \in D
          /\ \A n \in D : range.min.offset =< n /\ n =< range.max.offset
          /\ range.min.epoch = log[p][range.min.offset - 1]
      BY <1>4, <2>3 DEF PartitionInv
    <3>2. /\ least = IF o + 1 < range.min.offset THEN entry ELSE range.min
          /\ greatest = IF o + 1 > range.max.offset THEN entry ELSE range.max
      BY <1>1, <1>6, <1>7, <2>3
    <3> HIDE DEF least, greatest
    <3>3. least.offset \in Registered(p)' /\ greatest.offset \in Registered(p)'
      BY <1>1, <1>3, <3>1, <3>2
    <3>4. ASSUME NEW n \in Registered(p)' PROVE least.offset =< n /\ n =< greatest.offset
      BY <1>1, <1>3, <1>5, <2>1, <3>1, <3>2
    <3>5. least.epoch = log'[p][least.offset - 1]
      BY <1>1, <1>2, <2>1, <3>1, <3>2
    <3> QED
      BY <3>3, <3>4, <3>5
  <2> QED
    BY <2>2, <2>3
<1>11. PartitionInv(p)'
  BY <1>3, <1>6, <1>8, <1>9, <1>10 DEF PartitionInv
<1>12. \A q \in Partitions \ {p} : PartitionInv(q)'
  BY <1>2 DEF TrackerInv, PartitionInv, Registered
<1> QED
  BY <1>2, <1>11, <1>12 DEF TrackerInv

LEMMA TrackerInvariant == Spec => []TrackerInv
<1>1. TrackerInv /\ [Next]_vars => TrackerInv'
  <2>1. ASSUME TrackerInv, UNCHANGED vars PROVE TrackerInv'
    BY <2>1 DEF vars, TrackerInv, PartitionInv, Registered
  <2> QED
    BY <2>1, RegisterKeeps DEF Next
<1> QED
  BY <1>1, TrackerInit, PTL DEF Spec

-----------------------------------------------------------------------------
\* The loop of the code as a function of where it stands: f is what is left of it when it
\* walks the entries of D, the greatest of which is M.
Walks(f, D, M) == f = [n \in Nat |-> IF n =< M /\ n + 1 \in D THEN f[n + 1] ELSE n]

\* There is such a function: it leads to the first place at or after n without a successor.
LEMMA WalkExists ==
    ASSUME NEW M \in Nat, NEW D
    PROVE  \E f : Walks(f, D, M)
<1> DEFINE Stops(n) == {k \in Nat : n =< k /\ ~(k =< M /\ k + 1 \in D)}
           g == [n \in Nat |-> Min(Stops(n))]
<1>1. ASSUME NEW n \in Nat
      PROVE  Min(Stops(n)) = IF n =< M /\ n + 1 \in D THEN Min(Stops(n + 1)) ELSE n
  <2>1. CASE n =< M /\ n + 1 \in D
    <3>1. Stops(n) = Stops(n + 1)
      BY <2>1
    <3> QED
      BY <2>1, <3>1
  <2>2. CASE ~(n =< M /\ n + 1 \in D)
    <3>1. n \in Stops(n) /\ Stops(n) \in SUBSET Nat /\ \A k \in Stops(n) : n =< k
      BY <2>2
    <3>2. PICK S : S = Stops(n)
      OBVIOUS
    <3>3. Min(S) \in S /\ Min(S) \in Nat /\ \A k \in S : Min(S) =< k
      BY <3>1, <3>2, LeastElement
    <3>4. Min(S) = n
      BY <3>1, <3>2, <3>3
    <3> QED
      BY <2>2, <3>2, <3>4
  <2> QED
    BY <2>1, <2>2
<1> HIDE DEF Stops
<1>2. \A n \in Nat : g[n] = IF n =< M /\ n + 1 \in D THEN g[n + 1] ELSE n
  BY <1>1
<1>3. g = [n \in Nat |-> IF n =< M /\ n + 1 \in D THEN g[n + 1] ELSE n]
  <2>1. g = [n \in Nat |-> g[n]]
    OBVIOUS
  <2> HIDE DEF g
  <2> QED
    BY <1>2, <2>1
<1> QED
  BY <1>3 DEF Walks

\* From the least entry the loop walks to the end of the run.
LEMMA WalkEnds ==
    ASSUME NEW N \in Nat, NEW D \in SUBSET (0 .. N), D # {}, NEW M \in D, \A n \in D : n =< M,
           NEW f, Walks(f, D, M)
    PROVE  f[Min(D)] = RunEnd(D)
<1>1. D \in SUBSET Nat
  OBVIOUS
<1>2. PICK m \in D : m = Min(D) /\ \A n \in D : m =< n
  BY <1>1, LeastElement
<1>3. PICK e \in D : e = RunEnd(D) /\ (\A k \in m .. e : k \in D) /\ e + 1 \notin D
  BY <1>2, RunEndProperties
<1>4. m \in Nat /\ e \in Nat /\ M \in Nat /\ m =< e /\ e =< M
  BY <1>1, <1>2, <1>3
<1>5. \A n \in Nat : f[n] = IF n =< M /\ n + 1 \in D THEN f[n + 1] ELSE n
  <2>1. PICK h : h = [n \in Nat |-> IF n =< M /\ n + 1 \in D THEN f[n + 1] ELSE n]
    OBVIOUS
  <2>2. f = h
    BY <2>1 DEF Walks
  <2>3. \A n \in Nat : h[n] = IF n =< M /\ n + 1 \in D THEN f[n + 1] ELSE n
    BY <2>1
  <2> QED
    BY <2>2, <2>3
<1> DEFINE Astray == {j \in Nat : j =< e - m /\ f[e - j] # e}
<1>6. Astray = {}
  <2>1. SUFFICES ASSUME Astray # {} PROVE FALSE
    OBVIOUS
  <2>2. Astray \in SUBSET Nat
    OBVIOUS
  <2>3. PICK j \in Astray : \A k \in Astray : j =< k
    BY <2>1, <2>2, LeastElement
  <2>4. j \in Nat /\ j =< e - m /\ f[e - j] # e
    BY <2>3
  <2>5. CASE j = 0
    <3>1. f[e] = e
      BY <1>3, <1>4, <1>5
    <3>2. e - j = e
      BY <1>4, <2>5
    <3> QED
      BY <2>4, <3>1, <3>2
  <2>6. CASE j # 0
    <3>1. /\ e - j \in Nat /\ e - j =< M
          /\ (e - j) + 1 \in m .. e /\ (e - j) + 1 = e - (j - 1)
          /\ j - 1 \in Nat /\ j - 1 =< e - m /\ ~(j =< j - 1)
      BY <1>4, <2>4, <2>6
    <3>2. j - 1 \notin Astray
      BY <2>3, <3>1
    <3>3. f[e - (j - 1)] = e
      BY <3>1, <3>2
    <3>4. f[e - j] = f[(e - j) + 1]
      BY <1>3, <1>5, <3>1
    <3> QED
      BY <2>4, <3>1, <3>3, <3>4
  <2> QED
    BY <2>5, <2>6
<1>7. e - m \in Nat /\ e - m =< e - m /\ e - (e - m) = m
  BY <1>4
<1>8. e - m \notin Astray
  BY <1>6
<1>9. f[e - (e - m)] = e
  BY <1>7, <1>8
<1> QED
  BY <1>2, <1>3, <1>7, <1>9

LEMMA WalkIsRunEnd ==
    ASSUME NEW N \in Nat, NEW registered, DOMAIN registered \in SUBSET (0 .. N), NEW range,
           range.min.offset \in DOMAIN registered, range.max.offset \in DOMAIN registered,
           \A n \in DOMAIN registered : range.min.offset =< n /\ n =< range.max.offset
    PROVE  Walk(registered, range) = RunEnd(DOMAIN registered)
<1>1. PICK D, M : D = DOMAIN registered /\ M = range.max.offset
  OBVIOUS
<1>2. PICK f : f = CHOOSE step : Walks(step, D, M)
  OBVIOUS
<1>3. Walks(f, D, M)
  BY <1>1, <1>2, WalkExists
<1>4. Walk(registered, range) = f[range.min.offset]
  BY <1>1, <1>2 DEF Walk, Walks
<1>5. range.min.offset = Min(D)
  <2>1. D \in SUBSET Nat /\ D # {}
    BY <1>1
  <2>2. Min(D) \in D /\ Min(D) \in Nat /\ \A n \in D : Min(D) =< n
    BY <2>1, LeastElement
  <2> QED
    BY <1>1, <2>1, <2>2
<1> QED
  BY <1>1, <1>3, <1>4, <1>5, WalkEnds

-----------------------------------------------------------------------------
\* The types of the tracker follow from what it knows.
THEOREM TrackerTypes == Spec => []TypeOK
<1>1. TrackerInv => TypeOK
  BY DEF TrackerInv, PartitionInv, Registered, TypeOK
<1> QED
  BY <1>1, TrackerInvariant, PTL

\* A partition with a registered record, and what it commits.
LEMMA CommittableOf ==
    ASSUME TrackerInv, NEW p \in DOMAIN CommittableEpochOffsets
    PROVE  /\ CommittableEpochOffsets[p].offset = RunEnd(DOMAIN processed[p])
           /\ CommittableEpochOffsets[p].epoch = log[p][CommittableEpochOffsets[p].offset - 1]
<1>1. p \in Partitions /\ processed[p] # <<>> /\ CommittableEpochOffsets[p] = Committable(p)
  BY DEF CommittableEpochOffsets
<1> DEFINE D == DOMAIN processed[p]
           range == epochOffsetRange[p]
<1>2. /\ D \subseteq {o + 1 : o \in DOMAIN log[p]} /\ D # {}
      /\ \A n \in D : processed[p][n] = log[p][n - 1]
      /\ range.min \in EpochOffset
      /\ range.min.offset \in D /\ range.max.offset \in D
      /\ \A n \in D : range.min.offset =< n /\ n =< range.max.offset
      /\ range.min.epoch = log[p][range.min.offset - 1]
  BY <1>1 DEF TrackerInv, PartitionInv, Registered
<1>3. D \in SUBSET (0 .. LogEnd) /\ LogEnd \in Nat
  <2>1. \A o \in DOMAIN log[p] : o \in 0 .. LogEnd - 1
    BY <1>1, LogEntry DEF TrackerInv
  <2> QED
    BY <1>2, <2>1, TrackerAssumption
<1>4. PICK reached : reached = Walk(processed[p], range)
  OBVIOUS
<1>5. reached = RunEnd(D) /\ reached \in D
  <2>1. RunEnd(D) \in D
    BY <1>2, <1>3, RunEndProperties
  <2>2. PICK registered, r : registered = processed[p] /\ r = range
    OBVIOUS
  <2>3. Walk(registered, r) = RunEnd(DOMAIN registered)
    <3>1. /\ DOMAIN registered \in SUBSET (0 .. LogEnd)
          /\ r.min.offset \in DOMAIN registered /\ r.max.offset \in DOMAIN registered
          /\ \A n \in DOMAIN registered : r.min.offset =< n /\ n =< r.max.offset
      BY <1>2, <1>3, <2>2
    <3> QED
      BY <1>3, <3>1, WalkIsRunEnd
  <2> QED
    BY <1>4, <2>1, <2>2, <2>3
<1>6. Committable(p) = IF reached = range.min.offset THEN range.min
                       ELSE [offset |-> reached, epoch |-> processed[p][reached]]
  BY <1>4 DEF Committable
<1>7. PICK c : c = CommittableEpochOffsets[p]
  OBVIOUS
<1>8. c.offset = reached /\ c.epoch = log[p][reached - 1]
  BY <1>1, <1>2, <1>5, <1>6, <1>7
<1> QED
  BY <1>5, <1>7, <1>8

\* Whatever the order and repetition of the registrations, the loop of
\* committableEpochOffsets ends at the end of the unbroken run that starts at the least
\* registered record, for logs of any length with any gaps (offsets.go:26-33).
THEOREM CommitsRunEnd == Spec => []CommittableIsRunEnd
<1>1. TrackerInv => CommittableIsRunEnd
  BY CommittableOf DEF CommittableIsRunEnd
<1> QED
  BY <1>1, TrackerInvariant, PTL

\* The epoch committed beside an offset is the leader epoch of the record below it, for any
\* assignment of epochs to the records (offsets.go:28-32).
THEOREM CommitsRecordEpoch == Spec => []CommittableEpochMatchesRecord
<1>1. TrackerInv => CommittableEpochMatchesRecord
  BY CommittableOf DEF CommittableEpochMatchesRecord
<1> QED
  BY <1>1, TrackerInvariant, PTL

=============================================================================
