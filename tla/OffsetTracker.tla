---------------------------- MODULE OffsetTracker ----------------------------
(***************************************************************************)
(* kgoconsumer/offsets.go: the tracker of one batch.  Records are          *)
(* registered in any order (successes as they finish, dead-lettered ones   *)
(* when the batch is drained), possibly twice, and the tracker is asked    *)
(* which epoch/offset each partition may commit.  A partition stands for   *)
(* the (topic, partition) pair that keys the code's nested maps.           *)
(***************************************************************************)
EXTENDS CommitRun

CONSTANTS
    Partitions,
    LogEnd,     \* the log of a partition holds records at some of 0 .. LogEnd - 1
    MaxEpoch    \* leader epochs are 0 .. MaxEpoch

ASSUME TrackerAssumption == LogEnd \in Nat \ {0} /\ MaxEpoch \in Nat

VARIABLES
    log,               \* log[p]: offset -> leader epoch of the records fetched from p
    processed,         \* processed[p]: next-offset -> epoch, of the registered records
    epochOffsetRange   \* epochOffsetRange[p]: least and greatest registered entries

vars == <<log, processed, epochOffsetRange>>

Offsets == 0 .. LogEnd - 1

EpochOffset == [offset : 0 .. LogEnd, epoch : 0 .. MaxEpoch]

\* The zero value of kgo.EpochOffset, which the code takes for "not set yet".
Zero == [offset |-> 0, epoch |-> 0]

\* Compaction leaves gaps in a log; leader epochs never decrease along it.
Logs == {l \in UNION {[O -> 0 .. MaxEpoch] : O \in (SUBSET Offsets) \ {{}}} :
            \A a, b \in DOMAIN l : a < b => l[a] =< l[b]}

TypeOK ==
    /\ log \in [Partitions -> Logs]
    /\ \A p \in Partitions :
          /\ DOMAIN processed[p] \subseteq {o + 1 : o \in DOMAIN log[p]}
          /\ epochOffsetRange[p] \in [min : EpochOffset, max : EpochOffset]

NewTracker ==
    /\ processed = [p \in Partitions |-> <<>>]
    /\ epochOffsetRange = [p \in Partitions |-> [min |-> Zero, max |-> Zero]]

Init ==
    /\ log \in [Partitions -> Logs]
    /\ NewTracker

\* Slips the checks must catch: the entry of a record holding its own offset, and a
\* range whose lower end is only ever set once.
EntryAtRecord(p, o) == [offset |-> o, epoch |-> log[p][o]]

Entry(p, o) == [offset |-> o + 1, epoch |-> log[p][o]]

ExtendMaxOnly(range, entry) ==
    [max |-> IF range.max = Zero \/ entry.offset > range.max.offset
             THEN entry ELSE range.max,
     min |-> IF range.min = Zero THEN entry ELSE range.min]

ExtendRange(range, entry) ==
    [max |-> IF range.max = Zero \/ entry.offset > range.max.offset
             THEN entry ELSE range.max,
     min |-> IF range.min = Zero \/ entry.offset < range.min.offset
             THEN entry ELSE range.min]

\* The map of a partition after one more entry, or with one overwritten.
WithEntry(registered, entry) ==
    [n \in DOMAIN registered \cup {entry.offset} |->
        IF n = entry.offset THEN entry.epoch ELSE registered[n]]

RegisterSingleAsProcessed(p, o) ==
    /\ processed' = [processed EXCEPT ![p] = WithEntry(@, Entry(p, o))]
    /\ epochOffsetRange' = [epochOffsetRange EXCEPT ![p] = ExtendRange(@, Entry(p, o))]
    /\ UNCHANGED log

Next == \E p \in Partitions : \E o \in DOMAIN log[p] : RegisterSingleAsProcessed(p, o)

Spec == Init /\ [][Next]_vars

-----------------------------------------------------------------------------
\* The loop of committableEpochOffsets: step from the least registered entry to its
\* successor for as long as there is one.
Walk(registered, range) ==
    LET step[n \in Nat] ==
            IF n =< range.max.offset /\ n + 1 \in DOMAIN registered
            THEN step[n + 1]
            ELSE n
    IN  step[range.min.offset]

\* Slip: the epoch of the least entry kept while the offset advances.
CommittableWithLeastEpoch(p) ==
    [epochOffsetRange[p].min EXCEPT !.offset = Walk(processed[p], epochOffsetRange[p])]

Committable(p) ==
    LET reached == Walk(processed[p], epochOffsetRange[p])
        least   == epochOffsetRange[p].min
    IN  IF reached = least.offset
        THEN least
        ELSE [offset |-> reached, epoch |-> processed[p][reached]]

\* Only partitions with a registered record have an entry.
CommittableEpochOffsets ==
    [p \in {q \in Partitions : processed[q] # <<>>} |-> Committable(p)]

-----------------------------------------------------------------------------
\* Whatever the order and repetition of the registrations, the loop commits the end
\* of the unbroken run that starts at the least registered record: it stops before
\* the first record of the batch that was neither consumed nor dead-lettered, and
\* before a compaction gap (offsets.go:26-33, with the range kept by 76-85).
CommittableIsRunEnd ==
    \A p \in DOMAIN CommittableEpochOffsets :
        CommittableEpochOffsets[p].offset = RunEnd(DOMAIN processed[p])

\* The epoch committed beside an offset is the leader epoch of the record just below
\* it, also when the epoch changes inside the run: a committed pair that mixes two
\* records would make the broker report a truncated log (offsets.go:28-32).
CommittableEpochMatchesRecord ==
    \A p \in DOMAIN CommittableEpochOffsets :
        LET c == CommittableEpochOffsets[p] IN c.epoch = log[p][c.offset - 1]

=============================================================================
