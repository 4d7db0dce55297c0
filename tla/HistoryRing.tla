----------------------------- MODULE HistoryRing -----------------------------
(***************************************************************************)
(* The hash-rate history (History and HistoryAvg): a ring of samples that  *)
(* is written behind an index that never wraps, averages over several      *)
(* spans that follow it, and the search that turns the times a browser     *)
(* asks for into indices.  SYSTEM_task pushes, the web server exports;     *)
(* both hold History::m_mutex throughout, so each is one step.             *)
(*                                                                         *)
(* SYSTEM_task is woken by a timer that goes off every SamplePeriod, draws *)
(* its screens and stamps the sample when it gets to it.  A late sample    *)
(* does not put off the next one, so that samples may be close together;   *)
(* a tick that finds the task busy is lost.                                *)
(*                                                                         *)
(* A sample is a rate and a time.  The exported averages and temperatures  *)
(* are stored at the same index and left out, and so are the conversions   *)
(* to GH/s.                                                                *)
(***************************************************************************)
EXTENDS Integers, Sequences, FiniteSetsExt

CONSTANTS
    RingSize,     \* HISTORY_MAX_SAMPLES, a power of two
    Timespans,    \* spans of the averages, in ticks of the clock
    SamplePeriod, \* HR_INTERVAL
    Delays,       \* how long after its tick a sample is stamped, and the task waits again after
    Rates,        \* measured rates
    MaxSamples    \* bound on the samples pushed

\* A day of samples and the longest delay fit into the ring: the sample that falls out of a
\* window is still there when the next one has been written.  (32768 samples are 45 hours.)
PowerOfTwo[k \in Nat] == IF k = 0 THEN 1 ELSE 2 * PowerOfTwo[k - 1]

ASSUME HistoryAssumption ==
    /\ \E k \in 2 .. 20 : RingSize = PowerOfTwo[k]
    /\ MaxSamples \in Nat
    /\ SamplePeriod \in Nat \ {0} /\ Delays \subseteq Nat /\ Rates \subseteq Nat
    /\ Timespans \subseteq Nat \ {0}
    /\ \A span \in Timespans, delay \in Delays : span + delay <= (RingSize - 1) * SamplePeriod

VARIABLES
    numSamples,   \* m_numSamples
    rates,        \* m_rates
    timestamps,   \* m_timestamps
    windows,      \* m_firstSample, m_lastSample, m_numSamples, m_sumRates of each average
    tick,         \* the tick of m_timer the task last woke for, from the first it waited for on
    pushed        \* history: every sample ever pushed, and its tick

historyVars == <<numSamples, rates, timestamps, windows, tick, pushed>>

EmptyWindow == [first |-> 0, last |-> -1, count |-> 0, sum |-> 0]

HistoryTypeOK ==
    /\ numSamples \in 0 .. MaxSamples
    /\ rates \in [0 .. RingSize - 1 -> Nat]
    /\ timestamps \in [0 .. RingSize - 1 -> Nat]
    /\ windows \in [Timespans -> [first : 0 .. MaxSamples, last : -1 .. MaxSamples,
                                  count : 0 .. MaxSamples, sum : Nat]]
    /\ tick \in Nat
    /\ pushed \in Seq([rate : Rates, time : Nat, tick : Nat])

HistoryInit ==
    /\ numSamples = 0
    /\ rates = [s \in 0 .. RingSize - 1 |-> 0]
    /\ timestamps = [s \in 0 .. RingSize - 1 |-> 0]
    /\ windows = [span \in Timespans |-> EmptyWindow]
    /\ tick = 0
    /\ pushed = <<>>

WRAP(i) == i % RingSize

-----------------------------------------------------------------------------
(***************************************************************************)
(* HistoryAvg::update, on the ring as it is after the push.                *)
(***************************************************************************)
\* Totals(value)[n] is value[0] + ... + value[n - 1].
Totals(value) ==
    LET total[n \in Nat] == IF n = 0 THEN 0 ELSE total[n - 1] + value[n - 1]
    IN  total

SumOf(value, first, last) == Totals(value)[last + 1] - Totals(value)[first]

\* a stored array by the indices of the samples, as getRateSample and getTimestampSample read it
Unwrapped(ring) == [i \in Nat |-> ring[WRAP(i)]]

\* Mutant: a sample leaves when it is older than the span, not when it is as old.
TooOldLate(age, span) == age > span

TooOld(age, span) == age >= span

update(w, span, rate, time, count) ==
    LET last == count - 1
        rateOf == Unwrapped(rate)
        \* the loop that trims stops at the first sample that is young enough, or the last
        first == Min({i \in w.first .. last :
                         i = last \/ ~TooOld(time[WRAP(last)] - time[WRAP(i)], span)})
    IN  [first |-> first,
         last  |-> last,
         count |-> w.count + (last - w.last) - (first - w.first),
         sum   |-> w.sum + SumOf(rateOf, w.last + 1, last) - SumOf(rateOf, w.first, first - 1)]

lastTime == IF numSamples = 0 THEN 0 ELSE timestamps[WRAP(numSamples - 1)]

\* The task waits for the timer again some pause after it stamped the last sample: an export
\* may hold m_mutex.  The tick that wakes it is a later one, but no later than the first that is
\* due after it began to wait; those before it are lost.
WakingTicks(pause) == tick + 1 .. ((lastTime + pause) \div SamplePeriod) + 1

\* SYSTEM_task wakes up, draws, takes the time and pushes.
push(rate, delay, pause) ==
    /\ numSamples < MaxSamples
    /\ tick' \in WakingTicks(pause)
    /\ LET time == tick' * SamplePeriod + delay
       IN  /\ time > lastTime
           /\ rates' = [rates EXCEPT ![WRAP(numSamples)] = rate]
           /\ timestamps' = [timestamps EXCEPT ![WRAP(numSamples)] = time]
           /\ pushed' = Append(pushed, [rate |-> rate, time |-> time, tick |-> tick'])
    /\ numSamples' = numSamples + 1
    /\ windows' = [span \in Timespans |->
                      update(windows[span], span, rates', timestamps', numSamples')]

HistoryNext == \E rate \in Rates, delay, pause \in Delays : push(rate, delay, pause)

HistorySpec == HistoryInit /\ [][HistoryNext]_historyVars

-----------------------------------------------------------------------------
(***************************************************************************)
(* searchNearestTimestamp: indices are those of the samples, not of the    *)
(* ring, and the division rounds towards zero.                             *)
(***************************************************************************)
\* Mutant: the search starts one sample further down.
lowestIndexOffByOne == IF numSamples <= RingSize THEN 0 ELSE numSamples - RingSize - 1

lowestIndex == IF numSamples < RingSize THEN 0 ELSE numSamples - RingSize

Middle(low, high) == IF high + low < 0 THEN 0 ELSE (high + low) \div 2

\* what is left to search: the samples low .. high
Ranges == [low : 0 .. MaxSamples, high : -1 .. MaxSamples]
Between(low, high) == [low |-> low, high |-> high]

Bisect(time) ==
    LET search[range \in Ranges] ==
            LET current == Middle(range.low, range.high)
                stored == timestamps[WRAP(current)]
            IN  IF range.high <= range.low \/ stored = time THEN current
                ELSE search[IF stored > time THEN Between(range.low, current - 1)
                                             ELSE Between(current + 1, range.high)]
    IN  search

searchNearestTimestamp(time) ==
    LET found == Bisect(time)[Between(lowestIndex, numSamples - 1)]
    IN  IF found >= numSamples THEN -1 ELSE found

\* exportHistoryData without a limit: the samples of the answer, in the order of their indices.
exportHistoryData(start, end) ==
    LET startIndex == searchNearestTimestamp(start)
        endIndex == searchNearestTimestamp(end)
    IN  IF startIndex = -1 \/ endIndex = -1 THEN {}
        ELSE {i \in startIndex .. endIndex : timestamps[WRAP(i)] >= start}

-----------------------------------------------------------------------------
(***************************************************************************)
(* Properties.                                                             *)
(***************************************************************************)

\* Every average is over the samples that are younger than its span, and its running sum is
\* theirs, however late samples were, however close the next one followed and however often the
\* ring has wrapped: what update subtracts is what it once added.
WindowsAreExact ==
    \A span \in Timespans :
        LET inside == {i \in 1 .. numSamples : pushed[numSamples].time - pushed[i].time < span}
            rateInside == [i \in Nat |-> IF i \in inside THEN pushed[i].rate ELSE 0]
        IN  numSamples > 0 =>
                /\ windows[span].sum = SumOf(rateInside, 1, numSamples)
                /\ windows[span].count = Cardinality(inside)

\* The answer to any question holds, in order, every sample of the time asked for that the
\* ring still has, and at most one more, the next one: the bisection never leaves the samples
\* that the ring holds, for times before the first and after the last one too.  (Times next to
\* a sample's stand for those between samples.)
ExportIsComplete ==
    LET kept == {pushed[i].time : i \in {k \in 1 .. numSamples : k > numSamples - RingSize}}
        questions == UNION {{t - 1, t, t + 1} : t \in {pushed[i].time : i \in 1 .. numSamples}}
    IN  \A start, end \in questions :
            LET answer == exportHistoryData(start, end)
                asked == {t \in kept : start <= t /\ t <= end}
                given == {timestamps[WRAP(i)] : i \in answer}
            IN  start <= end =>
                    /\ asked \subseteq given /\ given \subseteq kept
                    /\ \A t \in given \ asked : \A u \in kept : u > end => t <= u
                    /\ \A i, j \in answer : i < j => timestamps[WRAP(i)] < timestamps[WRAP(j)]
=============================================================================
