--------------------------- MODULE HistoryRingProofs ---------------------------
(***************************************************************************)
(* Proofs about HistoryRing, for a ring of any size, any spans that fit    *)
(* into it and any number of samples.  Samples may crowd behind a late     *)
(* one, but each has a tick of its own, and how late it was is bounded.    *)
(***************************************************************************)
EXTENDS HistoryRing, Induction

-----------------------------------------------------------------------------
(***************************************************************************)
(* Sums.                                                                   *)
(***************************************************************************)
\* The recursive definition has a solution, which is the sum.
LEMMA TotalsAreSums ==
    ASSUME NEW value \in [Nat -> Int]
    PROVE  /\ Totals(value) \in [Nat -> Int]
           /\ Totals(value)[0] = 0
           /\ \A n \in Nat : Totals(value)[n + 1] = Totals(value)[n] + value[n]
  <1> DEFINE Right(g) == [n \in Nat |-> IF n = 0 THEN 0 ELSE g[n - 1] + value[n - 1]]
             Body == [g \in [Nat -> Int] |-> Right(g)]
             rank == [n \in Nat |-> n]
  <1>1. \A g \in [Nat -> Int] : Right(g) \in [Nat -> Int]
    OBVIOUS
  <1>2. Body \in [[Nat -> Int] -> [Nat -> Int]]
    <2> HIDE DEF Right
    <2> QED BY <1>1
  <1>3. ASSUME NEW g \in [Nat -> Int], NEW h \in [Nat -> Int], NEW x \in Nat,
               \A y \in Nat : rank[y] < rank[x] => g[y] = h[y]
        PROVE  Body[g][x] = Body[h][x]
    <2>1. CASE x = 0
      BY <2>1
    <2>2. CASE x # 0
      <3>1. x - 1 \in Nat /\ rank[x - 1] < rank[x]
        BY <2>2
      <3>2. g[x - 1] = h[x - 1]
        BY <1>3, <3>1
      <3> QED BY <3>2
    <2> QED BY <2>1, <2>2
  <1>4. \E f \in [Nat -> Int] : f = Body[f]
    <2>1. rank \in [Nat -> Nat]
      OBVIOUS
    <2>2. \A g, h \in [Nat -> Int], x \in Nat :
              (\A y \in Nat : rank[y] < rank[x] => g[y] = h[y]) => Body[g][x] = Body[h][x]
      <3> HIDE DEF Body, rank
      <3> QED BY <1>3
    <2> HIDE DEF Body, rank
    <2>3. DependsOnLower(Nat, Int, Body, rank)
      BY <1>2, <2>1, <2>2 DEF DependsOnLower
    <2> DEFINE D == Nat
               V == Int
    <2>4. DependsOnLower(D, V, Body, rank) /\ V # {}
      BY <2>3
    <2> HIDE DEF D, V
    <2>5. \E f \in [D -> V] : f = Body[f]
      BY <2>4, RecursionIsSound
    <2> QED BY <2>5 DEF D, V
  <1>5. \E f : f = Right(f)
    BY <1>4
  <1> DEFINE T == Totals(value)
  <1>6. T = CHOOSE f : f = Right(f)
    BY DEF Totals
  <1>7. T = Right(T)
    <2> HIDE DEF Right, T
    <2> QED BY <1>5, <1>6
  <1> HIDE DEF T
  <1>8. T[0] = 0 /\ T = [n \in Nat |-> T[n]]
    BY <1>7
  <1>9. ASSUME NEW n \in Nat PROVE T[n + 1] = T[n] + value[n]
    <2>1. T[n + 1] = Right(T)[n + 1]
      BY <1>7
    <2>2. n + 1 \in Nat /\ n + 1 # 0 /\ (n + 1) - 1 = n
      OBVIOUS
    <2> QED BY <2>1, <2>2
  <1>10. Nat \subseteq {n \in Nat : T[n] \in Int}
    <2> DEFINE S == {n \in Nat : T[n] \in Int}
    <2>1. 0 \in S
      BY <1>8
    <2>2. \A n \in Nat : n \in S => n + 1 \in S
      BY <1>9
    <2> HIDE DEF S
    <2>3. Nat \subseteq S
      BY <2>1, <2>2, SimpleInduction
    <2> QED BY <2>3 DEF S
  <1>11. T \in [Nat -> Int]
    BY <1>8, <1>10
  <1> QED BY <1>8, <1>9, <1>11 DEF T

\* Values that agree, wherever they are stored, have equal sums.
Agree(value, a, other, b, len) == \A i \in 0 .. len - 1 : value[a + i] = other[b + i]

LEMMA SumsAgree ==
    ASSUME NEW value \in [Nat -> Int], NEW other \in [Nat -> Int],
           NEW a \in Nat, NEW b \in Nat, NEW len \in Nat, Agree(value, a, other, b, len)
    PROVE  Totals(value)[a + len] - Totals(value)[a] = Totals(other)[b + len] - Totals(other)[b]
  <1> DEFINE T == Totals(value)
             U == Totals(other)
             S == {n \in Nat : n <= len => T[a + n] - T[a] = U[b + n] - U[b]}
  <1>1. /\ T \in [Nat -> Int] /\ \A n \in Nat : T[n + 1] = T[n] + value[n]
        /\ U \in [Nat -> Int] /\ \A n \in Nat : U[n + 1] = U[n] + other[n]
    BY TotalsAreSums
  <1> HIDE DEF T, U
  <1>2. 0 \in S
    <2>1. a + 0 = a /\ b + 0 = b /\ T[a] \in Int /\ U[b] \in Int
      BY <1>1
    <2> QED BY <2>1
  <1>3. ASSUME NEW n \in Nat, n \in S PROVE n + 1 \in S
    <2>1. SUFFICES ASSUME n + 1 <= len PROVE T[a + (n + 1)] - T[a] = U[b + (n + 1)] - U[b]
      OBVIOUS
    <2>2. value[a + n] = other[b + n] /\ T[a + n] - T[a] = U[b + n] - U[b]
      BY <1>3, <2>1 DEF Agree
    <2>3. a + n \in Nat /\ b + n \in Nat /\ a + (n + 1) = (a + n) + 1 /\ b + (n + 1) = (b + n) + 1
      OBVIOUS
    <2>4. T[a + (n + 1)] = T[a + n] + value[a + n] /\ U[b + (n + 1)] = U[b + n] + other[b + n]
      BY <1>1, <2>3
    <2>5. T[a + n] \in Int /\ T[a] \in Int /\ U[b + n] \in Int /\ U[b] \in Int
          /\ value[a + n] \in Int /\ other[b + n] \in Int
      BY <1>1, <2>3
    <2> QED BY <2>2, <2>4, <2>5
  <1>4. Nat \subseteq S
    <2> HIDE DEF S
    <2> QED BY <1>2, <1>3, SimpleInduction
  <1> QED BY <1>4 DEF T, U

\* What is zero adds nothing, and what is not negative takes nothing away.
LEMMA SumsOfZeros ==
    ASSUME NEW value \in [Nat -> Int], NEW a \in Nat, NEW len \in Nat,
           \A i \in 0 .. len - 1 : value[a + i] = 0
    PROVE  Totals(value)[a + len] = Totals(value)[a]
  <1> DEFINE T == Totals(value)
             S == {n \in Nat : n <= len => T[a + n] = T[a]}
  <1>1. T \in [Nat -> Int] /\ \A n \in Nat : T[n + 1] = T[n] + value[n]
    BY TotalsAreSums
  <1> HIDE DEF T
  <1>2. 0 \in S
    <2>1. a + 0 = a
      OBVIOUS
    <2> QED BY <2>1
  <1>3. ASSUME NEW n \in Nat, n \in S PROVE n + 1 \in S
    <2>1. SUFFICES ASSUME n + 1 <= len PROVE T[a + (n + 1)] = T[a]
      OBVIOUS
    <2>2. value[a + n] = 0 /\ T[a + n] = T[a]
      BY <1>3, <2>1
    <2>3. a + n \in Nat /\ a + (n + 1) = (a + n) + 1
      OBVIOUS
    <2> QED BY <1>1, <2>2, <2>3
  <1>4. Nat \subseteq S
    <2> HIDE DEF S
    <2> QED BY <1>2, <1>3, SimpleInduction
  <1> QED BY <1>4 DEF T

LEMMA TotalsGrow ==
    ASSUME NEW value \in [Nat -> Nat], NEW a \in Nat, NEW len \in Nat
    PROVE  Totals(value)[a] <= Totals(value)[a + len]
  <1> DEFINE T == Totals(value)
             S == {n \in Nat : T[a] <= T[a + n]}
  <1>1. T \in [Nat -> Int] /\ \A n \in Nat : T[n + 1] = T[n] + value[n]
    BY TotalsAreSums
  <1> HIDE DEF T
  <1>2. 0 \in S
    <2>1. a + 0 = a /\ T[a] \in Int
      BY <1>1
    <2> QED BY <2>1
  <1>3. ASSUME NEW n \in Nat, n \in S PROVE n + 1 \in S
    <2>1. T[a] <= T[a + n]
      BY <1>3
    <2>2. a + n \in Nat /\ a + (n + 1) = (a + n) + 1
      OBVIOUS
    <2>3. T[a + (n + 1)] = T[a + n] + value[a + n]
      BY <1>1, <2>2
    <2>4. T[a] \in Int /\ T[a + n] \in Int /\ value[a + n] \in Nat
      BY <1>1, <2>2
    <2> QED BY <2>1, <2>3, <2>4
  <1>4. Nat \subseteq S
    <2> HIDE DEF S
    <2> QED BY <1>2, <1>3, SimpleInduction
  <1> QED BY <1>4 DEF T

-----------------------------------------------------------------------------
(***************************************************************************)
(* The size of the ring.                                                   *)
(***************************************************************************)
LEMMA PowersOfTwo ==
    /\ PowerOfTwo[0] = 1
    /\ \A k \in Nat : PowerOfTwo[k] \in Nat /\ PowerOfTwo[k] > k
                      /\ PowerOfTwo[k + 1] = 2 * PowerOfTwo[k]
  <1> DEFINE Right(g) == [k \in Nat |-> IF k = 0 THEN 1 ELSE 2 * g[k - 1]]
             Body == [g \in [Nat -> Int] |-> Right(g)]
             rank == [n \in Nat |-> n]
  <1>1. \A g \in [Nat -> Int] : Right(g) \in [Nat -> Int]
    OBVIOUS
  <1>2. Body \in [[Nat -> Int] -> [Nat -> Int]]
    <2> HIDE DEF Right
    <2> QED BY <1>1
  <1>3. ASSUME NEW g \in [Nat -> Int], NEW h \in [Nat -> Int], NEW x \in Nat,
               \A y \in Nat : rank[y] < rank[x] => g[y] = h[y]
        PROVE  Body[g][x] = Body[h][x]
    <2>1. CASE x = 0
      BY <2>1
    <2>2. CASE x # 0
      <3>1. x - 1 \in Nat /\ rank[x - 1] < rank[x]
        BY <2>2
      <3>2. g[x - 1] = h[x - 1]
        BY <1>3, <3>1
      <3> QED BY <3>2
    <2> QED BY <2>1, <2>2
  <1>4. \E f \in [Nat -> Int] : f = Body[f]
    <2>1. rank \in [Nat -> Nat]
      OBVIOUS
    <2>2. \A g, h \in [Nat -> Int], x \in Nat :
              (\A y \in Nat : rank[y] < rank[x] => g[y] = h[y]) => Body[g][x] = Body[h][x]
      <3> HIDE DEF Body, rank
      <3> QED BY <1>3
    <2> HIDE DEF Body, rank
    <2>3. DependsOnLower(Nat, Int, Body, rank)
      BY <1>2, <2>1, <2>2 DEF DependsOnLower
    <2> DEFINE D == Nat
               V == Int
    <2>4. DependsOnLower(D, V, Body, rank) /\ V # {}
      BY <2>3
    <2> HIDE DEF D, V
    <2>5. \E f \in [D -> V] : f = Body[f]
      BY <2>4, RecursionIsSound
    <2> QED BY <2>5 DEF D, V
  <1>5. \E f : f = Right(f)
    BY <1>4
  <1>6. PowerOfTwo = CHOOSE f : f = Right(f)
    BY DEF PowerOfTwo
  <1>7. PowerOfTwo = Right(PowerOfTwo)
    <2> HIDE DEF Right
    <2> QED BY <1>5, <1>6
  <1>8. PowerOfTwo[0] = 1
    BY <1>7
  <1>9. ASSUME NEW k \in Nat PROVE PowerOfTwo[k + 1] = 2 * PowerOfTwo[k]
    <2>1. PowerOfTwo[k + 1] = Right(PowerOfTwo)[k + 1]
      BY <1>7
    <2>2. k + 1 \in Nat /\ k + 1 # 0 /\ (k + 1) - 1 = k
      OBVIOUS
    <2> QED BY <2>1, <2>2
  <1> DEFINE S == {k \in Nat : PowerOfTwo[k] \in Nat /\ PowerOfTwo[k] > k}
  <1>10. 0 \in S /\ \A k \in Nat : k \in S => k + 1 \in S
    BY <1>8, <1>9
  <1>11. Nat \subseteq S
    <2> HIDE DEF S
    <2> QED BY <1>10, SimpleInduction
  <1> QED BY <1>8, <1>9, <1>11

LEMMA RingIsLarge == RingSize \in Nat /\ RingSize >= 4
  <1>1. PICK k \in 2 .. 20 : RingSize = PowerOfTwo[k]
    BY HistoryAssumption
  <1>2. PowerOfTwo[k] = 2 * (2 * PowerOfTwo[k - 2]) /\ PowerOfTwo[k - 2] \in Nat
        /\ PowerOfTwo[k - 2] > 0
    <2>1. k - 2 \in Nat /\ k - 1 \in Nat /\ (k - 2) + 1 = k - 1 /\ (k - 1) + 1 = k
      OBVIOUS
    <2> QED BY <2>1, PowersOfTwo
  <1> QED BY <1>1, <1>2

\* Samples less than the size of the ring apart do not share a slot.
LEMMA SlotsOfSamples ==
    /\ \A i \in Nat : WRAP(i) \in 0 .. RingSize - 1
    /\ \A i, j \in Nat : i < j /\ j - i < RingSize => WRAP(i) # WRAP(j)
  <1>1. \A i \in Nat : WRAP(i) \in 0 .. RingSize - 1
    BY RingIsLarge DEF WRAP
  <1>2. ASSUME NEW i \in Nat, NEW j \in Nat, i < j, j - i < RingSize PROVE WRAP(i) # WRAP(j)
    <2>1. RingSize \in Nat \ {0} /\ i <= j /\ i # j
      BY <1>2, RingIsLarge
    <2> QED BY <1>2, <2>1, RemaindersDiffer DEF WRAP
  <1> QED BY <1>1, <1>2

-----------------------------------------------------------------------------
(***************************************************************************)
(* The inductive invariant.  Samples have indices from 0 on, so that       *)
(* pushed[i + 1] is sample i.                                              *)
(***************************************************************************)
\* A sample belongs to a tick of its own, and is no more than a delay after it.
SamplesFollowTicks ==
    /\ \A i \in 1 .. numSamples : \E delay \in Delays :
          pushed[i].time = pushed[i].tick * SamplePeriod + delay
    /\ \A i, j \in 1 .. numSamples : i <= j => pushed[i].tick + (j - i) <= pushed[j].tick
    /\ numSamples > 0 => pushed[numSamples].tick = tick

TimesRise ==
    \A i, j \in 1 .. numSamples : i < j => pushed[i].time < pushed[j].time

\* The ring holds the last RingSize samples.
RingIsRecent ==
    \A i \in 0 .. numSamples - 1 :
        numSamples - RingSize <= i => /\ timestamps[WRAP(i)] = pushed[i + 1].time
                                      /\ rates[WRAP(i)] = pushed[i + 1].rate

PushedRates == [i \in Nat |-> IF i < numSamples THEN pushed[i + 1].rate ELSE 0]

\* A window begins with the first sample that is young enough and ends with the last one.
WindowIsExact(w, span) ==
    /\ w = [first |-> w.first, last |-> numSamples - 1, count |-> numSamples - w.first,
            sum |-> Totals(PushedRates)[numSamples] - Totals(PushedRates)[w.first]]
    /\ w.first \in 0 .. numSamples
    /\ numSamples > 0 => w.first < numSamples
    /\ \A i \in 1 .. numSamples : pushed[numSamples].time - pushed[i].time < span <=> w.first < i

HistoryInv ==
    /\ HistoryTypeOK
    /\ Len(pushed) = numSamples
    /\ SamplesFollowTicks
    /\ TimesRise
    /\ RingIsRecent
    /\ \A span \in Timespans : WindowIsExact(windows[span], span)

LEMMA HistoryInitially == HistoryInit => HistoryInv
  <1> SUFFICES ASSUME HistoryInit PROVE HistoryInv
    OBVIOUS
  <1> USE DEF HistoryInit
  <1>1. HistoryTypeOK
    BY RingIsLarge, HistoryAssumption DEF HistoryTypeOK, EmptyWindow
  <1>2. Len(pushed) = numSamples /\ SamplesFollowTicks /\ TimesRise /\ RingIsRecent
    BY DEF SamplesFollowTicks, TimesRise, RingIsRecent
  <1>3. ASSUME NEW span \in Timespans PROVE WindowIsExact(windows[span], span)
    <2>1. Totals(PushedRates)[0] = 0
      BY TotalsAreSums DEF PushedRates
    <2> QED BY <2>1 DEF WindowIsExact, EmptyWindow
  <1> QED BY <1>1, <1>2, <1>3 DEF HistoryInv

LEMMA SampleTypes ==
    ASSUME HistoryInv, NEW i \in 1 .. numSamples
    PROVE  pushed[i].rate \in Nat /\ pushed[i].time \in Nat /\ pushed[i].tick \in Nat
  <1> DEFINE Sample == [rate : Rates, time : Nat, tick : Nat]
  <1>1. pushed \in Seq(Sample) /\ Len(pushed) = numSamples
    BY DEF HistoryInv, HistoryTypeOK
  <1>2. pushed[i] \in Sample
    <2> HIDE DEF Sample
    <2> QED BY <1>1
  <1> QED BY <1>2, HistoryAssumption

LEMMA PushedRatesType == ASSUME HistoryInv PROVE PushedRates \in [Nat -> Nat]
  <1>1. numSamples \in Nat
    BY HistoryAssumption DEF HistoryInv, HistoryTypeOK
  <1>2. ASSUME NEW i \in Nat, i < numSamples PROVE pushed[i + 1].rate \in Nat
    <2>1. i + 1 \in 1 .. numSamples
      BY <1>1, <1>2
    <2> QED BY <2>1, SampleTypes
  <1> QED BY <1>2 DEF PushedRates

\* The least member of a set of natural numbers.
LEMMA MinOfNaturals ==
    ASSUME NEW S \in SUBSET Nat, NEW n \in S
    PROVE  Min(S) \in S /\ \A i \in S : Min(S) <= i
  <1>1. \E i \in S : \A j \in S : i <= j
    BY LeastNatural
  <1> QED BY <1>1 DEF Min

\* What push does to the samples and the ring.
LEMMA PushExtends ==
    ASSUME HistoryInv, NEW rate \in Rates, NEW delay \in Delays, NEW pause \in Delays,
           push(rate, delay, pause)
    PROVE  /\ numSamples \in Nat /\ numSamples' = numSamples + 1 /\ numSamples' <= MaxSamples
           /\ pushed' \in Seq([rate : Rates, time : Nat, tick : Nat])
           /\ Len(pushed') = numSamples'
           /\ \A i \in 1 .. numSamples : pushed'[i] = pushed[i]
           /\ pushed'[numSamples'].rate = rate
           /\ pushed'[numSamples'].tick = tick' /\ tick' \in Nat /\ tick < tick'
           /\ pushed'[numSamples'].time = tick' * SamplePeriod + delay
           /\ numSamples > 0 => pushed[numSamples].time < pushed'[numSamples'].time
           /\ rates' \in [0 .. RingSize - 1 -> Nat] /\ timestamps' \in [0 .. RingSize - 1 -> Nat]
           /\ RingIsRecent'
  <1> DEFINE n == numSamples
             time == tick' * SamplePeriod + delay
  <1> USE DEF HistoryInv
  <1>1. /\ n < MaxSamples /\ n' = n + 1
        /\ rates' = [rates EXCEPT ![WRAP(n)] = rate]
        /\ timestamps' = [timestamps EXCEPT ![WRAP(n)] = time]
        /\ pushed' = Append(pushed, [rate |-> rate, time |-> time, tick |-> tick'])
        /\ time > lastTime /\ tick' \in WakingTicks(pause)
    BY DEF push
  <1>2. n \in Nat /\ MaxSamples \in Nat /\ Len(pushed) = n /\ RingSize \in Nat /\ RingSize >= 4
    BY RingIsLarge, HistoryAssumption DEF HistoryTypeOK
  <1>8. /\ tick \in Nat /\ tick' \in Nat /\ tick < tick'
        /\ n > 0 => pushed[n].time \in Nat /\ lastTime = pushed[n].time
        /\ lastTime \in Nat
    <2>1. tick \in Nat
      BY DEF HistoryTypeOK
    <2>2. ASSUME n = 0 PROVE lastTime \in Nat
      BY <2>2 DEF lastTime
    <2>3. ASSUME n > 0 PROVE pushed[n].time \in Nat /\ lastTime = pushed[n].time
      <3>1. n - 1 \in 0 .. n - 1 /\ n - RingSize <= n - 1 /\ (n - 1) + 1 = n /\ n \in 1 .. n
        BY <1>2, <2>3
      <3>2. timestamps[WRAP(n - 1)] = pushed[n].time
        BY <3>1 DEF RingIsRecent
      <3>3. pushed[n].time \in Nat
        BY <3>1, SampleTypes
      <3> QED BY <1>2, <2>3, <3>2, <3>3 DEF lastTime
    <2>4. lastTime \in Nat /\ (n > 0 => pushed[n].time \in Nat /\ lastTime = pushed[n].time)
      BY <1>2, <2>2, <2>3
    <2>5. (lastTime + pause) \div SamplePeriod \in Int
      BY <2>4, HistoryAssumption
    <2>6. tick' \in tick + 1 .. ((lastTime + pause) \div SamplePeriod) + 1
      BY <1>1 DEF WakingTicks
    <2>7. tick' \in Nat /\ tick < tick'
      <3> HIDE DEF HistoryInv
      <3> QED BY <2>1, <2>5, <2>6
    <2> QED BY <2>1, <2>4, <2>7
  <1>3. /\ time \in Nat
        /\ n > 0 => pushed[n].time < time
    <2>1. SamplePeriod \in Nat /\ delay \in Nat
      BY HistoryAssumption
    <2>2. tick' * SamplePeriod \in Nat
      BY <1>8, <2>1
    <2>3. time \in Nat
      BY <2>1, <2>2
    <2> HIDE DEF time
    <2> QED BY <1>1, <1>2, <1>8, <2>3
  <1> HIDE DEF time
  <1>4. /\ pushed' \in Seq([rate : Rates, time : Nat, tick : Nat]) /\ Len(pushed') = n + 1
        /\ \A i \in 1 .. n : pushed'[i] = pushed[i]
        /\ pushed'[n + 1] = [rate |-> rate, time |-> time, tick |-> tick']
    <2> DEFINE Sample == [rate : Rates, time : Nat, tick : Nat]
               new == [rate |-> rate, time |-> time, tick |-> tick']
    <2>1. pushed \in Seq(Sample) /\ new \in Sample /\ pushed' = Append(pushed, new)
      BY <1>1, <1>3, <1>8 DEF HistoryTypeOK
    <2> HIDE DEF Sample, new
    <2>2. /\ pushed' \in Seq(Sample) /\ Len(pushed') = n + 1
          /\ \A i \in 1 .. n : pushed'[i] = pushed[i]
          /\ pushed'[n + 1] = new
      BY <1>2, <2>1
    <2> QED BY <2>2 DEF Sample, new
  <1>5. rates' \in [0 .. RingSize - 1 -> Nat] /\ timestamps' \in [0 .. RingSize - 1 -> Nat]
    BY <1>1, <1>3, HistoryAssumption DEF HistoryTypeOK
  <1>6. ASSUME NEW i \in 0 .. n, n + 1 - RingSize <= i
        PROVE  /\ timestamps'[WRAP(i)] = pushed'[i + 1].time
               /\ rates'[WRAP(i)] = pushed'[i + 1].rate
    <2>2. WRAP(n) \in 0 .. RingSize - 1 /\ WRAP(i) \in 0 .. RingSize - 1
      BY <1>2, SlotsOfSamples
    <2>3. CASE i = n
      BY <1>1, <1>4, <2>2, <2>3 DEF HistoryTypeOK
    <2>4. CASE i # n
      <3>1. i \in 0 .. n - 1 /\ n - RingSize <= i /\ i + 1 \in 1 .. n /\ i < n /\ n - i < RingSize
        BY <1>2, <1>6, <2>4
      <3>2. WRAP(i) # WRAP(n)
        BY <1>2, <3>1, SlotsOfSamples
      <3> QED BY <1>1, <1>4, <2>2, <3>1, <3>2 DEF RingIsRecent, HistoryTypeOK
    <2> QED BY <2>3, <2>4
  <1> HIDE DEF HistoryInv
  <1>7. RingIsRecent'
    <2>1. ASSUME NEW i \in 0 .. numSamples' - 1, numSamples' - RingSize <= i
          PROVE  /\ timestamps'[WRAP(i)] = pushed'[i + 1].time
                 /\ rates'[WRAP(i)] = pushed'[i + 1].rate
      <3>1. i \in 0 .. n /\ n + 1 - RingSize <= i
        BY <1>1, <1>2, <2>1
      <3> QED BY <1>6, <3>1
    <2> QED BY <2>1 DEF RingIsRecent, WRAP
  <1> QED BY <1>1, <1>2, <1>8, <1>3, <1>4, <1>5, <1>7 DEF time

LEMMA SamplesKeepFollowing ==
    ASSUME HistoryInv, NEW rate \in Rates, NEW delay \in Delays, NEW pause \in Delays,
           push(rate, delay, pause)
    PROVE  SamplesFollowTicks' /\ TimesRise'
  <1> DEFINE n == numSamples
             Sample == [rate : Rates, time : Nat, tick : Nat]
  <1>1. /\ n \in Nat /\ n' = n + 1 /\ pushed' \in Seq(Sample)
        /\ Len(pushed') = n + 1 /\ \A i \in 1 .. n : pushed'[i] = pushed[i]
        /\ n > 0 => pushed[n].time < pushed'[n + 1].time
        /\ pushed'[n + 1].tick = tick' /\ tick < tick' /\ tick' \in Nat
        /\ pushed'[n + 1].time = tick' * SamplePeriod + delay
    BY PushExtends
  <1>2. \A i \in 1 .. n + 1 : pushed'[i].time \in Nat /\ pushed'[i].tick \in Nat
    <2>1. \A i \in 1 .. n + 1 : pushed'[i] \in Sample
      <3> HIDE DEF Sample
      <3> QED BY <1>1
    <2> QED BY <2>1
  <1>3. tick \in Nat /\ (n > 0 => pushed[n].tick = tick /\ n \in 1 .. n)
    BY <1>1 DEF HistoryInv, HistoryTypeOK, SamplesFollowTicks
  <1>4. ASSUME NEW i \in 1 .. n + 1
        PROVE  \E d \in Delays : pushed'[i].time = pushed'[i].tick * SamplePeriod + d
    <2>1. CASE i = n + 1
      BY <1>1, <2>1
    <2>2. CASE i # n + 1
      <3>1. i \in 1 .. n
        BY <1>1, <2>2
      <3> QED BY <1>1, <3>1 DEF HistoryInv, SamplesFollowTicks
    <2> QED BY <2>1, <2>2
  <1>5. ASSUME NEW i \in 1 .. n + 1, NEW j \in 1 .. n + 1, i <= j
        PROVE  /\ pushed'[i].tick + (j - i) <= pushed'[j].tick
               /\ i < j => pushed'[i].time < pushed'[j].time
    <2>1. CASE j <= n
      <3>1. i \in 1 .. n /\ j \in 1 .. n /\ pushed'[i] = pushed[i] /\ pushed'[j] = pushed[j]
        BY <1>1, <1>5, <2>1
      <3> QED BY <1>5, <3>1 DEF HistoryInv, SamplesFollowTicks, TimesRise
    <2>2. CASE i = j
      BY <1>2, <2>2
    <2>3. CASE j = n + 1 /\ i <= n
      <3>1. /\ i \in 1 .. n /\ n \in 1 .. n /\ n > 0 /\ i <= n
            /\ pushed'[i] = pushed[i] /\ pushed'[n] = pushed[n]
            /\ n \in 1 .. n + 1
        BY <1>1, <2>3
      <3>2. /\ pushed[i].tick + (n - i) <= pushed[n].tick
            /\ i < n => pushed[i].time < pushed[n].time
        BY <3>1 DEF HistoryInv, SamplesFollowTicks, TimesRise
      <3>3. /\ pushed[i].tick \in Nat /\ pushed[i].time \in Nat
            /\ pushed[n].tick \in Nat /\ pushed[n].time \in Nat /\ pushed'[n + 1].time \in Nat
        BY <1>1, <1>2, <3>1
      <3>4. /\ pushed'[j].tick = tick' /\ pushed[n].tick < tick'
            /\ pushed[n].time < pushed'[j].time /\ pushed'[j].time \in Nat /\ tick' \in Nat
        BY <1>1, <1>2, <1>3, <2>3, <3>1
      <3>5. n \in Nat /\ i \in Nat /\ j = n + 1 /\ (i = n \/ i < n)
        BY <1>1, <2>3, <3>1
      <3> HIDE DEF n
      <3>6. pushed[i].tick + (j - i) <= tick'
        BY <3>2, <3>3, <3>4, <3>5
      <3>7. pushed[i].time < pushed'[j].time
        BY <3>2, <3>3, <3>4, <3>5
      <3> QED BY <3>1, <3>4, <3>6, <3>7
    <2> QED BY <1>1, <1>5, <2>1, <2>2, <2>3
  <1>6. TimesRise'
    BY <1>1, <1>5 DEF TimesRise
  <1>7. SamplesFollowTicks'
    BY <1>1, <1>4, <1>5 DEF SamplesFollowTicks
  <1> QED BY <1>6, <1>7

\* What a window still holds when the next sample is written is still in the ring.
LEMMA WindowFits ==
    ASSUME HistoryInv, NEW span \in Timespans
    PROVE  numSamples - windows[span].first < RingSize
  <1> DEFINE n == numSamples
             f == windows[span].first
  <1>1. /\ WindowIsExact(windows[span], span) /\ n \in Nat
        /\ RingSize \in Nat /\ RingSize >= 4 /\ SamplePeriod \in Nat \ {0}
        /\ span \in Nat /\ Delays \subseteq Nat
        /\ \A delay \in Delays : span + delay <= (RingSize - 1) * SamplePeriod
    BY RingIsLarge, HistoryAssumption DEF HistoryInv, HistoryTypeOK
  <1>2. CASE n = 0
    BY <1>1, <1>2 DEF WindowIsExact
  <1>3. CASE n > 0
    <2>1. f \in 0 .. n - 1 /\ f + 1 \in 1 .. n /\ n \in 1 .. n /\ f < f + 1 /\ f + 1 <= n
      BY <1>1, <1>3 DEF WindowIsExact
    <2>2. pushed[n].time - pushed[f + 1].time < span
      BY <1>1, <2>1 DEF WindowIsExact
    <2> DEFINE s == pushed[f + 1].tick
               u == pushed[n].tick
    <2>3. PICK d \in Delays : pushed[f + 1].time = s * SamplePeriod + d
      BY <2>1 DEF HistoryInv, SamplesFollowTicks
    <2>4. PICK e \in Delays : pushed[n].time = u * SamplePeriod + e
      BY <2>1 DEF HistoryInv, SamplesFollowTicks
    <2>5. s + (n - (f + 1)) <= u
      BY <2>1 DEF HistoryInv, SamplesFollowTicks
    <2>6. s \in Nat /\ u \in Nat /\ d \in Nat /\ e \in Nat
      BY <1>1, <2>1, SampleTypes
    <2> HIDE DEF n, f, s, u
    <2>7. /\ s * SamplePeriod \in Int /\ u * SamplePeriod \in Int
          /\ (u - s) * SamplePeriod = u * SamplePeriod - s * SamplePeriod
          /\ (RingSize - 1) * SamplePeriod \in Int
          /\ u - s \in Int /\ RingSize - 1 \in Int
      BY <1>1, <2>6
    <2>8. (u - s) * SamplePeriod < (RingSize - 1) * SamplePeriod
      <3>1. span + d <= (RingSize - 1) * SamplePeriod
        BY <1>1
      <3> DEFINE S == s * SamplePeriod
                 U == u * SamplePeriod
                 R == (RingSize - 1) * SamplePeriod
                 D == (u - s) * SamplePeriod
      <3>2. /\ S \in Int /\ U \in Int /\ R \in Int /\ D = U - S
            /\ (U + e) - (S + d) < span /\ span + d <= R
        BY <2>2, <2>3, <2>4, <2>7, <3>1
      <3> HIDE DEF S, U, R, D
      <3>3. D < R
        BY <1>1, <2>6, <3>2
      <3> QED BY <3>3 DEF D, R
    <2>9. u - s < RingSize - 1
      BY <1>1, <2>7, <2>8, MultiplesInOrder
    <2>10. n - f < RingSize
      BY <1>1, <2>1, <2>5, <2>6, <2>9
    <2> QED BY <2>10 DEF n, f
  <1> QED BY <1>1, <1>2, <1>3

\* Where the loop of update stops: at the first sample that is young enough, or the last.
FirstYoung(time, a, n, span) ==
    Min({i \in a .. n : i = n \/ ~(time[n + 1] - time[i + 1] >= span)})

LEMMA TrimStops ==
    ASSUME NEW n \in Nat, NEW a \in 0 .. n, NEW time \in [1 .. n + 1 -> Nat],
           NEW span \in Nat \ {0},
           \A i, j \in 1 .. n + 1 : i <= j => time[i] <= time[j],
           \A i \in 1 .. a : time[n + 1] - time[i] >= span
    PROVE  /\ FirstYoung(time, a, n, span) \in a .. n
           /\ \A i \in 1 .. n + 1 :
                  time[n + 1] - time[i] < span <=> FirstYoung(time, a, n, span) < i
  <1> DEFINE S == {i \in a .. n : i = n \/ ~(time[n + 1] - time[i + 1] >= span)}
             f == FirstYoung(time, a, n, span)
  <1>1. f \in S /\ \A i \in S : f <= i
    <2>1. S \in SUBSET Nat /\ n \in S
      OBVIOUS
    <2>2. f = Min(S)
      BY DEF FirstYoung
    <2> HIDE DEF S, f
    <2> QED BY <2>1, <2>2, MinOfNaturals
  <1>2. f \in a .. n /\ f + 1 \in 1 .. n + 1 /\ n + 1 \in 1 .. n + 1
    BY <1>1
  <1> HIDE DEF f
  <1>3. time[n + 1] - time[f + 1] < span
    <2>1. CASE f = n
      BY <1>2, <2>1
    <2>2. CASE f # n
      BY <1>1, <1>2, <2>2
    <2> QED BY <2>1, <2>2
  <1>4. ASSUME NEW i \in 1 .. n + 1, f < i PROVE time[n + 1] - time[i] < span
    <2>1. time[f + 1] <= time[i]
      BY <1>2, <1>4
    <2> QED BY <1>2, <1>3, <2>1
  <1>5. ASSUME NEW i \in 1 .. n + 1, i <= f PROVE time[n + 1] - time[i] >= span
    <2>1. CASE i <= a
      BY <2>1
    <2>2. CASE i > a
      <3>1. i - 1 \in a .. n /\ i - 1 # n /\ ~(f <= i - 1) /\ (i - 1) + 1 = i
        BY <1>2, <1>5, <2>2
      <3>2. i - 1 \notin S
        BY <1>1, <3>1
      <3> QED BY <3>1, <3>2
    <2> QED BY <2>1, <2>2
  <1>6. \A i \in 1 .. n + 1 : time[n + 1] - time[i] < span <=> f < i
    <2>1. \A i \in 1 .. n + 1 : i \in Int /\ time[n + 1] - time[i] \in Int
      BY <1>2
    <2>2. f \in Int
      BY <1>2
    <2> QED BY <1>4, <1>5, <2>1, <2>2
  <1> QED BY <1>2, <1>6 DEF f

\* What update adds and subtracts, read from the ring, turns the sum of one window into that
\* of the next.
LEMMA RunningSum ==
    ASSUME NEW old \in [Nat -> Int], NEW new \in [Nat -> Int], NEW ring \in [Nat -> Int],
           NEW n \in Nat, NEW a \in 0 .. n, NEW f \in a .. n,
           \A i \in 0 .. n - 1 : old[i] = new[i],
           \A i \in a .. n : ring[i] = new[i]
    PROVE  (Totals(old)[n] - Totals(old)[a]) + SumOf(ring, n, n) - SumOf(ring, a, f - 1)
               = Totals(new)[n + 1] - Totals(new)[f]
  <1> DEFINE T == Totals(old)
             U == Totals(new)
             R == Totals(ring)
  <1>1. ASSUME NEW b \in a .. n + 1 PROVE R[b] - R[a] = U[b] - U[a]
    <2> DEFINE len == b - a
    <2>1. len \in Nat /\ a + len = b /\ a \in Nat
      OBVIOUS
    <2>2. Agree(ring, a, new, a, len)
      <3>1. ASSUME NEW i \in 0 .. len - 1 PROVE a + i \in a .. n
        OBVIOUS
      <3> QED BY <3>1 DEF Agree
    <2> HIDE DEF len
    <2>3. R[a + len] - R[a] = U[a + len] - U[a]
      BY <2>1, <2>2, SumsAgree
    <2> QED BY <2>1, <2>3
  <1>2. T[n] - T[a] = U[n] - U[a]
    <2> DEFINE len == n - a
    <2>1. len \in Nat /\ a + len = n /\ a \in Nat
      OBVIOUS
    <2>2. Agree(old, a, new, a, len)
      <3>1. ASSUME NEW i \in 0 .. len - 1 PROVE a + i \in 0 .. n - 1
        OBVIOUS
      <3> QED BY <3>1 DEF Agree
    <2> HIDE DEF len
    <2>3. T[a + len] - T[a] = U[a + len] - U[a]
      BY <2>1, <2>2, SumsAgree
    <2> QED BY <2>1, <2>3
  <1>3. T \in [Nat -> Int] /\ U \in [Nat -> Int] /\ R \in [Nat -> Int]
    BY TotalsAreSums
  <1> HIDE DEF T, U, R
  <1>4. /\ n \in a .. n + 1 /\ n + 1 \in a .. n + 1 /\ f \in a .. n + 1
        /\ a \in Nat /\ f \in Nat /\ (f - 1) + 1 = f
    OBVIOUS
  <1>5. /\ R[n] - R[a] = U[n] - U[a] /\ R[n + 1] - R[a] = U[n + 1] - U[a]
        /\ R[f] - R[a] = U[f] - U[a]
    BY <1>1, <1>4
  <1>6. /\ T[n] \in Int /\ T[a] \in Int /\ R[n + 1] \in Int /\ R[n] \in Int /\ R[f] \in Int
        /\ R[a] \in Int /\ U[n + 1] \in Int /\ U[n] \in Int /\ U[f] \in Int /\ U[a] \in Int
    BY <1>3, <1>4
  <1>7. SumOf(ring, n, n) = R[n + 1] - R[n] /\ SumOf(ring, a, f - 1) = R[f] - R[a]
    BY <1>4 DEF SumOf, R
  <1>8. (T[n] - T[a]) + SumOf(ring, n, n) - SumOf(ring, a, f - 1) = U[n + 1] - U[f]
    BY <1>2, <1>5, <1>6, <1>7
  <1> QED BY <1>8 DEF T, U

LEMMA WindowFollows ==
    ASSUME HistoryInv, NEW rate \in Rates, NEW delay \in Delays, NEW pause \in Delays,
           push(rate, delay, pause),
           NEW span \in Timespans
    PROVE  WindowIsExact(windows[span], span)'
  <1> DEFINE n == numSamples
             a == windows[span].first
             time == [i \in 1 .. n + 1 |-> pushed'[i].time]
             f == FirstYoung(time, a, n, span)
             R == Unwrapped(rates')
  <1>1. n \in Nat /\ numSamples' = n + 1 /\ RingSize \in Nat /\ RingSize >= 4
        /\ SamplePeriod \in Nat \ {0} /\ span \in Nat \ {0}
    BY PushExtends, RingIsLarge, HistoryAssumption
  <1>2. /\ \A i \in 1 .. n : pushed'[i] = pushed[i]
        /\ pushed'[n + 1].rate = rate
        /\ n > 0 => pushed[n].time < pushed'[n + 1].time
    BY PushExtends
  <1>3. \A i \in 1 .. n + 1 : pushed'[i].time \in Nat /\ pushed'[i].rate \in Nat
    <2> DEFINE Sample == [rate : Rates, time : Nat, tick : Nat]
    <2>1. pushed' \in Seq(Sample) /\ Len(pushed') = n + 1
      BY <1>1, PushExtends
    <2>2. \A i \in 1 .. n + 1 : pushed'[i] \in Sample
      <3> HIDE DEF Sample
      <3> QED BY <2>1
    <2> QED BY <2>2, HistoryAssumption
  <1>4. /\ a \in 0 .. n /\ n - a < RingSize
        /\ windows[span].last = n - 1 /\ windows[span].count = n - a
        /\ windows[span].sum = Totals(PushedRates)[n] - Totals(PushedRates)[a]
        /\ \A i \in 1 .. n : pushed[n].time - pushed[i].time < span <=> a < i
    <2>1. WindowIsExact(windows[span], span) /\ n - a < RingSize
      BY WindowFits DEF HistoryInv
    <2>2. \A i \in 1 .. n : pushed[n].time - pushed[i].time < span <=> a < i
      BY <2>1 DEF WindowIsExact
    <2>3. /\ windows[span].last = n - 1 /\ windows[span].count = n - a
          /\ windows[span].sum = Totals(PushedRates)[n] - Totals(PushedRates)[a]
      BY <2>1 DEF WindowIsExact
    <2> QED BY <2>1, <2>2, <2>3 DEF WindowIsExact
  <1>5. ASSUME NEW i \in a .. n
        PROVE  /\ i \in Nat /\ i + 1 \in 1 .. n + 1
               /\ timestamps'[WRAP(i)] = pushed'[i + 1].time
               /\ rates'[WRAP(i)] = pushed'[i + 1].rate
    <2>1. i \in 0 .. numSamples' - 1 /\ numSamples' - RingSize <= i
      <3> HIDE DEF n, a
      <3> QED BY <1>1, <1>4
    <2>2. i \in Nat /\ i + 1 \in 1 .. n + 1
      BY <1>1, <1>4
    <2>3. RingIsRecent'
      BY PushExtends
    <2> QED BY <2>1, <2>2, <2>3 DEF RingIsRecent
  <1>6. f \in a .. n /\ \A i \in 1 .. n + 1 : time[n + 1] - time[i] < span <=> f < i
    <2>1. time \in [1 .. n + 1 -> Nat]
      BY <1>3
    <2>2. ASSUME NEW i \in 1 .. n + 1, NEW j \in 1 .. n + 1, i <= j
          PROVE  time[i] <= time[j]
      <3>1. i < j => pushed'[i].time < pushed'[j].time
        BY <1>1, <2>2, SamplesKeepFollowing DEF TimesRise
      <3>2. i = j \/ i < j
        BY <2>2
      <3> QED BY <1>3, <3>1, <3>2
    <2>3. ASSUME NEW i \in 1 .. a PROVE time[n + 1] - time[i] >= span
      <3>1. i \in 1 .. n /\ n \in 1 .. n /\ n > 0 /\ ~(a < i) /\ i \in 1 .. n + 1
            /\ n + 1 \in 1 .. n + 1
        BY <1>1, <1>4
      <3>2. ~(pushed[n].time - pushed[i].time < span) /\ pushed'[i].time = pushed[i].time
        BY <1>2, <1>4, <3>1
      <3>3. pushed[n].time < pushed'[n + 1].time
        BY <1>2, <3>1
      <3>4. pushed[n].time \in Nat /\ pushed[i].time \in Nat /\ pushed'[n + 1].time \in Nat
        BY <1>3, <3>1, SampleTypes
      <3>5. pushed'[n + 1].time - pushed'[i].time >= span
        <4> HIDE DEF n
        <4> QED BY <1>1, <3>2, <3>3, <3>4
      <3> QED BY <3>1, <3>5
    <2>5. /\ \A i, j \in 1 .. n + 1 : i <= j => time[i] <= time[j]
          /\ \A i \in 1 .. a : time[n + 1] - time[i] >= span
      BY <2>2, <2>3
    <2>6. n \in Nat /\ a \in 0 .. n /\ span \in Nat \ {0}
      BY <1>1, <1>4
    <2> HIDE DEF time, n, a
    <2> QED BY <2>1, <2>5, <2>6, TrimStops
  <1>7. windows'[span]
            = [first |-> f, last |-> n, count |-> (n + 1) - f,
               sum |-> windows[span].sum + SumOf(R, n, n) - SumOf(R, a, f - 1)]
    <2> DEFINE last == numSamples' - 1
               S == {i \in a .. last :
                        i = last \/ ~TooOld(timestamps'[WRAP(last)] - timestamps'[WRAP(i)], span)}
               w == windows[span]
    <2>1. windows'[span]
              = [first |-> Min(S), last |-> last,
                 count |-> w.count + (last - w.last) - (Min(S) - a),
                 sum |-> w.sum + SumOf(R, w.last + 1, last) - SumOf(R, a, Min(S) - 1)]
      BY DEF push, update
    <2>2. last = n /\ w.last + 1 = n
      BY <1>1, <1>4
    <2>3. Min(S) = f
      <3>1. n \in a .. n
        BY <1>1, <1>4
      <3>2. timestamps'[WRAP(last)] = time[n + 1]
        BY <1>5, <2>2, <3>1
      <3>3. \A i \in a .. n : timestamps'[WRAP(i)] = time[i + 1]
        BY <1>5
      <3>4. S = {i \in a .. n : i = n \/ ~(time[n + 1] - time[i + 1] >= span)}
        <4> HIDE DEF time, n, a, last
        <4> QED BY <2>2, <3>2, <3>3 DEF TooOld
      <3> QED BY <3>4 DEF FirstYoung
    <2>4. w.count + (last - w.last) - (f - a) = (n + 1) - f
      <3> HIDE DEF f, last, n, a, w
      <3> QED BY <1>1, <1>4, <1>6, <2>2 DEF w
    <2> HIDE DEF f, last, n, a, w, S, R
    <2> QED BY <2>1, <2>2, <2>3, <2>4 DEF w
  <1>8. windows'[span].sum = Totals(PushedRates')[n + 1] - Totals(PushedRates')[f]
    <2>1. PushedRates \in [Nat -> Int]
      BY PushedRatesType
    <2>2. PushedRates' \in [Nat -> Int]
      <3>1. ASSUME NEW i \in Nat, i < numSamples' PROVE pushed'[i + 1].rate \in Int
        <4>1. i + 1 \in 1 .. n + 1
          BY <1>1, <3>1
        <4> QED BY <1>3, <4>1
      <3> QED BY <3>1 DEF PushedRates
    <2>3. R \in [Nat -> Int]
      <3>1. rates' \in [0 .. RingSize - 1 -> Nat]
        BY PushExtends
      <3>2. \A i \in Nat : rates'[WRAP(i)] \in Nat
        BY <3>1, SlotsOfSamples
      <3> QED BY <3>2 DEF Unwrapped
    <2>4. \A i \in 0 .. n - 1 : PushedRates[i] = PushedRates'[i]
      <3>1. ASSUME NEW i \in 0 .. n - 1
            PROVE  i \in Nat /\ i < numSamples /\ i < numSamples' /\ i + 1 \in 1 .. n
        BY <1>1
      <3> QED BY <1>2, <3>1 DEF PushedRates
    <2>5. \A i \in a .. n : R[i] = PushedRates'[i]
      <3>1. ASSUME NEW i \in a .. n PROVE i \in Nat /\ i < numSamples'
        BY <1>1, <1>4
      <3> QED BY <1>5, <3>1 DEF PushedRates, Unwrapped
    <2>6. windows'[span].sum
              = (Totals(PushedRates)[n] - Totals(PushedRates)[a]) + SumOf(R, n, n) - SumOf(R, a, f - 1)
      BY <1>4, <1>7
    <2> DEFINE P == PushedRates
               P1 == PushedRates'
    <2> HIDE DEF n, a, f, R, P, P1
    <2>7. (Totals(P)[n] - Totals(P)[a]) + SumOf(R, n, n) - SumOf(R, a, f - 1)
              = Totals(P1)[n + 1] - Totals(P1)[f]
      <3>1. n \in Nat /\ a \in 0 .. n /\ f \in a .. n
        BY <1>1, <1>4, <1>6
      <3>2. P \in [Nat -> Int] /\ P1 \in [Nat -> Int] /\ R \in [Nat -> Int]
        BY <2>1, <2>2, <2>3 DEF P, P1
      <3>3. (\A i \in 0 .. n - 1 : P[i] = P1[i]) /\ \A i \in a .. n : R[i] = P1[i]
        BY <2>4, <2>5 DEF P, P1
      <3> QED BY <3>1, <3>2, <3>3, RunningSum
    <2> QED BY <2>6, <2>7 DEF P, P1
  <1>9. f \in 0 .. n + 1 /\ f < n + 1
    <2> HIDE DEF n, a, f
    <2> QED BY <1>1, <1>4, <1>6
  <1>10. \A i \in 1 .. n + 1 : pushed'[n + 1].time - pushed'[i].time < span <=> f < i
    <2>1. n + 1 \in 1 .. n + 1
      BY <1>1
    <2> QED BY <1>6, <2>1
  <1> HIDE DEF f, R
  <1> QED BY <1>1, <1>7, <1>8, <1>9, <1>10 DEF WindowIsExact

LEMMA PushStep ==
    ASSUME HistoryInv, NEW rate \in Rates, NEW delay \in Delays, NEW pause \in Delays,
           push(rate, delay, pause)
    PROVE  HistoryInv'
  <1> DEFINE Window == [first : 0 .. MaxSamples, last : -1 .. MaxSamples,
                        count : 0 .. MaxSamples, sum : Nat]
  <1>1. /\ numSamples \in Nat /\ numSamples' = numSamples + 1 /\ numSamples' <= MaxSamples
        /\ MaxSamples \in Nat /\ tick' \in Nat
        /\ pushed' \in Seq([rate : Rates, time : Nat, tick : Nat]) /\ Len(pushed') = numSamples'
        /\ rates' \in [0 .. RingSize - 1 -> Nat] /\ timestamps' \in [0 .. RingSize - 1 -> Nat]
        /\ RingIsRecent'
    BY PushExtends, HistoryAssumption
  <1>2. \A span \in Timespans : WindowIsExact(windows[span], span)'
    BY WindowFollows
  <1>3. PushedRates' \in [Nat -> Nat]
    <2> DEFINE Sample == [rate : Rates, time : Nat, tick : Nat]
    <2>1. ASSUME NEW i \in Nat, i < numSamples' PROVE pushed'[i + 1].rate \in Nat
      <3>1. pushed' \in Seq(Sample) /\ i + 1 \in 1 .. Len(pushed')
        BY <1>1, <2>1
      <3>2. pushed'[i + 1] \in Sample
        <4> HIDE DEF Sample
        <4> QED BY <3>1
      <3> QED BY <3>2, HistoryAssumption
    <2> QED BY <2>1 DEF PushedRates
  <1>4. ASSUME NEW span \in Timespans PROVE windows'[span] \in Window
    <2> DEFINE f == windows'[span].first
               T == Totals(PushedRates')
               n == numSamples'
    <2>1. /\ windows'[span] = [first |-> f, last |-> n - 1, count |-> n - f, sum |-> T[n] - T[f]]
          /\ f \in 0 .. n
      BY <1>2 DEF WindowIsExact
    <2>2. n \in Nat /\ n <= MaxSamples
      BY <1>1
    <2> HIDE DEF f, n
    <2>3. T[n] - T[f] \in Nat
      <3> DEFINE P == PushedRates'
                 len == n - f
      <3>1. f \in Nat /\ len \in Nat /\ f + len = n
        BY <2>1, <2>2
      <3>2. P \in [Nat -> Nat]
        BY <1>3
      <3>3. Totals(P) \in [Nat -> Int]
        BY <3>2, TotalsAreSums
      <3> HIDE DEF P, len
      <3>4. Totals(P)[f] <= Totals(P)[f + len]
        BY <3>1, <3>2, TotalsGrow
      <3>5. Totals(P)[f] \in Int /\ Totals(P)[n] \in Int
        BY <2>2, <3>1, <3>3
      <3>6. Totals(P)[n] - Totals(P)[f] \in Nat
        BY <3>1, <3>4, <3>5
      <3> QED BY <3>6 DEF P
    <2> HIDE DEF T
    <2>4. f \in 0 .. MaxSamples /\ n - 1 \in -1 .. MaxSamples /\ n - f \in 0 .. MaxSamples
      BY <1>1, <2>1, <2>2
    <2> QED BY <2>1, <2>3, <2>4
  <1>5. windows' \in [Timespans -> Window]
    <2>1. windows' = [span \in Timespans |-> windows'[span]]
      BY DEF push
    <2> HIDE DEF Window
    <2> QED BY <1>4, <2>1
  <1>6. HistoryTypeOK'
    BY <1>1, <1>5 DEF HistoryTypeOK
  <1>7. SamplesFollowTicks' /\ TimesRise'
    BY SamplesKeepFollowing
  <1> QED BY <1>1, <1>2, <1>6, <1>7 DEF HistoryInv

LEMMA HistoryStep == ASSUME HistoryInv, HistoryNext PROVE HistoryInv'
  BY PushStep DEF HistoryNext

LEMMA HistoryRests == ASSUME HistoryInv, UNCHANGED historyVars PROVE HistoryInv'
  <1> USE DEF historyVars
  <1>1. /\ HistoryTypeOK' /\ (Len(pushed) = numSamples)' /\ SamplesFollowTicks' /\ TimesRise'
        /\ RingIsRecent'
    BY DEF HistoryInv, HistoryTypeOK, SamplesFollowTicks, TimesRise, RingIsRecent
  <1>2. PushedRates' = PushedRates
    BY DEF PushedRates
  <1>3. \A span \in Timespans : WindowIsExact(windows[span], span)'
    BY <1>2 DEF HistoryInv, WindowIsExact
  <1> QED BY <1>1, <1>3 DEF HistoryInv

LEMMA HistoryInvariant == HistorySpec => []HistoryInv
  <1>1. HistoryInv /\ [HistoryNext]_historyVars => HistoryInv'
    BY HistoryStep, HistoryRests
  <1> QED BY <1>1, HistoryInitially, PTL DEF HistorySpec

-----------------------------------------------------------------------------
(***************************************************************************)
(* The averages.                                                           *)
(***************************************************************************)
LEMMA WindowsFollow == HistoryInv => WindowsAreExact
  <1> SUFFICES ASSUME HistoryInv, NEW span \in Timespans, numSamples > 0
               PROVE
                  LET inside == {i \in 1 .. numSamples :
                                    pushed[numSamples].time - pushed[i].time < span}
                      rateInside == [i \in Nat |-> IF i \in inside THEN pushed[i].rate ELSE 0]
                  IN  /\ windows[span].sum = SumOf(rateInside, 1, numSamples)
                      /\ windows[span].count = Cardinality(inside)
    BY DEF WindowsAreExact
  <1> DEFINE n == numSamples
             f == windows[span].first
             inside == {i \in 1 .. n : pushed[n].time - pushed[i].time < span}
             V == [i \in Nat |-> IF i \in inside THEN pushed[i].rate ELSE 0]
             P == PushedRates
  <1>1. /\ n \in Nat /\ n > 0 /\ f \in 0 .. n - 1
        /\ windows[span].count = n - f /\ windows[span].sum = Totals(P)[n] - Totals(P)[f]
        /\ \A i \in 1 .. n : pushed[n].time - pushed[i].time < span <=> f < i
    <2>1. WindowIsExact(windows[span], span)
      BY DEF HistoryInv
    <2>2. n \in Nat /\ n > 0
      BY HistoryAssumption DEF HistoryInv, HistoryTypeOK
    <2>3. \A i \in 1 .. n : pushed[n].time - pushed[i].time < span <=> f < i
      BY <2>1 DEF WindowIsExact
    <2>4. windows[span].count = n - f /\ windows[span].sum = Totals(P)[n] - Totals(P)[f]
      BY <2>1 DEF WindowIsExact
    <2>5. f \in 0 .. n - 1
      BY <2>1, <2>2 DEF WindowIsExact
    <2> QED BY <2>2, <2>3, <2>4, <2>5
  <1>2. inside = f + 1 .. n
    <2> HIDE DEF n, f
    <2> QED BY <1>1
  <1>3. Cardinality(inside) = n - f
    <2>1. f + 1 \in Int /\ n \in Int /\ ~(f + 1 > n) /\ n - (f + 1) + 1 = n - f
      BY <1>1
    <2> HIDE DEF inside, n, f
    <2> QED BY <1>2, <2>1, FS_Interval
  <1>4. V \in [Nat -> Int] /\ P \in [Nat -> Int]
    <2>1. \A i \in inside : pushed[i].rate \in Int
      BY SampleTypes
    <2>2. V \in [Nat -> Int]
      <3> HIDE DEF inside
      <3> QED BY <2>1
    <2> QED BY <2>2, PushedRatesType
  <1>5. \A i \in Nat : V[i] = IF f < i /\ i <= n THEN pushed[i].rate ELSE 0
    <2>1. \A i \in Nat : i \in inside <=> f < i /\ i <= n
      <3> HIDE DEF n, f, inside
      <3> QED BY <1>1, <1>2
    <2> HIDE DEF inside
    <2> QED BY <2>1
  <1>6. Totals(V)[f + 1] = Totals(V)[1]
    <2>1. 1 \in Nat /\ f \in Nat /\ 1 + f = f + 1
      BY <1>1
    <2>2. \A i \in 0 .. f - 1 : V[1 + i] = 0
      <3>1. ASSUME NEW i \in 0 .. f - 1 PROVE 1 + i \in Nat /\ ~(f < 1 + i)
        BY <1>1
      <3> HIDE DEF V
      <3> QED BY <1>5, <3>1
    <2> HIDE DEF V, f
    <2>3. Totals(V)[1 + f] = Totals(V)[1]
      BY <1>4, <2>1, <2>2, SumsOfZeros
    <2> QED BY <2>1, <2>3
  <1>7. Totals(V)[n + 1] - Totals(V)[f + 1] = Totals(P)[n] - Totals(P)[f]
    <2> DEFINE len == n - f
               g == f + 1
    <2>1. len \in Nat /\ f \in Nat /\ g \in Nat /\ f + len = n /\ g + len = n + 1
      BY <1>1
    <2>2. Agree(V, g, P, f, len)
      <3>1. ASSUME NEW i \in 0 .. len - 1
            PROVE  /\ g + i \in Nat /\ f < g + i /\ g + i <= n
                   /\ f + i \in Nat /\ f + i < n /\ g + i = (f + i) + 1
        BY <1>1
      <3>2. \A i \in 0 .. len - 1 : V[g + i] = pushed[g + i].rate
        <4> HIDE DEF V, g, f, n, len
        <4> QED BY <1>5, <3>1
      <3>3. \A i \in 0 .. len - 1 : P[f + i] = pushed[g + i].rate
        BY <3>1 DEF PushedRates
      <3> HIDE DEF V, g, f, n, len, P
      <3> QED BY <3>2, <3>3 DEF Agree
    <2> HIDE DEF V, P, f, n, g, len
    <2>3. Totals(V)[g + len] - Totals(V)[g] = Totals(P)[f + len] - Totals(P)[f]
      BY <1>4, <2>1, <2>2, SumsAgree
    <2> QED BY <2>1, <2>3 DEF g
  <1>8. windows[span].sum = SumOf(V, 1, n)
    <2>1. SumOf(V, 1, n) = Totals(V)[n + 1] - Totals(V)[1]
      BY DEF SumOf
    <2> HIDE DEF V, P, n, f
    <2> QED BY <1>1, <1>6, <1>7, <2>1
  <1>9. windows[span].count = Cardinality(inside)
    BY <1>1, <1>3
  <1> QED BY <1>8, <1>9

\* Every average is over the samples younger than its span, for a ring of any size and any
\* period of the timer, however samples crowd behind a late one, as long as span and delay
\* together fit into the ring: HistoryAvg::update subtracts what it once added.
THEOREM WindowsAlwaysExact == HistorySpec => []WindowsAreExact
  BY HistoryInvariant, WindowsFollow, PTL

-----------------------------------------------------------------------------
(***************************************************************************)
(* The bisection.                                                          *)
(***************************************************************************)
Length(range) == IF range.low <= range.high THEN range.high - range.low + 1 ELSE 0

\* Both halves are ranges, and shorter.
LEMMA Halves ==
    ASSUME NEW range \in Ranges, range.low < range.high,
           NEW current, current = Middle(range.low, range.high)
    PROVE  /\ current \in range.low .. range.high - 1
           /\ current = (range.low + range.high) \div 2
           /\ Between(range.low, current - 1) \in Ranges
           /\ Between(current + 1, range.high) \in Ranges
           /\ Length(Between(range.low, current - 1)) < Length(range)
           /\ Length(Between(current + 1, range.high)) < Length(range)
  <1> DEFINE low == range.low
             high == range.high
  <1>1. /\ low \in Nat /\ high \in Nat /\ low <= MaxSamples /\ high <= MaxSamples
        /\ MaxSamples \in Nat /\ low < high
    BY HistoryAssumption DEF Ranges
  <1>2. current = (low + high) \div 2
    <2>1. ~(high + low < 0) /\ high + low = low + high
      BY <1>1
    <2> QED BY <2>1 DEF Middle
  <1> HIDE DEF low, high
  <1>3. current \in low .. high - 1
    BY <1>1, <1>2
  <1>4. /\ Between(low, current - 1) \in Ranges /\ Between(current + 1, high) \in Ranges
    BY <1>1, <1>3 DEF Ranges, Between
  <1>5. /\ Length(Between(low, current - 1)) < high - low + 1
        /\ Length(Between(current + 1, high)) < high - low + 1
    BY <1>1, <1>3 DEF Between, Length
  <1>6. Length(range) = high - low + 1
    BY <1>1 DEF Length, low, high
  <1> QED BY <1>2, <1>3, <1>4, <1>5, <1>6 DEF low, high

LEMMA BisectEquation ==
    ASSUME NEW time, NEW range \in Ranges
    PROVE  LET current == Middle(range.low, range.high)
               stored == timestamps[WRAP(current)]
           IN  Bisect(time)[range]
                   = IF range.high <= range.low \/ stored = time THEN current
                     ELSE Bisect(time)[IF stored > time THEN Between(range.low, current - 1)
                                                        ELSE Between(current + 1, range.high)]
  <1> DEFINE mid(r) == Middle(r.low, r.high)
             at(r) == timestamps[WRAP(mid(r))]
             done(r) == r.high <= r.low \/ at(r) = time
             half(r) == IF at(r) > time THEN Between(r.low, mid(r) - 1)
                                        ELSE Between(mid(r) + 1, r.high)
             Right(g) == [r \in Ranges |-> IF done(r) THEN mid(r) ELSE g[half(r)]]
             Body == [g \in [Ranges -> Nat] |-> Right(g)]
             rank == [r \in Ranges |-> Length(r)]
  <1>1. ASSUME NEW r \in Ranges PROVE mid(r) \in Nat /\ Length(r) \in Nat
    BY HistoryAssumption DEF Ranges, Middle, Length
  <1>2. ASSUME NEW r \in Ranges, ~done(r) PROVE half(r) \in Ranges /\ Length(half(r)) < Length(r)
    <2>1. r.low < r.high
      BY <1>2, HistoryAssumption DEF Ranges
    <2> HIDE DEF mid
    <2>2. mid(r) = Middle(r.low, r.high)
      BY DEF mid
    <2> QED BY <2>1, <2>2, Halves
  <1> HIDE DEF mid, half, done
  <1>3. \A g \in [Ranges -> Nat] : Right(g) \in [Ranges -> Nat]
    BY <1>1, <1>2
  <1>4. Body \in [[Ranges -> Nat] -> [Ranges -> Nat]]
    <2> HIDE DEF Right
    <2> QED BY <1>3
  <1>5. ASSUME NEW g \in [Ranges -> Nat], NEW h \in [Ranges -> Nat], NEW x \in Ranges,
               \A y \in Ranges : rank[y] < rank[x] => g[y] = h[y]
        PROVE  Body[g][x] = Body[h][x]
    <2>1. CASE done(x)
      BY <2>1
    <2>2. CASE ~done(x)
      <3>1. half(x) \in Ranges /\ rank[half(x)] < rank[x]
        BY <1>2, <2>2
      <3>2. g[half(x)] = h[half(x)]
        BY <1>5, <3>1
      <3> QED BY <3>2
    <2> QED BY <2>1, <2>2
  <1>6. \E f \in [Ranges -> Nat] : f = Body[f]
    <2> DEFINE V == Nat
    <2>1. rank \in [Ranges -> Nat]
      BY <1>1
    <2>2. \A g, h \in [Ranges -> Nat], x \in Ranges :
              (\A y \in Ranges : rank[y] < rank[x] => g[y] = h[y]) => Body[g][x] = Body[h][x]
      <3> HIDE DEF Body, rank
      <3> QED BY <1>5
    <2> HIDE DEF Body, rank
    <2>3. DependsOnLower(Ranges, V, Body, rank) /\ V # {}
      BY <1>4, <2>1, <2>2 DEF DependsOnLower
    <2> HIDE DEF V
    <2>4. \E f \in [Ranges -> V] : f = Body[f]
      BY <2>3, RecursionIsSound
    <2> QED BY <2>4 DEF V
  <1>7. \E f : f = Right(f)
    BY <1>6
  <1>8. Bisect(time) = CHOOSE f : f = Right(f)
    BY DEF Bisect, mid, half, done
  <1>9. Bisect(time) = Right(Bisect(time))
    <2> HIDE DEF Right
    <2> QED BY <1>7, <1>8
  <1>10. Bisect(time)[range] = IF done(range) THEN mid(range) ELSE Bisect(time)[half(range)]
    BY <1>9
  <1> QED BY <1>10 DEF mid, half, done

\* The time of sample i, and what the bisection promises of the index it returns: what is left
\* of it is earlier, what is right of it later.
TimeOf(i) == pushed[i + 1].time

Finds(index, time) ==
    /\ index \in lowestIndex .. numSamples - 1
    /\ \A i \in lowestIndex .. numSamples - 1 :
           (i < index => TimeOf(i) < time) /\ (index < i => time < TimeOf(i))

\* A range that begins with the first sample of a full ring has all of it or one less than a
\* power of two: halving it never leaves an empty range, whose middle would be outside.
NeverEmpty(range) ==
    range.low = lowestIndex /\ lowestIndex > 0 =>
        LET size == range.high - range.low + 1
        IN  size = RingSize \/ \E j \in Nat \ {0} : size = PowerOfTwo[j] - 1

\* The invariant of the bisection.
Pending(range, time) ==
    /\ range \in Ranges
    /\ lowestIndex <= range.low /\ range.low <= range.high + 1
    /\ range.low < numSamples /\ range.high < numSamples
    /\ \A i \in lowestIndex .. numSamples - 1 :
           (i < range.low => TimeOf(i) < time) /\ (range.high < i => time < TimeOf(i))
    /\ NeverEmpty(range)

LEMMA KeptSamples ==
    ASSUME HistoryInv
    PROVE  /\ numSamples \in Nat /\ numSamples <= MaxSamples /\ MaxSamples \in Nat
           /\ lowestIndex \in Nat /\ lowestIndex <= numSamples
           /\ lowestIndex > 0 => numSamples = lowestIndex + RingSize
           /\ numSamples > 0 => lowestIndex < numSamples
           /\ numSamples - RingSize <= lowestIndex
           /\ \A i \in lowestIndex .. numSamples - 1 :
                  TimeOf(i) \in Nat /\ timestamps[WRAP(i)] = TimeOf(i)
           /\ \A i, j \in lowestIndex .. numSamples - 1 : i < j => TimeOf(i) < TimeOf(j)
  <1>1. numSamples \in Nat /\ numSamples <= MaxSamples /\ MaxSamples \in Nat
    BY HistoryAssumption DEF HistoryInv, HistoryTypeOK
  <1>2. /\ lowestIndex \in Nat /\ lowestIndex <= numSamples
        /\ lowestIndex > 0 => numSamples = lowestIndex + RingSize
        /\ numSamples > 0 => lowestIndex < numSamples
        /\ numSamples - RingSize <= lowestIndex
    BY <1>1, RingIsLarge DEF lowestIndex
  <1>3. ASSUME NEW i \in lowestIndex .. numSamples - 1
        PROVE  /\ i \in Nat /\ i + 1 \in 1 .. numSamples /\ TimeOf(i) \in Nat
               /\ timestamps[WRAP(i)] = TimeOf(i)
    <2>1. i \in 0 .. numSamples - 1 /\ numSamples - RingSize <= i
          /\ i + 1 \in 1 .. numSamples
      BY <1>1, <1>2, RingIsLarge
    <2> QED BY <2>1, SampleTypes DEF HistoryInv, RingIsRecent, TimeOf
  <1>4. ASSUME NEW i \in lowestIndex .. numSamples - 1, NEW j \in lowestIndex .. numSamples - 1,
               i < j
        PROVE  TimeOf(i) < TimeOf(j)
    BY <1>3, <1>4 DEF HistoryInv, TimesRise, TimeOf
  <1> QED BY <1>1, <1>2, <1>3, <1>4

LEMMA BisectStops ==
    ASSUME HistoryInv, numSamples > 0, NEW time \in Int, NEW range \in Ranges,
           Pending(range, time), NEW current, current = Middle(range.low, range.high),
           range.high <= range.low \/ timestamps[WRAP(current)] = time
    PROVE  Finds(current, time)
  <1> DEFINE n == numSamples
             lowest == lowestIndex
             low == range.low
             high == range.high
  <1>1. /\ n \in Nat /\ n > 0 /\ lowest \in Nat /\ lowest < n
        /\ \A i \in lowest .. n - 1 : TimeOf(i) \in Nat /\ timestamps[WRAP(i)] = TimeOf(i)
        /\ \A i, j \in lowest .. n - 1 : i < j => TimeOf(i) < TimeOf(j)
    BY KeptSamples
  <1>2. /\ low \in Nat /\ high \in Int /\ lowest <= low /\ low <= high + 1
        /\ low < n /\ high < n
        /\ \A i \in lowest .. n - 1 :
               (i < low => TimeOf(i) < time) /\ (high < i => time < TimeOf(i))
    BY HistoryAssumption DEF Pending, Ranges
  <1>3. SUFFICES /\ current \in lowest .. n - 1
                 /\ \A i \in lowest .. n - 1 :
                        (i < current => TimeOf(i) < time) /\ (current < i => time < TimeOf(i))
    BY DEF Finds
  <1>4. CASE high < low
    <2>1. high = low - 1
      BY <1>2, <1>4
    <2>2. CASE low > lowest
      <3>1. ~(high + low < 0) /\ (high + low) \div 2 = low - 1
        BY <1>1, <1>2, <2>1, <2>2
      <3>2. current = low - 1
        BY <3>1 DEF Middle
      <3> HIDE DEF n, lowest, low, high
      <3> QED BY <1>1, <1>2, <2>1, <2>2, <3>2
    <2>3. CASE low = lowest /\ lowest = 0
      <3>1. high + low < 0
        BY <2>1, <2>3
      <3>2. current = 0
        BY <3>1 DEF Middle
      <3> HIDE DEF n, lowest, low, high
      <3> QED BY <1>1, <1>2, <2>1, <2>3, <3>2
    <2>4. CASE low = lowest /\ lowest > 0
      <3>1. high - low + 1 = 0
        BY <1>2, <2>1
      <3>2. 0 = RingSize \/ \E j \in Nat \ {0} : 0 = PowerOfTwo[j] - 1
        BY <2>4, <3>1 DEF Pending, NeverEmpty
      <3> QED BY <3>2, RingIsLarge, PowersOfTwo
    <2> HIDE DEF n, lowest, low, high
    <2> QED BY <1>1, <1>2, <2>2, <2>3, <2>4
  <1>5. CASE high = low
    <2>1. ~(high + low < 0) /\ (high + low) \div 2 = low
      BY <1>2, <1>5
    <2>2. current = low
      BY <2>1 DEF Middle
    <2> HIDE DEF n, lowest, low, high
    <2> QED BY <1>1, <1>2, <1>5, <2>2
  <1>6. CASE low < high
    <2>1. current \in low .. high - 1
      BY <1>6, Halves
    <2>2. timestamps[WRAP(current)] = time
      BY <1>2, <1>6
    <2> HIDE DEF n, lowest, low, high
    <2>3. current \in lowest .. n - 1
      BY <1>1, <1>2, <2>1
    <2>4. TimeOf(current) = time
      BY <1>1, <2>2, <2>3
    <2> QED BY <1>1, <2>3, <2>4
  <1> HIDE DEF n, lowest, low, high
  <1> QED BY <1>2, <1>4, <1>5, <1>6

LEMMA BisectContinues ==
    ASSUME HistoryInv, numSamples > 0, NEW time \in Int, NEW range \in Ranges,
           Pending(range, time), NEW current, current = Middle(range.low, range.high),
           ~(range.high <= range.low \/ timestamps[WRAP(current)] = time)
    PROVE  /\ timestamps[WRAP(current)] > time => Pending(Between(range.low, current - 1), time)
           /\ ~(timestamps[WRAP(current)] > time) => Pending(Between(current + 1, range.high), time)
  <1> DEFINE n == numSamples
             lowest == lowestIndex
             low == range.low
             high == range.high
  <1>1. /\ n \in Nat /\ n > 0 /\ lowest \in Nat /\ lowest < n
        /\ \A i \in lowest .. n - 1 : TimeOf(i) \in Nat /\ timestamps[WRAP(i)] = TimeOf(i)
        /\ \A i, j \in lowest .. n - 1 : i < j => TimeOf(i) < TimeOf(j)
    BY KeptSamples
  <1>2. /\ low \in Nat /\ high \in Int /\ lowest <= low /\ low <= high + 1
        /\ low < n /\ high < n
        /\ \A i \in lowest .. n - 1 :
               (i < low => TimeOf(i) < time) /\ (high < i => time < TimeOf(i))
    BY HistoryAssumption DEF Pending, Ranges
  <1>3. low < high
    BY <1>2
  <1>4. /\ current \in low .. high - 1 /\ current = (low + high) \div 2
        /\ Between(low, current - 1) \in Ranges /\ Between(current + 1, high) \in Ranges
    BY <1>3, Halves
  <1>5. /\ Between(low, current - 1).low = low /\ Between(low, current - 1).high = current - 1
        /\ Between(current + 1, high).low = current + 1 /\ Between(current + 1, high).high = high
    BY DEF Between
  <1>6. current \in lowest .. n - 1 /\ timestamps[WRAP(current)] = TimeOf(current)
        /\ TimeOf(current) \in Nat
    <2> HIDE DEF n, lowest, low, high
    <2> QED BY <1>1, <1>2, <1>4
  <1>7. ASSUME timestamps[WRAP(current)] > time
        PROVE  Pending(Between(low, current - 1), time)
    <2>1. \A i \in lowest .. n - 1 :
              (i < low => TimeOf(i) < time) /\ (current - 1 < i => time < TimeOf(i))
      <3>1. SUFFICES ASSUME NEW i \in lowest .. n - 1, current - 1 < i PROVE time < TimeOf(i)
        BY <1>2
      <3>2. CASE i = current
        BY <1>6, <1>7, <3>2
      <3>3. CASE i # current
        <4>1. current < i
          BY <1>1, <1>6, <3>1, <3>3
        <4>2. TimeOf(current) < TimeOf(i) /\ TimeOf(i) \in Nat
          BY <1>1, <1>6, <4>1
        <4> QED BY <1>6, <1>7, <4>2
      <3> QED BY <3>2, <3>3
    <2>2. NeverEmpty(Between(low, current - 1))
      <3>1. SUFFICES ASSUME low = lowest, lowest > 0
                     PROVE  \E j \in Nat \ {0} : (current - 1) - low + 1 = PowerOfTwo[j] - 1
        BY <1>5 DEF NeverEmpty
      <3> DEFINE size == high - low + 1
      <3>2. size = RingSize \/ \E j \in Nat \ {0} : size = PowerOfTwo[j] - 1
        BY <3>1 DEF Pending, NeverEmpty
      <3>3. /\ size \in Nat /\ size >= 2
            /\ (current - 1) - low + 1 = (size - 1) \div 2
        <4> HIDE DEF low, high
        <4> QED BY <1>2, <1>3, <1>4
      <3> HIDE DEF size
      <3>4. CASE size = RingSize
        <4>1. PICK k \in 2 .. 20 : RingSize = PowerOfTwo[k]
          BY HistoryAssumption
        <4>2. k - 1 \in Nat \ {0} /\ (k - 1) + 1 = k
          OBVIOUS
        <4>3. PowerOfTwo[k] = 2 * PowerOfTwo[k - 1] /\ PowerOfTwo[k - 1] \in Nat
          BY <4>2, PowersOfTwo
        <4>4. (size - 1) \div 2 = PowerOfTwo[k - 1] - 1
          BY <3>3, <3>4, <4>1, <4>3
        <4> QED BY <3>3, <4>2, <4>4
      <3>5. ASSUME NEW j \in Nat \ {0}, size = PowerOfTwo[j] - 1
            PROVE  \E k \in Nat \ {0} : (current - 1) - low + 1 = PowerOfTwo[k] - 1
        <4>1. j # 1
          <5>1. PowerOfTwo[0 + 1] = 2 * PowerOfTwo[0] /\ PowerOfTwo[0] = 1 /\ 0 + 1 = 1
            BY PowersOfTwo
          <5> QED BY <3>3, <3>5, <5>1
        <4>2. j - 1 \in Nat \ {0} /\ (j - 1) + 1 = j
          BY <4>1
        <4>3. PowerOfTwo[j] = 2 * PowerOfTwo[j - 1] /\ PowerOfTwo[j - 1] \in Nat
          BY <4>2, PowersOfTwo
        <4>4. (size - 1) \div 2 = PowerOfTwo[j - 1] - 1
          BY <3>3, <3>5, <4>3
        <4> QED BY <3>3, <4>2, <4>4
      <3> QED BY <3>2, <3>4, <3>5
    <2>3. lowest <= low /\ low <= (current - 1) + 1 /\ low < n /\ current - 1 < n
      <3> HIDE DEF n, lowest, low, high
      <3> QED BY <1>1, <1>2, <1>4
    <2> QED BY <1>4, <1>5, <2>1, <2>2, <2>3 DEF Pending
  <1>8. ASSUME ~(timestamps[WRAP(current)] > time)
        PROVE  Pending(Between(current + 1, high), time)
    <2>1. TimeOf(current) < time
      BY <1>6, <1>8
    <2>2. \A i \in lowest .. n - 1 :
              (i < current + 1 => TimeOf(i) < time) /\ (high < i => time < TimeOf(i))
      <3>1. SUFFICES ASSUME NEW i \in lowest .. n - 1, i < current + 1 PROVE TimeOf(i) < time
        BY <1>2
      <3>2. CASE i = current
        BY <2>1, <3>2
      <3>3. CASE i # current
        <4>1. i < current
          BY <1>1, <1>6, <3>1, <3>3
        <4>2. TimeOf(i) < TimeOf(current) /\ TimeOf(i) \in Nat
          BY <1>1, <1>6, <4>1
        <4> QED BY <1>6, <2>1, <4>2
      <3> QED BY <3>2, <3>3
    <2>3. /\ lowest <= current + 1 /\ current + 1 <= high + 1 /\ current + 1 < n /\ high < n
          /\ current + 1 # lowest
      <3> HIDE DEF n, lowest, low, high
      <3> QED BY <1>1, <1>2, <1>4, <1>6
    <2>4. NeverEmpty(Between(current + 1, high))
      BY <1>5, <2>3 DEF NeverEmpty
    <2> QED BY <1>4, <1>5, <2>2, <2>3, <2>4 DEF Pending
  <1> QED BY <1>7, <1>8

LEMMA BisectFinds ==
    ASSUME HistoryInv, numSamples > 0, NEW time \in Int, NEW range \in Ranges, Pending(range, time)
    PROVE  Finds(Bisect(time)[range], time)
  <1> DEFINE Good(m) == \A r \in Ranges : Length(r) = m /\ Pending(r, time)
                                              => Finds(Bisect(time)[r], time)
             S == {m \in Nat : Good(m)}
  <1>1. ASSUME NEW m \in Nat, \A k \in Nat : k < m => k \in S PROVE m \in S
    <2>1. SUFFICES ASSUME NEW r \in Ranges, Length(r) = m, Pending(r, time)
                   PROVE  Finds(Bisect(time)[r], time)
      OBVIOUS
    <2> DEFINE current == Middle(r.low, r.high)
               half == IF timestamps[WRAP(current)] > time THEN Between(r.low, current - 1)
                                                           ELSE Between(current + 1, r.high)
               stops == r.high <= r.low \/ timestamps[WRAP(current)] = time
    <2>2. Bisect(time)[r] = IF stops THEN current ELSE Bisect(time)[half]
      BY BisectEquation
    <2>3. CASE stops
      BY <2>1, <2>2, <2>3, BisectStops
    <2>4. CASE ~stops
      <3>1. Pending(half, time)
        <4> HIDE DEF current
        <4>1. current = Middle(r.low, r.high)
          BY DEF current
        <4> QED BY <2>1, <2>4, <4>1, BisectContinues
      <3>2. r.low < r.high
        BY <2>4, HistoryAssumption DEF Ranges
      <3>3. half \in Ranges /\ Length(half) < m
        <4> HIDE DEF current
        <4>1. current = Middle(r.low, r.high)
          BY DEF current
        <4> QED BY <2>1, <3>2, <4>1, Halves
      <3>4. Length(half) \in Nat
        <4> HIDE DEF half
        <4> QED BY <3>3, HistoryAssumption DEF Ranges, Length
      <3>5. Good(Length(half))
        <4> HIDE DEF half, Good
        <4> QED BY <1>1, <3>3, <3>4
      <3>6. Finds(Bisect(time)[half], time)
        <4> HIDE DEF half
        <4> QED BY <3>1, <3>3, <3>5
      <3> QED BY <2>2, <2>4, <3>6
    <2> QED BY <2>3, <2>4
  <1>2. Nat \subseteq S
    <2> HIDE DEF S
    <2> QED BY <1>1, StrongInduction
  <1>3. Length(range) \in Nat
    BY HistoryAssumption DEF Ranges, Length
  <1> QED BY <1>2, <1>3

\* The search keeps its promise for every time, before the first and after the last sample too.
LEMMA SearchFinds ==
    ASSUME HistoryInv, numSamples > 0, NEW time \in Int
    PROVE  Finds(searchNearestTimestamp(time), time)
  <1> DEFINE all == Between(lowestIndex, numSamples - 1)
  <1>1. /\ numSamples \in Nat /\ numSamples <= MaxSamples /\ MaxSamples \in Nat
        /\ lowestIndex \in Nat /\ lowestIndex < numSamples
        /\ lowestIndex > 0 => numSamples = lowestIndex + RingSize
    BY KeptSamples
  <1>2. all.low = lowestIndex /\ all.high = numSamples - 1 /\ all \in Ranges
    BY <1>1 DEF Between, Ranges
  <1>3. NeverEmpty(all)
    BY <1>1, <1>2, RingIsLarge DEF NeverEmpty
  <1> HIDE DEF all
  <1>4. Pending(all, time)
    BY <1>1, <1>2, <1>3 DEF Pending
  <1>5. Finds(Bisect(time)[all], time)
    BY <1>2, <1>4, BisectFinds
  <1>6. ~(Bisect(time)[all] >= numSamples)
    BY <1>1, <1>5 DEF Finds
  <1> QED BY <1>5, <1>6 DEF searchNearestTimestamp, all

LEMMA AnswersAreComplete == HistoryInv => ExportIsComplete
  <1> DEFINE n == numSamples
             lowest == lowestIndex
             kept == {pushed[i].time : i \in {k \in 1 .. n : k > n - RingSize}}
             questions == UNION {{t - 1, t, t + 1} : t \in {pushed[i].time : i \in 1 .. n}}
             answer(start, end) == exportHistoryData(start, end)
             asked(start, end) == {t \in kept : start <= t /\ t <= end}
             given(start, end) == {timestamps[WRAP(i)] : i \in answer(start, end)}
  <1> SUFFICES ASSUME HistoryInv, NEW start \in questions, NEW end \in questions, start <= end
               PROVE  /\ asked(start, end) \subseteq given(start, end)
                      /\ given(start, end) \subseteq kept
                      /\ \A t \in given(start, end) \ asked(start, end) :
                             \A u \in kept : u > end => t <= u
                      /\ \A i, j \in answer(start, end) :
                             i < j => timestamps[WRAP(i)] < timestamps[WRAP(j)]
    BY DEF ExportIsComplete
  <1>1. /\ n \in Nat /\ lowest \in Nat /\ n - RingSize <= lowest
        /\ lowest > 0 => n = lowest + RingSize
        /\ \A i \in lowest .. n - 1 : TimeOf(i) \in Nat /\ timestamps[WRAP(i)] = TimeOf(i)
        /\ \A i, j \in lowest .. n - 1 : i < j => TimeOf(i) < TimeOf(j)
    BY KeptSamples
  <1>2. start \in Int /\ end \in Int /\ n > 0
    <2>1. \A i \in 1 .. n : pushed[i].time \in Nat /\ n > 0
      BY <1>1, SampleTypes
    <2>2. ASSUME NEW q \in questions PROVE q \in Int /\ n > 0
      <3>1. PICK t \in {pushed[i].time : i \in 1 .. n} : q \in {t - 1, t, t + 1}
        OBVIOUS
      <3>2. t \in Nat /\ n > 0
        BY <2>1, <3>1
      <3> QED BY <3>1, <3>2
    <2> QED BY <2>2
  <1>3. kept = {TimeOf(i) : i \in lowest .. n - 1}
    <2>1. RingSize \in Nat /\ RingSize >= 4
      BY RingIsLarge
    <2>2. ASSUME NEW k \in 1 .. n, k > n - RingSize
          PROVE  k - 1 \in lowest .. n - 1 /\ TimeOf(k - 1) = pushed[k].time
      <3>1. (k - 1) + 1 = k
        BY <1>1
      <3> QED BY <1>1, <2>1, <2>2, <3>1 DEF TimeOf
    <2>3. ASSUME NEW i \in lowest .. n - 1
          PROVE  i + 1 \in 1 .. n /\ i + 1 > n - RingSize /\ TimeOf(i) = pushed[i + 1].time
      BY <1>1, <2>1 DEF TimeOf
    <2>4. kept \subseteq {TimeOf(i) : i \in lowest .. n - 1}
      BY <2>2
    <2>5. {TimeOf(i) : i \in lowest .. n - 1} \subseteq kept
      BY <2>3
    <2> QED BY <2>4, <2>5
  <1> DEFINE s == searchNearestTimestamp(start)
             e == searchNearestTimestamp(end)
  <1>4. /\ s \in lowest .. n - 1 /\ e \in lowest .. n - 1
        /\ \A i \in lowest .. n - 1 : i < s => TimeOf(i) < start
        /\ \A i \in lowest .. n - 1 : (i < e => TimeOf(i) < end) /\ (e < i => end < TimeOf(i))
    BY <1>2, SearchFinds DEF Finds
  <1>5. answer(start, end) = {i \in s .. e : timestamps[WRAP(i)] >= start}
    <2>1. ~(s = -1 \/ e = -1)
      BY <1>1, <1>4
    <2> QED BY <2>1 DEF exportHistoryData
  <1> HIDE DEF s, e, kept, questions, n, lowest
  <1>6. \A i \in answer(start, end) :
            /\ i \in lowest .. n - 1 /\ i <= e /\ timestamps[WRAP(i)] = TimeOf(i)
            /\ TimeOf(i) >= start
    <2>1. ASSUME NEW i \in s .. e PROVE i \in lowest .. n - 1 /\ i <= e
      BY <1>1, <1>4
    <2> QED BY <1>1, <1>5, <2>1
  <1> HIDE DEF answer
  <1>7. asked(start, end) \subseteq given(start, end)
    <2>1. SUFFICES ASSUME NEW i \in lowest .. n - 1, start <= TimeOf(i), TimeOf(i) <= end
                   PROVE  i \in answer(start, end)
      BY <1>1, <1>3
    <2>2. i \in s .. e
      BY <1>1, <1>2, <1>4, <2>1
    <2> QED BY <1>1, <1>5, <2>1, <2>2
  <1>8. given(start, end) \subseteq kept
    BY <1>3, <1>6
  <1>9. ASSUME NEW i \in answer(start, end), timestamps[WRAP(i)] \notin asked(start, end),
               NEW u \in kept, u > end
        PROVE  timestamps[WRAP(i)] <= u
    <2>1. PICK j \in lowest .. n - 1 : u = TimeOf(j)
      BY <1>3
    <2>2. i \in lowest .. n - 1 /\ i <= e /\ timestamps[WRAP(i)] = TimeOf(i)
      BY <1>6
    <2>3. ~(j < e)
      BY <1>1, <1>2, <1>4, <1>9, <2>1
    <2>4. i <= j
      BY <1>1, <1>4, <2>2, <2>3
    <2>5. i = j \/ TimeOf(i) < TimeOf(j)
      BY <1>1, <2>2, <2>4
    <2> QED BY <1>1, <2>1, <2>2, <2>5
  <1>10. \A i, j \in answer(start, end) : i < j => timestamps[WRAP(i)] < timestamps[WRAP(j)]
    BY <1>1, <1>6
  <1> QED BY <1>7, <1>8, <1>9, <1>10

\* An export holds every sample of the time asked for that the ring still has, in order, and
\* at most the next one: for a ring of any size that is a power of two the bisection never
\* leaves what the ring holds.
THEOREM ExportAlwaysComplete == HistorySpec => []ExportIsComplete
  BY HistoryInvariant, AnswersAreComplete, PTL
=============================================================================
