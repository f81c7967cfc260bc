-------------------------- MODULE PpmEncoderProofs --------------------------
(***************************************************************************)
(* Proofs about PpmEncoder for every size of the ring, every number of     *)
(* channels, every width and every passing of time.                        *)
(***************************************************************************)
EXTENDS PpmEncoder, WellFoundedInduction, TLAPS

\* The ring is well formed.
RingOK ==
    /\ next_wave_id \in Slots
    /\ wave_ids \in [Slots -> WaveIds \cup {NoWave}]

Inv == RingOK /\ RingOwnsWaves

LEMMA NextSlot ==
    ASSUME NEW i \in Slots, NEW j, j = IF i + 1 >= NO_WAVES THEN 0 ELSE i + 1
    PROVE  j \in Slots
BY RingAssumption DEF Slots

LEMMA SendKeeps ==
    ASSUME Inv, NEW w \in Widths, NEW heap \in HeapWords, SendWave(w, heap)
    PROVE  Inv'
<1> DEFINE i == next_wave_id
           j == next_wave_id'
<1>1. PICK id \in WaveIds \ live :
          /\ live' = live \cup {id}
          /\ wave_ids' = [wave_ids EXCEPT ![i] = id]
    BY DEF SendWave
<1>2. i \in Slots /\ j \in Slots
    BY NextSlot DEF SendWave, Inv, RingOK
<1>3. wave_ids[i] = NoWave /\ id # NoWave /\ pc' # "idle"
    BY RingAssumption DEF SendWave, Inv, RingOwnsWaves
<1>4. wave_ids \in [Slots -> WaveIds \cup {NoWave}]
    BY DEF Inv, RingOK
<1>5. wave_ids'[i] = id /\ \A k \in Slots \ {i} : wave_ids'[k] = wave_ids[k]
    BY <1>1, <1>2, <1>4
<1>6. RingOK'
    BY <1>1, <1>2, <1>4 DEF RingOK
<1>7. RingOwnsWaves'
  <2>1. \A k \in Slots : wave_ids[k] # id
      BY <1>1, <1>3 DEF Inv, RingOwnsWaves
  <2>2. live' = {wave_ids'[k] : k \in Slots} \ {NoWave}
    <3>1. live = {wave_ids[k] : k \in Slots} \ {NoWave}
        BY DEF Inv, RingOwnsWaves
    <3>2. ASSUME NEW x PROVE x \in live' <=> x \in {wave_ids'[k] : k \in Slots} \ {NoWave}
        BY <1>1, <1>2, <1>3, <1>5, <3>1
    <3> QED
        BY <3>2
  <2>3. \A k, l \in Slots : wave_ids'[k] = wave_ids'[l] /\ wave_ids'[k] # NoWave => k = l
      BY <1>5, <2>1 DEF Inv, RingOwnsWaves
  <2> QED
      BY <1>3, <2>2, <2>3 DEF RingOwnsWaves
<1> QED
    BY <1>6, <1>7 DEF Inv

LEMMA DeleteKeeps == ASSUME Inv, DeleteNextWave PROVE Inv'
<1> DEFINE i == next_wave_id
<1>1. i \in Slots /\ wave_ids \in [Slots -> WaveIds \cup {NoWave}]
    BY DEF Inv, RingOK
<1>2. wave_ids'[i] = NoWave /\ \A k \in Slots \ {i} : wave_ids'[k] = wave_ids[k]
    BY <1>1 DEF DeleteNextWave
<1>3. UNCHANGED next_wave_id /\ live' = live \ {wave_ids[i]}
    BY DEF DeleteNextWave, WaveDelete
<1>4. RingOK'
    BY <1>1, <1>3 DEF DeleteNextWave, RingOK
<1>5. RingOwnsWaves'
  <2>1. live' = {wave_ids'[k] : k \in Slots} \ {NoWave}
    <3>1. live = {wave_ids[k] : k \in Slots} \ {NoWave}
        BY DEF Inv, RingOwnsWaves
    <3>2. \A k \in Slots \ {i} : wave_ids[k] # NoWave => wave_ids[k] # wave_ids[i]
        BY <1>1 DEF Inv, RingOwnsWaves
    <3>3. ASSUME NEW x PROVE x \in live' <=> x \in {wave_ids'[k] : k \in Slots} \ {NoWave}
        BY <1>1, <1>2, <1>3, <3>1, <3>2
    <3> QED
        BY <3>3
  <2>2. \A k, l \in Slots : wave_ids'[k] = wave_ids'[l] /\ wave_ids'[k] # NoWave => k = l
      BY <1>2 DEF Inv, RingOwnsWaves
  <2> QED
      BY <1>2, <1>3, <2>1, <2>2 DEF RingOwnsWaves
<1> QED
    BY <1>4, <1>5 DEF Inv

LEMMA Invariance == Spec => []Inv
<1>1. Init => Inv
  <2> SUFFICES ASSUME Init PROVE Inv
      OBVIOUS
  <2>1. RingOK
      BY RingAssumption DEF Init, RingOK, Slots
  <2>2. RingOwnsWaves
      BY RingAssumption DEF Init, RingOwnsWaves, Slots
  <2> QED
      BY <2>1, <2>2 DEF Inv
<1>2. Inv /\ [Next]_vars => Inv'
  <2> SUFFICES ASSUME Inv, [Next]_vars PROVE Inv'
      OBVIOUS
  <2>1. CASE \E w \in Widths, heap \in HeapWords : SendWave(w, heap)
      BY <2>1, SendKeeps
  <2>2. CASE DeleteNextWave
      BY <2>2, DeleteKeeps
  <2>3. ASSUME UNCHANGED ring, pc' = "idle" => pc = "idle" PROVE Inv'
      BY <2>3 DEF Inv, RingOK, RingOwnsWaves, ring
  <2>4. CASE Measure \/ gpioSleep \/ Wake \/ Stamp \/ TimePasses
      BY <2>3, <2>4 DEF Measure, gpioSleep, Wake, Stamp, TimePasses
  <2>5. CASE UNCHANGED vars
      BY <2>3, <2>5 DEF vars
  <2> QED
      BY <2>1, <2>2, <2>4, <2>5 DEF Next
<1> QED
    BY <1>1, <1>2, PTL DEF Spec

\* pigpio's waves are those of the ring, so that no number of frames exhausts them.
THEOREM NoWaveLeaks == Spec => []RingOwnsWaves
<1>1. Inv => RingOwnsWaves
    BY DEF Inv
<1> QED
    BY <1>1, Invariance, PTL

-----------------------------------------------------------------------------
\* Each channel's two pulses add up to its width, whatever the heap holds.
LEMMA PulsesCarry ==
    ASSUME NEW w \in Widths, NEW heap \in HeapWords, NEW c \in 0 .. Channels - 1, w[c] >= GAP
    PROVE  Pulses(w, heap)[2 * c] + Pulses(w, heap)[2 * c + 1] = w[c]
<1>1. w[c] \in Nat /\ GAP \in Nat /\ Channels \in Nat
    BY WidthsAssumption, TimeAssumption
<1>2. /\ 2 * c \in 0 .. 2 * Channels + 1 /\ 2 * c + 1 \in 0 .. 2 * Channels + 1
      /\ (2 * c) % 2 = 0 /\ (2 * c + 1) % 2 = 1
      /\ 2 * c + 1 < 2 * Channels /\ (2 * c + 1) \div 2 = c
    BY <1>1
<1>3. Pulses(w, heap)[2 * c] = GAP
    BY <1>2 DEF Pulses
<1>4. Pulses(w, heap)[2 * c + 1] = Word(w[c] - GAP)
    BY <1>2 DEF Pulses
<1>5. Word(w[c] - GAP) = w[c] - GAP
    BY <1>1 DEF Word
<1> QED
    BY <1>1, <1>3, <1>4, <1>5

\* Every frame sent carries every channel's width to the receiver.
THEOREM WidthsAreCarried == Spec => []FrameCarriesWidths
<1>1. Init => FrameCarriesWidths
    BY DEF Init, FrameCarriesWidths
<1>2. FrameCarriesWidths /\ [Next]_vars => FrameCarriesWidths'
  <2> SUFFICES ASSUME FrameCarriesWidths, [Next]_vars PROVE FrameCarriesWidths'
      OBVIOUS
  <2>1. ASSUME NEW w \in Widths, NEW heap \in HeapWords, SendWave(w, heap)
        PROVE  FrameCarriesWidths'
    <3>1. widths' = w /\ pulses' = Pulses(w, heap)
        BY <2>1 DEF SendWave
    <3> QED
        BY <3>1, PulsesCarry DEF FrameCarriesWidths
  <2>2. CASE UNCHANGED frame
      BY <2>2 DEF FrameCarriesWidths, frame
  <2>3. CASE Measure \/ gpioSleep \/ Wake \/ Stamp \/ DeleteNextWave \/ TimePasses
      BY <2>2, <2>3 DEF Measure, gpioSleep, Wake, Stamp, DeleteNextWave, TimePasses
  <2>4. CASE UNCHANGED vars
      BY <2>2, <2>4 DEF vars
  <2> QED
      BY <2>1, <2>3, <2>4 DEF Next
<1> QED
    BY <1>1, <1>2, PTL DEF Spec

-----------------------------------------------------------------------------
\* The time fields have their types.
Clocks ==
    /\ pc \in {"idle", "measure", "sleep", "wake", "stamp", "delete"}
    /\ clock \in 0 .. Second - 1 /\ update_time \in 0 .. Second - 1
    /\ nap \in 0 .. Second + FrameUs
    /\ since \in 0 .. FrameUs

\* Up to a frame after update_time was set, the clock is ahead of it by that time, or
\* has begun a new second.
ClockAhead ==
    since < FrameUs => clock \in {update_time + since, update_time + since - Second}

SameSecond == since < FrameUs /\ clock >= update_time

\* While the second is that of update_time, the sleep that was measured is long enough,
\* and is not refused.
SleepCovers ==
    /\ pc \in {"sleep", "wake", "stamp"} /\ SameSecond => nap + since >= FrameUs
    /\ pc = "sleep" /\ SameSecond => nap <= FrameUs
    /\ pc = "stamp" => nap = 0

TimeInv == Clocks /\ ClockAhead /\ SleepCovers

\* A second that ends while d passes.
LEMMA Wraps ==
    ASSUME NEW c \in 0 .. Second - 1, NEW d \in Nat
    PROVE  /\ (c + d) % Second \in 0 .. Second - 1
           /\ c + d < Second => (c + d) % Second = c + d
           /\ d < Second /\ c + d >= Second => (c + d) % Second = c + d - Second
BY TimeAssumption

LEMMA TickKeeps == ASSUME TimeInv, TimePasses PROVE TimeInv'
<1> USE TimeAssumption
<1>0. PICK d \in Nat \ {0} : d = Elapsed
    BY DEF Elapsed
<1>1. /\ pc' = pc /\ update_time' = update_time /\ clock' = (clock + d) % Second
      /\ nap' = (IF pc # "wake" THEN nap ELSE IF nap <= d THEN 0 ELSE nap - d)
      /\ since' = IF since + d <= FrameUs THEN since + d ELSE FrameUs
    BY <1>0 DEF TimePasses, Lesser
<1>2. clock' \in 0 .. Second - 1
    BY <1>1, Wraps DEF TimeInv, Clocks
<1>3. Clocks'
    BY <1>1, <1>2 DEF TimeInv, Clocks
<1>4. ASSUME since' < FrameUs
      PROVE  /\ since' = since + d /\ since < FrameUs /\ d < Second
             /\ clock' \in {update_time + since', update_time + since' - Second}
             /\ clock' >= update_time => clock >= update_time
  <2>0. since \in Nat /\ FrameUs \in Nat /\ Second \in Nat /\ FrameUs < Second
      BY DEF TimeInv, Clocks
  <2>1. since' = since + d /\ since < FrameUs /\ d < Second
    <3>1. since' = since + d
        BY <1>1, <1>4, <2>0
    <3> QED
        BY <1>4, <2>0, <3>1
  <2>2. clock \in {update_time + since, update_time + since - Second}
      BY <2>1 DEF TimeInv, ClockAhead
  <2>3. CASE clock + d < Second
    <3>1. clock' = clock + d
        BY <1>1, <2>3, Wraps DEF TimeInv, Clocks
    <3> QED
        BY <1>4, <2>1, <2>2, <3>1 DEF TimeInv, Clocks
  <2>4. CASE clock + d >= Second
    <3>1. clock' = clock + d - Second
        BY <1>1, <2>1, <2>4, Wraps DEF TimeInv, Clocks
    <3> QED
        BY <1>4, <2>1, <2>2, <2>4, <3>1 DEF TimeInv, Clocks
  <2> QED
      BY <2>3, <2>4 DEF TimeInv, Clocks
<1>5. ClockAhead'
    BY <1>1, <1>4 DEF ClockAhead
<1>6. SleepCovers'
  <2>1. SameSecond' => SameSecond /\ since' = since + d
      BY <1>1, <1>4 DEF SameSecond
  <2>2. nap' + d >= nap /\ nap' <= nap /\ (nap = 0 => nap' = 0) /\ (pc # "wake" => nap' = nap)
    <3>1. nap \in Nat
        BY DEF TimeInv, Clocks
    <3>2. CASE pc # "wake"
        BY <1>1, <3>1, <3>2
    <3>3. CASE pc = "wake" /\ nap <= d
        BY <1>1, <3>1, <3>3
    <3>4. CASE pc = "wake" /\ ~(nap <= d)
        BY <1>1, <3>1, <3>4
    <3> QED
        BY <3>2, <3>3, <3>4
  <2>3. pc \in {"sleep", "wake", "stamp"} /\ SameSecond' => nap' + since' >= FrameUs
    <3> SUFFICES ASSUME pc \in {"sleep", "wake", "stamp"}, SameSecond'
                 PROVE  nap' + since' >= FrameUs
        OBVIOUS
    <3>1. nap + since >= FrameUs /\ since' = since + d
        BY <2>1 DEF TimeInv, SleepCovers
    <3>2. {nap, since, nap', FrameUs} \subseteq Nat
        BY <1>3 DEF TimeInv, Clocks
    <3> QED
        BY <2>2, <3>1, <3>2
  <2> QED
      BY <1>1, <2>1, <2>2, <2>3 DEF TimeInv, SleepCovers
<1> QED
    BY <1>3, <1>5, <1>6 DEF TimeInv

LEMMA MeasureKeeps == ASSUME TimeInv, Measure PROVE TimeInv'
<1> USE TimeAssumption
<1>1. UNCHANGED <<clock, update_time, since>> /\ (SameSecond' <=> SameSecond)
    BY DEF Measure, SameSecond
<1>2. ClockAhead'
    BY <1>1 DEF TimeInv, ClockAhead
<1>3. SameSecond => update_time + FrameUs - clock = FrameUs - since /\ FrameUs - since > 0
    BY DEF TimeInv, Clocks, ClockAhead, SameSecond
<1>4. CASE update_time + FrameUs - clock > 0
  <2>1. pc' = "sleep" /\ nap' = update_time + FrameUs - clock
      BY <1>4 DEF Measure
  <2>2. SleepCovers'
      BY <1>1, <1>3, <2>1 DEF SleepCovers, TimeInv, Clocks
  <2> QED
      BY <1>1, <1>2, <1>4, <2>1, <2>2 DEF TimeInv, Clocks
<1>5. CASE ~(update_time + FrameUs - clock > 0)
  <2>1. pc' = "stamp" /\ nap' = 0 /\ ~SameSecond
      BY <1>3, <1>5 DEF Measure, TimeInv, Clocks
  <2> QED
      BY <1>1, <1>2, <2>1 DEF TimeInv, Clocks, SleepCovers
<1> QED
    BY <1>4, <1>5

LEMMA gpioSleepKeeps == ASSUME TimeInv, gpioSleep PROVE TimeInv'
<1> USE TimeAssumption
<1>1. UNCHANGED <<clock, update_time, since>> /\ (SameSecond' <=> SameSecond) /\ pc = "sleep"
    BY DEF gpioSleep, SameSecond
<1>2. CASE nap < Second
  <2>1. pc' = "wake" /\ nap' = nap
      BY <1>2 DEF gpioSleep
  <2> QED
      BY <1>1, <2>1 DEF TimeInv, Clocks, ClockAhead, SleepCovers
<1>3. CASE ~(nap < Second)
  <2>1. pc' = "stamp" /\ nap' = 0
      BY <1>3 DEF gpioSleep
  <2>2. ~SameSecond
      BY <1>1, <1>3 DEF TimeInv, Clocks, SleepCovers
  <2> QED
      BY <1>1, <2>1, <2>2 DEF TimeInv, Clocks, ClockAhead, SleepCovers
<1> QED
    BY <1>2, <1>3

LEMMA TimeInvariance == Spec => []TimeInv
<1> USE TimeAssumption
<1>1. Init => TimeInv
    BY DEF Init, TimeInv, Clocks, ClockAhead, SleepCovers
<1>2. TimeInv /\ [Next]_vars => TimeInv'
  <2> SUFFICES ASSUME TimeInv, [Next]_vars PROVE TimeInv'
      OBVIOUS
  <2>1. ASSUME UNCHANGED time, pc' \in {"idle", "measure", "delete"} \/ pc' = pc
        PROVE  TimeInv'
      BY <2>1 DEF TimeInv, Clocks, ClockAhead, SleepCovers, SameSecond, time
  <2>2. CASE \E w \in Widths, heap \in HeapWords : SendWave(w, heap)
      BY <2>1, <2>2 DEF SendWave
  <2>3. CASE DeleteNextWave \/ UNCHANGED vars
      BY <2>1, <2>3 DEF DeleteNextWave, vars
  <2>4. CASE Measure \/ gpioSleep
      BY <2>4, MeasureKeeps, gpioSleepKeeps
  <2>5. CASE Stamp
      BY <2>5 DEF Stamp, TimeInv, Clocks, ClockAhead, SleepCovers, SameSecond
  <2>7. CASE Wake
      BY <2>7 DEF Wake, TimeInv, Clocks, ClockAhead, SleepCovers, SameSecond, time
  <2>6. CASE TimePasses
      BY <2>6, TickKeeps
  <2> QED
      BY <2>2, <2>3, <2>4, <2>5, <2>6, <2>7 DEF Next
<1> QED
    BY <1>1, <1>2, PTL DEF Spec

\* cut is one of the two truth values.
CutOK == cut \in BOOLEAN

LEMMA CutInvariance == Spec => []CutOK
<1>1. Init => CutOK
    BY DEF Init, CutOK
<1>2. CutOK /\ [Next]_vars => CutOK'
  <2>1. \A w, heap : SendWave(w, heap) => UNCHANGED cut
      BY DEF SendWave, TxSend
  <2>2. DeleteNextWave => cut' = cut \/ cut' = TRUE
      BY DEF DeleteNextWave, WaveDelete, wire
  <2>3. TimePasses => UNCHANGED cut
      BY DEF TimePasses, WireMoves
  <2>4. Measure \/ gpioSleep \/ Wake \/ Stamp \/ UNCHANGED vars => UNCHANGED cut
      BY DEF Measure, gpioSleep, Wake, Stamp, vars, wire
  <2> SUFFICES ASSUME CutOK, [Next]_vars PROVE CutOK'
      OBVIOUS
  <2>5. cut' = cut \/ cut' = TRUE
      BY <2>1, <2>2, <2>3, <2>4, Zenon DEF Next
  <2>6. CASE cut' = cut
      BY <2>6 DEF CutOK
  <2>7. CASE cut' = TRUE
      BY <2>7 DEF CutOK
  <2> QED
      BY <2>5, <2>6, <2>7
<1> QED
    BY <1>1, <1>2, PTL DEF Spec

\* Type correctness of the encoder's state, from the invariants.
THEOREM TypeCorrect == Spec => []TypeOK
<1>1. Inv /\ Clocks /\ CutOK => TypeOK
  <2> SUFFICES ASSUME Inv, Clocks, CutOK PROVE TypeOK
      OBVIOUS
  <2>1. next_wave_id \in Slots /\ wave_ids \in [Slots -> WaveIds \cup {NoWave}]
      BY DEF Inv, RingOK
  <2>2. live \in SUBSET WaveIds
      BY <2>1 DEF Inv, RingOwnsWaves
  <2> QED
      BY <2>1, <2>2 DEF TypeOK, Clocks, CutOK
<1>2. TimeInv => Clocks
    BY DEF TimeInv
<1> QED
    BY <1>1, <1>2, Invariance, TimeInvariance, CutInvariance, PTL

\* A frame that is done inside the window of the one before it was not slept through: the
\* microsecond of the clock is then below that of update_time.  For every passing of time,
\* between reading the clock and sleeping by it as well.
THEOREM WindowsAreFull == Spec => []FullWindows
<1>1. TimeInv => FullWindows
  <2> SUFFICES ASSUME TimeInv, pc = "stamp", since < FrameUs PROVE clock < update_time
      BY DEF FullWindows
  <2>1. nap = 0 /\ (clock >= update_time => nap + since >= FrameUs)
      BY DEF TimeInv, SleepCovers, SameSecond
  <2> QED
      BY <2>1, TimeAssumption DEF TimeInv, Clocks
<1> QED
    BY <1>1, TimeInvariance, PTL

-----------------------------------------------------------------------------
(* The gap that ends a frame.                                                *)

\* Induction over the naturals, for a set of them.
LEMMA NaturalsByStep ==
    ASSUME NEW S \in SUBSET Nat, 0 \in S, \A n \in S : n + 1 \in S
    PROVE  S = Nat
<1> DEFINE T == Nat \ S
<1> SUFFICES ASSUME T # {} PROVE FALSE
    OBVIOUS
<1>1. PICK m \in T : \A n \in T : ~(<<n, m>> \in OpToRel(<, Nat))
    BY NatLessThanWellFounded, WFMin
<1>2. m \in Nat /\ m # 0 /\ m - 1 \in Nat
    OBVIOUS
<1>3. <<m - 1, m>> \in OpToRel(<, Nat)
    BY <1>2 DEF OpToRel
<1>4. m - 1 \in S
    BY <1>1, <1>2, <1>3
<1>5. (m - 1) + 1 \in S
    BY <1>4
<1>6. (m - 1) + 1 = m
    BY <1>2
<1> QED
    BY <1>1, <1>5, <1>6

\* The sums as the loop has them after each channel, up to the n-th.
Sums(f, w, heap, n) ==
    f = [k \in 0 .. n |-> IF k = 0 THEN GAP ELSE f[k - 1] + WordRead(w, heap, k - 1)]

\* There are such sums: the recursion of Micros defines what it says.
LEMMA SumsExist ==
    ASSUME NEW w, NEW heap, NEW last \in Nat
    PROVE  \E f : Sums(f, w, heap, last)
<1> USE DEF Sums
<1> DEFINE S == {n \in Nat : \E f : Sums(f, w, heap, n)}
<1>1. 0 \in S
  <2>1. Sums([k \in 0 .. 0 |-> GAP], w, heap, 0)
      OBVIOUS
  <2> QED
      BY <2>1
<1>2. ASSUME NEW n \in S PROVE n + 1 \in S
  <2>1. n \in Nat /\ n + 1 \in Nat
      OBVIOUS
  <2>2. PICK f : Sums(f, w, heap, n)
      OBVIOUS
  <2> DEFINE g == [k \in 0 .. n + 1 |-> IF k <= n THEN f[k] ELSE f[n] + WordRead(w, heap, n)]
  <2>3. ASSUME NEW k \in 0 .. n + 1
        PROVE  g[k] = IF k = 0 THEN GAP ELSE g[k - 1] + WordRead(w, heap, k - 1)
    <3>1. CASE k = 0
      <4>1. g[k] = f[0] /\ f[0] = GAP
          BY <2>1, <2>2, <3>1
      <4> QED
          BY <3>1, <4>1
    <3>2. CASE k \in 1 .. n
      <4>1. g[k] = f[k] /\ g[k - 1] = f[k - 1]
          BY <2>1, <3>2
      <4>2. f[k] = f[k - 1] + WordRead(w, heap, k - 1)
          BY <2>1, <2>2, <3>2
      <4> QED
          BY <3>2, <4>1, <4>2
    <3>3. CASE k = n + 1
      <4>1. g[k] = f[n] + WordRead(w, heap, n) /\ g[k - 1] = f[n] /\ k - 1 = n /\ k # 0
          BY <2>1, <3>3
      <4> QED
          BY <4>1
    <3> QED
        BY <2>1, <3>1, <3>2, <3>3
  <2>4. Sums(g, w, heap, n + 1)
      BY <2>3
  <2> QED
      BY <2>1, <2>4
<1>3. S = Nat
    BY <1>1, <1>2, NaturalsByStep
<1> QED
    BY <1>3

\* What is added up is at most GAP and a largest word for each channel.
LEMMA MicrosBounded ==
    ASSUME NEW most \in Nat, NEW w, NEW heap,
           \A channel \in 0 .. Channels - 1 : WordRead(w, heap, channel) \in 0 .. most
    PROVE  Micros(w, heap) \in GAP .. GAP + Channels * most
<1>0. Channels \in Nat /\ GAP \in Nat
    BY TimeAssumption
<1> DEFINE micros == CHOOSE f : Sums(f, w, heap, Channels)
<1>1. micros = [k \in 0 .. Channels |->
                    IF k = 0 THEN GAP ELSE micros[k - 1] + WordRead(w, heap, k - 1)]
  <2>1. Sums(micros, w, heap, Channels)
      BY <1>0, SumsExist
  <2> HIDE DEF micros
  <2> QED
      BY <2>1 DEF Sums
<1>2. Micros(w, heap) = micros[Channels]
    BY DEF Micros, Sums
<1> HIDE DEF micros
<1> DEFINE S == {n \in Nat : n <= Channels => micros[n] \in GAP .. GAP + n * most}
<1>4. 0 \in S
    BY <1>0, <1>1
<1>5. ASSUME NEW n \in S PROVE n + 1 \in S
  <2>1. SUFFICES ASSUME n + 1 <= Channels
                 PROVE  micros[n + 1] \in GAP .. GAP + (n + 1) * most
      OBVIOUS
  <2>2. n \in Nat /\ micros[n] \in GAP .. GAP + n * most
      BY <1>0, <2>1
  <2>3. micros[n + 1] = micros[n] + WordRead(w, heap, n)
    <3>1. n + 1 \in 0 .. Channels /\ n + 1 # 0 /\ (n + 1) - 1 = n
        BY <1>0, <2>1, <2>2
    <3> QED
        BY <1>1, <3>1
  <2>4. WordRead(w, heap, n) \in 0 .. most
      BY <1>0, <2>1, <2>2
  <2>5. (n + 1) * most = n * most + most /\ n * most \in Nat
      BY <2>2
  <2> QED
      BY <1>0, <2>2, <2>3, <2>4, <2>5
<1>6. S = Nat
    BY <1>4, <1>5, NaturalsByStep
<1> QED
    BY <1>0, <1>2, <1>6

\* No word read, of the array and behind it, is wider than `most`, and as many as there are
\* channels leave 3001 microseconds of a frame: 2124 for eight in 20 ms.
WordsAtMost(most) ==
    /\ Channels * most + ShortestGap <= FrameUs
    /\ \A w \in Widths : \A c \in 0 .. Channels - 1 : w[c] <= most
    /\ \A heap \in HeapWords : \A i \in Channels .. 2 * Channels - 1 : heap[i] <= most

\* What the receiver finds: the last two pulses together are a gap.
Gap(p) == p[2 * Channels] + p[2 * Channels + 1] \in ShortestGap .. LongestGap

\* A word that is read is no wider than `most`, of the array or behind it.
LEMMA WordReadBounded ==
    ASSUME NEW most \in Nat, WordsAtMost(most), NEW w \in Widths, NEW heap \in HeapWords,
           NEW c \in 0 .. Channels - 1
    PROVE  WordRead(w, heap, c) \in 0 .. most
<1>0. Channels \in Nat \ {0} /\ 2 * c \in Nat
    BY TimeAssumption
<1>1. CASE 2 * c < Channels
  <2> DEFINE n == Channels - 1
  <2>1. 2 * c \in 0 .. n
      BY <1>0, <1>1
  <2>2. w \in [0 .. n -> Nat]
      BY WidthsAssumption
  <2>3. w[2 * c] <= most
      BY <2>1 DEF WordsAtMost
  <2> HIDE DEF n
  <2>4. w[2 * c] \in Nat
      BY <2>1, <2>2
  <2> QED
      BY <1>1, <2>3, <2>4 DEF WordRead
<1>2. CASE ~(2 * c < Channels)
  <2> DEFINE n == Channels .. 2 * Channels - 1
  <2>1. 2 * c \in n
      BY <1>0, <1>2
  <2>2. heap \in [n -> Nat]
      BY WidthsAssumption
  <2>3. heap[2 * c] <= most
      BY <2>1 DEF WordsAtMost
  <2> HIDE DEF n
  <2>4. heap[2 * c] \in Nat
      BY <2>1, <2>2
  <2> QED
      BY <1>2, <2>3, <2>4 DEF WordRead
<1> QED
    BY <1>1, <1>2

\* The last two pulses of any frame are a gap.
LEMMA FramesEndInGap ==
    ASSUME NEW most \in Nat, WordsAtMost(most), FrameUs <= LongestGap, GAP <= ShortestGap,
           NEW w \in Widths, NEW heap \in HeapWords
    PROVE  Gap(Pulses(w, heap))
<1>0. /\ Channels \in Nat /\ GAP \in Nat /\ FrameUs \in Nat
      /\ ShortestGap \in Nat /\ LongestGap \in Nat
    BY TimeAssumption DEF ShortestGap, LongestGap
<1>1. Micros(w, heap) \in GAP .. GAP + Channels * most
    BY WordReadBounded, MicrosBounded
<1>2. PICK all \in Nat : all = Channels * most /\ all + ShortestGap <= FrameUs
    BY <1>0 DEF WordsAtMost
<1>3. PICK micros \in Nat : micros = Micros(w, heap) /\ GAP <= micros /\ micros <= GAP + all
    BY <1>0, <1>1, <1>2
<1>4. Word(FrameUs - micros) = FrameUs - micros
    BY <1>0, <1>2, <1>3 DEF Word
<1>5. PICK last \in Nat : last = 2 * Channels
    BY <1>0
<1>6. last % 2 = 0 /\ (last + 1) % 2 = 1
    BY <1>0, <1>5
<1>7. Pulses(w, heap)[last] = GAP
    BY <1>5, <1>6 DEF Pulses
<1>8. Pulses(w, heap)[last + 1] = FrameUs - micros
    BY <1>3, <1>4, <1>5, <1>6 DEF Pulses
<1>9. PICK gap \in Int : gap = GAP + (FrameUs - micros) /\ ShortestGap <= gap /\ gap <= LongestGap
    BY <1>0, <1>2, <1>3
<1>10. Pulses(w, heap)[2 * Channels] + Pulses(w, heap)[2 * Channels + 1] = gap
    BY <1>5, <1>7, <1>8, <1>9
<1> QED
    BY <1>0, <1>9, <1>10 DEF Gap

\* The gap is found for every number of channels and every width, whatever the words are
\* that are read behind the array, if they are no wider than a channel may be.
THEOREM GapIsFound ==
    ASSUME NEW most \in Nat, WordsAtMost(most), FrameUs <= LongestGap, GAP <= ShortestGap
    PROVE  Spec => []GapSynchronises
<1> DEFINE Ends == pulses # <<>> => Gap(pulses)
<1>1. Ends <=> GapSynchronises
    BY DEF Gap, GapSynchronises
<1>2. Init => Ends
    BY DEF Init
<1>3. Ends /\ [Next]_vars => Ends'
  <2> SUFFICES ASSUME Ends, [Next]_vars PROVE Ends'
      OBVIOUS
  <2>1. ASSUME NEW w \in Widths, NEW heap \in HeapWords, SendWave(w, heap)
        PROVE  Ends'
    <3>1. pulses' = Pulses(w, heap)
        BY <2>1 DEF SendWave
    <3> QED
        BY <3>1, FramesEndInGap
  <2>2. CASE UNCHANGED pulses
      BY <2>2
  <2>3. Measure \/ gpioSleep \/ Wake \/ Stamp \/ DeleteNextWave \/ TimePasses
            \/ UNCHANGED vars
        => UNCHANGED pulses
      BY DEF Measure, gpioSleep, Wake, Stamp, DeleteNextWave, TimePasses, vars, frame
  <2> QED
      BY <2>1, <2>2, <2>3 DEF Next
<1> QED
    BY <1>2, <1>3, <1>1, PTL DEF Spec
=============================================================================
