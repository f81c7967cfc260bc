-------------------------- MODULE PpmReceiverProofs --------------------------
(* Proofs about PpmReceiver, for any frames, gaps and faults of the line: the *)
(* counter agrees with the wire after a clean gap, no channel is taken for    *)
(* another, and one fault gets no width stored behind rcValue.                *)
EXTENDS PpmReceiver, TLAPS

\* What an edge of an undisturbed frame finds: no time carried over, the counter at the
\* interval's place, and the channels received since the gap as they were sent.  On a line
\* that had no fault yet the counter is at most one ahead (of the first edge, whose time is
\* measured from 0), so that one edge more does not take it to the end of rcValue.
IInv ==
    /\ TypeOK
    /\ faults = 0 => elapsed \in {0, 1} /\ chan <= slot + 1 /\ (elapsed = 1 => chan = 0)
    /\ faults <= 1 => ~stray
    /\ synced => elapsed = 0 /\ chan = slot
    /\ ~synced => fresh = {}
    /\ \A c \in fresh : rcValue[c] = heard[c]

\* A width that is stored fits in 16 bits.
LEMMA StoredType ==
    ASSUME NEW values \in [0 .. RC_CHANS - 1 -> 0 .. Word - 1], NEW diff \in 0 .. Word - 1,
           NEW k, NEW index
    PROVE  Stored(values, diff, k, index) \in [0 .. RC_CHANS - 1 -> 0 .. Word - 1]
  <1> DEFINE T == 0 .. Word - 1
  <1>1. values \in [0 .. RC_CHANS - 1 -> T] /\ diff \in T
    OBVIOUS
  <1> HIDE DEF T
  <1>2. [values EXCEPT ![index] = diff] \in [0 .. RC_CHANS - 1 -> T]
    BY <1>1
  <1> QED BY <1>1, <1>2 DEF Stored, T

LEMMA CountType ==
    ASSUME NEW diff \in 0 .. Word - 1, NEW k \in 0 .. 255
    PROVE  Count(diff, k) \in 0 .. 255
  BY DEF Count

\* The count starts again or goes on by one.
LEMMA CountSteps ==
    ASSUME NEW diff \in 0 .. Word - 1, NEW k \in 0 .. 254
    PROVE  Count(diff, k) \in {0, k + 1}
  BY DEF Count

LEMMA CountStarts ==
    ASSUME NEW diff, NEW k, diff > SyncUs
    PROVE  Count(diff, k) = 0
  BY Zenon DEF Count

\* rxInt keeps its counter in a byte and the widths in 16 bits, and indexes by the count it
\* has tested.
LEMMA RxIntType ==
    ASSUME TypeOK, NEW diff \in 0 .. Word - 1, rxInt(diff)
    PROVE  /\ chan' \in 0 .. 255
           /\ rcValue' \in [0 .. RC_CHANS - 1 -> 0 .. Word - 1]
           /\ stray' = stray
  <1>1. chan' \in 0 .. 255
    BY CountType DEF rxInt, TypeOK
  <1>2. rcValue' \in [0 .. RC_CHANS - 1 -> 0 .. Word - 1]
    BY StoredType DEF rxInt, TypeOK
  <1>3. ~StoredBehind(diff, chan, chan)
    BY DEF StoredBehind, Stores, TypeOK, RC_CHANS
  <1>4. stray \in BOOLEAN
    BY DEF TypeOK
  <1> QED BY <1>1, <1>2, <1>3, <1>4 DEF rxInt

\* The wire's next interval is one of a frame it may be given.
LEMMA NextIntervalType ==
    ASSUME TypeOK, NextInterval
    PROVE  slot' \in 0 .. 8 /\ frame' \in Frames /\ gap' \in Gaps
  <1>1. CASE slot < 8
    BY <1>1 DEF NextInterval, TypeOK
  <1>2. CASE ~(slot < 8)
    BY <1>2 DEF NextInterval, TypeOK
  <1> QED BY <1>1, <1>2

LEMMA WidthFits ==
    ASSUME NEW n \in 0 .. SyncUs
    PROVE  n \in 0 .. Word - 1 /\ n <= SyncUs
  <1>1. n \in 0 .. Word - 1
    BY DEF SyncUs, Word
  <1>2. n <= SyncUs
    BY DEF SyncUs
  <1> QED BY <1>1, <1>2

LEMMA GapFits ==
    ASSUME NEW n \in SyncUs + 1 .. Word - 1
    PROVE  n \in 0 .. Word - 1 /\ n > SyncUs
  <1>1. n \in 0 .. Word - 1
    BY DEF SyncUs, Word
  <1>2. n > SyncUs
    BY DEF SyncUs
  <1> QED BY <1>1, <1>2

\* An interval is a width below SyncUs, or a gap above it, and fits in 16 bits.
LEMMA IntervalRange ==
    ASSUME TypeOK
    PROVE  /\ Interval \in 0 .. Word - 1
           /\ slot < 8 => Interval = frame[slot] /\ Interval <= SyncUs /\ slot \in Channels
           /\ slot = 8 => Interval = gap /\ Interval > SyncUs
  <1>1. CASE slot < 8
    <2>1. slot \in Channels /\ frame \in [Channels -> 0 .. SyncUs]
      BY <1>1, FramesAssumption DEF TypeOK, Channels
    <2>2. Interval = frame[slot] /\ frame[slot] \in 0 .. SyncUs
      BY <1>1, <2>1 DEF Interval
    <2>4. Interval \in 0 .. Word - 1 /\ Interval <= SyncUs
      BY <2>2, WidthFits
    <2>5. ~(slot = 8)
      BY <1>1
    <2> QED BY <2>1, <2>2, <2>4, <2>5
  <1>2. CASE slot = 8
    <2>1. Interval = gap /\ gap \in SyncUs + 1 .. Word - 1
      BY <1>2, GapsAssumption DEF Interval, TypeOK
    <2>3. ~(slot < 8)
      BY <1>2
    <2>4. Interval \in 0 .. Word - 1 /\ Interval > SyncUs
      BY <2>1, GapFits
    <2> QED BY <2>1, <2>3, <2>4
  <1> QED BY <1>1, <1>2 DEF TypeOK

\* Time in 16 bits is a number of 16 bits.
LEMMA Mod16 ==
    ASSUME NEW n \in Int
    PROVE  n % Word \in 0 .. Word - 1
  BY DEF Word

LEMMA Fits16 ==
    ASSUME NEW n \in Int, 0 <= n, n < Word
    PROVE  n % Word = n
  BY DEF Word

LEMMA FitsAfter0 ==
    ASSUME NEW n \in 0 .. Word - 1
    PROVE  (0 + n) % Word = n
  <1>1. n \in Int /\ 0 <= n /\ n < Word
    BY DEF Word
  <1>2. 0 + n = n
    BY <1>1
  <1> QED BY <1>1, <1>2, Fits16

\* So do two runs one in the other, but what the outer one indexes by may not be what it has
\* tested: on a line that had no fault yet the count is too low for that to matter.
LEMMA NestedType ==
    ASSUME IInv, NEW inner \in 0 .. Word - 1, NEW outer \in 0 .. Word - 1,
           NEW before \in 0 .. 3, Nested(inner, outer, before)
    PROVE  /\ chan' \in 0 .. 255
           /\ rcValue' \in [0 .. RC_CHANS - 1 -> 0 .. Word - 1]
           /\ stray' \in BOOLEAN
           /\ faults = 0 => ~stray'
  <1> DEFINE counted == Count(inner, chan)
             use(i) == IF i <= before THEN chan ELSE counted
  <1> TypeOK
    BY DEF IInv
  <1>1. chan \in 0 .. 255 /\ counted \in 0 .. 255
    BY CountType DEF TypeOK
  <1>2. \A i \in 1 .. 3 : use(i) \in 0 .. 255
    BY <1>1
  <1>3. chan' = Count(outer, use(3))
    BY DEF Nested
  <1>4. chan' \in 0 .. 255
    <2> HIDE DEF use
    <2>1. use(3) \in 0 .. 255
      BY <1>2
    <2> QED BY <1>3, <2>1, CountType
  <1>5. rcValue' \in [0 .. RC_CHANS - 1 -> 0 .. Word - 1]
    <2>1. Stored(rcValue, inner, chan, chan) \in [0 .. RC_CHANS - 1 -> 0 .. Word - 1]
      BY StoredType DEF TypeOK
    <2>2. rcValue' = Stored(Stored(rcValue, inner, chan, chan), outer, use(1), use(2))
      BY DEF Nested
    <2> HIDE DEF use
    <2> QED BY <2>1, <2>2, StoredType
  <1>6. stray' = (stray \/ StoredBehind(inner, chan, chan) \/ StoredBehind(outer, use(1), use(2)))
    BY DEF Nested
  <1>7. stray' \in BOOLEAN
    <2> HIDE DEF use
    <2> QED BY <1>6
  <1>8. ASSUME faults = 0 PROVE ~stray'
    <2>1. ~stray /\ chan <= 9
      BY <1>1, <1>8 DEF IInv, TypeOK
    <2>2. counted <= 10
      BY <1>1, <2>1 DEF Count
    <2>3. use(2) < RC_CHANS
      <3> HIDE DEF counted
      <3> QED BY <1>1, <2>1, <2>2 DEF RC_CHANS
    <2>4. use(2) \in Nat
      BY <1>2
    <2> HIDE DEF use
    <2>5. ~StoredBehind(inner, chan, chan) /\ ~StoredBehind(outer, use(1), use(2))
      BY <1>1, <2>1, <2>3, <2>4 DEF StoredBehind, RC_CHANS
    <2> QED BY <1>6, <2>1, <2>5
  <1> QED BY <1>4, <1>5, <1>7, <1>8

LEMMA InitInv == Init => IInv
  <1> SUFFICES ASSUME Init PROVE IInv
    OBVIOUS
  <1>1. TypeOK
    <2>1. rcValue \in [0 .. RC_CHANS - 1 -> 0 .. Word - 1] /\ heard \in [Channels -> Nat]
      BY DEF Init, Word
    <2>2. 0 \in 0 .. MaxFaults
      BY FaultsAssumption
    <2>3. /\ slot \in 0 .. 8 /\ frame \in Frames /\ gap \in Gaps /\ elapsed \in Int
          /\ faults \in 0 .. MaxFaults /\ chan \in 0 .. 255
      BY <2>2 DEF Init
    <2>4. {stray, synced} \subseteq BOOLEAN /\ fresh \in SUBSET Channels
      BY DEF Init
    <2> QED BY <2>1, <2>3, <2>4 DEF TypeOK
  <1>2. ~stray /\ elapsed = 1 /\ chan = 0 /\ slot \in 0 .. 8
    BY DEF Init
  <1>3. ~synced /\ fresh = {}
    BY DEF Init
  <1> QED BY <1>1, <1>2, <1>3 DEF IInv

\* On a line that had no fault yet the counter stays at most one ahead.
LEMMA CleanCount ==
    ASSUME TypeOK, NextInterval, NEW d \in 0 .. Word - 1, chan' = Count(d, chan),
           chan <= slot + 1, slot = 8 => d > SyncUs \/ chan = 0
    PROVE  chan' <= slot' + 1
  <1>1. chan \in Nat /\ slot \in 0 .. 8
    BY DEF TypeOK
  <1>2. chan \in 0 .. 254 /\ chan' \in {0, chan + 1}
    BY <1>1, CountSteps
  <1>3. CASE slot < 8
    BY <1>1, <1>2, <1>3 DEF NextInterval
  <1>4. CASE slot = 8 /\ d > SyncUs
    <2>1. chan' = 0 /\ slot' = 0
      BY <1>4, CountStarts DEF NextInterval
    <2> QED BY <2>1
  <1>5. CASE slot = 8 /\ chan = 0
    <2>1. slot' = 0
      BY <1>5 DEF NextInterval
    <2> QED BY <1>2, <1>5, <2>1
  <1> QED BY <1>1, <1>3, <1>4, <1>5

\* An edge the wire has: the only step that may turn synced on, and that adds to fresh.
LEMMA EdgeInv ==
    ASSUME IInv, Edge
    PROVE  IInv'
  <1> USE DEF IInv
  <1>1. /\ Interval \in 0 .. Word - 1
        /\ slot < 8 => Interval = frame[slot] /\ Interval <= SyncUs /\ slot \in Channels
        /\ slot = 8 => Interval = gap /\ Interval > SyncUs
    BY IntervalRange
  <1>2. (elapsed + Interval) % Word \in 0 .. Word - 1
    BY <1>1, Mod16 DEF TypeOK
  <1>3. /\ chan' \in 0 .. 255 /\ rcValue' \in [0 .. RC_CHANS - 1 -> 0 .. Word - 1]
        /\ stray' = stray
    BY <1>2, RxIntType DEF Edge
  <1>4. slot' \in 0 .. 8 /\ frame' \in Frames /\ gap' \in Gaps
    BY NextIntervalType DEF Edge
  <1>5. elapsed = 0 => (elapsed + Interval) % Word = Interval
    <2> SUFFICES ASSUME elapsed = 0 PROVE (elapsed + Interval) % Word = Interval
      OBVIOUS
    <2> QED BY <1>1, FitsAfter0, elapsed = 0
  <1>6. synced' \in BOOLEAN /\ elapsed' = 0 /\ faults' = faults
    BY DEF Edge, TypeOK
  <1>9. faults = 0 => chan' <= slot' + 1
    <2> SUFFICES ASSUME faults = 0 PROVE chan' <= slot' + 1
      OBVIOUS
    <2>1. PICK d \in 0 .. Word - 1 : d = (elapsed + Interval) % Word
      BY <1>2
    <2>2. chan' = Count(d, chan) /\ NextInterval
      BY <2>1 DEF Edge, rxInt
    <2>3. slot = 8 => d > SyncUs \/ chan = 0
      BY <1>1, <1>5, <2>1
    <2> QED BY <2>2, <2>3, CleanCount
  <1>10. /\ faults' = 0 => elapsed' \in {0, 1} /\ chan' <= slot' + 1 /\ (elapsed' = 1 => chan' = 0)
         /\ faults' <= 1 => ~stray'
    BY <1>3, <1>6, <1>9
  <1>11. {stray', synced'} \subseteq BOOLEAN /\ elapsed' \in Int /\ faults' \in 0 .. MaxFaults
    BY <1>3, <1>6 DEF TypeOK
  <1>7. CASE synced /\ slot < 8
    <2>1. /\ slot \in Channels /\ slot' = slot + 1 /\ chan = slot
          /\ rxInt(Interval) /\ Interval <= SyncUs /\ synced'
      BY <1>1, <1>5, <1>7 DEF Edge, NextInterval
    <2>2. chan' = slot'
      <3>1. chan' = (slot + 1) % 256
        BY <1>1, <2>1 DEF rxInt, Count, SyncUs
      <3>2. slot \in Int /\ 0 <= slot + 1 /\ slot + 1 < 256
        BY <2>1 DEF Channels
      <3> QED BY <2>1, <3>1, <3>2
    <2>3. CASE Valid(Interval)
      <3>1. /\ fresh' = fresh \cup {slot} /\ heard' = [heard EXCEPT ![slot] = Interval]
        BY <1>7, <2>3 DEF Edge
      <3>2. Stores(Interval, chan) /\ chan < RC_CHANS
        BY <2>1, <2>3 DEF Stores, Channels, RC_CHANS
      <3>3. rcValue' = [rcValue EXCEPT ![slot] = Interval]
        BY <2>1, <3>2 DEF rxInt, Stored
      <3>4. heard' \in [Channels -> Nat] /\ fresh' \in SUBSET Channels
        BY <1>1, <2>1, <3>1 DEF TypeOK
      <3>5. \A c \in fresh' : rcValue'[c] = heard'[c]
        <4>1. Channels \subseteq 0 .. RC_CHANS - 1
          BY DEF Channels, RC_CHANS
        <4> QED BY <2>1, <3>1, <3>3, <4>1 DEF TypeOK
      <3> QED BY <1>3, <1>4, <1>6, <1>10, <1>11, <2>1, <2>2, <3>4, <3>5 DEF TypeOK
    <2>4. CASE ~Valid(Interval)
      <3>1. fresh' = fresh /\ heard' = heard
        BY <2>4 DEF Edge
      <3>2. rcValue' = rcValue
        BY <2>1, <2>4 DEF rxInt, Stored, Stores
      <3> QED BY <1>3, <1>4, <1>6, <1>10, <1>11, <2>1, <2>2, <3>1, <3>2 DEF TypeOK
    <2> QED BY <2>3, <2>4
  <1>8. CASE ~(synced /\ slot < 8)
    <2>1. fresh' = fresh /\ heard' = heard
      BY <1>8 DEF Edge
    <2>2. CASE slot = 8 /\ elapsed = 0
      <3>1. slot' = 0 /\ rxInt(Interval) /\ Interval > SyncUs
        BY <1>1, <1>5, <2>2 DEF Edge, NextInterval
      <3>2. chan' = 0 /\ ~Stores(Interval, chan)
        BY <1>1, <3>1 DEF rxInt, Count, Stores, SyncUs
      <3>3. rcValue' = rcValue
        BY <3>1, <3>2 DEF rxInt, Stored
      <3>4. synced'
        BY <2>2 DEF Edge
      <3> QED BY <1>3, <1>4, <1>6, <1>10, <1>11, <2>1, <3>1, <3>2, <3>3, <3>4 DEF TypeOK
    <2>3. CASE ~(slot = 8 /\ elapsed = 0)
      <3>1. ~synced
        BY <1>8, <2>3 DEF TypeOK
      <3>2. ~synced' /\ fresh' = {}
        BY <2>1, <2>3, <3>1 DEF Edge
      <3> QED BY <1>3, <1>4, <1>6, <1>10, <1>11, <2>1, <3>2 DEF TypeOK
    <2> QED BY <2>2, <2>3
  <1> QED BY <1>7, <1>8

\* A fault of the line forgets what was received.
LEMMA FaultInv ==
    ASSUME IInv, Fault, slot' \in 0 .. 8, frame' \in Frames, gap' \in Gaps, elapsed' \in Int,
           chan' \in 0 .. 255, rcValue' \in [0 .. RC_CHANS - 1 -> 0 .. Word - 1],
           stray' \in BOOLEAN, faults = 0 => ~stray'
    PROVE  IInv'
  <1>1. faults' \in 0 .. MaxFaults /\ faults' # 0 /\ (faults' <= 1 => faults = 0)
    BY FaultsAssumption DEF Fault, IInv, TypeOK
  <1>2. /\ synced' = FALSE /\ fresh' = {} /\ heard' = heard
    BY DEF Fault
  <1>3. heard' \in [Channels -> Nat] /\ {stray', synced'} \subseteq BOOLEAN
    BY <1>2 DEF IInv, TypeOK
  <1> QED BY <1>1, <1>2, <1>3 DEF IInv, TypeOK

LEMMA NextInv == IInv /\ [Next]_vars => IInv'
  <1> SUFFICES ASSUME IInv, [Next]_vars PROVE IInv'
    OBVIOUS
  <1> TypeOK
    BY DEF IInv
  <1>1. Interval \in 0 .. Word - 1 /\ elapsed \in Int
    BY IntervalRange DEF TypeOK
  <1>0. stray \in BOOLEAN /\ (faults = 0 => ~stray)
    BY DEF IInv, TypeOK
  <1>2. CASE Edge
    BY <1>2, EdgeInv
  <1>3. CASE LoseEdge
    <2>1. slot' \in 0 .. 8 /\ frame' \in Frames /\ gap' \in Gaps
      BY <1>3, NextIntervalType DEF LoseEdge
    <2>2. elapsed' \in Int /\ chan' = chan /\ rcValue' = rcValue /\ stray' = stray
      BY <1>1, <1>3 DEF LoseEdge
    <2> QED BY <1>0, <1>3, <2>1, <2>2, FaultInv DEF LoseEdge, TypeOK
  <1>4. ASSUME NEW t \in GlitchTimes, Glitch(t)
        PROVE  IInv'
    <2>1. t \in Int
      BY <1>4, FaultsAssumption
    <2>2. (elapsed + t) % Word \in 0 .. Word - 1
      BY <1>1, <2>1, Mod16
    <2>3. chan' \in 0 .. 255 /\ rcValue' \in [0 .. RC_CHANS - 1 -> 0 .. Word - 1] /\ stray' = stray
      BY <1>4, <2>2, RxIntType DEF Glitch
    <2>4. /\ elapsed' \in Int /\ slot' = slot /\ frame' = frame /\ gap' = gap /\ Fault
      BY <1>4, <2>1 DEF Glitch
    <2> QED BY <1>0, <2>3, <2>4, FaultInv DEF TypeOK
  <1>5. ASSUME NEW inner \in Int, NEW outer \in Int, NEW before \in 0 .. 3,
               Nested(inner % Word, outer % Word, before), Fault, NextInterval, elapsed' \in Int
        PROVE  IInv'
    <2>1. inner % Word \in 0 .. Word - 1 /\ outer % Word \in 0 .. Word - 1
      BY <1>5, Mod16
    <2>2. /\ chan' \in 0 .. 255 /\ rcValue' \in [0 .. RC_CHANS - 1 -> 0 .. Word - 1]
          /\ stray' \in BOOLEAN /\ (faults = 0 => ~stray')
      BY <1>5, <2>1, NestedType
    <2>3. slot' \in 0 .. 8 /\ frame' \in Frames /\ gap' \in Gaps
      BY <1>5, NextIntervalType
    <2> QED BY <1>5, <2>2, <2>3, FaultInv
  <1>6. ASSUME NEW late \in Lates, NEW tear \in Tears, NestedInRead(late, tear)
        PROVE  IInv'
    <2>1. late \in Int /\ tear \in Int
      BY FaultsAssumption
    <2>2. PICK outer \in {(elapsed + Interval) - tear, tear - late} :
              Nested(((elapsed + Interval) + late) % Word, outer % Word, 0)
      BY <1>6, Zenon DEF NestedInRead
    <2>3. outer \in Int /\ elapsed + Interval + late \in Int
      BY <1>1, <2>1, <2>2
    <2>4. Fault /\ NextInterval /\ elapsed' \in Int
      BY <1>6 DEF NestedInRead
    <2> QED BY <1>5, <2>2, <2>3, <2>4
  <1>8. ASSUME NEW late \in Lates, NEW tear \in Tears, NEW carry \in Carries,
               NestedInWrite(late, tear, carry)
        PROVE  IInv'
    <2>1. late \in Int /\ tear \in Int /\ carry \in Int
      BY FaultsAssumption
    <2>2. PICK inner \in {elapsed + Interval + late - tear, late + tear} :
              Nested(inner % Word, (elapsed + Interval) % Word, 0)
      BY <1>8 DEF NestedInWrite
    <2>3. inner \in Int /\ elapsed + Interval \in Int
      BY <1>1, <2>1, <2>2
    <2>4. Fault /\ NextInterval /\ elapsed' \in Int
      BY <1>8, <2>1 DEF NestedInWrite
    <2> QED BY <1>5, <2>2, <2>3, <2>4
  <1>9. ASSUME NEW late \in Lates, NEW before \in 0 .. 3, NestedAfter(late, before)
        PROVE  IInv'
    <2>1. late \in Int /\ elapsed + Interval \in Int
      BY <1>1, FaultsAssumption
    <2>2. /\ Nested(late % Word, (elapsed + Interval) % Word, before)
          /\ Fault /\ NextInterval /\ elapsed' \in Int
      BY <1>9, <2>1 DEF NestedAfter
    <2> QED BY <1>5, <2>1, <2>2
  <1>10. ASSUME NEW s \in Silences, Silence(s)
         PROVE  IInv'
    <2>1. elapsed' \in Int
      BY <1>1, <1>10, FaultsAssumption DEF Silence
    <2>2. /\ slot' \in 0 .. 8 /\ frame' = frame /\ gap' = gap /\ chan' = chan
          /\ rcValue' = rcValue /\ stray' = stray /\ Fault
      BY <1>10 DEF Silence
    <2> QED BY <1>0, <2>1, <2>2, FaultInv DEF TypeOK
  <1>7. CASE UNCHANGED vars
    BY <1>7 DEF vars, wire, IInv, TypeOK
  <1> QED BY <1>2, <1>3, <1>4, <1>6, <1>7, <1>8, <1>9, <1>10 DEF Next

LEMMA Invariance == Spec => []IInv
  BY InitInv, NextInv, PTL DEF Spec

-----------------------------------------------------------------------------
\* Type correctness of the receiver: the edge counter stays a byte and the widths fit, for
\* any faults.  It says nothing of stores behind rcValue.
THEOREM TypeCorrect == Spec => []TypeOK
  <1>1. IInv => TypeOK
    BY DEF IInv
  <1> QED BY <1>1, Invariance, PTL

\* One fault of the line, an edge that comes in anywhere while rxInt runs included, gets no
\* width stored behind rcValue.
THEOREM OneFaultInside == Spec => []StoresInside
  <1>1. IInv => StoresInside
    BY DEF IInv, StoresInside
  <1> QED BY <1>1, Invariance, PTL

\* After a gap heard from edge to edge the receiver counts as the wire does.
THEOREM CountsAlign == Spec => []CountsAgree
  <1>1. IInv => CountsAgree
    BY DEF IInv, CountsAgree
  <1> QED BY <1>1, Invariance, PTL

\* The main loop's channel i is on the wire where rcChannel says it is.
LEMMA OrdersAgree ==
    ASSUME NEW i \in 1 .. 8, NEW p \in 1 .. 8, rc[i] = WireOrder[p]
    PROVE  rcChannel[i - 1] = p - 1
  <1>1. \A k \in 0 .. RC_CHANS - 1 :
            rcChannel[k] = IF k = 0 THEN 3 ELSE IF k <= 3 THEN k - 1 ELSE k
    BY DEF rcChannel
  <1>2. i - 1 \in 0 .. RC_CHANS - 1
    BY DEF RC_CHANS
  <1>3. \/ i = 1 /\ p = 4
        \/ i = 2 /\ p = 1
        \/ i = 3 /\ p = 2
        \/ i = 4 /\ p = 3
        \/ i > 4 /\ p = i
    <2>1. /\ rc[1] = "ROLL" /\ rc[2] = "PITCH" /\ rc[3] = "YAW" /\ rc[4] = "THROTTLE"
          /\ rc[5] = "AUX1" /\ rc[6] = "AUX2" /\ rc[7] = "AUX3" /\ rc[8] = "AUX4"
      BY DEF rc
    <2>2. /\ WireOrder[1] = "PITCH" /\ WireOrder[2] = "YAW" /\ WireOrder[3] = "THROTTLE"
          /\ WireOrder[4] = "ROLL" /\ WireOrder[5] = "AUX1" /\ WireOrder[6] = "AUX2"
          /\ WireOrder[7] = "AUX3" /\ WireOrder[8] = "AUX4"
      BY DEF WireOrder
    <2>3. p \in {1, 2, 3, 4, 5, 6, 7, 8}
      OBVIOUS
    <2>4. CASE i = 1  BY <2>1, <2>2, <2>3, <2>4
    <2>5. CASE i = 2  BY <2>1, <2>2, <2>3, <2>5
    <2>6. CASE i = 3  BY <2>1, <2>2, <2>3, <2>6
    <2>7. CASE i = 4  BY <2>1, <2>2, <2>3, <2>7
    <2>8. CASE i = 5  BY <2>1, <2>2, <2>3, <2>8
    <2>9. CASE i = 6  BY <2>1, <2>2, <2>3, <2>9
    <2>10. CASE i = 7  BY <2>1, <2>2, <2>3, <2>10
    <2>11. CASE i = 8  BY <2>1, <2>2, <2>3, <2>11
    <2> QED BY <2>4, <2>5, <2>6, <2>7, <2>8, <2>9, <2>10, <2>11
  <1>4. rcChannel[i - 1] = IF i - 1 = 0 THEN 3 ELSE IF i - 1 <= 3 THEN i - 1 - 1 ELSE i - 1
    BY <1>1, <1>2
  <1> QED BY <1>3, <1>4

\* What the main loop reads for a stick is what the drone last sent for that stick.
THEOREM SticksNotMixed == Spec => []NoCrossTalk
  <1>1. IInv => NoCrossTalk
    <2> SUFFICES ASSUME IInv, NEW i \in 1 .. 8, NEW p \in 1 .. 8,
                        rc[i] = WireOrder[p], p - 1 \in fresh
                 PROVE  readRawRC(i - 1) = heard[p - 1]
      BY DEF NoCrossTalk
    <2> QED BY OrdersAgree DEF IInv, readRawRC
  <1> QED BY <1>1, Invariance, PTL
=============================================================================
