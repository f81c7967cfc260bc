----------------------------- MODULE PpmEncoder -----------------------------
(***************************************************************************)
(* update() of ppmer.c, which update_channels calls for each frame: it     *)
(* turns the channel widths into a train of pulses, has pigpio repeat it   *)
(* on the output pin, sleeps to the end of the frame and deletes the       *)
(* oldest of the last NO_WAVES waves.  The waves stay between calls, and   *)
(* between connections: destroy() is never reached.                        *)
(*                                                                         *)
(* pigpio is external: a wave sent in mode REPEAT_SYNC is chained behind   *)
(* the last one sent, and takes over when the wire comes to the end of a   *)
(* pass of that one; it is then repeated in its turn.  A wave that is      *)
(* deleted while it is in this chain leaves the wire to whatever pigpio    *)
(* puts in its place, and is not followed further (cut).  Its other calls  *)
(* are assumed to succeed.  Time is the microsecond field of gettimeofday; *)
(* it passes in steps of at most Tick, at any point of update and between  *)
(* calls.                                                                  *)
(***************************************************************************)
EXTENDS Integers, Sequences

CONSTANTS
    NO_WAVES,      \* slots of the wave ring: 3
    WaveIds,       \* the ids gpioWaveCreate may return
    NoWave,        \* -1, an empty slot
    Channels,      \* ppm_factory.channel_count: 8
    GAP,           \* the high pulse that starts each channel: 300
    FrameUs,       \* ppm_factory.frame_us: 20000
    Second,        \* a second, in the unit of FrameUs: 1000000
    Tick,          \* the most time that passes in a step
    Widths,        \* the values update_channels may leave in ppm_factory.widths
    HeapWords      \* what may lie behind that array, by index

ASSUME RingAssumption == NO_WAVES \in Nat \ {0} /\ NoWave \notin WaveIds

ASSUME TimeAssumption ==
    {Channels, GAP, FrameUs, Second, Tick} \subseteq Nat \ {0} /\ FrameUs < Second

ASSUME WidthsAssumption ==
    /\ Widths \subseteq [0 .. Channels - 1 -> Nat]
    /\ HeapWords \subseteq [Channels .. 2 * Channels - 1 -> Nat]

VARIABLES
    pc,               \* "idle" (not in update), "measure", "sleep", "wake", "stamp", "delete"
    next_wave_id, wave_ids,
    live,             \* pigpio: the waves that exist
    chain,            \* the waves to play, with their lengths; the first is on the wire
    left,             \* what is left of its pass
    cut,              \* a wave of the chain was deleted
    widths, pulses,   \* what the last wave sent was made from, and its delays
    clock,            \* tv_usec of the time of day
    update_time,      \* tv_usec of ppm_factory.update_time
    nap,              \* remaining_time.tv_usec, and then what is left of gpioSleep
    since             \* history: time since update_time was set, up to FrameUs

ring == <<next_wave_id, wave_ids, live>>
frame == <<widths, pulses>>
wire == <<chain, left, cut>>
time == <<clock, update_time, nap, since>>
vars == <<pc, ring, frame, wire, time>>

Slots == 0 .. NO_WAVES - 1

-----------------------------------------------------------------------------
(* The pulse train.                                                        *)

\* usDelay is a uint32_t.
Word(n) == IF n >= 0 THEN n ELSE n + 2^32

\* Mutation: line 63 is run for each pulse, and not for the second of a channel's two.
Micros_EachPulse(w, heap) ==
    LET micros[i \in 0 .. 2 * Channels] ==
            CASE i = 0 -> GAP
              [] i \in 1 .. Channels -> micros[i - 1] + w[i - 1]
              [] OTHER -> micros[i - 1] + heap[i - 1]
    IN  micros[2 * Channels]

\* Line 63 adds widths[i] where i counts pulses, two to a channel: it skips every
\* other channel and reads on behind the array.
WordRead(w, heap, channel) ==
    IF 2 * channel < Channels THEN w[2 * channel] ELSE heap[2 * channel]

\* What the loop over the channels, and the pulse that ends the frame, add up to.
Micros(w, heap) ==
    LET micros[channel \in 0 .. Channels] ==
            IF channel = 0 THEN GAP
                           ELSE micros[channel - 1] + WordRead(w, heap, channel - 1)
    IN  micros[Channels]

\* Mutation: the gap is not taken off the width.
Pulses_WholeWidth(w, heap) ==
    [i \in 0 .. 2 * Channels + 1 |->
        CASE i % 2 = 0 -> GAP
          [] i % 2 = 1 /\ i < 2 * Channels -> Word(w[i \div 2])
          [] OTHER -> Word(FrameUs - Micros(w, heap))]

\* The delays of the 2 * channel_count + 2 pulses: high, low, high, low, ...
Pulses(w, heap) ==
    [i \in 0 .. 2 * Channels + 1 |->
        CASE i % 2 = 0 -> GAP
          [] i % 2 = 1 /\ i < 2 * Channels -> Word(w[i \div 2] - GAP)
          [] OTHER -> Word(FrameUs - Micros(w, heap))]

\* How long a pass of these pulses takes.
FrameLength(p) ==
    LET us[i \in 0 .. 2 * Channels + 2] == IF i = 0 THEN 0 ELSE us[i - 1] + p[i - 1]
    IN  us[2 * Channels + 2]

-----------------------------------------------------------------------------
TypeOK ==
    /\ pc \in {"idle", "measure", "sleep", "wake", "stamp", "delete"}
    /\ next_wave_id \in Slots
    /\ wave_ids \in [Slots -> WaveIds \cup {NoWave}]
    /\ live \in SUBSET WaveIds
    /\ cut \in BOOLEAN
    /\ clock \in 0 .. Second - 1 /\ update_time \in 0 .. Second - 1
    /\ nap \in 0 .. Second + FrameUs
    /\ since \in 0 .. FrameUs

\* After init(4, 8, 20).
Init ==
    /\ pc = "idle"
    /\ next_wave_id = 0
    /\ wave_ids = [i \in Slots |-> NoWave]
    /\ live = {}
    /\ chain = <<>> /\ left = 0 /\ cut = FALSE
    /\ widths = [c \in 0 .. Channels - 1 |-> 1000]
    /\ pulses = <<>>
    /\ clock = 0 /\ update_time = 0 /\ nap = 0 /\ since = 0

\* gpioWaveTxSend in REPEAT_SYNC: the first wave starts at once, any other waits its turn.
TxSend(id, us) ==
    /\ chain' = IF cut THEN <<>> ELSE Append(chain, [wave |-> id, length |-> us])
    /\ left' = IF chain = <<>> /\ ~cut THEN us ELSE left
    /\ UNCHANGED cut

\* Lines 57 to 83: the wave is built, created, sent and entered in the ring.
SendWave(w, heap) ==
    /\ pc = "idle"
    /\ widths' = w /\ pulses' = Pulses(w, heap)
    /\ \E id \in WaveIds \ live :
          /\ live' = live \cup {id}
          /\ wave_ids' = [wave_ids EXCEPT ![next_wave_id] = id]
          /\ TxSend(id, FrameLength(pulses'))
    /\ next_wave_id' = IF next_wave_id + 1 >= NO_WAVES THEN 0 ELSE next_wave_id + 1
    /\ pc' = "measure"
    /\ UNCHANGED time

\* Mutation: the frame is taken in milliseconds.
Measure_InMs ==
    /\ pc = "measure"
    /\ LET remaining == update_time + FrameUs \div 1000 - clock
       IN  IF remaining > 0 THEN pc' = "sleep" /\ nap' = remaining
                            ELSE pc' = "stamp" /\ nap' = 0
    /\ UNCHANGED <<ring, frame, wire, clock, update_time, since>>

\* Lines 85 to 91: remaining_time.tv_sec is computed and not used.
Measure ==
    /\ pc = "measure"
    /\ LET remaining == update_time + FrameUs - clock
       IN  IF remaining > 0 THEN pc' = "sleep" /\ nap' = remaining
                            ELSE pc' = "stamp" /\ nap' = 0
    /\ UNCHANGED <<ring, frame, wire, clock, update_time, since>>

\* Lines 92 and 93: the sleep is relative, and begins when the output is flushed.
\* gpioSleep takes less than a second of microseconds; it refuses more, and returns.
gpioSleep ==
    /\ pc = "sleep"
    /\ IF nap < Second THEN pc' = "wake" /\ UNCHANGED nap
                       ELSE pc' = "stamp" /\ nap' = 0
    /\ UNCHANGED <<ring, frame, wire, clock, update_time, since>>

Wake ==
    /\ pc = "wake"
    /\ nap = 0
    /\ pc' = "stamp"
    /\ UNCHANGED <<ring, frame, wire, time>>

Stamp ==
    /\ pc = "stamp"
    /\ update_time' = clock /\ since' = 0
    /\ pc' = "delete"
    /\ UNCHANGED <<ring, frame, wire, clock, nap>>

\* pigpio frees the wave's control blocks, whether the wire is through with them or not.
WaveDelete(id) ==
    /\ live' = live \ {id}
    /\ IF \E i \in DOMAIN chain : chain[i].wave = id
         THEN cut' = TRUE /\ chain' = <<>> /\ left' = 0
         ELSE UNCHANGED wire

\* Mutation: the slot is cleared, but the wave is left in pigpio.
DeleteNextWave_Leaks ==
    /\ pc = "delete"
    /\ wave_ids' = [wave_ids EXCEPT ![next_wave_id] = NoWave]
    /\ pc' = "idle"
    /\ UNCHANGED <<next_wave_id, live, frame, wire, time>>

\* Lines 100 to 107.
DeleteNextWave ==
    /\ pc = "delete"
    /\ WaveDelete(wave_ids[next_wave_id])
    /\ wave_ids' = [wave_ids EXCEPT ![next_wave_id] = NoWave]
    /\ pc' = "idle"
    /\ UNCHANGED <<next_wave_id, frame, time>>

Lesser(m, n) == IF m <= n THEN m ELSE n

\* A step never goes past the end of a pass.
Elapsed == IF left \in 1 .. Tick THEN left ELSE Tick

\* At the end of a pass the next wave of the chain takes over, or the same one again.
WireMoves ==
    /\ IF left = Elapsed
         THEN /\ chain' = IF Len(chain) > 1 THEN Tail(chain) ELSE chain
              /\ left' = Head(chain').length
         ELSE /\ left' = IF chain = <<>> THEN 0 ELSE left - Elapsed
              /\ UNCHANGED chain
    /\ UNCHANGED cut

TimePasses ==
    /\ clock' = (clock + Elapsed) % Second
    /\ since' = Lesser(since + Elapsed, FrameUs)
    /\ nap' = IF pc # "wake" THEN nap ELSE IF nap <= Elapsed THEN 0 ELSE nap - Elapsed
    /\ WireMoves
    /\ UNCHANGED <<pc, ring, frame, update_time>>

Next ==
    \/ \E w \in Widths, heap \in HeapWords : SendWave(w, heap)
    \/ Measure \/ gpioSleep \/ Wake \/ Stamp \/ DeleteNextWave
    \/ TimePasses

Spec == Init /\ [][Next]_vars

-----------------------------------------------------------------------------
\* "It was necessary to wait for two cycles to pass before resetting the memory for the
\* particular train" (disertation.tex:158): a wave is deleted only when the wire is through
\* with it.
OutputKept == ~cut

\* pigpio's waves are those of the ring, each in one slot: none is leaked, however
\* many frames are sent, and none is deleted twice.
RingOwnsWaves ==
    /\ live = {wave_ids[i] : i \in Slots} \ {NoWave}
    /\ \A i, j \in Slots : wave_ids[i] = wave_ids[j] /\ wave_ids[i] # NoWave => i = j
    /\ pc = "idle" => wave_ids[next_wave_id] = NoWave

\* From one rising edge to the next the receiver measures the commanded width,
\* whatever lies behind the array.  (A width below GAP wraps to over an hour.)
FrameCarriesWidths ==
    pulses # <<>> =>
        \A c \in 0 .. Channels - 1 :
            widths[c] >= GAP => pulses[2 * c] + pulses[2 * c + 1] = widths[c]

\* What the receiver takes for the gap between two frames (rxInt), in microseconds.
ShortestGap == 3001
LongestGap == 65535

\* The low pulse that ends a frame is computed from half of the widths and from memory
\* behind the array (so the frame is not FrameUs long), and pigpio takes it for a word of
\* 32 bits: with widths that sticks have, the receiver nevertheless finds in it the one
\* interval of a frame that is longer than any width and shorter than its clock's period
\* (PpmReceiver!GapsAssumption).
GapSynchronises ==
    pulses # <<>> => pulses[2 * Channels] + pulses[2 * Channels + 1] \in ShortestGap .. LongestGap

\* The microsecond fields alone make the sleep, and time passes between reading the clock
\* and sleeping by it.  No frame is nevertheless sent sooner than FrameUs after the time the
\* one before it was given, unless the second has changed since: its sleep was then refused.
FullWindows == pc = "stamp" /\ since < FrameUs => clock < update_time
=============================================================================
