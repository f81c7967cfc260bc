----------------------------- MODULE PpmReceiver -----------------------------
(***************************************************************************)
(* The flight controller's receiver: rxInt() of RX.cpp, the interrupt of a *)
(* rising edge on the PPM pin, and readRawRC(), which the main loop reads  *)
(* the channels with.  rxInt knows a channel only by counting edges since  *)
(* the last interval longer than SyncUs; it stores a width that may be a   *)
(* stick's and counts one that may not.                                    *)
(*                                                                         *)
(* The wire is the other party: the frames update() builds (PpmEncoder),   *)
(* each followed by a gap, repeated until the next.  An edge may be lost,  *)
(* one may be heard where there is none (also while rxInt runs, which has  *)
(* interrupts on again: one run inside another, at any access to the three *)
(* static variables), and the line may go dead and come back.              *)
(* A state of the wire is the interval between two of its edges.           *)
(***************************************************************************)
EXTENDS Integers, Sequences

CONSTANTS
    Frames,        \* the frames update() may be given: widths by place in the frame
    Gaps,          \* the time from a frame's last edge to the next frame
    GlitchTimes,   \* when in an interval an edge is heard that is not one
    Silences,      \* how long a dead line may be dead
    Lates,         \* how long after an edge another comes, while rxInt runs for it
    Tears,         \* by how much the low bytes of two values of last differ
    Carries,       \* 256 with a carry into the high byte between the two, or 0
    MaxFaults      \* bound: faults of the line

RC_CHANS == 12
SyncUs == 3000
Word == 65536            \* micros() is kept in 16 bits
Channels == 0 .. 7

\* What the receiver can tell apart: an interval that is a width, and one that is a gap.
ASSUME FramesAssumption == Frames \subseteq [Channels -> 0 .. SyncUs] /\ Frames # {}
ASSUME GapsAssumption == Gaps \subseteq SyncUs + 1 .. Word - 1 /\ Gaps # {}
ASSUME FaultsAssumption ==
    /\ MaxFaults \in Nat
    /\ GlitchTimes \subseteq Nat /\ Silences \subseteq Nat /\ Lates \subseteq Nat
    /\ Tears \subseteq -255 .. 255 /\ Carries \subseteq {0, 256}

VARIABLES
    slot,          \* the interval on the wire: a channel's, or 8, the gap
    frame, gap,    \* the frame on the wire and the gap after it
    elapsed,       \* time from the last edge heard to the start of the interval
    faults,
    chan,          \* rxInt's edge counter, a uint8_t
    rcValue,
    stray,         \* a width was stored behind rcValue (the memory there is not modelled)
    \* history
    synced,        \* since the last gap heard from edge to edge there was no fault
    fresh,         \* the channels received since
    heard          \* the last valid width sent in each

wire == <<slot, frame, gap, elapsed>>
vars == <<wire, faults, chan, rcValue, stray, synced, fresh, heard>>

-----------------------------------------------------------------------------
\* enum rc: the order in which the main loop numbers the channels.
rc == <<"ROLL", "PITCH", "YAW", "THROTTLE", "AUX1", "AUX2", "AUX3", "AUX4">>

\* The order in which update_channels puts them in a frame.
WireOrder == <<"PITCH", "YAW", "THROTTLE", "ROLL", "AUX1", "AUX2", "AUX3", "AUX4">>

\* Mutation: the channel order of the line before, for another make of radio.
rcChannel_Robe == [i \in 0 .. RC_CHANS - 1 |-> CASE i = 2 -> 3 [] i = 3 -> 2 [] OTHER -> i]

\* SERIAL_SUM_PPM as config.h sets it: THROTTLE, ROLL, PITCH, YAW, AUX1, ...
rcChannel == [i \in 0 .. RC_CHANS - 1 |-> IF i = 0 THEN 3 ELSE IF i <= 3 THEN i - 1 ELSE i]

\* Interrupts are off while the two bytes are copied.
readRawRC(i) == rcValue[rcChannel[i]]

Valid(width) == 900 < width /\ width < 2200

\* Mutation: rcValue's end is not tested for.
Stores_NoLimit(diff, k) == diff <= SyncUs /\ Valid(diff)

\* What an edge does: diff is the time since the last one in 16 bits, k the count.
Stores(diff, k) == diff <= SyncUs /\ Valid(diff) /\ k < RC_CHANS
Count(diff, k) == IF diff > SyncUs THEN 0 ELSE (k + 1) % 256

\* rcValue[index] = diff, if the count k passes the test; what is behind it is not followed.
Stored(values, diff, k, index) ==
    IF Stores(diff, k) /\ index < RC_CHANS THEN [values EXCEPT ![index] = diff] ELSE values
StoredBehind(diff, k, index) == Stores(diff, k) /\ index >= RC_CHANS

\* Mutation: chan++ is in the block of a valid width.
rxInt_CountsValid(diff) ==
    /\ chan' = IF diff > SyncUs \/ Valid(diff) THEN Count(diff, chan) ELSE chan
    /\ rcValue' = Stored(rcValue, diff, chan, chan)
    /\ UNCHANGED stray

rxInt(diff) ==
    /\ chan' = Count(diff, chan)
    /\ rcValue' = Stored(rcValue, diff, chan, chan)
    /\ stray' = (stray \/ StoredBehind(diff, chan, chan))

-----------------------------------------------------------------------------
TypeOK ==
    /\ slot \in 0 .. 8
    /\ frame \in Frames /\ gap \in Gaps
    /\ elapsed \in Int
    /\ faults \in 0 .. MaxFaults
    /\ chan \in 0 .. 255
    /\ rcValue \in [0 .. RC_CHANS - 1 -> 0 .. Word - 1]
    /\ {stray, synced} \subseteq BOOLEAN
    /\ fresh \in SUBSET Channels
    /\ heard \in [Channels -> Nat]

\* configureReceiver has just set the interrupt up; the wire may be anywhere.
Init ==
    /\ slot \in 0 .. 8 /\ frame \in Frames /\ gap \in Gaps
    /\ elapsed = 1              \* last is 0, whenever that was
    /\ faults = 0
    /\ chan = 0
    /\ rcValue = [i \in 0 .. RC_CHANS - 1 |-> 1502]
    /\ stray = FALSE
    /\ synced = FALSE /\ fresh = {} /\ heard = [c \in Channels |-> 1502]

Interval == IF slot < 8 THEN frame[slot] ELSE gap

\* The wire goes on to its next interval.
NextInterval ==
    IF slot < 8
      THEN slot' = slot + 1 /\ UNCHANGED <<frame, gap>>
      ELSE slot' = 0 /\ frame' \in Frames /\ gap' \in Gaps

\* An edge the wire has and rxInt hears.
Edge ==
    /\ rxInt((elapsed + Interval) % Word)
    /\ NextInterval
    /\ elapsed' = 0
    /\ synced' = (synced \/ (slot = 8 /\ elapsed = 0))
    /\ IF synced /\ slot < 8 /\ Valid(Interval)
         THEN fresh' = fresh \cup {slot} /\ heard' = [heard EXCEPT ![slot] = Interval]
         ELSE UNCHANGED <<fresh, heard>>
    /\ UNCHANGED faults

Fault ==
    /\ faults < MaxFaults
    /\ faults' = faults + 1
    /\ synced' = FALSE /\ fresh' = {}
    /\ UNCHANGED heard

LoseEdge ==
    /\ Fault
    /\ NextInterval
    /\ elapsed' = elapsed + Interval
    /\ UNCHANGED <<chan, rcValue, stray>>

\* An edge is heard t into the interval.
Glitch(t) ==
    /\ Fault
    /\ -elapsed < t /\ t < Interval
    /\ rxInt((elapsed + t) % Word)
    /\ elapsed' = -t
    /\ UNCHANGED <<slot, frame, gap>>

\* The rest of an edge inside of which another one runs (one deep).  inner and outer are
\* what the two find for diff; of the uses of chan (the test, the index, the increment) as
\* many as `before` says have its value from before the inner run: it is not volatile, and
\* may be loaded for each use or for all at once.
Nested(inner, outer, before) ==
    LET counted == Count(inner, chan)
        use(i) == IF i <= before THEN chan ELSE counted
    IN  /\ rcValue' = Stored(Stored(rcValue, inner, chan, chan), outer, use(1), use(2))
        /\ stray' = \/ stray
                    \/ StoredBehind(inner, chan, chan)
                    \/ StoredBehind(outer, use(1), use(2))
        /\ chan' = Count(outer, use(3))

\* A second edge right after a real one, which has turned interrupts on.  It comes while
\* the first one reads last, or after that and before it writes it (diff is old or new, or
\* made of the bytes of both),
NestedInRead(late, tear) ==
    /\ Fault /\ NextInterval
    /\ LET first == elapsed + Interval
       IN  \E outer \in {first - tear, tear - late} :
              Nested((first + late) % Word, outer % Word, 0)
    /\ elapsed' = 0

\* while it writes last (the inner one finds the bytes of both; which byte is written last
\* decides what is left there),
NestedInWrite(late, tear, carry) ==
    /\ Fault /\ NextInterval
    /\ LET first == elapsed + Interval
       IN  \E inner \in {first + late - tear, late + tear} :
              Nested(inner % Word, first % Word, 0)
    /\ elapsed' \in {-carry, carry - late}

\* or after it has.
NestedAfter(late, before) ==
    /\ Fault /\ NextInterval
    /\ Nested(late % Word, (elapsed + Interval) % Word, before)
    /\ elapsed' = -late

\* The line goes dead, and comes back with a gap before a new frame.
Silence(s) ==
    /\ Fault
    /\ slot' = 8
    /\ elapsed' = elapsed + s
    /\ UNCHANGED <<frame, gap, chan, rcValue, stray>>

Next ==
    \/ Edge \/ LoseEdge
    \/ \E t \in GlitchTimes : Glitch(t)
    \/ \E late \in Lates, tear \in Tears : NestedInRead(late, tear)
    \/ \E late \in Lates, tear \in Tears, carry \in Carries : NestedInWrite(late, tear, carry)
    \/ \E late \in Lates, before \in 0 .. 3 : NestedAfter(late, before)
    \/ \E s \in Silences : Silence(s)

Spec == Init /\ [][Next]_vars

\* pigpio repeats a frame for ever: there is always another edge.
FairSpec == Spec /\ WF_vars(Edge)

-----------------------------------------------------------------------------
\* A gap heard from edge to edge puts the counter right, whatever edges were lost,
\* made up or nested before: from there to the next fault an interval is counted as
\* the channel it is.
CountsAgree == synced => chan = slot

\* No channel is taken for another: what the main loop reads for a stick is the last
\* width the drone has sent for the stick of that name (of the widths that may be one),
\* although the two ends number the channels differently.
NoCrossTalk ==
    \A i \in 1 .. 8, p \in 1 .. 8 :
        rc[i] = WireOrder[p] /\ p - 1 \in fresh => readRawRC(i - 1) = heard[p - 1]

\* The count is tested before it indexes rcValue, but an edge that comes in between the two
\* may move it to the end of the array: it must be at the last place then, which in a frame
\* of eight channels takes a fault before.  One fault of the line never gets a width stored
\* behind the array.
StoresInside == faults <= 1 => ~stray

\* The channels of which every frame has a width that may be a stick's.
AlwaysValid == {c \in Channels : \A f \in Frames : Valid(f[c])}

\* Once the line is good again, the receiver counts with the wire for ever, and what it
\* holds for every channel is what was last sent in it: one that has taken one channel
\* for another does not go on to, and no channel stays as it was before the fault.
Resynchronises ==
    <>[](chan = slot /\ \A c \in AlwaysValid : c \in fresh /\ rcValue[c] = heard[c])
=============================================================================
