--------------------------- MODULE SerialProtocol ---------------------------
(***************************************************************************)
(* The flight controller's serial port (Serial.cpp) and the MultiWii       *)
(* serial protocol (Protocol.cpp): a ground station's requests come in     *)
(* byte by byte through an interrupt and a ring, serialCom() puts them     *)
(* together and checks them, evaluateCommand() answers into another ring,  *)
(* which a second interrupt empties.                                       *)
(*                                                                         *)
(* The station sends one request after another, as MultiWiiConf does when  *)
(* it asks for several at once, and the line may change or drop a byte.    *)
(* What a command does to the controller is in FlightController and        *)
(* Settings; here are its frame and the length of its reply.  GPS and the  *)
(* other users of the port are not compiled in.                            *)
(***************************************************************************)
EXTENDS Integers, Sequences, SequencesExt

CONSTANTS
    Requests,          \* what the station asks: [cmd, data]
    Noise,             \* what the line may make of a byte
    MaxFaults,         \* bound: bytes changed or dropped, and rings overrun
    RX_BUFFER_SIZE,    \* 256
    Burst              \* bytes that go out between two steps of the parser: 1 and more

TX_BUFFER_SIZE == 128
INBUF_SIZE == 64
Byte == 0 .. 255

ASSUME BoundsAssumption ==
    /\ Noise \subseteq Byte /\ MaxFaults \in Nat
    /\ RX_BUFFER_SIZE \in Nat \ {0, 1} /\ Burst \in Nat \ {0}

VARIABLES
    request, at,       \* the station: what it is sending, and the byte that is next
    rx,                \* the ring of received bytes, the next to read first
    c_state, dataSize, offset, checksum, cmdMSP,
    inBuf,             \* as far as the longest request goes
    tx,                \* bytes in the ring of those to send
    faults

station == <<request, at>>
parser == <<c_state, dataSize, offset, checksum, cmdMSP, inBuf>>
vars == <<station, rx, parser, tx, faults>>

-----------------------------------------------------------------------------
\* Bit by bit.
Xor(a, b) ==
    LET bit(i) == 2^i * ((a \div 2^i + b \div 2^i) % 2)
    IN  bit(0) + bit(1) + bit(2) + bit(3) + bit(4) + bit(5) + bit(6) + bit(7)

\* requestMSP: '$', 'M', '<', the size, the command, the data, and what they come to.
Frame(r) ==
    <<36, 77, 60, Len(r.data), r.cmd>> \o r.data
        \o <<FoldLeft(Xor, Xor(Len(r.data), r.cmd), r.data)>>
Frames == [r \in Requests |-> Frame(r)]

\* No byte of a request but its first is a '$': in a stream without end, one that is made
\* of the same data again and again may otherwise hide its own beginnings for ever.
ASSUME RequestsAssumption ==
    /\ Requests # {}
    /\ \A r \in Requests :
          /\ r.cmd \in Byte \ {0} /\ Len(r.data) <= INBUF_SIZE
          /\ \A i \in 2 .. Len(Frame(r)) : Frame(r)[i] \in Byte \ {36}

NoRequest == [cmd |-> 0, data |-> <<>>]
Longest == CHOOSE n \in {Len(r.data) : r \in Requests} : \A r \in Requests : Len(r.data) <= n

TypeOK ==
    /\ request \in Requests /\ at \in 1 .. Len(Frames[request])
    /\ rx \in Seq([value : Byte, ends : Requests \union {NoRequest}]) /\ Len(rx) < RX_BUFFER_SIZE
    /\ c_state \in {"IDLE", "HEADER_START", "HEADER_M", "HEADER_ARROW", "HEADER_SIZE", "HEADER_CMD"}
    /\ dataSize \in 0 .. INBUF_SIZE /\ offset \in 0 .. dataSize
    /\ checksum \in Byte /\ cmdMSP \in Byte
    /\ inBuf \in Seq(Byte) /\ Len(inBuf) <= Longest
    /\ tx \in 0 .. TX_BUFFER_SIZE - 1
    /\ faults \in 0 .. MaxFaults

Init ==
    /\ request \in Requests /\ at = 1
    /\ rx = <<>>
    /\ c_state = "IDLE" /\ dataSize = 0 /\ offset = 0 /\ checksum = 0 /\ cmdMSP = 0
    /\ inBuf = <<>>
    /\ tx = 0
    /\ faults = 0

-----------------------------------------------------------------------------
(* The station, the line, and the interrupt that stores a byte.            *)

\* A byte of the stream; the last of a request says which one is complete.
Sent ==
    [value |-> Frames[request][at],
     ends  |-> IF at = Len(Frames[request]) THEN request ELSE NoRequest]

Advance ==
    IF at < Len(Frames[request])
      THEN at' = at + 1 /\ UNCHANGED request
      ELSE at' = 1 /\ request' \in Requests

\* A byte more than the ring holds makes it look empty ("data is lost anyway").
store_uart_in_buf(byte) ==
    rx' = IF Len(rx) = RX_BUFFER_SIZE - 1 THEN <<>> ELSE Append(rx, byte)

Arrive ==
    /\ Len(rx) < RX_BUFFER_SIZE - 1
    /\ store_uart_in_buf(Sent)
    /\ Advance
    /\ UNCHANGED <<parser, tx, faults>>

Fault ==
    /\ faults < MaxFaults
    /\ faults' = faults + 1
    /\ Advance
    /\ UNCHANGED <<parser, tx>>

DropByte == Fault /\ UNCHANGED rx

ChangeByte(value) ==
    /\ Fault
    /\ value # Sent.value /\ Len(rx) < RX_BUFFER_SIZE - 1
    /\ store_uart_in_buf([value |-> value, ends |-> NoRequest])

\* The loop is late, in a write of the settings for example.
Overrun ==
    /\ Fault
    /\ Len(rx) = RX_BUFFER_SIZE - 1
    /\ store_uart_in_buf(Sent)

-----------------------------------------------------------------------------
(* serialCom, a byte at a time.                                            *)

\* SerialUsedTXBuff leaves a margin of fifty bytes.
Free == tx <= TX_BUFFER_SIZE - 50

\* Bytes of a reply, with its six of frame.
ReplyLength(cmd) ==
    CASE cmd = 200 -> 0                                          \* MSP_SET_RAW_RC
      [] cmd \in {202, 203, 204, 205, 206, 207, 208, 211, 212, 239, 250} -> 6
      [] cmd = 240 -> 10                                         \* MSP_ACC_TRIM
      [] cmd = 119 -> 11                                         \* MSP_BOXIDS
      [] cmd \in {108, 109} -> 12
      [] cmd \in {100, 110, 111} -> 13
      [] cmd \in {115, 254} -> 14
      [] cmd = 113 -> 16                                         \* MSP_BOX
      [] cmd = 101 -> 17                                         \* MSP_STATUS
      [] cmd \in {103, 104} -> 22
      [] cmd = 102 -> 24                                         \* MSP_RAW_IMU
      [] cmd = 114 -> 28                                         \* MSP_MISC
      [] cmd = 105 -> 30                                         \* MSP_RC
      [] cmd = 116 -> 33                                         \* MSP_BOXNAMES
      [] cmd = 112 -> 36                                         \* MSP_PID
      [] cmd = 117 -> 53                                         \* MSP_PIDNAMES
      [] cmd = 120 -> 62                                         \* MSP_SERVO_CONF
      [] OTHER -> 6                                              \* an error, with no data

\* The head of the ring goes on past its tail: nobody asks whether there is room for more
\* than the margin, and MSP_PIDNAMES and MSP_SERVO_CONF take more.
evaluateCommand(cmd) == tx' = (tx + ReplyLength(cmd)) % TX_BUFFER_SIZE

Idle(c) ==
    /\ c_state = "IDLE"
    /\ c_state' = IF c = 36 THEN "HEADER_START" ELSE "IDLE"
    /\ UNCHANGED <<dataSize, offset, checksum, cmdMSP, inBuf, tx>>

HeaderStart(c) ==
    /\ c_state = "HEADER_START"
    /\ c_state' = IF c = 77 THEN "HEADER_M" ELSE "IDLE"
    /\ UNCHANGED <<dataSize, offset, checksum, cmdMSP, inBuf, tx>>

HeaderM(c) ==
    /\ c_state = "HEADER_M"
    /\ c_state' = IF c = 60 THEN "HEADER_ARROW" ELSE "IDLE"
    /\ UNCHANGED <<dataSize, offset, checksum, cmdMSP, inBuf, tx>>

\* Mutation: offset goes on from the frame before.
HeaderArrow_Offset(c) ==
    /\ c_state = "HEADER_ARROW"
    /\ IF c > INBUF_SIZE
         THEN UNCHANGED <<c_state, dataSize, checksum>>
         ELSE c_state' = "HEADER_SIZE" /\ dataSize' = c /\ checksum' = c
    /\ UNCHANGED <<offset, cmdMSP, inBuf, tx>>

\* A size that is too large: "state = IDLE; continue" never reaches c_state, so that the
\* next byte is taken for the size.
HeaderArrow(c) ==
    /\ c_state = "HEADER_ARROW"
    /\ IF c > INBUF_SIZE
         THEN UNCHANGED <<c_state, dataSize, checksum, offset>>
         ELSE c_state' = "HEADER_SIZE" /\ dataSize' = c /\ checksum' = c /\ offset' = 0
    /\ UNCHANGED <<cmdMSP, inBuf, tx>>

HeaderSize(c) ==
    /\ c_state = "HEADER_SIZE"
    /\ c_state' = "HEADER_CMD"
    /\ cmdMSP' = c /\ checksum' = Xor(checksum, c)
    /\ UNCHANGED <<dataSize, offset, inBuf, tx>>

\* (What an earlier frame left behind, and a command with too little data reads, is not kept.)
HeaderData(c) ==
    /\ c_state = "HEADER_CMD" /\ offset < dataSize
    /\ checksum' = Xor(checksum, c)
    /\ offset' = offset + 1
    /\ inBuf' = IF offset < Longest THEN Append(SubSeq(inBuf, 1, offset), c) ELSE inBuf
    /\ UNCHANGED <<c_state, dataSize, cmdMSP, tx>>

Matches(c) == checksum = c

HeaderEnd(c) ==
    /\ c_state = "HEADER_CMD" /\ offset >= dataSize
    /\ IF Matches(c) THEN evaluateCommand(cmdMSP) ELSE UNCHANGED tx
    /\ c_state' = "IDLE"
    /\ UNCHANGED <<dataSize, offset, checksum, cmdMSP, inBuf>>

serialCom ==
    /\ rx # <<>> /\ Free
    /\ rx' = Tail(rx)
    /\ LET c == Head(rx).value
       IN  \/ Idle(c) \/ HeaderStart(c) \/ HeaderM(c) \/ HeaderArrow(c) \/ HeaderSize(c)
           \/ HeaderData(c) \/ HeaderEnd(c)
    /\ UNCHANGED <<station, faults>>

\* The other interrupt.
Transmit ==
    /\ tx > 0
    /\ tx' = IF tx > Burst THEN tx - Burst ELSE 0
    /\ UNCHANGED <<station, rx, parser, faults>>

Next ==
    \/ Arrive \/ DropByte \/ (\E value \in Noise : ChangeByte(value)) \/ Overrun
    \/ serialCom \/ Transmit

Spec == Init /\ [][Next]_vars

\* The station goes on asking, the loop calls serialCom, and the UART sends.
FairSpec == Spec /\ WF_vars(Arrive) /\ WF_vars(serialCom) /\ WF_vars(Transmit)

-----------------------------------------------------------------------------
\* The byte that is read next makes the controller execute cmdMSP ...
Executing ==
    /\ rx # <<>> /\ Free
    /\ c_state = "HEADER_CMD" /\ offset >= dataSize
    /\ Matches(Head(rx).value)

\* ... which is the request that this byte ends.
ExecutesRequest ==
    /\ Executing
    /\ dataSize <= Longest
    /\ Head(rx).ends = [cmd |-> cmdMSP, data |-> SubSeq(inBuf, 1, dataSize)]

RequestEnds == rx # <<>> /\ Free /\ Head(rx).ends # NoRequest

\* A byte changed or dropped, or a ring overrun, makes the parser take any part of the
\* stream for a frame, of a size of up to 64 or, after the size it failed to reject, for
\* longer; but it finds its way back: from some time on every request is executed, as it
\* was sent, and requests go on to be.
Recovers == []<>ExecutesRequest /\ <>[](RequestEnds => ExecutesRequest)
=============================================================================
