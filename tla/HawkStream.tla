----------------------------- MODULE HawkStream -----------------------------
(***************************************************************************)
(* The TCP byte stream between the remote and the drone.  TCPClient writes *)
(* a packet with println; TCP delivers its bytes in order, in segments of  *)
(* any size; handle_tcp_connection takes what one recv returns, at most    *)
(* header_buffer_size bytes, for one packet.                               *)
(*                                                                         *)
(* The text of a packet is abstracted to the positions the server reads:   *)
(* whether a buffer starts with HAWK, and which letters of the packet type *)
(* it holds.  DroneServer models the connection's end.                     *)
(***************************************************************************)
EXTENDS Integers, Sequences

CONSTANTS
    Commands,       \* the packet types the remote sends through TCP
    SentMax         \* bound: packets sent on one connection

\* The letters of a packet type; the remote pads "ARM" with a blank, which replace()
\* makes the end of the string.
Letters ==
    [ARM  |-> <<"A", "R", "M">>,       DARM |-> <<"D", "A", "R", "M">>,
     TELE |-> <<"T", "E", "L", "E">>,  MODE |-> <<"M", "O", "D", "E">>,
     STM  |-> <<"S", "T", "M">>,       SHM  |-> <<"S", "H", "M">>,
     AUTH |-> <<"A", "U", "T", "H">>,  LAND |-> <<"L", "A", "N", "D">>]

lookuptable == <<"ARM", "DARM", "TELE", "MODE", "STM", "SHM", "AUTH", "LAND">>

ASSUME CommandsAssumption == Commands \subseteq {"ARM", "DARM", "TELE", "LAND"}
ASSUME BoundAssumption == SentMax \in Nat

VARIABLES
    sent,           \* the packets written, in order
    delivered,      \* bytes of the stream in the drone's receive buffer or read from it
    pos,            \* bytes read
    executed,       \* the packets process_tcp_packet acted on: which one, as what
    cut             \* history: the packets some recv ended inside

vars == <<sent, delivered, pos, executed, cut>>

-----------------------------------------------------------------------------
\* "HAWK 1.0\n", "CHNK:" + 4 + "\n", "LENGTH:" + 3 + "\n", and println's own "\n".
PacketBytes == 9 + 10 + 11 + 1

header_buffer_size == 31

\* The packet that byte number b (from 0) belongs to.
PacketOf(b) == b \div PacketBytes + 1

AtStart(b) == b % PacketBytes = 0

Least(a, b) == IF a < b THEN a ELSE b

\* strncmp(buffer, "HAWK 1.0", 4) == 0, for the n bytes from b on, zero-filled.
IsHawk(b, n) == AtStart(b) /\ n >= 4

\* The type field starts at offset 14; what was not received of it is zero.
TypeField(command, n) ==
    IF n <= 14 THEN <<>>
    ELSE SubSeq(Letters[command], 1, Least(n - 14, Len(Letters[command])))

\* strncmp(sym.key, key, strlen(key)) == 0
Matches(symKey, key) ==
    Len(key) <= Len(symKey) /\ \A i \in 1 .. Len(key) : symKey[i] = key[i]

\* Mutation: an empty type field is looked up like any other.
key_from_string_Empty(key) ==
    IF \E i \in 1 .. Len(lookuptable) : Matches(Letters[lookuptable[i]], key)
      THEN lookuptable[CHOOSE i \in 1 .. Len(lookuptable) :
             /\ Matches(Letters[lookuptable[i]], key)
             /\ \A j \in 1 .. (i - 1) : ~Matches(Letters[lookuptable[j]], key)]
      ELSE "UNKNOWN"

\* Mutation: the loop stops one entry early.
key_from_string_Short(key) ==
    IF Len(key) > 0 /\ \E i \in 1 .. Len(lookuptable) - 1 : Matches(Letters[lookuptable[i]], key)
      THEN lookuptable[CHOOSE i \in 1 .. Len(lookuptable) :
             /\ Matches(Letters[lookuptable[i]], key)
             /\ \A j \in 1 .. (i - 1) : ~Matches(Letters[lookuptable[j]], key)]
      ELSE "UNKNOWN"

\* The first entry of the table that the type field is a prefix of.
key_from_string(key) ==
    IF Len(key) > 0 /\ \E i \in 1 .. Len(lookuptable) : Matches(Letters[lookuptable[i]], key)
      THEN lookuptable[CHOOSE i \in 1 .. Len(lookuptable) :
             /\ Matches(Letters[lookuptable[i]], key)
             /\ \A j \in 1 .. (i - 1) : ~Matches(Letters[lookuptable[j]], key)]
      ELSE "UNKNOWN"

\* What process_tcp_packet gets from the n bytes from b on; "NONE" when they are
\* not a HAWK packet.
PacketType(b, n) ==
    IF IsHawk(b, n) THEN key_from_string(TypeField(sent[PacketOf(b)], n)) ELSE "NONE"

-----------------------------------------------------------------------------
TypeOK ==
    /\ sent \in Seq(Commands)
    /\ delivered \in 0 .. PacketBytes * Len(sent)
    /\ pos \in 0 .. delivered
    /\ executed \in Seq([packet : 1 .. Len(sent), type : Commands])
    /\ cut \in SUBSET (1 .. Len(sent))

Init ==
    /\ sent = <<>> /\ delivered = 0
    /\ pos = 0 /\ executed = <<>> /\ cut = {}

\* TCPClient takes a message from its queue and prints it.
Send(command) ==
    /\ Len(sent) < SentMax
    /\ sent' = Append(sent, command)
    /\ UNCHANGED <<delivered, pos, executed, cut>>

\* Any number of the bytes on their way arrive.
Deliver(total) ==
    /\ delivered' = total
    /\ UNCHANGED <<sent, pos, executed, cut>>

\* One turn of the loop: recv returns what is there, up to the buffer's size.
Recv ==
    /\ pos < delivered
    /\ LET n == Least(header_buffer_size, delivered - pos)
           type == PacketType(pos, n)
       IN  /\ pos' = pos + n
           /\ executed' = IF type \in {"NONE", "UNKNOWN"} THEN executed
                          ELSE Append(executed, [packet |-> PacketOf(pos), type |-> type])
           /\ cut' = IF AtStart(pos + n) THEN cut ELSE cut \cup {PacketOf(pos + n)}
    /\ UNCHANGED <<sent, delivered>>

Next ==
    \/ \E command \in Commands : Send(command)
    \/ \E total \in delivered + 1 .. PacketBytes * Len(sent) : Deliver(total)
    \/ Recv

Spec == Init /\ [][Next]_vars

\* TCP delivers what was sent while both ends live, and the TCP thread runs.
FairSpec ==
    /\ Spec
    /\ WF_vars(\E total \in delivered + 1 .. PacketBytes * Len(sent) : Deliver(total))
    /\ WF_vars(Recv)

-----------------------------------------------------------------------------
(* Properties.                                                             *)

\* However TCP cuts the stream and wherever the reader loses the packet boundary,
\* a buffer of it never passes for a command the remote did not send, and no
\* command is executed twice or out of order.
OnlyWhatWasSent ==
    \A i \in 1 .. Len(executed) :
        /\ executed[i].type = sent[executed[i].packet]
        /\ i > 1 => executed[i - 1].packet < executed[i].packet

\* The buffer of 31 bytes is the remote's packet with its newline: a command whose
\* bytes have been read was executed, unless a recv ended inside it.
LostOnlyWhenCut ==
    \A p \in 1 .. Len(sent) :
        PacketBytes * p <= pos =>
            p \in cut \/ \E i \in 1 .. Len(executed) : executed[i].packet = p
=============================================================================
