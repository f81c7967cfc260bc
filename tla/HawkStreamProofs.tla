-------------------------- MODULE HawkStreamProofs --------------------------
(***************************************************************************)
(* What HawkStream promises, for any number of packets and any subset of   *)
(* the remote's commands.                                                  *)
(***************************************************************************)
EXTENDS HawkStream, SequenceTheorems, TLAPS

-----------------------------------------------------------------------------
(* The lookup table.                                                       *)

LEMMA Table ==
    /\ Len(lookuptable) = 8
    /\ lookuptable[1] = "ARM" /\ lookuptable[2] = "DARM" /\ lookuptable[3] = "TELE"
    /\ lookuptable[4] = "MODE" /\ lookuptable[5] = "STM" /\ lookuptable[6] = "SHM"
    /\ lookuptable[7] = "AUTH" /\ lookuptable[8] = "LAND"
  <1>1. Len(lookuptable) = 8  BY DEF lookuptable
  <1>2. lookuptable[1] = "ARM" /\ lookuptable[2] = "DARM"  BY DEF lookuptable
  <1>3. lookuptable[3] = "TELE" /\ lookuptable[4] = "MODE"  BY DEF lookuptable
  <1>4. lookuptable[5] = "STM" /\ lookuptable[6] = "SHM"  BY DEF lookuptable
  <1>5. lookuptable[7] = "AUTH" /\ lookuptable[8] = "LAND"  BY DEF lookuptable
  <1> QED  BY <1>1, <1>2, <1>3, <1>4, <1>5

LEMMA Lengths ==
    /\ Len(Letters["ARM"]) = 3 /\ Len(Letters["DARM"]) = 4
    /\ Len(Letters["TELE"]) = 4 /\ Len(Letters["LAND"]) = 4
  BY DEF Letters

LEMMA FirstLetters ==
    /\ Letters["ARM"][1] = "A" /\ Letters["DARM"][1] = "D" /\ Letters["TELE"][1] = "T"
    /\ Letters["MODE"][1] = "M" /\ Letters["STM"][1] = "S" /\ Letters["SHM"][1] = "S"
    /\ Letters["AUTH"][1] = "A" /\ Letters["LAND"][1] = "L"
  BY DEF Letters

RemoteCommands == {"ARM", "DARM", "TELE", "LAND"}

Alphabet == {"A", "D", "E", "L", "M", "N", "R", "T"}

LEMMA Seqs ==
    ASSUME NEW c \in RemoteCommands
    PROVE  Letters[c] \in Seq(Alphabet)
  <1>1. <<"A", "R", "M">> \in Seq(Alphabet)  BY DEF Alphabet
  <1>2. <<"D", "A", "R", "M">> \in Seq(Alphabet)  BY DEF Alphabet
  <1>3. <<"T", "E", "L", "E">> \in Seq(Alphabet)  BY DEF Alphabet
  <1>4. <<"L", "A", "N", "D">> \in Seq(Alphabet)  BY DEF Alphabet
  <1>5. /\ Letters["ARM"] = <<"A", "R", "M">>
        /\ Letters["DARM"] = <<"D", "A", "R", "M">>
        /\ Letters["TELE"] = <<"T", "E", "L", "E">>
        /\ Letters["LAND"] = <<"L", "A", "N", "D">>
    BY DEF Letters
  <1> QED  BY <1>1, <1>2, <1>3, <1>4, <1>5 DEF RemoteCommands

\* The remote's commands differ in the first letter from every earlier entry.
LEMMA NoEarlierEntry ==
    ASSUME NEW c \in RemoteCommands
    PROVE  \E i \in 1 .. Len(lookuptable) :
             /\ lookuptable[i] = c
             /\ \A j \in 1 .. (i - 1) : Letters[lookuptable[j]][1] # Letters[c][1]
  <1>1. CASE c = "ARM"
    <2>1. \A j \in 1 .. (1 - 1) : FALSE  OBVIOUS
    <2> QED  BY <2>1, <1>1, Table
  <1>2. CASE c = "DARM"
    <2>1. \A j \in 1 .. (2 - 1) : j = 1  OBVIOUS
    <2> QED  BY <2>1, <1>2, Table, FirstLetters
  <1>3. CASE c = "TELE"
    <2>1. \A j \in 1 .. (3 - 1) : j = 1 \/ j = 2  OBVIOUS
    <2> QED  BY <2>1, <1>3, Table, FirstLetters
  <1>4. CASE c = "LAND"
    <2>1. \A j \in 1 .. (8 - 1) : j \in {1, 2, 3, 4, 5, 6, 7}  OBVIOUS
    <2> QED  BY <2>1, <1>4, Table, FirstLetters
  <1> QED  BY <1>1, <1>2, <1>3, <1>4 DEF RemoteCommands

\* Any beginning of a command, down to its first letter, is looked up as that command.
LEMMA PrefixFound ==
    ASSUME NEW c \in RemoteCommands, NEW k \in 1 .. Len(Letters[c])
    PROVE  key_from_string(SubSeq(Letters[c], 1, k)) = c
  <1> DEFINE key == SubSeq(Letters[c], 1, k)
             Hit(i) == Matches(Letters[lookuptable[i]], key)
             IsFirst(i) == Hit(i) /\ \A j \in 1 .. (i - 1) : ~Hit(j)
  <1>1. Len(key) = k /\ \A i \in 1 .. k : key[i] = Letters[c][i]
    BY Seqs
  <1>2. PICK n \in 1 .. Len(lookuptable) :
             /\ lookuptable[n] = c
             /\ \A j \in 1 .. (n - 1) : Letters[lookuptable[j]][1] # Letters[c][1]
    BY NoEarlierEntry
  <1>3. Hit(n)
    BY <1>1, <1>2, Seqs DEF Matches
  <1>4. \A j \in 1 .. (n - 1) : ~Hit(j)
    BY <1>1, <1>2, Table DEF Matches
  <1>5. \A i \in 1 .. Len(lookuptable) : IsFirst(i) => i = n
    BY <1>3, <1>4, Table
  <1>6. (CHOOSE i \in 1 .. Len(lookuptable) : IsFirst(i)) = n
    BY <1>3, <1>4, <1>5
  <1>7. Len(key) > 0 /\ \E i \in 1 .. Len(lookuptable) : Hit(i)
    BY <1>1, <1>3
  <1>8. lookuptable[CHOOSE i \in 1 .. Len(lookuptable) : IsFirst(i)] = c
    BY <1>2, <1>6
  <1> QED  BY <1>7, <1>8 DEF key_from_string

LEMMA EmptyUnknown ==
    ASSUME NEW s, Len(s) = 0
    PROVE  key_from_string(s) = "UNKNOWN"
  BY DEF key_from_string

-----------------------------------------------------------------------------
(* What one recv decodes.                                                  *)

LEMMA CommandLength ==
    ASSUME NEW c \in RemoteCommands
    PROVE  Len(Letters[c]) \in 3 .. 4
  BY Lengths DEF RemoteCommands

LEMMA LeastBounded ==
    ASSUME NEW a \in Nat \ {0}, NEW b \in Nat \ {0}
    PROVE  Least(a, b) \in 1 .. b
  BY DEF Least

LEMMA FieldDecodes ==
    ASSUME NEW c \in RemoteCommands, NEW n \in 1 .. header_buffer_size
    PROVE  /\ n <= 14 => key_from_string(TypeField(c, n)) = "UNKNOWN"
           /\ n > 14 => key_from_string(TypeField(c, n)) = c
  <1>1. CASE n <= 14
    <2>1. TypeField(c, n) = <<>>
      BY <1>1 DEF TypeField
    <2>2. key_from_string(<<>>) = "UNKNOWN"
      BY EmptyUnknown, Len(<<>>) = 0
    <2> QED  BY <1>1, <2>1, <2>2
  <1>2. CASE n > 14
    <2>1. n - 14 \in Nat \ {0}
      BY <1>2
    <2>2. Len(Letters[c]) \in Nat \ {0}
      <3>1. Len(Letters[c]) \in 3 .. 4
        BY CommandLength
      <3>2. \A m \in 3 .. 4 : m \in Nat \ {0}
        OBVIOUS
      <3> QED  BY <3>1, <3>2
    <2>3. Least(n - 14, Len(Letters[c])) \in 1 .. Len(Letters[c])
      BY <2>1, <2>2, LeastBounded
    <2> QED  BY <1>2, <2>3, PrefixFound DEF TypeField
  <1> QED  BY <1>1, <1>2 DEF header_buffer_size

Chunk == Least(header_buffer_size, delivered - pos)

\* A chunk that starts a packet is that packet or nothing, a whole packet is itself,
\* and a chunk that starts inside one is nothing.
LEMMA ChunkDecodes ==
    ASSUME TypeOK, pos < delivered
    PROVE  /\ Chunk \in 1 .. header_buffer_size
           /\ pos + Chunk <= delivered
           /\ PacketOf(pos) \in 1 .. Len(sent)
           /\ PacketType(pos, Chunk) \in {"NONE", "UNKNOWN", sent[PacketOf(pos)]}
           /\ PacketType(pos, Chunk) \notin {"NONE", "UNKNOWN"} => AtStart(pos)
           /\ AtStart(pos) /\ Chunk = header_buffer_size =>
                PacketType(pos, Chunk) = sent[PacketOf(pos)]
  <1>1. pos \in Nat /\ delivered \in Nat /\ Len(sent) \in Nat
        /\ delivered <= PacketBytes * Len(sent)
    BY DEF TypeOK, PacketBytes
  <1>2. Chunk \in 1 .. header_buffer_size /\ pos + Chunk <= delivered
    BY <1>1 DEF Chunk, Least, header_buffer_size
  <1>3. PacketOf(pos) \in 1 .. Len(sent)
    BY <1>1 DEF PacketOf, PacketBytes
  <1>4. sent[PacketOf(pos)] \in RemoteCommands
    <2>1. \A p \in 1 .. Len(sent) : sent[p] \in RemoteCommands
      BY CommandsAssumption, ElementOfSeq DEF TypeOK, RemoteCommands
    <2> QED  BY <2>1, <1>3
  <1>5. CASE IsHawk(pos, Chunk)
    <2>1. PacketType(pos, Chunk) = key_from_string(TypeField(sent[PacketOf(pos)], Chunk))
      BY <1>5 DEF PacketType
    <2>2. AtStart(pos)
      BY <1>5 DEF IsHawk
    <2>3. Chunk <= 14 => PacketType(pos, Chunk) = "UNKNOWN"
      BY <2>1, <1>2, <1>4, FieldDecodes
    <2>4. Chunk > 14 => PacketType(pos, Chunk) = sent[PacketOf(pos)]
      BY <2>1, <1>2, <1>4, FieldDecodes
    <2> QED  BY <1>2, <1>3, <2>2, <2>3, <2>4 DEF header_buffer_size
  <1>6. CASE ~IsHawk(pos, Chunk)
    BY <1>2, <1>3, <1>6 DEF PacketType, IsHawk, header_buffer_size
  <1> QED  BY <1>2, <1>3, <1>5, <1>6

-----------------------------------------------------------------------------
(* The invariant.                                                          *)

\* What was executed started before the reader's position: the next packet to be
\* executed is a later one.
ExecutedBehind ==
    \A i \in 1 .. Len(executed) : PacketBytes * (executed[i].packet - 1) < pos

\* A reader that has lost the boundary has already counted the packet it is inside.
InsideIsCut == ~AtStart(pos) => PacketOf(pos) \in cut

IInv == TypeOK /\ ExecutedBehind /\ InsideIsCut /\ OnlyWhatWasSent /\ LostOnlyWhenCut

LEMMA ExecutedTyped ==
    ASSUME TypeOK, NEW i \in 1 .. Len(executed)
    PROVE  executed[i] \in [packet : 1 .. Len(sent), type : Commands]
  BY ElementOfSeq DEF TypeOK

LEMMA InitEstablishes == Init => IInv
  BY DEF Init, IInv, TypeOK, ExecutedBehind, InsideIsCut, OnlyWhatWasSent, LostOnlyWhenCut,
         AtStart, PacketOf, PacketBytes

LEMMA SendKeeps ==
    ASSUME IInv, NEW command \in Commands, Send(command)
    PROVE  IInv'
  <1> USE DEF IInv
  <1>1. /\ sent' \in Seq(Commands) /\ Len(sent') = Len(sent) + 1
        /\ \A p \in 1 .. Len(sent) : sent'[p] = sent[p]
    BY DEF Send, TypeOK
  <1>2. TypeOK'
    <2>1. delivered' \in 0 .. PacketBytes * Len(sent') /\ pos' \in 0 .. delivered'
      BY <1>1 DEF Send, TypeOK, PacketBytes
    <2>2. executed' \in Seq([packet : 1 .. Len(sent'), type : Commands])
      <3>1. [packet : 1 .. Len(sent), type : Commands]
              \subseteq [packet : 1 .. Len(sent'), type : Commands]
        BY <1>1 DEF TypeOK
      <3>2. executed \in Seq([packet : 1 .. Len(sent), type : Commands])
        BY DEF TypeOK
      <3>3. executed \in Seq([packet : 1 .. Len(sent'), type : Commands])
        BY <3>1, <3>2, SeqMonotonic
      <3> QED  BY <3>3 DEF Send
    <2>3. cut' \in SUBSET (1 .. Len(sent'))
      BY <1>1 DEF Send, TypeOK
    <2> QED  BY <1>1, <2>1, <2>2, <2>3 DEF TypeOK
  <1>3. ExecutedBehind' /\ InsideIsCut'
    BY DEF Send, ExecutedBehind, InsideIsCut, AtStart, PacketOf
  <1>4. OnlyWhatWasSent'
    <2>1. \A i \in 1 .. Len(executed) : executed[i].packet \in 1 .. Len(sent)
      BY ExecutedTyped DEF TypeOK
    <2>2. \A i \in 1 .. Len(executed) : sent'[executed[i].packet] = sent[executed[i].packet]
      BY <1>1, <2>1
    <2> QED  BY <2>2 DEF Send, OnlyWhatWasSent
  <1>5. LostOnlyWhenCut'
    <2> SUFFICES ASSUME NEW p \in 1 .. Len(sent'), PacketBytes * p <= pos
                 PROVE  p \in cut \/ \E i \in 1 .. Len(executed) : executed[i].packet = p
      BY DEF Send, LostOnlyWhenCut
    <2>1. p <= Len(sent)
      BY <1>1 DEF TypeOK, PacketBytes
    <2> QED  BY <2>1, <1>1 DEF LostOnlyWhenCut, TypeOK
  <1> QED  BY <1>2, <1>3, <1>4, <1>5

LEMMA DeliverKeeps ==
    ASSUME IInv, NEW total \in delivered + 1 .. PacketBytes * Len(sent), Deliver(total)
    PROVE  IInv'
  <1>1. TypeOK'
    BY DEF IInv, Deliver, TypeOK, PacketBytes
  <1> QED  BY <1>1 DEF IInv, Deliver, ExecutedBehind, InsideIsCut, OnlyWhatWasSent,
                       LostOnlyWhenCut, AtStart, PacketOf

\* The packet a chunk completes: the one it starts or the one it was inside.
LEMMA ChunkCompletes ==
    ASSUME TypeOK, pos < delivered, NEW p \in 1 .. Len(sent),
           PacketBytes * p <= pos + Chunk, ~(PacketBytes * p <= pos)
    PROVE  /\ p = PacketOf(pos)
           /\ AtStart(pos) => Chunk = header_buffer_size
  <1>1. pos \in Nat /\ Chunk \in 1 .. header_buffer_size
    BY ChunkDecodes DEF TypeOK, PacketBytes
  <1> QED  BY <1>1 DEF PacketOf, AtStart, PacketBytes, header_buffer_size

LEMMA RecvKeeps ==
    ASSUME IInv, Recv
    PROVE  IInv'
  <1> USE DEF IInv
  <1> DEFINE type == PacketType(pos, Chunk)
             here == PacketOf(pos)
             entry == [packet |-> here, type |-> type]
  <1>1. /\ pos < delivered
        /\ pos' = pos + Chunk
        /\ executed' = IF type \in {"NONE", "UNKNOWN"} THEN executed ELSE Append(executed, entry)
        /\ cut' = IF AtStart(pos + Chunk) THEN cut ELSE cut \cup {PacketOf(pos + Chunk)}
        /\ UNCHANGED <<sent, delivered>>
    BY DEF Recv, Chunk
  <1>2. /\ Chunk \in 1 .. header_buffer_size
        /\ pos + Chunk <= delivered
        /\ here \in 1 .. Len(sent)
        /\ type \in {"NONE", "UNKNOWN", sent[here]}
        /\ type \notin {"NONE", "UNKNOWN"} => AtStart(pos)
        /\ AtStart(pos) /\ Chunk = header_buffer_size => type = sent[here]
    BY <1>1, ChunkDecodes
  <1>3. sent[here] \in Commands /\ sent[here] \notin {"NONE", "UNKNOWN"}
    <2>1. sent[here] \in Commands
      BY <1>2, ElementOfSeq DEF TypeOK
    <2> QED  BY <2>1, CommandsAssumption
  <1>4. pos \in Nat /\ pos' \in Nat /\ Chunk \in Nat /\ Len(sent) \in Nat /\ pos < pos'
        /\ delivered \in 0 .. PacketBytes * Len(sent)
    BY <1>1, <1>2 DEF TypeOK, PacketBytes, header_buffer_size
  <1>5. type \notin {"NONE", "UNKNOWN"} => PacketBytes * (here - 1) = pos
    <2>1. AtStart(pos) => PacketBytes * (here - 1) = pos
      BY <1>4 DEF AtStart, PacketOf, PacketBytes
    <2> QED  BY <2>1, <1>2
  <1>6. ~AtStart(pos') => PacketOf(pos') \in 1 .. Len(sent)
    BY <1>1, <1>2, <1>4 DEF AtStart, PacketOf, PacketBytes
  <1>a. pos' \in 0 .. delivered' /\ delivered' \in 0 .. PacketBytes * Len(sent')
    BY <1>1, <1>2, <1>4
  <1>b. cut' \in SUBSET (1 .. Len(sent'))
    <2>1. cut \in SUBSET (1 .. Len(sent))
      BY DEF TypeOK
    <2>2. AtStart(pos') => cut' = cut
      BY <1>1
    <2>3. ~AtStart(pos') => cut' = cut \cup {PacketOf(pos')}
      BY <1>1
    <2> QED  BY <1>1, <1>6, <2>1, <2>2, <2>3
  <1>7. CASE type \in {"NONE", "UNKNOWN"}
    <2>1. executed' = executed /\ cut \subseteq cut'
      BY <1>1, <1>7
    <2>2. TypeOK'
      BY <1>1, <1>a, <1>b, <2>1 DEF TypeOK
    <2>3. ExecutedBehind'
      BY <2>1, <1>4, ExecutedTyped DEF ExecutedBehind, PacketBytes
    <2>4. InsideIsCut'
      BY <1>1 DEF InsideIsCut
    <2>5. OnlyWhatWasSent'
      BY <1>1, <2>1 DEF OnlyWhatWasSent
    <2>6. LostOnlyWhenCut'
      <3> SUFFICES ASSUME NEW p \in 1 .. Len(sent), PacketBytes * p <= pos'
                   PROVE  p \in cut' \/ \E i \in 1 .. Len(executed) : executed[i].packet = p
        BY <1>1, <2>1 DEF LostOnlyWhenCut
      <3>1. CASE PacketBytes * p <= pos
        BY <3>1, <2>1 DEF LostOnlyWhenCut
      <3>2. CASE ~(PacketBytes * p <= pos)
        <4>1. p = here /\ (AtStart(pos) => Chunk = header_buffer_size)
          BY <1>1, <3>2, ChunkCompletes
        <4>2. ~AtStart(pos)
          BY <4>1, <1>2, <1>3, <1>7
        <4> QED  BY <4>1, <4>2, <2>1 DEF InsideIsCut
      <3> QED  BY <3>1, <3>2
    <2> QED  BY <2>2, <2>3, <2>4, <2>5, <2>6
  <1>8. CASE type \notin {"NONE", "UNKNOWN"}
    <2>1. /\ type = sent[here]
          /\ PacketBytes * (here - 1) = pos
          /\ entry \in [packet : 1 .. Len(sent), type : Commands]
      BY <1>2, <1>3, <1>5, <1>8
    <2>2. /\ executed' = Append(executed, entry)
          /\ cut \subseteq cut'
      BY <1>1, <1>8
    <2>3. executed' \in Seq([packet : 1 .. Len(sent), type : Commands])
      BY <2>1, <2>2, AppendProperties DEF TypeOK
    <2>4. /\ Len(executed') = Len(executed) + 1 /\ Len(executed) \in Nat
          /\ \A i \in 1 .. Len(executed) : executed'[i] = executed[i]
          /\ executed'[Len(executed) + 1] = entry
      BY <2>1, <2>2, AppendProperties, LenProperties DEF TypeOK
    <2>5. TypeOK'
      BY <1>1, <1>a, <1>b, <2>3 DEF TypeOK
    <2>6. ExecutedBehind'
      <3>1. \A i \in 1 .. Len(executed) : PacketBytes * (executed[i].packet - 1) < pos'
        BY <1>4, ExecutedTyped DEF ExecutedBehind, PacketBytes
      <3> QED  BY <3>1, <2>1, <2>4, <1>4 DEF ExecutedBehind
    <2>7. InsideIsCut'
      BY <1>1 DEF InsideIsCut
    <2>8. OnlyWhatWasSent'
      <3> SUFFICES ASSUME NEW i \in 1 .. Len(executed')
                   PROVE  /\ executed'[i].type = sent[executed'[i].packet]
                          /\ i > 1 => executed'[i - 1].packet < executed'[i].packet
        BY <1>1 DEF OnlyWhatWasSent
      <3>1. CASE i \in 1 .. Len(executed)
        BY <3>1, <2>4 DEF OnlyWhatWasSent
      <3>2. CASE i = Len(executed) + 1
        <4>1. executed'[i] = entry
          BY <3>2, <2>4
        <4>2. i > 1 => executed'[i - 1].packet < here
          <5> SUFFICES ASSUME i > 1 PROVE executed'[i - 1].packet < here
            OBVIOUS
          <5>1. i - 1 \in 1 .. Len(executed) /\ executed'[i - 1] = executed[i - 1]
            BY <3>2, <2>4
          <5>2. executed[i - 1].packet \in Nat
            BY <5>1, ExecutedTyped
          <5>3. PacketBytes * (executed[i - 1].packet - 1) < pos
            BY <5>1 DEF ExecutedBehind
          <5> QED  BY <5>1, <5>2, <5>3, <2>1, <1>2 DEF PacketBytes
        <4> QED  BY <4>1, <4>2, <2>1
      <3> QED  BY <3>1, <3>2, <2>4
    <2>9. LostOnlyWhenCut'
      <3> SUFFICES ASSUME NEW p \in 1 .. Len(sent), PacketBytes * p <= pos'
                   PROVE  p \in cut' \/ \E i \in 1 .. Len(executed') : executed'[i].packet = p
        BY <1>1 DEF LostOnlyWhenCut
      <3>1. CASE PacketBytes * p <= pos
        BY <3>1, <2>2, <2>4 DEF LostOnlyWhenCut
      <3>2. CASE ~(PacketBytes * p <= pos)
        <4>1. p = here
          BY <1>1, <3>2, ChunkCompletes
        <4> QED  BY <4>1, <2>4
      <3> QED  BY <3>1, <3>2
    <2> QED  BY <2>5, <2>6, <2>7, <2>8, <2>9
  <1> QED  BY <1>7, <1>8

LEMMA Invariance == Spec => []IInv
  <1>1. IInv /\ [Next]_vars => IInv'
    <2> SUFFICES ASSUME IInv, [Next]_vars PROVE IInv'
      OBVIOUS
    <2>1. CASE \E command \in Commands : Send(command)
      BY <2>1, SendKeeps
    <2>2. CASE \E total \in delivered + 1 .. PacketBytes * Len(sent) : Deliver(total)
      BY <2>2, DeliverKeeps
    <2>3. CASE Recv
      BY <2>3, RecvKeeps
    <2>4. CASE UNCHANGED vars
      BY <2>4 DEF vars, IInv, TypeOK, ExecutedBehind, InsideIsCut, OnlyWhatWasSent,
                  LostOnlyWhenCut, AtStart, PacketOf
    <2> QED  BY <2>1, <2>2, <2>3, <2>4 DEF Next
  <1> QED  BY <1>1, InitEstablishes, PTL DEF Spec

-----------------------------------------------------------------------------
\* The server never reads more than was delivered, and what it executes is a packet
\* of the stream.
THEOREM TypeCorrect == Spec => []TypeOK
  BY Invariance, PTL DEF IInv

\* handle_tcp_connection executes, of any stream cut in any way, only commands that
\* were sent, each at most once and in order.
THEOREM NothingInvented == Spec => []OnlyWhatWasSent
  BY Invariance, PTL DEF IInv

\* A command is lost only when a recv of handle_tcp_connection ended inside it.
THEOREM WholePacketsExecuted == Spec => []LostOnlyWhenCut
  BY Invariance, PTL DEF IInv
=============================================================================
