---------------------------- MODULE RemoteProofs ----------------------------
(***************************************************************************)
(* What Remote promises, for any number of attempts, of key presses and of *)
(* places in the queue.                                                    *)
(***************************************************************************)
EXTENDS Remote, SequenceTheorems, TLAPS

-----------------------------------------------------------------------------
(* The invariant.                                                          *)

\* The objects of an attempt do not exist before it.
Fresh ==
    \A i \in Attempts :
        i > attempt => tcp[i] = "none" /\ udpSocket[i] = "none" /\ sender[i] = "none"

\* Port 6000 is held by one socket.
OneBound ==
    \A i, j \in Attempts : udpSocket[i] = "bound" /\ udpSocket[j] = "bound" => i = j

\* What is still in the queue was pressed after all that has been sent, and no two
\* connections have been given the same press.
SentBefore ==
    \A i \in Attempts : \A k \in 1 .. Len(wire[i]), l \in 1 .. Len(messages) :
        wire[i][k] < messages[l]

SentApart ==
    \A i, j \in Attempts : \A k \in 1 .. Len(wire[i]), l \in 1 .. Len(wire[j]) :
        i # j => wire[i][k] # wire[j][l]

InOrder == Increasing(messages) /\ \A i \in Attempts : Increasing(wire[i])

QueueOK == SentBefore /\ SentApart /\ InOrder

\* The type invariant without the queue, and the queue's part of it.
ThreadsTyped ==
    /\ alive \in BOOLEAN
    /\ connectionStatus \in BOOLEAN
    /\ rawAxes \in Sticks
    /\ attempt \in 0 .. MaxAttempts
    /\ tcp \in [Attempts -> {"none", "connecting", "status", "take", "post", "done"}]
    /\ interrupted \in [Attempts -> BOOLEAN]
    /\ open \in [Attempts -> BOOLEAN]
    /\ listener \in [Attempts -> {"none", "waiting", "reading", "nostream", "done"}]
    /\ udpSocket \in [Attempts -> {"none", "bound", "null", "closed"}]
    /\ sender \in [Attempts -> {"none", "on", "dead", "cancelled"}]
    /\ packetString \in [Attempts -> Sticks \cup {NoPayload}]

QueueTyped ==
    /\ presses \in 0 .. PressMax
    /\ messages \in Seq(1 .. presses) /\ Len(messages) <= QueueMax
    /\ wire \in [Attempts -> Seq(1 .. presses)]

LEMMA TypeParts == TypeOK <=> ThreadsTyped /\ QueueTyped
  BY DEF TypeOK, ThreadsTyped, QueueTyped

SessionOK == ThreadsTyped /\ Fresh /\ StatusHasOwner /\ OneBound

IInv == SessionOK /\ QueueTyped /\ QueueOK

LEMMA InitEstablishes == Init => IInv
  <1> SUFFICES ASSUME Init PROVE IInv
    OBVIOUS
  <1> USE DEF Init
  <1>1. ThreadsTyped
    <2>1. attempt \in 0 .. MaxAttempts
      BY BoundsAssumption DEF BoundsAssumption
    <2> QED  BY <2>1 DEF ThreadsTyped
  <1>2. Fresh /\ StatusHasOwner /\ OneBound
    BY DEF Fresh, StatusHasOwner, OneBound
  <1>3. QueueTyped
    BY BoundsAssumption DEF QueueTyped, BoundsAssumption
  <1>4. QueueOK
    BY DEF QueueOK, SentBefore, SentApart, InOrder, Increasing
  <1> QED  BY <1>1, <1>2, <1>3, <1>4 DEF IInv, SessionOK

-----------------------------------------------------------------------------
(* The steps that leave the queue alone.                                   *)

LEMMA QueueKept ==
    ASSUME QueueTyped, QueueOK, UNCHANGED <<messages, presses, wire>>
    PROVE  QueueTyped' /\ QueueOK'
  BY DEF QueueTyped, QueueOK, SentBefore, SentApart, InOrder, Increasing

LEMMA startConnectionKeeps ==
    ASSUME IInv, startConnection
    PROVE  IInv'
  <1> USE DEF IInv, SessionOK, startConnection, ui, udpVars
  <1>1. ThreadsTyped'
    <2>1. attempt' \in 0 .. MaxAttempts
      BY BoundsAssumption DEF ThreadsTyped, BoundsAssumption
    <2>2. udpSocket' \in [Attempts -> {"none", "bound", "null", "closed"}]
      BY DEF ThreadsTyped
    <2>3. /\ sender' \in [Attempts -> {"none", "on", "dead", "cancelled"}]
          /\ tcp' \in [Attempts -> {"none", "connecting", "status", "take", "post", "done"}]
          /\ listener' \in [Attempts -> {"none", "waiting", "reading", "nostream", "done"}]
      BY DEF ThreadsTyped
    <2> QED  BY <2>1, <2>2, <2>3 DEF ThreadsTyped
  <1>2. Fresh'
    BY DEF ThreadsTyped, Attempts, Fresh, Crash
  <1>3. StatusHasOwner'
    BY DEF ThreadsTyped, Fresh, StatusHasOwner, Crash
  <1>4. OneBound'
    BY DEF ThreadsTyped, OneBound, Crash
  <1>5. UNCHANGED <<messages, presses, wire>>
    BY DEF Crash
  <1> QED  BY <1>1, <1>2, <1>3, <1>4, <1>5, QueueKept

LEMMA closeConnectionsKeeps ==
    ASSUME IInv, connectionStatus, closeConnections
    PROVE  IInv'
  <1> USE DEF IInv, SessionOK, closeConnections, ui, udpVars
  <1>1. ThreadsTyped'
    <2>1. sender' \in [Attempts -> {"none", "on", "dead", "cancelled"}]
      BY DEF ThreadsTyped
    <2>2. CASE udpSocket[attempt] = "null"
      BY <2>1, <2>2 DEF ThreadsTyped, Crash
    <2>3. CASE udpSocket[attempt] # "null"
      <3>1. /\ udpSocket' = [udpSocket EXCEPT ![attempt] = "closed"]
            /\ interrupted' = [interrupted EXCEPT ![attempt] = TRUE]
            /\ UNCHANGED <<ui, tcp, open, listener, packetString>>
        BY <2>3
      <3>2. /\ udpSocket' \in [Attempts -> {"none", "bound", "null", "closed"}]
            /\ interrupted' \in [Attempts -> BOOLEAN]
        BY <3>1 DEF ThreadsTyped
      <3> QED  BY <2>1, <3>1, <3>2 DEF ThreadsTyped
    <2> QED  BY <2>2, <2>3
  <1>2. Fresh'
    <2> SUFFICES ASSUME NEW i \in Attempts, i > attempt'
                 PROVE  tcp'[i] = "none" /\ udpSocket'[i] = "none" /\ sender'[i] = "none"
      BY DEF Fresh
    <2>1. UNCHANGED <<attempt, tcp>> /\ i # attempt
      <3>1. UNCHANGED <<attempt, tcp>>
        BY DEF Crash
      <3> QED  BY <3>1 DEF ThreadsTyped, Attempts
    <2>2. udpSocket'[i] = udpSocket[i]
      BY <2>1 DEF ThreadsTyped, Crash
    <2>3. sender'[i] = sender[i]
      BY <2>1 DEF ThreadsTyped
    <2> QED  BY <2>1, <2>2, <2>3 DEF Fresh
  <1>3. StatusHasOwner'
    BY DEF ThreadsTyped, Fresh, StatusHasOwner, Crash
  <1>4. OneBound'
    BY DEF ThreadsTyped, OneBound, Crash
  <1>5. UNCHANGED <<messages, presses, wire>>
    BY DEF Crash
  <1> QED  BY <1>1, <1>2, <1>3, <1>4, <1>5, QueueKept

LEMMA setUDPPayloadKeeps ==
    ASSUME IInv, NEW axes \in Sticks, setUDPPayload(axes)
    PROVE  IInv'
  <1> USE DEF IInv, SessionOK, setUDPPayload, ui, udpVars
  <1>1. ThreadsTyped'
    BY DEF ThreadsTyped, Attempts, Crash
  <1>2. Fresh'
    BY DEF ThreadsTyped, Attempts, Fresh, Crash
  <1>3. StatusHasOwner'
    BY DEF ThreadsTyped, Fresh, StatusHasOwner, Crash
  <1>4. OneBound'
    BY DEF ThreadsTyped, OneBound, Crash
  <1>5. UNCHANGED <<messages, presses, wire>>
    BY DEF Crash
  <1> QED  BY <1>1, <1>2, <1>3, <1>4, <1>5, QueueKept

LEMMA onPostExecuteKeeps ==
    ASSUME IInv, NEW i \in Attempts, onPostExecute(i)
    PROVE  IInv'
  <1> USE DEF IInv, SessionOK, onPostExecute, ui, udpVars
  <1>1. ThreadsTyped'
    BY DEF ThreadsTyped, Attempts, Crash
  <1>2. Fresh'
    BY DEF ThreadsTyped, Attempts, Fresh, Crash
  <1>3. StatusHasOwner'
    BY DEF ThreadsTyped, Fresh, StatusHasOwner, Crash
  <1>4. OneBound'
    BY DEF ThreadsTyped, OneBound, Crash
  <1>5. UNCHANGED <<messages, presses, wire>>
    BY DEF Crash
  <1> QED  BY <1>1, <1>2, <1>3, <1>4, <1>5, QueueKept

LEMMA ConnectKeeps ==
    ASSUME IInv, NEW i \in Attempts, Connect(i)
    PROVE  IInv'
  <1> USE DEF IInv, SessionOK, Connect, ui, udpVars
  <1>1. ThreadsTyped'
    BY DEF ThreadsTyped, Attempts, Crash
  <1>2. Fresh'
    BY DEF ThreadsTyped, Attempts, Fresh, Crash
  <1>3. StatusHasOwner'
    BY DEF ThreadsTyped, Fresh, StatusHasOwner, Crash
  <1>4. OneBound'
    BY DEF ThreadsTyped, OneBound, Crash
  <1>5. UNCHANGED <<messages, presses, wire>>
    BY DEF Crash
  <1> QED  BY <1>1, <1>2, <1>3, <1>4, <1>5, QueueKept

LEMMA ConnectFailsKeeps ==
    ASSUME IInv, NEW i \in Attempts, ConnectFails(i)
    PROVE  IInv'
  <1> USE DEF IInv, SessionOK, ConnectFails, ui, udpVars
  <1>1. ThreadsTyped'
    BY DEF ThreadsTyped, Attempts, Crash
  <1>2. Fresh'
    BY DEF ThreadsTyped, Attempts, Fresh, Crash
  <1>3. StatusHasOwner'
    BY DEF ThreadsTyped, Fresh, StatusHasOwner, Crash
  <1>4. OneBound'
    BY DEF ThreadsTyped, OneBound, Crash
  <1>5. UNCHANGED <<messages, presses, wire>>
    BY DEF Crash
  <1> QED  BY <1>1, <1>2, <1>3, <1>4, <1>5, QueueKept

LEMMA SetStatusKeeps ==
    ASSUME IInv, NEW i \in Attempts, SetStatus(i)
    PROVE  IInv'
  <1> USE DEF IInv, SessionOK, SetStatus, ui, udpVars
  <1>1. ThreadsTyped'
    BY DEF ThreadsTyped, Attempts, Crash
  <1>2. Fresh'
    BY DEF ThreadsTyped, Attempts, Fresh, Crash
  <1>3. StatusHasOwner'
    BY DEF ThreadsTyped, Fresh, StatusHasOwner, Crash
  <1>4. OneBound'
    BY DEF ThreadsTyped, OneBound, Crash
  <1>5. UNCHANGED <<messages, presses, wire>>
    BY DEF Crash
  <1> QED  BY <1>1, <1>2, <1>3, <1>4, <1>5, QueueKept

LEMMA InterruptedKeeps ==
    ASSUME IInv, NEW i \in Attempts, Interrupted(i)
    PROVE  IInv'
  <1> USE DEF IInv, SessionOK, Interrupted, ui, udpVars
  <1>1. ThreadsTyped'
    BY DEF ThreadsTyped, Attempts, Crash
  <1>2. Fresh'
    BY DEF ThreadsTyped, Attempts, Fresh, Crash
  <1>3. StatusHasOwner'
    BY DEF ThreadsTyped, Fresh, StatusHasOwner, Crash
  <1>4. OneBound'
    BY DEF ThreadsTyped, OneBound, Crash
  <1>5. UNCHANGED <<messages, presses, wire>>
    BY DEF Crash
  <1> QED  BY <1>1, <1>2, <1>3, <1>4, <1>5, QueueKept

LEMMA GetStreamKeeps ==
    ASSUME IInv, NEW i \in Attempts, GetStream(i)
    PROVE  IInv'
  <1> USE DEF IInv, SessionOK, GetStream, ui, udpVars
  <1>1. ThreadsTyped'
    BY DEF ThreadsTyped, Attempts, Crash
  <1>2. Fresh'
    BY DEF ThreadsTyped, Attempts, Fresh, Crash
  <1>3. StatusHasOwner'
    BY DEF ThreadsTyped, Fresh, StatusHasOwner, Crash
  <1>4. OneBound'
    BY DEF ThreadsTyped, OneBound, Crash
  <1>5. UNCHANGED <<messages, presses, wire>>
    BY DEF Crash
  <1> QED  BY <1>1, <1>2, <1>3, <1>4, <1>5, QueueKept

LEMMA ListenerEndsKeeps ==
    ASSUME IInv, NEW i \in Attempts, ListenerEnds(i)
    PROVE  IInv'
  <1> USE DEF IInv, SessionOK, ListenerEnds, ui, udpVars
  <1>1. ThreadsTyped'
    BY DEF ThreadsTyped, Attempts, Crash
  <1>2. Fresh'
    BY DEF ThreadsTyped, Attempts, Fresh, Crash
  <1>3. StatusHasOwner'
    BY DEF ThreadsTyped, Fresh, StatusHasOwner, Crash
  <1>4. OneBound'
    BY DEF ThreadsTyped, OneBound, Crash
  <1>5. UNCHANGED <<messages, presses, wire>>
    BY DEF Crash
  <1> QED  BY <1>1, <1>2, <1>3, <1>4, <1>5, QueueKept

LEMMA ReadNothingKeeps ==
    ASSUME IInv, NEW i \in Attempts, ReadNothing(i)
    PROVE  IInv'
  <1> USE DEF IInv, SessionOK, ReadNothing, ui, udpVars
  <1>1. ThreadsTyped'
    BY DEF ThreadsTyped, Attempts, Crash
  <1>2. Fresh'
    BY DEF ThreadsTyped, Attempts, Fresh, Crash
  <1>3. StatusHasOwner'
    BY DEF ThreadsTyped, Fresh, StatusHasOwner, Crash
  <1>4. OneBound'
    BY DEF ThreadsTyped, OneBound, Crash
  <1>5. UNCHANGED <<messages, presses, wire>>
    BY DEF Crash
  <1> QED  BY <1>1, <1>2, <1>3, <1>4, <1>5, QueueKept

LEMMA SenderDiesKeeps ==
    ASSUME IInv, NEW i \in Attempts, SenderDies(i)
    PROVE  IInv'
  <1> USE DEF IInv, SessionOK, SenderDies, ui, udpVars
  <1>1. ThreadsTyped'
    BY DEF ThreadsTyped, Attempts, Crash
  <1>2. Fresh'
    BY DEF ThreadsTyped, Attempts, Fresh, Crash
  <1>3. StatusHasOwner'
    BY DEF ThreadsTyped, Fresh, StatusHasOwner, Crash
  <1>4. OneBound'
    BY DEF ThreadsTyped, OneBound, Crash
  <1>5. UNCHANGED <<messages, presses, wire>>
    BY DEF Crash
  <1> QED  BY <1>1, <1>2, <1>3, <1>4, <1>5, QueueKept

-----------------------------------------------------------------------------
(* The two steps of the queue.                                             *)

\* What a sequence of presses holds is still a press after the next one.
LEMMA PressesGrow ==
    ASSUME NEW n \in Nat, NEW s \in Seq(1 .. n)
    PROVE  s \in Seq(1 .. n + 1)
  <1>1. 1 .. n \subseteq 1 .. n + 1
    OBVIOUS
  <1> QED  BY <1>1, SeqMonotonic

LEMMA addTCPPacketKeeps ==
    ASSUME IInv, addTCPPacket
    PROVE  IInv'
  <1> USE DEF IInv, addTCPPacket, udpVars
  <1>1. SessionOK'
    BY DEF SessionOK, ThreadsTyped, Fresh, StatusHasOwner, OneBound
  <1>2. /\ presses \in Nat /\ presses' = presses + 1 /\ presses' \in 0 .. PressMax
        /\ messages \in Seq(1 .. presses) /\ Len(messages) <= QueueMax
        /\ wire \in [Attempts -> Seq(1 .. presses)] /\ wire' = wire
    BY BoundsAssumption DEF QueueTyped, BoundsAssumption
  <1>3. messages \in Seq(1 .. presses')
    BY <1>2, PressesGrow
  <1>4. wire' \in [Attempts -> Seq(1 .. presses')]
    BY <1>2, PressesGrow
  <1>5. CASE messages' = messages
    BY <1>1, <1>2, <1>3, <1>4, <1>5
       DEF QueueTyped, QueueOK, SentBefore, SentApart, InOrder, Increasing
  <1>6. CASE messages' = Append(messages, presses') /\ Len(messages) < QueueMax
    <2>1. /\ messages' \in Seq(1 .. presses')
          /\ Len(messages') = Len(messages) + 1 /\ Len(messages) \in Nat
          /\ \A k \in 1 .. Len(messages) : messages'[k] = messages[k]
          /\ messages'[Len(messages) + 1] = presses'
      BY <1>2, <1>3, <1>6, AppendProperties, LenProperties
    <2>2. QueueTyped'
      BY <1>2, <1>4, <1>6, <2>1, BoundsAssumption DEF QueueTyped, BoundsAssumption
    <2>3. \A k \in 1 .. Len(messages) : messages[k] \in 1 .. presses
      BY <1>2, ElementOfSeq
    <2>4. \A i \in Attempts : \A k \in 1 .. Len(wire[i]) : wire[i][k] \in 1 .. presses
      BY <1>2, ElementOfSeq
    <2>5. SentBefore'
      BY <1>2, <2>1, <2>4 DEF QueueOK, SentBefore
    <2>6. SentApart'
      BY <1>2 DEF QueueOK, SentApart
    <2>7. InOrder'
      BY <1>2, <2>1, <2>3 DEF QueueOK, InOrder, Increasing
    <2> QED  BY <1>1, <2>2, <2>5, <2>6, <2>7 DEF QueueOK
  <1> QED  BY <1>5, <1>6

LEMMA TakeKeeps ==
    ASSUME IInv, NEW i \in Attempts, Take(i)
    PROVE  IInv'
  <1> USE DEF IInv, Take, udpVars
  <1>1. SessionOK'
    BY DEF SessionOK, ThreadsTyped, Fresh, StatusHasOwner, OneBound
  <1>2. /\ presses \in Nat /\ presses' = presses /\ presses \in 0 .. PressMax
        /\ messages \in Seq(1 .. presses) /\ Len(messages) <= QueueMax
        /\ wire \in [Attempts -> Seq(1 .. presses)]
        /\ wire[i] \in Seq(1 .. presses)
    BY BoundsAssumption DEF QueueTyped, BoundsAssumption
  <1>3. /\ messages' \in Seq(1 .. presses)
        /\ Len(messages') = Len(messages) - 1 /\ Len(messages) \in Nat \ {0}
        /\ \A k \in 1 .. Len(messages') : messages'[k] = messages[k + 1]
        /\ Head(messages) = messages[1] /\ Head(messages) \in 1 .. presses
    BY <1>2, HeadTailProperties, EmptySeq, LenProperties
  <1>4. /\ wire'[i] = Append(wire[i], messages[1])
        /\ \A j \in Attempts \ {i} : wire'[j] = wire[j]
    BY <1>2, <1>3
  <1>5. /\ wire'[i] \in Seq(1 .. presses)
        /\ Len(wire'[i]) = Len(wire[i]) + 1 /\ Len(wire[i]) \in Nat
        /\ \A k \in 1 .. Len(wire[i]) : wire'[i][k] = wire[i][k]
        /\ wire'[i][Len(wire[i]) + 1] = messages[1]
    BY <1>2, <1>3, <1>4, AppendProperties, LenProperties
  <1>6. QueueTyped'
    BY <1>2, <1>3, <1>4, <1>5, BoundsAssumption DEF QueueTyped, BoundsAssumption
  <1>7. \A k \in 1 .. Len(messages) : messages[k] \in Nat
    BY <1>2, ElementOfSeq
  <1>8. \A j \in Attempts : \A k \in 1 .. Len(wire[j]) : wire[j][k] \in Nat
    BY <1>2, ElementOfSeq
  <1>9. SentBefore'
    <2> SUFFICES ASSUME NEW j \in Attempts, NEW k \in 1 .. Len(wire'[j]),
                        NEW l \in 1 .. Len(messages')
                 PROVE  wire'[j][k] < messages'[l]
      BY DEF SentBefore
    <2>1. l + 1 \in 1 .. Len(messages) /\ 1 < l + 1 /\ messages'[l] = messages[l + 1]
      BY <1>3
    <2>2. CASE k = Len(wire[i]) + 1 /\ j = i
      BY <1>3, <1>5, <2>1, <2>2 DEF QueueOK, InOrder, Increasing
    <2>3. CASE ~(k = Len(wire[i]) + 1 /\ j = i)
      <3>1. k \in 1 .. Len(wire[j]) /\ wire'[j][k] = wire[j][k]
        BY <1>4, <1>5, <2>3
      <3> QED  BY <3>1, <2>1 DEF QueueOK, SentBefore
    <2> QED  BY <2>2, <2>3
  <1>10. SentApart'
    <2>1. \A j \in Attempts \ {i} : \A k \in 1 .. Len(wire[j]) : wire[j][k] # messages[1]
      BY <1>3, <1>7, <1>8 DEF QueueOK, SentBefore
    <2> SUFFICES ASSUME NEW j \in Attempts \ {i}, NEW k \in 1 .. Len(wire[j]),
                        NEW l \in 1 .. Len(wire'[i])
                 PROVE  wire[j][k] # wire'[i][l]
      <3>1. \A a, b \in Attempts \ {i} :
                \A k \in 1 .. Len(wire'[a]), l \in 1 .. Len(wire'[b]) :
                    a # b => wire'[a][k] # wire'[b][l]
        BY <1>4 DEF QueueOK, SentApart
      <3> QED  BY <3>1, <1>4 DEF SentApart
    <2>2. CASE l = Len(wire[i]) + 1
      BY <1>5, <2>1, <2>2
    <2>3. CASE l \in 1 .. Len(wire[i])
      BY <1>5, <2>3 DEF QueueOK, SentApart
    <2> QED  BY <1>5, <2>2, <2>3
  <1>11. InOrder'
    <2>1. Increasing(messages')
      BY <1>3 DEF QueueOK, InOrder, Increasing
    <2>2. Increasing(wire'[i])
      BY <1>3, <1>5, <1>8 DEF QueueOK, InOrder, Increasing, SentBefore
    <2> QED  BY <2>1, <2>2, <1>4 DEF QueueOK, InOrder
  <1> QED  BY <1>1, <1>6, <1>9, <1>10, <1>11 DEF QueueOK

-----------------------------------------------------------------------------
LEMMA Invariance == Spec => []IInv
  <1>1. IInv /\ [Next]_vars => IInv'
    <2> SUFFICES ASSUME IInv, [Next]_vars PROVE IInv'
      OBVIOUS
    <2>1. CASE Ui
      <3>1. CASE PressConnect
        BY <3>1, startConnectionKeeps, closeConnectionsKeeps DEF PressConnect
      <3>2. CASE addTCPPacket
        BY <3>2, addTCPPacketKeeps
      <3>3. CASE \E axes \in Sticks : setUDPPayload(axes)
        BY <3>3, setUDPPayloadKeeps
      <3>4. CASE \E i \in Attempts : onPostExecute(i)
        BY <3>4, onPostExecuteKeeps
      <3> QED  BY <2>1, <3>1, <3>2, <3>3, <3>4 DEF Ui
    <2>2. ASSUME NEW i \in Attempts, TCPClient(i) PROVE IInv'
      BY <2>2, ConnectKeeps, ConnectFailsKeeps, SetStatusKeeps, TakeKeeps, InterruptedKeeps
         DEF TCPClient
    <2>3. ASSUME NEW i \in Attempts, TCPListener(i) PROVE IInv'
      BY <2>3, GetStreamKeeps, ListenerEndsKeeps, ReadNothingKeeps DEF TCPListener
    <2>4. ASSUME NEW i \in Attempts, SenderDies(i) PROVE IInv'
      BY <2>4, SenderDiesKeeps
    <2>5. CASE UNCHANGED vars
      <3>1. SessionOK'
        BY <2>5 DEF vars, ui, udpVars, IInv, SessionOK, ThreadsTyped, Fresh, StatusHasOwner,
                    OneBound
      <3>2. UNCHANGED <<messages, presses, wire>>
        BY <2>5 DEF vars, ui
      <3> QED  BY <3>1, <3>2, QueueKept DEF IInv
    <2> QED  BY <2>1, <2>2, <2>3, <2>4, <2>5 DEF Next
  <1> QED  BY <1>1, InitEstablishes, PTL DEF Spec

-----------------------------------------------------------------------------
\* Every variable of the remote keeps its type.
THEOREM TypeCorrect == Spec => []TypeOK
  <1>1. IInv => TypeOK
    BY TypeParts DEF IInv, SessionOK
  <1> QED  BY <1>1, Invariance, PTL

\* A command is sent at most once, on one connection, in the order of the presses:
\* take() of the shared queue hands each message to one TCPClient.
THEOREM CommandsOnce == Spec => []CommandsSentOnce
  <1>1. IInv => CommandsSentOnce
    BY DEF IInv, QueueOK, QueueTyped, SentBefore, SentApart, InOrder, CommandsSentOnce, Holds
  <1> QED  BY <1>1, Invariance, PTL

\* connectionStatus is on only while a TCPClient that will clear it is there.
THEOREM StatusOwned == Spec => []StatusHasOwner
  <1>1. IInv => StatusHasOwner
    BY DEF IInv, SessionOK
  <1> QED  BY <1>1, Invariance, PTL

\* The fixed port lets one UDPClient send at a time.
THEOREM AtMostOneSender == Spec => []OneSender
  <1>1. IInv => OneSender
    BY DEF IInv, SessionOK, OneBound, OneSender, Sending
  <1> QED  BY <1>1, Invariance, PTL
=============================================================================
