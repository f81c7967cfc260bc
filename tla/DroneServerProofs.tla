------------------------- MODULE DroneServerProofs -------------------------
(***************************************************************************)
(* Proofs about DroneServer for every set of clients and channels, every   *)
(* order in which the channels are walked and every bound on the queues.   *)
(***************************************************************************)
EXTENDS DroneServer, TLAPS

\* The program counters of the worker threads against that of the main thread: a
\* worker exists exactly from its pthread_create to its pthread_join.
ThreadsJoined ==
    /\ tcp = "off" <=> main \in {"accept", "spawn_tcp", "join_udp", "join_ppm"}
    /\ udp = "off" <=> main \in {"accept", "spawn_tcp", "spawn_udp", "join_ppm"}
    /\ ppm = "off" <=> main \in {"accept", "spawn_tcp", "spawn_udp", "spawn_ppm"}
    /\ main # "exit"

\* The slot is taken from the accept until the TCP thread gives it back.
SlotCounted ==
    connection_count =
        IF main \in {"accept", "join_udp", "join_ppm"} \/ tcp = "done" THEN 0 ELSE 1

\* `connected` is cleared by the TCP thread on its way out, and by nothing else.
ConnectedTold ==
    /\ main # "accept" => remote_fd_tcp \in Clients
    /\ main # "accept" =>
           (connected <=> \/ main = "spawn_tcp"
                          \/ tcp \in {"peek", "recv", "state_init", "write", "end_connected"})

\* Who may act on the strength of an ARM: the client being served sent it.
ArmedHere ==
    /\ ARMED => armedHere
    /\ ARMED => tcp \in {"peek", "recv", "state_init", "write", "end_connected", "end_armed"}
    /\ tcp = "state_init" => armedHere
    /\ udp = "store" => armedHere
    /\ ppm \in {"copy", "update"} => armedHere

\* A frame under construction was begun while armed, or is the first after a disarm.
FrameLicensed ==
    /\ late <= 1
    /\ ppm \in {"copy", "update"} => ARMED \/ late = 0

IInv == TypeOK /\ ThreadsJoined /\ SlotCounted /\ ConnectedTold /\ ArmedHere /\ FrameLicensed

-----------------------------------------------------------------------------
USE DEF MAX_PEER, MIN_CTRL

LEMMA InitEstablishes == Init => IInv
<1> SUFFICES ASSUME Init PROVE IInv
    OBVIOUS
<1>1. EnvironmentOK
    BY DEF Init, EnvironmentOK
<1>2. GlobalsOK
  <2>1. axes \in [Channels -> Nat] /\ widths \in [Channels -> Nat]
      BY DEF Init
  <2>2. connection_count \in 0 .. MAX_PEER
      BY DEF Init
  <2>3. connected \in BOOLEAN /\ ARMED \in BOOLEAN /\ remote_fd_tcp = NoClient
      BY DEF Init
  <2> QED
      BY <2>1, <2>2, <2>3 DEF GlobalsOK
<1>3. ThreadsOK
  <2>1. 1 \in 1 .. Len(InitOrder) /\ 1 \in 1 .. Len(ParamOrder) /\ 1 \in 1 .. Len(WidthOrder)
      BY ChannelsAssumption
  <2>2. main \in MainPc /\ tcp \in TcpPc /\ udp \in UdpPc /\ ppm \in PpmPc
      BY DEF Init, MainPc, TcpPc, UdpPc, PpmPc
  <2>3. initIdx \in 1 .. Len(InitOrder) /\ paramIdx \in 1 .. Len(ParamOrder)
        /\ widthIdx \in 1 .. Len(WidthOrder)
      BY <2>1 DEF Init
  <2>4. udp = "off" /\ packet = NoPacket
      BY DEF Init
  <2>5. armedHere \in BOOLEAN
      BY DEF Init
  <2>6. late \in 0 .. 2
      BY DEF Init
  <2> QED
      BY <2>2, <2>3, <2>4, <2>5, <2>6 DEF ThreadsOK
<1>4. ThreadsJoined /\ SlotCounted /\ ConnectedTold /\ ArmedHere /\ FrameLicensed
    BY DEF Init, ThreadsJoined, SlotCounted, ConnectedTold, ArmedHere, FrameLicensed
<1> QED
    BY <1>1, <1>2, <1>3, <1>4 DEF IInv, TypeOK

LEMMA EnvironmentKeeps == IInv /\ Environment => IInv'
<1> SUFFICES ASSUME IInv, Environment PROVE IInv'
    OBVIOUS
<1> USE DEF IInv, TypeOK
<1>1. EnvironmentOK'
  <2>1. ASSUME NEW c \in Clients, Connect(c) PROVE EnvironmentOK'
      BY <2>1 DEF Connect, EnvironmentOK
  <2>2. ASSUME NEW c \in Clients, CloseConnection(c) PROVE EnvironmentOK'
      BY <2>2 DEF CloseConnection, EnvironmentOK
  <2>3. ASSUME NEW c \in Clients, ReadReport(c) PROVE EnvironmentOK'
      BY <2>3 DEF ReadReport, EnvironmentOK
  <2>4. ASSUME NEW c \in Clients, NEW command \in Commands, SendCommand(c, command)
        PROVE  EnvironmentOK'
      BY <2>4 DEF SendCommand, EnvironmentOK
  <2>5. ASSUME NEW datagram \in Packets \cup {NoPacket}, ArriveDatagram(datagram)
        PROVE  EnvironmentOK'
      BY <2>5 DEF ArriveDatagram, EnvironmentOK
  <2> QED
      BY <2>1, <2>2, <2>3, <2>4, <2>5 DEF Environment
<1>2. UNCHANGED <<globals, main, tcpVars, udpVars, ppmVars, history>>
    BY DEF Environment
<1>3. GlobalsOK' /\ ThreadsOK'
    BY <1>2 DEF GlobalsOK, ThreadsOK, globals, tcpVars, udpVars, ppmVars, history
<1>4. (ThreadsJoined /\ SlotCounted /\ ConnectedTold /\ ArmedHere /\ FrameLicensed)'
    BY <1>2 DEF ThreadsJoined, SlotCounted, ConnectedTold, ArmedHere, FrameLicensed,
        globals, tcpVars, udpVars, ppmVars, history
<1> QED
    BY <1>1, <1>3, <1>4

LEMMA MainKeeps == IInv /\ Main => IInv'
<1> SUFFICES ASSUME IInv, Main PROVE IInv'
    OBVIOUS
<1> USE DEF IInv, TypeOK, environment, globals, tcpVars, udpVars, ppmVars, history
<1>1. CASE Accept
  <2> USE <1>1 DEF Accept
  <2>1. EnvironmentOK'
      BY DEF EnvironmentOK
  <2>2. GlobalsOK'
      BY DEF GlobalsOK, EnvironmentOK, SlotCounted
  <2>3. ThreadsOK'
      BY DEF ThreadsOK, MainPc, TcpPc, UdpPc, PpmPc
  <2>4. (ThreadsJoined /\ SlotCounted /\ ConnectedTold)'
      BY DEF ThreadsJoined, SlotCounted, ConnectedTold, ArmedHere, EnvironmentOK, GlobalsOK
  <2>5. (ArmedHere /\ FrameLicensed)'
      BY DEF ArmedHere, FrameLicensed, ThreadsJoined
  <2> QED
      BY <2>1, <2>2, <2>3, <2>4, <2>5
<1>2. CASE CreateTcpThread
  <2> USE <1>2 DEF CreateTcpThread
  <2>1. EnvironmentOK'
      BY DEF EnvironmentOK
  <2>2. GlobalsOK'
      BY DEF GlobalsOK
  <2>3. ThreadsOK'
      BY DEF ThreadsOK, MainPc, TcpPc, UdpPc, PpmPc
  <2>4. (ThreadsJoined /\ SlotCounted /\ ConnectedTold)'
      BY DEF ThreadsJoined, SlotCounted, ConnectedTold
  <2>5. (ArmedHere /\ FrameLicensed)'
      BY DEF ArmedHere, FrameLicensed, ThreadsJoined
  <2> QED
      BY <2>1, <2>2, <2>3, <2>4, <2>5
<1>3. CASE CreateUdpThread
  <2> USE <1>3 DEF CreateUdpThread
  <2>1. EnvironmentOK'
      BY DEF EnvironmentOK
  <2>2. GlobalsOK'
      BY DEF GlobalsOK
  <2>3. ThreadsOK'
      BY DEF ThreadsOK, MainPc, TcpPc, UdpPc, PpmPc
  <2>4. (ThreadsJoined /\ SlotCounted /\ ConnectedTold)'
      BY DEF ThreadsJoined, SlotCounted, ConnectedTold
  <2>5. (ArmedHere /\ FrameLicensed)'
      BY DEF ArmedHere, FrameLicensed, ThreadsJoined
  <2> QED
      BY <2>1, <2>2, <2>3, <2>4, <2>5
<1>4. CASE CreatePpmThread
  <2> USE <1>4 DEF CreatePpmThread
  <2>1. EnvironmentOK'
      BY DEF EnvironmentOK
  <2>2. GlobalsOK'
      BY DEF GlobalsOK
  <2>3. ThreadsOK'
      BY DEF ThreadsOK, MainPc, TcpPc, UdpPc, PpmPc
  <2>4. (ThreadsJoined /\ SlotCounted /\ ConnectedTold)'
      BY DEF ThreadsJoined, SlotCounted, ConnectedTold
  <2>5. (ArmedHere /\ FrameLicensed)'
      BY DEF ArmedHere, FrameLicensed, ThreadsJoined
  <2> QED
      BY <2>1, <2>2, <2>3, <2>4, <2>5
<1>5. CASE JoinTcpThread
  <2> USE <1>5 DEF JoinTcpThread
  <2>1. EnvironmentOK'
      BY DEF EnvironmentOK
  <2>2. GlobalsOK'
      BY DEF GlobalsOK
  <2>3. ThreadsOK'
      BY DEF ThreadsOK, MainPc, TcpPc, UdpPc, PpmPc
  <2>4. (ThreadsJoined /\ SlotCounted /\ ConnectedTold)'
      BY DEF ThreadsJoined, SlotCounted, ConnectedTold
  <2>5. (ArmedHere /\ FrameLicensed)'
      BY DEF ArmedHere, FrameLicensed, ThreadsJoined
  <2> QED
      BY <2>1, <2>2, <2>3, <2>4, <2>5
<1>6. CASE JoinUdpThread
  <2> USE <1>6 DEF JoinUdpThread
  <2>1. EnvironmentOK'
      BY DEF EnvironmentOK
  <2>2. GlobalsOK'
      BY DEF GlobalsOK
  <2>3. ThreadsOK'
      BY DEF ThreadsOK, MainPc, TcpPc, UdpPc, PpmPc
  <2>4. (ThreadsJoined /\ SlotCounted /\ ConnectedTold)'
      BY DEF ThreadsJoined, SlotCounted, ConnectedTold
  <2>5. (ArmedHere /\ FrameLicensed)'
      BY DEF ArmedHere, FrameLicensed, ThreadsJoined
  <2> QED
      BY <2>1, <2>2, <2>3, <2>4, <2>5
<1>7. CASE JoinPpmThread
  <2> USE <1>7 DEF JoinPpmThread
  <2>1. EnvironmentOK'
      BY DEF EnvironmentOK
  <2>2. GlobalsOK'
      BY DEF GlobalsOK
  <2>3. ThreadsOK'
      BY DEF ThreadsOK, MainPc, TcpPc, UdpPc, PpmPc, GlobalsOK, EnvironmentOK, FrameLicensed
  <2>4. (ThreadsJoined /\ SlotCounted /\ ConnectedTold)'
      BY DEF ThreadsJoined, SlotCounted, ConnectedTold, GlobalsOK
  <2>5. (ArmedHere /\ FrameLicensed)'
      BY DEF ArmedHere, FrameLicensed, ThreadsJoined
  <2> QED
      BY <2>1, <2>2, <2>3, <2>4, <2>5
<1> QED
    BY <1>1, <1>2, <1>3, <1>4, <1>5, <1>6, <1>7 DEF Main

LEMMA TcpThreadKeeps == IInv /\ TcpThread => IInv'
<1> SUFFICES ASSUME IInv, TcpThread PROVE IInv'
    OBVIOUS
<1> USE DEF IInv, TypeOK, environment, globals, tcpVars, udpVars, ppmVars, history
<1>1. CASE Peek
  <2> USE <1>1 DEF Peek
  <2>1. EnvironmentOK'
      BY DEF EnvironmentOK
  <2>2. GlobalsOK'
      BY DEF GlobalsOK
  <2>3. ThreadsOK'
      BY DEF ThreadsOK, MainPc, TcpPc, UdpPc, PpmPc
  <2>4. (ThreadsJoined /\ SlotCounted /\ ConnectedTold)'
      BY DEF ThreadsJoined, SlotCounted, ConnectedTold
  <2>5. (ArmedHere /\ FrameLicensed)'
      BY DEF ArmedHere, FrameLicensed, ThreadsJoined
  <2> QED
      BY <2>1, <2>2, <2>3, <2>4, <2>5
<1>2. CASE RecvEof
  <2> USE <1>2 DEF RecvEof
  <2>1. EnvironmentOK'
      BY DEF EnvironmentOK
  <2>2. GlobalsOK'
      BY DEF GlobalsOK
  <2>3. ThreadsOK'
      BY DEF ThreadsOK, MainPc, TcpPc, UdpPc, PpmPc
  <2>4. (ThreadsJoined /\ SlotCounted /\ ConnectedTold)'
      BY DEF ThreadsJoined, SlotCounted, ConnectedTold
  <2>5. (ArmedHere /\ FrameLicensed)'
      BY DEF ArmedHere, FrameLicensed, ThreadsJoined
  <2> QED
      BY <2>1, <2>2, <2>3, <2>4, <2>5
<1>3. CASE action_arm
  <2> USE <1>3 DEF action_arm, Recv
  <2>1. EnvironmentOK'
      BY DEF EnvironmentOK, GlobalsOK, ConnectedTold, ThreadsJoined
  <2>2. GlobalsOK'
      BY DEF GlobalsOK
  <2>3. ThreadsOK'
      BY DEF ThreadsOK, MainPc, TcpPc, UdpPc, PpmPc
  <2>4. (ThreadsJoined /\ SlotCounted /\ ConnectedTold)'
      BY DEF ThreadsJoined, SlotCounted, ConnectedTold
  <2>5. (ArmedHere /\ FrameLicensed)'
      BY DEF ArmedHere, FrameLicensed, ThreadsJoined
  <2> QED
      BY <2>1, <2>2, <2>3, <2>4, <2>5
<1>4. CASE state_init
  <2> USE <1>4 DEF state_init
  <2>1. EnvironmentOK'
      BY DEF EnvironmentOK
  <2>2. GlobalsOK'
      BY ChannelsAssumption, ValuesAssumption DEF GlobalsOK, ThreadsOK
  <2>3. ThreadsOK'
      BY ChannelsAssumption DEF ThreadsOK, MainPc, TcpPc, UdpPc, PpmPc
  <2>4. (ThreadsJoined /\ SlotCounted /\ ConnectedTold)'
      BY DEF ThreadsJoined, SlotCounted, ConnectedTold
  <2>5. (ArmedHere /\ FrameLicensed)'
      BY DEF ArmedHere, FrameLicensed, ThreadsJoined
  <2> QED
      BY <2>1, <2>2, <2>3, <2>4, <2>5
<1>5. CASE action_disarm
  <2> USE <1>5 DEF action_disarm, Recv
  <2>1. EnvironmentOK'
      BY DEF EnvironmentOK, GlobalsOK, ConnectedTold, ThreadsJoined
  <2>2. GlobalsOK'
      BY DEF GlobalsOK
  <2>3. ThreadsOK'
      BY DEF ThreadsOK, MainPc, TcpPc, UdpPc, PpmPc
  <2>4. (ThreadsJoined /\ SlotCounted /\ ConnectedTold)'
      BY DEF ThreadsJoined, SlotCounted, ConnectedTold
  <2>5. (ArmedHere /\ FrameLicensed)'
      BY DEF ArmedHere, FrameLicensed, ThreadsJoined
  <2> QED
      BY <2>1, <2>2, <2>3, <2>4, <2>5
<1>6. CASE action_land
  <2> USE <1>6 DEF action_land, Recv
  <2>1. EnvironmentOK'
      BY DEF EnvironmentOK, GlobalsOK, ConnectedTold, ThreadsJoined
  <2>2. GlobalsOK'
      BY DEF GlobalsOK
  <2>3. ThreadsOK'
      BY DEF ThreadsOK, MainPc, TcpPc, UdpPc, PpmPc
  <2>4. (ThreadsJoined /\ SlotCounted /\ ConnectedTold)'
      BY DEF ThreadsJoined, SlotCounted, ConnectedTold
  <2>5. (ArmedHere /\ FrameLicensed)'
      BY DEF ArmedHere, FrameLicensed, ThreadsJoined
  <2> QED
      BY <2>1, <2>2, <2>3, <2>4, <2>5
<1>7. CASE IgnoreCommand
  <2> USE <1>7 DEF IgnoreCommand, Recv
  <2>1. EnvironmentOK'
      BY DEF EnvironmentOK, GlobalsOK, ConnectedTold, ThreadsJoined
  <2>2. GlobalsOK'
      BY DEF GlobalsOK
  <2>3. ThreadsOK'
      BY DEF ThreadsOK, MainPc, TcpPc, UdpPc, PpmPc
  <2>4. (ThreadsJoined /\ SlotCounted /\ ConnectedTold)'
      BY DEF ThreadsJoined, SlotCounted, ConnectedTold
  <2>5. (ArmedHere /\ FrameLicensed)'
      BY DEF ArmedHere, FrameLicensed, ThreadsJoined
  <2> QED
      BY <2>1, <2>2, <2>3, <2>4, <2>5
<1>8. CASE ClearConnected
  <2> USE <1>8 DEF ClearConnected
  <2>1. EnvironmentOK'
      BY DEF EnvironmentOK
  <2>2. GlobalsOK'
      BY DEF GlobalsOK
  <2>3. ThreadsOK'
      BY DEF ThreadsOK, MainPc, TcpPc, UdpPc, PpmPc
  <2>4. (ThreadsJoined /\ SlotCounted /\ ConnectedTold)'
      BY DEF ThreadsJoined, SlotCounted, ConnectedTold
  <2>5. (ArmedHere /\ FrameLicensed)'
      BY DEF ArmedHere, FrameLicensed, ThreadsJoined
  <2> QED
      BY <2>1, <2>2, <2>3, <2>4, <2>5
<1>9. CASE ClearArmed
  <2> USE <1>9 DEF ClearArmed
  <2>1. EnvironmentOK'
      BY DEF EnvironmentOK
  <2>2. GlobalsOK'
      BY DEF GlobalsOK
  <2>3. ThreadsOK'
      BY DEF ThreadsOK, MainPc, TcpPc, UdpPc, PpmPc
  <2>4. (ThreadsJoined /\ SlotCounted /\ ConnectedTold)'
      BY DEF ThreadsJoined, SlotCounted, ConnectedTold
  <2>5. (ArmedHere /\ FrameLicensed)'
      BY DEF ArmedHere, FrameLicensed, ThreadsJoined
  <2> QED
      BY <2>1, <2>2, <2>3, <2>4, <2>5
<1>10. CASE DecrementCount
  <2> USE <1>10 DEF DecrementCount
  <2>1. EnvironmentOK'
      BY DEF EnvironmentOK, GlobalsOK, ConnectedTold, ThreadsJoined
  <2>2. GlobalsOK'
      BY DEF GlobalsOK, SlotCounted, ThreadsJoined
  <2>3. ThreadsOK'
      BY DEF ThreadsOK, MainPc, TcpPc, UdpPc, PpmPc
  <2>4. (ThreadsJoined /\ SlotCounted /\ ConnectedTold)'
      BY DEF ThreadsJoined, SlotCounted, ConnectedTold, GlobalsOK
  <2>5. (ArmedHere /\ FrameLicensed)'
      BY DEF ArmedHere, FrameLicensed, ThreadsJoined
  <2> QED
      BY <2>1, <2>2, <2>3, <2>4, <2>5
<1>11. CASE send_tcp_packet
  <2> USE <1>11 DEF send_tcp_packet
  <2>1. EnvironmentOK'
      BY DEF EnvironmentOK, GlobalsOK, ConnectedTold, ThreadsJoined
  <2>2. GlobalsOK'
      BY DEF GlobalsOK
  <2>3. ThreadsOK'
      BY DEF ThreadsOK, MainPc, TcpPc, UdpPc, PpmPc
  <2>4. (ThreadsJoined /\ SlotCounted /\ ConnectedTold)'
      BY DEF ThreadsJoined, SlotCounted, ConnectedTold
  <2>5. (ArmedHere /\ FrameLicensed)'
      BY DEF ArmedHere, FrameLicensed, ThreadsJoined
  <2> QED
      BY <2>1, <2>2, <2>3, <2>4, <2>5
<1> QED
    BY <1>1, <1>2, <1>3, <1>4, <1>5, <1>6, <1>7, <1>8, <1>9, <1>10, <1>11 DEF TcpThread

LEMMA UdpThreadKeeps == IInv /\ UdpThread => IInv'
<1> SUFFICES ASSUME IInv, UdpThread PROVE IInv'
    OBVIOUS
<1> USE DEF IInv, TypeOK, environment, globals, tcpVars, udpVars, ppmVars, history
<1>1. CASE WhileConnected
  <2> USE <1>1 DEF WhileConnected
  <2>1. EnvironmentOK'
      BY DEF EnvironmentOK
  <2>2. GlobalsOK'
      BY DEF GlobalsOK
  <2>3. ThreadsOK'
      BY DEF ThreadsOK, MainPc, TcpPc, UdpPc, PpmPc
  <2>4. (ThreadsJoined /\ SlotCounted /\ ConnectedTold)'
      BY DEF ThreadsJoined, SlotCounted, ConnectedTold
  <2>5. (ArmedHere /\ FrameLicensed)'
      BY DEF ArmedHere, FrameLicensed, ThreadsJoined
  <2> QED
      BY <2>1, <2>2, <2>3, <2>4, <2>5
<1>2. CASE RecvFrom
  <2> USE <1>2 DEF RecvFrom
  <2>1. EnvironmentOK'
      BY DEF EnvironmentOK
  <2>2. GlobalsOK'
      BY DEF GlobalsOK
  <2>3. ThreadsOK'
      BY DEF ThreadsOK, MainPc, TcpPc, UdpPc, PpmPc, GlobalsOK, EnvironmentOK, FrameLicensed
  <2>4. (ThreadsJoined /\ SlotCounted /\ ConnectedTold)'
      BY DEF ThreadsJoined, SlotCounted, ConnectedTold
  <2>5. (ArmedHere /\ FrameLicensed)'
      BY DEF ArmedHere, FrameLicensed, ThreadsJoined
  <2> QED
      BY <2>1, <2>2, <2>3, <2>4, <2>5
<1>3. CASE RecvTimeout
  <2> USE <1>3 DEF RecvTimeout
  <2>1. EnvironmentOK'
      BY DEF EnvironmentOK
  <2>2. GlobalsOK'
      BY DEF GlobalsOK
  <2>3. ThreadsOK'
      BY DEF ThreadsOK, MainPc, TcpPc, UdpPc, PpmPc
  <2>4. (ThreadsJoined /\ SlotCounted /\ ConnectedTold)'
      BY DEF ThreadsJoined, SlotCounted, ConnectedTold
  <2>5. (ArmedHere /\ FrameLicensed)'
      BY DEF ArmedHere, FrameLicensed, ThreadsJoined
  <2> QED
      BY <2>1, <2>2, <2>3, <2>4, <2>5
<1>4. CASE state_is_armed
  <2> USE <1>4 DEF state_is_armed
  <2>1. EnvironmentOK'
      BY DEF EnvironmentOK
  <2>2. GlobalsOK'
      BY DEF GlobalsOK
  <2>3. ThreadsOK'
      BY DEF ThreadsOK, MainPc, TcpPc, UdpPc, PpmPc
  <2>4. (ThreadsJoined /\ SlotCounted /\ ConnectedTold)'
      BY DEF ThreadsJoined, SlotCounted, ConnectedTold
  <2>5. (ArmedHere /\ FrameLicensed)'
      BY DEF ArmedHere, FrameLicensed, ThreadsJoined
  <2> QED
      BY <2>1, <2>2, <2>3, <2>4, <2>5
<1>5. CASE action_update_axes
  <2> USE <1>5 DEF action_update_axes
  <2>1. EnvironmentOK'
      BY DEF EnvironmentOK
  <2>2. GlobalsOK'
      BY ChannelsAssumption, ValuesAssumption DEF GlobalsOK, ThreadsOK
  <2>3. ThreadsOK'
      BY ChannelsAssumption DEF ThreadsOK, MainPc, TcpPc, UdpPc, PpmPc
  <2>4. (ThreadsJoined /\ SlotCounted /\ ConnectedTold)'
      BY DEF ThreadsJoined, SlotCounted, ConnectedTold
  <2>5. (ArmedHere /\ FrameLicensed)'
      BY DEF ArmedHere, FrameLicensed, ThreadsJoined
  <2> QED
      BY <2>1, <2>2, <2>3, <2>4, <2>5
<1> QED
    BY <1>1, <1>2, <1>3, <1>4, <1>5 DEF UdpThread

LEMMA PpmThreadKeeps == IInv /\ PpmThread => IInv'
<1> SUFFICES ASSUME IInv, PpmThread PROVE IInv'
    OBVIOUS
<1> USE DEF IInv, TypeOK, environment, globals, tcpVars, udpVars, ppmVars, history
<1>1. CASE WhileParked
  <2> USE <1>1 DEF WhileParked
  <2>1. EnvironmentOK'
      BY DEF EnvironmentOK
  <2>2. GlobalsOK'
      BY DEF GlobalsOK
  <2>3. ThreadsOK'
      BY DEF ThreadsOK, MainPc, TcpPc, UdpPc, PpmPc
  <2>4. (ThreadsJoined /\ SlotCounted /\ ConnectedTold)'
      BY DEF ThreadsJoined, SlotCounted, ConnectedTold
  <2>5. (ArmedHere /\ FrameLicensed)'
      BY DEF ArmedHere, FrameLicensed, ThreadsJoined
  <2> QED
      BY <2>1, <2>2, <2>3, <2>4, <2>5
<1>2. CASE Sleep
  <2> USE <1>2 DEF Sleep
  <2>1. EnvironmentOK'
      BY DEF EnvironmentOK
  <2>2. GlobalsOK'
      BY DEF GlobalsOK
  <2>3. ThreadsOK'
      BY DEF ThreadsOK, MainPc, TcpPc, UdpPc, PpmPc
  <2>4. (ThreadsJoined /\ SlotCounted /\ ConnectedTold)'
      BY DEF ThreadsJoined, SlotCounted, ConnectedTold
  <2>5. (ArmedHere /\ FrameLicensed)'
      BY DEF ArmedHere, FrameLicensed, ThreadsJoined
  <2> QED
      BY <2>1, <2>2, <2>3, <2>4, <2>5
<1>3. CASE WhileArmed
  <2> USE <1>3 DEF WhileArmed
  <2>1. EnvironmentOK'
      BY DEF EnvironmentOK
  <2>2. GlobalsOK'
      BY DEF GlobalsOK
  <2>3. ThreadsOK'
      BY DEF ThreadsOK, MainPc, TcpPc, UdpPc, PpmPc
  <2>4. (ThreadsJoined /\ SlotCounted /\ ConnectedTold)'
      BY DEF ThreadsJoined, SlotCounted, ConnectedTold
  <2>5. (ArmedHere /\ FrameLicensed)'
      BY DEF ArmedHere, FrameLicensed, ThreadsJoined
  <2> QED
      BY <2>1, <2>2, <2>3, <2>4, <2>5
<1>4. CASE CopyWidth
  <2> USE <1>4 DEF CopyWidth
  <2>1. EnvironmentOK'
      BY DEF EnvironmentOK
  <2>2. GlobalsOK'
      BY ChannelsAssumption, ValuesAssumption DEF GlobalsOK, ThreadsOK
  <2>3. ThreadsOK'
      BY ChannelsAssumption DEF ThreadsOK, MainPc, TcpPc, UdpPc, PpmPc
  <2>4. (ThreadsJoined /\ SlotCounted /\ ConnectedTold)'
      BY DEF ThreadsJoined, SlotCounted, ConnectedTold
  <2>5. (ArmedHere /\ FrameLicensed)'
      BY DEF ArmedHere, FrameLicensed, ThreadsJoined
  <2> QED
      BY <2>1, <2>2, <2>3, <2>4, <2>5
<1>5. CASE update
  <2> USE <1>5 DEF update
  <2>1. EnvironmentOK'
      BY DEF EnvironmentOK
  <2>2. GlobalsOK'
      BY DEF GlobalsOK
  <2>3. ThreadsOK'
      BY DEF ThreadsOK, MainPc, TcpPc, UdpPc, PpmPc, GlobalsOK, EnvironmentOK, FrameLicensed
  <2>4. (ThreadsJoined /\ SlotCounted /\ ConnectedTold)'
      BY DEF ThreadsJoined, SlotCounted, ConnectedTold
  <2>5. (ArmedHere /\ FrameLicensed)'
      BY DEF ArmedHere, FrameLicensed, ThreadsJoined, ThreadsOK
  <2> QED
      BY <2>1, <2>2, <2>3, <2>4, <2>5
<1> QED
    BY <1>1, <1>2, <1>3, <1>4, <1>5 DEF PpmThread

LEMMA NextKeeps == IInv /\ [Next]_vars => IInv'
<1> SUFFICES ASSUME IInv, [Next]_vars PROVE IInv'
    OBVIOUS
<1>1. CASE UNCHANGED vars
    BY <1>1 DEF IInv, TypeOK, EnvironmentOK, GlobalsOK, ThreadsOK, ThreadsJoined, SlotCounted,
        ConnectedTold, ArmedHere, FrameLicensed,
        vars, environment, globals, tcpVars, udpVars, ppmVars, history
<1> QED
    BY <1>1, EnvironmentKeeps, MainKeeps, TcpThreadKeeps, UdpThreadKeeps, PpmThreadKeeps DEF Next

LEMMA Invariance == Spec => []IInv
<1>1. Init => IInv
    BY InitEstablishes
<1>2. IInv /\ [Next]_vars => IInv'
    BY NextKeeps
<1> QED
    BY <1>1, <1>2, PTL DEF Spec

-----------------------------------------------------------------------------
(* The invariants the runs check.                                          *)

\* Every variable stays in its type: in particular connection_count, a short that
\* is incremented and decremented by different threads, stays 0 or 1.
THEOREM TypeCorrect == Spec => []TypeOK
<1>1. IInv => TypeOK
    BY DEF IInv
<1> QED
    BY <1>1, Invariance, PTL

\* A connection is accepted only when nothing is left of the one before: no thread,
\* no armed drone, no slot taken.
THEOREM AcceptsWhenQuiescent == Spec => []QuiescentAccept
<1>1. IInv => QuiescentAccept
    BY DEF IInv, ThreadsJoined, SlotCounted, ArmedHere, QuiescentAccept
<1> QED
    BY <1>1, Invariance, PTL

\* start_server's loop condition is never false, so the server never runs off its end.
THEOREM ServerKeepsServing == Spec => []KeepsServing
<1>1. IInv => KeepsServing
    BY DEF IInv, ThreadsJoined, KeepsServing
<1> QED
    BY <1>1, Invariance, PTL

\* While the drone is armed there is a TCP thread that will take a DARM, or clear
\* ARMED when the client goes away.
THEOREM AttendedWhileArmed == Spec => []ArmedIsAttended
<1>1. IInv => ArmedIsAttended
    BY DEF IInv, ThreadsJoined, ConnectedTold, ArmedHere, ArmedIsAttended
<1> QED
    BY <1>1, Invariance, PTL

\* Clearing ARMED silences update_channels after at most one more frame, wherever
\* in its loop the PPM thread was.
THEOREM AtMostOneLateFrame == Spec => []OneLateFrame
<1>1. IInv => OneLateFrame
    BY DEF IInv, FrameLicensed, OneLateFrame
<1> QED
    BY <1>1, Invariance, PTL

-----------------------------------------------------------------------------
(* DroneServer implements DroneSession: each step of a thread is, under the  *)
(* mapping Session of DroneServer, one step of the session or none.          *)

USE DEF MAX_PEER, MIN_CTRL, Session!vars, environment, globals, tcpVars, udpVars, ppmVars, history

LEMMA InitRefines == Init => Session!Init
BY DEF Init, Session!Init

LEMMA EnvironmentStutters == Environment => UNCHANGED Session!vars
BY DEF Environment

LEMMA MainRefines == IInv /\ Main => [Session!Next]_(Session!vars)
<1> SUFFICES ASSUME IInv, Main PROVE [Session!Next]_(Session!vars)
    OBVIOUS
<1> USE DEF IInv
<1>1. CASE Accept
  <2>1. ~ARMED
      BY <1>1 DEF Accept, ArmedHere, ThreadsJoined
  <2>2. Head(backlog) \in Clients
      BY <1>1 DEF Accept, TypeOK, EnvironmentOK
  <2> QED
      BY <1>1, <2>1, <2>2 DEF Accept, Session!Next, Session!Open
<1>2. CASE JoinPpmThread
  <2>1. ~ARMED /\ ~connected /\ main' = "accept"
      BY <1>2 DEF JoinPpmThread, ArmedHere, ThreadsJoined, ConnectedTold, SlotCounted
  <2> QED
      BY <1>2, <2>1 DEF JoinPpmThread, Session!Next, Session!Close
<1>3. CASE CreateTcpThread \/ CreateUdpThread \/ CreatePpmThread \/ JoinTcpThread \/ JoinUdpThread
    BY <1>3 DEF CreateTcpThread, CreateUdpThread, CreatePpmThread, JoinTcpThread, JoinUdpThread
<1> QED
    BY <1>1, <1>2, <1>3 DEF Main

\* The TCP thread runs only while a connection is served or wound up.
LEMMA TcpPhase == ASSUME IInv, tcp # "off" PROVE main # "accept"
BY DEF IInv, ThreadsJoined

LEMMA TcpRefines == IInv /\ TcpThread => [Session!Next]_(Session!vars)
<1> SUFFICES ASSUME IInv, TcpThread PROVE [Session!Next]_(Session!vars)
    OBVIOUS
<1> USE DEF IInv
<1>1. CASE Peek \/ RecvEof \/ DecrementCount
    BY <1>1 DEF Peek, RecvEof, DecrementCount
<1>2. CASE action_land \/ send_tcp_packet \/ IgnoreCommand
    BY <1>2 DEF action_land, send_tcp_packet, IgnoreCommand, Recv
<1>3. CASE action_arm
  <2>1. CASE ARMED
      BY <1>3, <2>1 DEF action_arm, Recv
  <2>2. CASE ~ARMED
    <3>1. main # "accept" /\ connected
        BY <1>3 DEF action_arm, Recv, ThreadsJoined, ConnectedTold
    <3>2. ARMED' = TRUE /\ armedHere' = TRUE
        BY <1>3, <2>2 DEF action_arm
    <3>3. UNCHANGED <<main, connected, remote_fd_tcp, late, axes, widths>>
        BY <1>3 DEF action_arm, Recv
    <3>4. Session!Arm
        BY <2>2, <3>1, <3>2, <3>3 DEF Session!Arm
    <3> QED
        BY <3>4 DEF Session!Next
  <2> QED
      BY <2>1, <2>2
<1>4. CASE state_init
  <2> DEFINE channel == InitOrder[initIdx]
  <2>1. armedHere /\ main # "accept"
      BY <1>4 DEF state_init, ArmedHere, ThreadsJoined
  <2>2. channel \in Channels
      BY ChannelsAssumption DEF TypeOK, ThreadsOK
  <2>3. Session!MoveStick(channel, InitValue[channel])
      BY <1>4, <2>1 DEF state_init, Session!MoveStick
  <2> QED
      BY <2>2, <2>3 DEF Session!Next
<1>5. CASE action_disarm
  <2>1. CASE ARMED
    <3>1. ARMED' = FALSE /\ late' = 0
        BY <1>5, <2>1 DEF action_disarm
    <3>2. UNCHANGED <<main, connected, remote_fd_tcp, armedHere, axes, widths>>
        BY <1>5 DEF action_disarm, Recv
    <3>3. Session!Disarm
        BY <2>1, <3>1, <3>2 DEF Session!Disarm
    <3> QED
        BY <3>3 DEF Session!Next
  <2>2. CASE ~ARMED
      BY <1>5, <2>2 DEF action_disarm, Recv, TypeOK, GlobalsOK
  <2> QED
      BY <2>1, <2>2
<1>6. CASE ClearConnected
  <2>1. main # "accept" /\ connected
      BY <1>6 DEF ClearConnected, ThreadsJoined, ConnectedTold
  <2> QED
      BY <1>6, <2>1 DEF ClearConnected, Session!Next, Session!HangUp
<1>7. CASE ClearArmed
  <2>1. CASE ARMED
    <3>1. ARMED' = FALSE /\ late' = 0
        BY <1>7, <2>1 DEF ClearArmed
    <3>2. UNCHANGED <<main, connected, remote_fd_tcp, armedHere, axes, widths>>
        BY <1>7 DEF ClearArmed
    <3>3. Session!Disarm
        BY <2>1, <3>1, <3>2 DEF Session!Disarm
    <3> QED
        BY <3>3 DEF Session!Next
  <2>2. CASE ~ARMED
      BY <1>7, <2>2 DEF ClearArmed, TypeOK, GlobalsOK
  <2> QED
      BY <2>1, <2>2
<1> QED
    BY <1>1, <1>2, <1>3, <1>4, <1>5, <1>6, <1>7 DEF TcpThread

LEMMA UdpRefines == IInv /\ UdpThread => [Session!Next]_(Session!vars)
<1> SUFFICES ASSUME IInv, UdpThread PROVE [Session!Next]_(Session!vars)
    OBVIOUS
<1> USE DEF IInv
<1>1. CASE WhileConnected \/ RecvFrom \/ RecvTimeout \/ state_is_armed
    BY <1>1 DEF WhileConnected, RecvFrom, RecvTimeout, state_is_armed
<1>2. CASE action_update_axes
  <2> DEFINE channel == ParamOrder[paramIdx]
  <2>1. armedHere /\ main # "accept"
      BY <1>2 DEF action_update_axes, ArmedHere, ThreadsJoined
  <2>2. channel \in Channels /\ packet \in Packets
      BY <1>2, ChannelsAssumption DEF action_update_axes, TypeOK, ThreadsOK
  <2>3. Session!MoveStick(channel, packet[channel])
      BY <1>2, <2>1 DEF action_update_axes, Session!MoveStick
  <2> QED
      BY <2>2, <2>3 DEF Session!Next
<1> QED
    BY <1>1, <1>2 DEF UdpThread

LEMMA PpmRefines == IInv /\ PpmThread => [Session!Next]_(Session!vars)
<1> SUFFICES ASSUME IInv, PpmThread PROVE [Session!Next]_(Session!vars)
    OBVIOUS
<1> USE DEF IInv
<1>1. CASE WhileParked \/ Sleep \/ WhileArmed
    BY <1>1 DEF WhileParked, Sleep, WhileArmed
<1>2. ASSUME ppm \in {"copy", "update"} PROVE Session!MayTransmit
    BY <1>2 DEF ArmedHere, FrameLicensed, ThreadsJoined, Session!MayTransmit
<1>3. CASE CopyWidth
  <2> DEFINE channel == WidthOrder[widthIdx]
  <2>1. channel \in Channels
      BY ChannelsAssumption DEF TypeOK, ThreadsOK
  <2>2. Session!BuildFrame(channel)
      BY <1>2, <1>3 DEF CopyWidth, Session!BuildFrame
  <2> QED
      BY <2>1, <2>2 DEF Session!Next
<1>4. CASE update
  <2>1. CASE ARMED
      BY <1>4, <2>1 DEF update
  <2>2. CASE ~ARMED
    <3>1. late = 0
        BY <1>4, <2>2 DEF update, FrameLicensed
    <3> QED
        BY <1>2, <1>4, <2>2, <3>1 DEF update, Session!Next, Session!SendLateFrame
  <2> QED
      BY <2>1, <2>2
<1> QED
    BY <1>1, <1>3, <1>4 DEF PpmThread

\* However its threads interleave, the server serves one client at a time, is armed
\* only by the client it serves, and moves nothing before that client has armed it.
THEOREM Refinement == Spec => RefinesSession
<1>1. Init => Session!Init
    BY InitRefines
<1>2. IInv /\ [Next]_vars => [Session!Next]_(Session!vars)
  <2>1. CASE UNCHANGED vars
      BY <2>1 DEF vars
  <2> QED
      BY <2>1, EnvironmentStutters, MainRefines, TcpRefines, UdpRefines, PpmRefines DEF Next
<1> QED
    BY <1>1, <1>2, Invariance, PTL DEF Spec, Session!Spec, RefinesSession

-----------------------------------------------------------------------------
\* The sticks move only for a client that has armed the drone: no datagram sent by
\* somebody else, and no thread of an earlier connection, can move them before.
THEOREM SticksAfterArm == Spec => SticksMoveOnlyAfterArm
<1> DEFINE Moved == axes' # axes => armedHere /\ main # "accept"
<1>1. IInv /\ [Next]_vars => Moved \/ UNCHANGED vars
  <2> SUFFICES ASSUME IInv, Next PROVE Moved
      OBVIOUS
  <2>1. CASE state_init
      BY <2>1 DEF state_init, IInv, ArmedHere, ThreadsJoined
  <2>2. CASE action_update_axes
      BY <2>2 DEF action_update_axes, IInv, ArmedHere, ThreadsJoined
  <2>3. CASE Environment \/ Main \/ PpmThread
      BY <2>3 DEF Environment, Main, PpmThread, Accept, CreateTcpThread, CreateUdpThread,
          CreatePpmThread, JoinTcpThread, JoinUdpThread, JoinPpmThread,
          WhileParked, Sleep, WhileArmed, CopyWidth, update
  <2>4. CASE TcpThread /\ ~state_init
      BY <2>4 DEF TcpThread, Peek, RecvEof, action_arm, action_disarm, action_land,
          send_tcp_packet, IgnoreCommand, Recv, ClearConnected, ClearArmed, DecrementCount
  <2>5. CASE UdpThread /\ ~action_update_axes
      BY <2>5 DEF UdpThread, WhileConnected, RecvFrom, RecvTimeout, state_is_armed
  <2> QED
      BY <2>1, <2>2, <2>3, <2>4, <2>5 DEF Next
<1> QED
    BY <1>1, Invariance, PTL DEF Spec, SticksMoveOnlyAfterArm
=============================================================================
