---------------------------- MODULE DroneServer ----------------------------
(***************************************************************************)
(* The server on the drone: the main thread of start_server, the three     *)
(* threads it starts for a connection (handle_tcp_connection,              *)
(* handle_udp_connection, update_channels) and the globals they share      *)
(* without a lock.  A step of a thread is one access to a shared global,   *)
(* or one system call; the globals are plain C variables accessed in       *)
(* program order, so an action stores to at most one of them, except       *)
(* Accept, which runs alone (see MainIsAlone).                             *)
(*                                                                         *)
(* Abstracted: message text and framing (a command is the packet type that *)
(* process_tcp_packet switches on), the eight channels (any finite set, in *)
(* the three orders in which the code walks them), allocation failure.     *)
(***************************************************************************)
EXTENDS Integers, Sequences, FiniteSets

CONSTANTS
    Clients,        \* remotes; each holds at most one TCP connection
    NoClient,       \* remote_fd_tcp before the first accept
    Channels,       \* the fields of drone_state that are sent to the radio input
    InitOrder,      \* the order in which state_init stores them
    ParamOrder,     \* the order in which action_update_axes stores them
    WidthOrder,     \* the order in which update_channels copies them
    InitValue,      \* what state_init stores in each channel
    Packets,        \* STM packets: a value for each channel
    NoPacket,       \* a datagram that is not a HAWK packet (the remote's first ones are empty)
    Commands,       \* the TCP packets the remotes may send
    BacklogMax,     \* connections the listen queue holds
    InboxMax,       \* bound: unread commands of a connection
    UdpMax          \* datagrams the kernel's receive buffer holds

MAX_PEER == 1
MIN_CTRL == 1000

ASSUME ClientsAssumption == NoClient \notin Clients

ASSUME ChannelsAssumption ==
    /\ Len(InitOrder) > 0 /\ Len(ParamOrder) > 0 /\ Len(WidthOrder) > 0
    /\ InitOrder \in Seq(Channels)
    /\ ParamOrder \in Seq(Channels)
    /\ WidthOrder \in Seq(Channels)

ASSUME ValuesAssumption ==
    /\ InitValue \in [Channels -> Nat]
    /\ Packets \subseteq [Channels -> Nat]
    /\ NoPacket \notin Packets

ASSUME CommandsAssumption == Commands \subseteq {"ARM", "DARM", "LAND", "TELE", "UNKNOWN"}

ASSUME BoundsAssumption == BacklogMax \in Nat /\ InboxMax \in Nat /\ UdpMax \in Nat

VARIABLES
    \* the outside: the clients' connections and the kernel's queues
    conn,              \* conn[c]: "none", "open", "fin" (c closed its end)
    inbox,             \* inbox[c]: the commands of c not yet read
    reports,           \* the clients with a battery report they have not read
    backlog,           \* connections not yet accepted
    udpq,              \* datagrams not yet received, whoever sent them
    \* the globals of the server
    remote_fd_tcp, connected, connection_count,
    ARMED,             \* drone_state.ARMED
    axes,              \* the other fields of drone_state
    widths,            \* ppm_factory.widths
    \* program counters and locals of the threads
    main,
    tcp, initIdx,
    udp, packet, paramIdx,
    ppm, widthIdx,
    \* history
    armedHere,         \* ARM was executed for the connection being served
    late               \* frames sent since ARMED was last cleared

environment == <<conn, inbox, reports, backlog, udpq>>
globals == <<remote_fd_tcp, connected, connection_count, ARMED, axes, widths>>
tcpVars == <<tcp, initIdx>>
udpVars == <<udp, packet, paramIdx>>
ppmVars == <<ppm, widthIdx>>
history == <<armedHere, late>>

vars == <<environment, globals, main, tcpVars, udpVars, ppmVars, history>>

-----------------------------------------------------------------------------
MainPc == {"accept", "spawn_tcp", "spawn_udp", "spawn_ppm",
           "join_tcp", "join_udp", "join_ppm", "exit"}
TcpPc == {"off", "peek", "recv", "state_init", "write",
          "end_connected", "end_armed", "end_count", "done"}
UdpPc == {"off", "while", "recvfrom", "armed?", "store", "done"}
PpmPc == {"off", "outer", "sleep", "inner", "copy", "update", "done"}

EnvironmentOK ==
    /\ conn \in [Clients -> {"none", "open", "fin"}]
    /\ inbox \in [Clients -> Seq(Commands)]
    /\ reports \in SUBSET Clients
    /\ backlog \in Seq(Clients)
    /\ udpq \in Seq(Packets \cup {NoPacket})

GlobalsOK ==
    /\ remote_fd_tcp \in Clients \cup {NoClient}
    /\ connected \in BOOLEAN
    /\ connection_count \in 0 .. MAX_PEER
    /\ ARMED \in BOOLEAN
    /\ axes \in [Channels -> Nat]
    /\ widths \in [Channels -> Nat]

ThreadsOK ==
    /\ main \in MainPc
    /\ tcp \in TcpPc /\ initIdx \in 1 .. Len(InitOrder)
    /\ udp \in UdpPc /\ paramIdx \in 1 .. Len(ParamOrder)
    /\ packet \in Packets \/ (packet = NoPacket /\ udp \notin {"armed?", "store"})
    /\ ppm \in PpmPc /\ widthIdx \in 1 .. Len(WidthOrder)
    /\ armedHere \in BOOLEAN
    /\ late \in 0 .. 2

TypeOK == EnvironmentOK /\ GlobalsOK /\ ThreadsOK

\* The state when start_server enters its loop: main() has run init, so the
\* widths are 1000; drone_state is zero, and `connected` starts at 1.
Init ==
    /\ conn = [c \in Clients |-> "none"]
    /\ inbox = [c \in Clients |-> <<>>]
    /\ reports = {} /\ backlog = <<>> /\ udpq = <<>>
    /\ remote_fd_tcp = NoClient
    /\ connected = TRUE
    /\ connection_count = 0
    /\ ARMED = FALSE
    /\ axes = [ch \in Channels |-> 0]
    /\ widths = [ch \in Channels |-> MIN_CTRL]
    /\ main = "accept"
    /\ tcp = "off" /\ initIdx = 1
    /\ udp = "off" /\ packet = NoPacket /\ paramIdx = 1
    /\ ppm = "off" /\ widthIdx = 1
    /\ armedHere = FALSE /\ late = 0

-----------------------------------------------------------------------------
(* The remotes and the network.                                            *)

\* The kernel completes the handshake while the listen queue has room.
Connect(c) ==
    /\ conn[c] = "none"
    /\ Len(backlog) < BacklogMax
    /\ conn' = [conn EXCEPT ![c] = "open"]
    /\ backlog' = Append(backlog, c)
    /\ UNCHANGED <<inbox, reports, udpq>>

\* TCP delivers in order, so a command sent is a command in the inbox.
SendCommand(c, command) ==
    /\ conn[c] = "open"
    /\ Len(inbox[c]) < InboxMax
    /\ inbox' = [inbox EXCEPT ![c] = Append(@, command)]
    /\ UNCHANGED <<conn, reports, backlog, udpq>>

\* A datagram arrives, from a client of any connection or of none.  One that is
\* lost never arrives, and as any may be next, those that arrive are in any order.
ArriveDatagram(datagram) ==
    /\ Len(udpq) < UdpMax
    /\ udpq' = Append(udpq, datagram)
    /\ UNCHANGED <<conn, inbox, reports, backlog>>

\* The client closes its end, or its process dies.  One that only goes out of
\* reach takes no step.
CloseConnection(c) ==
    /\ conn[c] = "open"
    /\ conn' = [conn EXCEPT ![c] = "fin"]
    /\ reports' = reports \ {c}
    /\ UNCHANGED <<inbox, backlog, udpq>>

ReadReport(c) ==
    /\ c \in reports
    /\ reports' = reports \ {c}
    /\ UNCHANGED <<conn, inbox, backlog, udpq>>

Environment ==
    /\ \/ \E c \in Clients : \/ Connect(c)
                             \/ CloseConnection(c)
                             \/ ReadReport(c)
       \/ \E c \in Clients, command \in Commands : SendCommand(c, command)
       \/ \E datagram \in Packets \cup {NoPacket} : ArriveDatagram(datagram)
    /\ UNCHANGED <<globals, main, tcpVars, udpVars, ppmVars, history>>

-----------------------------------------------------------------------------
(* The main thread: start_server.                                          *)

\* Mutation: the connection is not counted in.
Accept_Uncounted ==
    /\ main = "accept"
    /\ backlog # <<>>
    /\ remote_fd_tcp' = Head(backlog)
    /\ backlog' = Tail(backlog)
    /\ connected' = TRUE
    /\ main' = "spawn_tcp"
    /\ armedHere' = FALSE
    /\ UNCHANGED <<conn, inbox, reports, udpq, connection_count, ARMED, axes, widths,
                   tcpVars, udpVars, ppmVars, late>>

Accept ==
    /\ main = "accept"
    /\ backlog # <<>>
    /\ remote_fd_tcp' = Head(backlog)
    /\ backlog' = Tail(backlog)
    /\ connection_count' = connection_count + 1
    /\ connected' = TRUE
    /\ main' = "spawn_tcp"
    /\ armedHere' = FALSE
    /\ UNCHANGED <<conn, inbox, reports, udpq, ARMED, axes, widths,
                   tcpVars, udpVars, ppmVars, late>>

CreateTcpThread ==
    /\ main = "spawn_tcp"
    /\ tcp' = "peek"
    /\ main' = "spawn_udp"
    /\ UNCHANGED <<environment, globals, initIdx, udpVars, ppmVars, history>>

CreateUdpThread ==
    /\ main = "spawn_udp"
    /\ udp' = "while"
    /\ main' = "spawn_ppm"
    /\ UNCHANGED <<environment, globals, tcpVars, packet, paramIdx, ppmVars, history>>

CreatePpmThread ==
    /\ main = "spawn_ppm"
    /\ ppm' = "outer"
    /\ main' = "join_tcp"
    /\ UNCHANGED <<environment, globals, tcpVars, udpVars, widthIdx, history>>

JoinTcpThread ==
    /\ main = "join_tcp"
    /\ tcp = "done"
    /\ tcp' = "off"
    /\ main' = "join_udp"
    /\ UNCHANGED <<environment, globals, initIdx, udpVars, ppmVars, history>>

\* Mutation: the UDP thread is detached, not joined.
JoinUdpThread_Detached ==
    /\ main = "join_udp"
    /\ udp' = IF udp = "done" THEN "off" ELSE udp
    /\ main' = "join_ppm"
    /\ UNCHANGED <<environment, globals, tcpVars, packet, paramIdx, ppmVars, history>>

JoinUdpThread ==
    /\ main = "join_udp"
    /\ udp = "done"
    /\ udp' = "off"
    /\ main' = "join_ppm"
    /\ UNCHANGED <<environment, globals, tcpVars, packet, paramIdx, ppmVars, history>>

\* Mutation: the PPM thread is detached, not joined.
JoinPpmThread_Detached ==
    /\ main = "join_ppm"
    /\ ppm' = IF ppm = "done" THEN "off" ELSE ppm
    /\ main' = IF connection_count < MAX_PEER THEN "accept" ELSE "exit"
    /\ UNCHANGED <<environment, globals, tcpVars, udpVars, widthIdx, history>>

\* After the last join the loop condition is evaluated; start_server returns,
\* and the program ends, if no slot came free.
JoinPpmThread ==
    /\ main = "join_ppm"
    /\ ppm = "done"
    /\ ppm' = "off"
    /\ main' = IF connection_count < MAX_PEER THEN "accept" ELSE "exit"
    /\ UNCHANGED <<environment, globals, tcpVars, udpVars, widthIdx, history>>

Main ==
    \/ Accept
    \/ CreateTcpThread \/ CreateUdpThread \/ CreatePpmThread
    \/ JoinTcpThread \/ JoinUdpThread \/ JoinPpmThread

-----------------------------------------------------------------------------
(* The TCP thread: handle_tcp_connection and the actions of hawk-actions.c. *)

AtEof == inbox[remote_fd_tcp] = <<>> /\ conn[remote_fd_tcp] = "fin"

\* recv(MSG_PEEK | MSG_DONTWAIT): only end of file is 0; no data is -1, and that
\* also enters the loop, to block in the next recv.
Peek ==
    /\ tcp = "peek"
    /\ tcp' = IF AtEof THEN "end_connected" ELSE "recv"
    /\ UNCHANGED <<environment, globals, main, initIdx, udpVars, ppmVars, history>>

RecvEof ==
    /\ tcp = "recv"
    /\ AtEof
    /\ tcp' = "end_connected"
    /\ UNCHANGED <<environment, globals, main, initIdx, udpVars, ppmVars, history>>

\* The blocking recv returns the next packet, and process_tcp_packet gets `command`.
Recv(command) ==
    /\ tcp = "recv"
    /\ inbox[remote_fd_tcp] # <<>>
    /\ Head(inbox[remote_fd_tcp]) = command
    /\ inbox' = [inbox EXCEPT ![remote_fd_tcp] = Tail(@)]
    /\ UNCHANGED <<conn, backlog, udpq, remote_fd_tcp, connected, connection_count,
                   axes, widths, main, initIdx, udpVars, ppmVars>>

\* ARMED is the first field state_init sets; the channels follow one at a time.
action_arm ==
    /\ Recv("ARM")
    /\ IF ARMED
         THEN tcp' = "peek" /\ UNCHANGED <<ARMED, armedHere>>
         ELSE tcp' = "state_init" /\ ARMED' = TRUE /\ armedHere' = TRUE
    /\ UNCHANGED <<reports, late>>

state_init ==
    /\ tcp = "state_init"
    /\ axes' = [axes EXCEPT ![InitOrder[initIdx]] = InitValue[InitOrder[initIdx]]]
    /\ IF initIdx = Len(InitOrder)
         THEN tcp' = "peek" /\ initIdx' = 1
         ELSE tcp' = "state_init" /\ initIdx' = initIdx + 1
    /\ UNCHANGED <<environment, remote_fd_tcp, connected, connection_count, ARMED, widths,
                   main, udpVars, ppmVars, history>>

\* Mutation: disarming is refused once the sticks have moved (as in state_check_parked).
action_disarm_IfParked ==
    /\ Recv("DARM")
    /\ tcp' = "peek"
    /\ IF axes = InitValue THEN ARMED' = FALSE ELSE UNCHANGED ARMED
    /\ late' = IF ARMED /\ ~ARMED' THEN 0 ELSE late
    /\ UNCHANGED <<reports, armedHere>>

action_disarm ==
    /\ Recv("DARM")
    /\ tcp' = "peek"
    /\ ARMED' = FALSE
    /\ late' = IF ARMED THEN 0 ELSE late
    /\ UNCHANGED <<reports, armedHere>>

\* action_land only answers with the battery voltage.  send_tcp_packet asks `connected`,
\* which no other thread clears.
action_land ==
    /\ Recv("LAND")
    /\ tcp' = IF connected THEN "write" ELSE "peek"
    /\ UNCHANGED <<reports, ARMED, history>>

\* The blocking write of send_tcp_packet waits for room in the socket's buffers, which the
\* client makes by reading; to a client that is gone it fails, and nobody looks at that.
send_tcp_packet ==
    /\ tcp = "write"
    /\ \/ /\ conn[remote_fd_tcp] = "open" /\ remote_fd_tcp \notin reports
          /\ reports' = reports \cup {remote_fd_tcp}
       \/ conn[remote_fd_tcp] # "open" /\ UNCHANGED reports
    /\ tcp' = "peek"
    /\ UNCHANGED <<conn, inbox, backlog, udpq, globals, main, initIdx, udpVars, ppmVars, history>>

\* telemetry does nothing, an unknown packet type is only printed.
IgnoreCommand ==
    /\ \E command \in {"TELE", "UNKNOWN"} : Recv(command)
    /\ tcp' = "peek"
    /\ UNCHANGED <<reports, ARMED, history>>

\* Mutation: the handler ends without telling the other threads.
ClearConnected_Missing ==
    /\ tcp = "end_connected"
    /\ tcp' = "end_armed"
    /\ UNCHANGED <<environment, globals, main, initIdx, udpVars, ppmVars, history>>

ClearConnected ==
    /\ tcp = "end_connected"
    /\ connected' = FALSE
    /\ tcp' = "end_armed"
    /\ UNCHANGED <<environment, remote_fd_tcp, connection_count, ARMED, axes, widths,
                   main, initIdx, udpVars, ppmVars, history>>

\* Mutation: a client that goes away leaves the drone armed.
ClearArmed_Missing ==
    /\ tcp = "end_armed"
    /\ tcp' = "end_count"
    /\ UNCHANGED <<environment, globals, main, initIdx, udpVars, ppmVars, history>>

ClearArmed ==
    /\ tcp = "end_armed"
    /\ ARMED' = FALSE
    /\ late' = IF ARMED THEN 0 ELSE late
    /\ tcp' = "end_count"
    /\ UNCHANGED <<environment, remote_fd_tcp, connected, connection_count, axes, widths,
                   main, initIdx, udpVars, ppmVars, armedHere>>

\* Mutation: the connection is not counted out.
DecrementCount_Missing ==
    /\ tcp = "end_count"
    /\ conn' = [conn EXCEPT ![remote_fd_tcp] = "none"]
    /\ tcp' = "done"
    /\ UNCHANGED <<inbox, reports, backlog, udpq, globals, main, initIdx,
                   udpVars, ppmVars, history>>

\* The handler is through with the connection: its client may open another.
DecrementCount ==
    /\ tcp = "end_count"
    /\ connection_count' = connection_count - 1
    /\ conn' = [conn EXCEPT ![remote_fd_tcp] = "none"]
    /\ tcp' = "done"
    /\ UNCHANGED <<inbox, reports, backlog, udpq, remote_fd_tcp, connected, ARMED, axes, widths,
                   main, initIdx, udpVars, ppmVars, history>>

TcpThread ==
    \/ Peek \/ RecvEof
    \/ action_arm \/ state_init \/ action_disarm \/ IgnoreCommand
    \/ action_land \/ send_tcp_packet
    \/ ClearConnected \/ ClearArmed \/ DecrementCount

-----------------------------------------------------------------------------
(* The UDP thread: handle_udp_connection and action_update_axes.           *)

WhileConnected ==
    /\ udp = "while"
    /\ udp' = IF connected THEN "recvfrom" ELSE "done"
    /\ UNCHANGED <<environment, globals, main, tcpVars, packet, paramIdx, ppmVars, history>>

RecvFrom ==
    /\ udp = "recvfrom"
    /\ udpq # <<>>
    /\ udpq' = Tail(udpq)
    /\ IF Head(udpq) = NoPacket
         THEN udp' = "while" /\ UNCHANGED packet
         ELSE udp' = "armed?" /\ packet' = Head(udpq)
    /\ UNCHANGED <<conn, inbox, reports, backlog, globals, main, tcpVars, paramIdx,
                   ppmVars, history>>

\* SO_RCVTIMEO: four seconds without a datagram end the thread.
RecvTimeout ==
    /\ udp = "recvfrom"
    /\ udpq = <<>>
    /\ udp' = "done"
    /\ UNCHANGED <<environment, globals, main, tcpVars, packet, paramIdx, ppmVars, history>>

\* Mutation: the sticks are stored whether or not the drone is armed.
state_is_armed_Ignored ==
    /\ udp = "armed?"
    /\ udp' = "store"
    /\ UNCHANGED <<environment, globals, main, tcpVars, packet, paramIdx, ppmVars, history>>

state_is_armed ==
    /\ udp = "armed?"
    /\ udp' = IF ARMED THEN "store" ELSE "while"
    /\ UNCHANGED <<environment, globals, main, tcpVars, packet, paramIdx, ppmVars, history>>

\* The stores follow the check one at a time; ARMED is not read again.
action_update_axes ==
    /\ udp = "store"
    /\ axes' = [axes EXCEPT ![ParamOrder[paramIdx]] = packet[ParamOrder[paramIdx]]]
    /\ IF paramIdx = Len(ParamOrder)
         THEN udp' = "while" /\ paramIdx' = 1
         ELSE udp' = "store" /\ paramIdx' = paramIdx + 1
    /\ UNCHANGED <<environment, remote_fd_tcp, connected, connection_count, ARMED, widths,
                   main, tcpVars, packet, ppmVars, history>>

UdpThread ==
    \/ WhileConnected \/ RecvFrom \/ RecvTimeout \/ state_is_armed \/ action_update_axes

-----------------------------------------------------------------------------
(* The PPM thread: update_channels.                                        *)

\* ARMED is read, then connected, in one step: connected is only ever cleared while the
\* thread runs, so the outcome is that of both at the first read, or at the second.
WhileParked ==
    /\ ppm = "outer"
    /\ ppm' = IF ~ARMED /\ connected THEN "sleep" ELSE "done"
    /\ UNCHANGED <<environment, globals, main, tcpVars, udpVars, widthIdx, history>>

\* Mutation: sleep comes last in the outer loop.
Sleep_Last ==
    /\ ppm = "sleep"
    /\ ppm' = "outer"
    /\ UNCHANGED <<environment, globals, main, tcpVars, udpVars, widthIdx, history>>

Sleep ==
    /\ ppm = "sleep"
    /\ ppm' = "inner"
    /\ UNCHANGED <<environment, globals, main, tcpVars, udpVars, widthIdx, history>>

\* Mutation: the encoder goes on for as long as there is a connection.
WhileArmed_Connected ==
    /\ ppm = "inner"
    /\ ppm' = IF connected /\ armedHere THEN "copy" ELSE "outer"
    /\ UNCHANGED <<environment, globals, main, tcpVars, udpVars, widthIdx, history>>

WhileArmed ==
    /\ ppm = "inner"
    /\ ppm' = IF ARMED THEN "copy" ELSE "outer"
    /\ UNCHANGED <<environment, globals, main, tcpVars, udpVars, widthIdx, history>>

CopyWidth ==
    /\ ppm = "copy"
    /\ widths' = [widths EXCEPT ![WidthOrder[widthIdx]] = axes[WidthOrder[widthIdx]]]
    /\ IF widthIdx = Len(WidthOrder)
         THEN ppm' = "update" /\ widthIdx' = 1
         ELSE ppm' = "copy" /\ widthIdx' = widthIdx + 1
    /\ UNCHANGED <<environment, remote_fd_tcp, connected, connection_count, ARMED, axes,
                   main, tcpVars, udpVars, history>>

\* update() puts the widths on the wire as one frame, repeated until the next one.
update ==
    /\ ppm = "update"
    /\ ppm' = "inner"
    /\ late' = IF ARMED \/ late = 2 THEN late ELSE late + 1
    /\ UNCHANGED <<environment, globals, main, tcpVars, udpVars, widthIdx, armedHere>>

PpmThread == WhileParked \/ Sleep \/ WhileArmed \/ CopyWidth \/ update

-----------------------------------------------------------------------------
Next == Environment \/ Main \/ TcpThread \/ UdpThread \/ PpmThread

Spec == Init /\ [][Next]_vars

\* The operating system runs every thread that is not blocked; recvfrom comes back
\* with a datagram or after its timeout.  Nothing is assumed of the remotes here.
Fairness ==
    /\ WF_vars(Main)
    /\ WF_vars(TcpThread)
    /\ WF_vars(UdpThread)
    /\ WF_vars(PpmThread)

FairSpec == Spec /\ Fairness

-----------------------------------------------------------------------------
(* Safety.                                                                 *)

\* start_server accepts a connection only when no thread of an earlier one is left
\* (it joins all three), the drone is disarmed and the count of peers is back at 0.
QuiescentAccept ==
    main = "accept" =>
        /\ tcp = "off" /\ udp = "off" /\ ppm = "off"
        /\ ~ARMED
        /\ connection_count = 0

\* The accept loop of start_server never ends: each handler gives its slot back
\* before the threads are joined and the loop condition is evaluated.
KeepsServing == main # "exit"

\* The drone is armed only while the TCP thread of a connection lives, which
\* will disarm it: no thread is left armed with nobody to take a DARM.
ArmedIsAttended ==
    ARMED => tcp \notin {"off", "end_count", "done"} /\ remote_fd_tcp \in Clients

\* After ARMED is cleared, by DARM or by the end of the connection, update_channels
\* sends at most the frame it was already building.
OneLateFrame == late <= 1

\* drone_state's channels change only for a connection whose client has sent ARM:
\* not by datagrams of strangers, nor by a thread of a connection that is over.
SticksMoveOnlyAfterArm == [][axes' # axes => armedHere /\ main # "accept"]_vars

\* The server implements its abstract specification: `connected` tells serving from
\* closing, but only while the main thread is past its accept.
Session == INSTANCE DroneSession WITH
    Positions <- {InitValue[ch] : ch \in Channels} \cup {p[ch] : p \in Packets, ch \in Channels},
    phase <- IF main = "accept" THEN "idle" ELSE IF connected THEN "serving" ELSE "closing",
    client <- remote_fd_tcp, armed <- ARMED, authorised <- armedHere, late <- late,
    sticks <- axes, output <- widths

RefinesSession == Session!Spec

-----------------------------------------------------------------------------
(* Liveness, under Fairness.                                               *)

Served(c) == main # "accept" /\ remote_fd_tcp = c /\ connected

\* A client that closes its connection frees the server for the next one: all
\* three threads come to an end, whatever the datagrams and the other clients do.
HangUpFreesServer ==
    \A c \in Clients : (Served(c) /\ conn[c] = "fin") ~> (main = "accept")

\* The remote's listener goes on reading; one whose phone sleeps does not.
ClientsRead == \A c \in Clients : []<>(c \notin reports)

\* A DARM that has reached the drone while its client is served disarms it, if the client
\* reads: the write of a report it has no room for keeps the thread from every command
\* behind that LAND.
DisarmTakesEffect ==
    ClientsRead =>
        \A c \in Clients :
            (Served(c) /\ \E i \in 1 .. Len(inbox[c]) : inbox[c][i] = "DARM") ~> ~ARMED

\* An ARM that finds the PPM thread asleep in its loop is followed by a frame, unless the
\* drone is disarmed first, even in the same second.  (One that comes before the thread's
\* first test of ARMED, or with a DARM between the tests of its two loops, ends the thread:
\* armed, and no output.)
ArmStartsOutput == (ARMED /\ ppm = "sleep") ~> (ppm = "update" \/ ~ARMED)

=============================================================================
