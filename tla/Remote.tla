------------------------------- MODULE Remote -------------------------------
(***************************************************************************)
(* The network half of the Android remote: NetworkManager, and the         *)
(* TCPClient, TCPListener and UDPClient it makes each time the user        *)
(* connects.  The UI thread, an AsyncTask for each TCPClient and each      *)
(* TCPListener, and a scheduler for each UDPClient run at once and share   *)
(* connectionStatus and the queue of messages.                             *)
(*                                                                         *)
(* NetworkManager keeps only the objects of its last attempt; those of     *)
(* earlier attempts live on.  An exception nobody catches, in the UI       *)
(* thread or an AsyncTask, ends the application; in the scheduler it ends  *)
(* the sender.  Left out: packet text (a command is the number of its key  *)
(* press), the battery report, the views.  The network and the drone       *)
(* decide whether a connect succeeds; the pool runs every task.            *)
(***************************************************************************)
EXTENDS Integers, Sequences, FiniteSets

CONSTANTS
    MaxAttempts,    \* bound: calls of startConnection
    PressMax,       \* bound: presses of a command key
    QueueMax,       \* capacity of messages: 1500
    Sticks,         \* what the sticks can be set to
    NoPayload       \* the packetString of a new UDPClient: ""

ASSUME BoundsAssumption == MaxAttempts \in Nat /\ PressMax \in Nat /\ QueueMax \in Nat
ASSUME SticksAssumption == NoPayload \notin Sticks

Attempts == 1 .. MaxAttempts

VARIABLES
    alive,              \* the application has not crashed
    connectionStatus,   \* RemoteState's
    messages,           \* NetworkManager's queue of TCP packets
    rawAxes,            \* the sticks
    attempt,            \* calls of startConnection so far: the last one's objects are kept
    \* by attempt
    tcp,                \* where the TCPClient is
    interrupted,        \* its thread has been interrupted by cancel(true)
    open,               \* its socket is connected
    listener,           \* where the TCPListener is
    udpSocket,          \* "none", "bound", "null" (the bind failed), "closed"
    sender,             \* "none", "on", "dead", "cancelled"
    packetString,
    \* history
    presses,            \* command keys pressed so far
    wire                \* the commands written to the attempt's socket

ui == <<alive, connectionStatus, messages, rawAxes, attempt>>
udpVars == <<udpSocket, sender, packetString>>
vars == <<ui, tcp, interrupted, open, listener, udpVars, presses, wire>>

-----------------------------------------------------------------------------
TypeOK ==
    /\ alive \in BOOLEAN
    /\ connectionStatus \in BOOLEAN
    /\ messages \in Seq(1 .. presses) /\ Len(messages) <= QueueMax
    /\ rawAxes \in Sticks
    /\ attempt \in 0 .. MaxAttempts
    /\ tcp \in [Attempts -> {"none", "connecting", "status", "take", "post", "done"}]
    /\ interrupted \in [Attempts -> BOOLEAN]
    /\ open \in [Attempts -> BOOLEAN]
    /\ listener \in [Attempts -> {"none", "waiting", "reading", "nostream", "done"}]
    /\ udpSocket \in [Attempts -> {"none", "bound", "null", "closed"}]
    /\ sender \in [Attempts -> {"none", "on", "dead", "cancelled"}]
    /\ packetString \in [Attempts -> Sticks \cup {NoPayload}]
    /\ presses \in 0 .. PressMax
    /\ wire \in [Attempts -> Seq(1 .. presses)]

Init ==
    /\ alive = TRUE /\ connectionStatus = FALSE
    /\ messages = <<>>
    /\ rawAxes \in Sticks
    /\ attempt = 0
    /\ tcp = [i \in Attempts |-> "none"]
    /\ interrupted = [i \in Attempts |-> FALSE]
    /\ open = [i \in Attempts |-> FALSE]
    /\ listener = [i \in Attempts |-> "none"]
    /\ udpSocket = [i \in Attempts |-> "none"]
    /\ sender = [i \in Attempts |-> "none"]
    /\ packetString = [i \in Attempts |-> NoPayload]
    /\ presses = 0
    /\ wire = [i \in Attempts |-> <<>>]

Crash ==
    /\ alive' = FALSE
    /\ UNCHANGED <<connectionStatus, messages, attempt, tcp, interrupted, open, listener,
                   udpSocket, packetString, presses, wire>>

-----------------------------------------------------------------------------
(* The UI thread: the connect button, the keys, the sticks, the callbacks.  *)

\* Mutation: the datagrams are sent from whatever port is free.
startConnection_AnyPort ==
    /\ attempt < MaxAttempts
    /\ attempt' = attempt + 1
    /\ udpSocket' = [udpSocket EXCEPT ![attempt'] = "bound"]
    /\ sender' = [sender EXCEPT ![attempt'] = "on"]
    /\ tcp' = [tcp EXCEPT ![attempt'] = "connecting"]
    /\ listener' = [listener EXCEPT ![attempt'] = "waiting"]
    /\ UNCHANGED <<alive, connectionStatus, messages, rawAxes, interrupted, open, packetString,
                   presses, wire>>

\* Only one socket can hold port 6000; the exception of a second one is printed, and
\* its sender scheduled all the same.
startConnection ==
    /\ attempt < MaxAttempts
    /\ attempt' = attempt + 1
    /\ udpSocket' = [udpSocket EXCEPT ![attempt'] =
                        IF \E i \in Attempts : udpSocket[i] = "bound" THEN "null" ELSE "bound"]
    /\ sender' = [sender EXCEPT ![attempt'] = "on"]
    /\ tcp' = [tcp EXCEPT ![attempt'] = "connecting"]
    /\ listener' = [listener EXCEPT ![attempt'] = "waiting"]
    /\ UNCHANGED <<alive, connectionStatus, messages, rawAxes, interrupted, open, packetString,
                   presses, wire>>

\* Mutation: the TCPClient is not cancelled.
closeConnections_UdpOnly ==
    /\ sender' = [sender EXCEPT ![attempt] = "cancelled"]
    /\ IF udpSocket[attempt] = "null"
         THEN Crash /\ UNCHANGED rawAxes
         ELSE /\ udpSocket' = [udpSocket EXCEPT ![attempt] = "closed"]
              /\ UNCHANGED <<ui, tcp, interrupted, open, listener, packetString, presses,
                             wire>>

\* closeSocket calls close() of the udpSocket, which is null if its bind failed.
closeConnections ==
    /\ sender' = [sender EXCEPT ![attempt] = "cancelled"]
    /\ IF udpSocket[attempt] = "null"
         THEN Crash /\ UNCHANGED rawAxes
         ELSE /\ udpSocket' = [udpSocket EXCEPT ![attempt] = "closed"]
              /\ interrupted' = [interrupted EXCEPT ![attempt] = TRUE]
              /\ UNCHANGED <<ui, tcp, open, listener, packetString, presses, wire>>

PressConnect == alive /\ IF connectionStatus THEN closeConnections ELSE startConnection

\* A, B, X or Y; offer drops the packet when the queue is full.
addTCPPacket ==
    /\ alive
    /\ presses < PressMax
    /\ presses' = presses + 1
    /\ messages' = IF Len(messages) < QueueMax THEN Append(messages, presses') ELSE messages
    /\ UNCHANGED <<alive, connectionStatus, rawAxes, attempt, tcp, interrupted, open, listener,
                   udpVars, wire>>

\* A stick moves (or a preference changes): there is no udpClient before the first
\* startConnection.
setUDPPayload(axes) ==
    /\ alive
    /\ rawAxes' = axes
    /\ IF attempt = 0
         THEN Crash /\ UNCHANGED sender
         ELSE /\ packetString' = [packetString EXCEPT ![attempt] = axes]
              /\ UNCHANGED <<alive, connectionStatus, messages, attempt, tcp, interrupted, open,
                             listener, udpSocket, sender, presses, wire>>

\* Mutation: the end of a connection is not noted.
onPostExecute_Silent(i) ==
    /\ alive
    /\ tcp[i] = "post"
    /\ tcp' = [tcp EXCEPT ![i] = "done"]
    /\ UNCHANGED <<ui, interrupted, open, listener, udpVars, presses, wire>>

\* onPostExecute or onCancelled, whichever attempt it is of.
onPostExecute(i) ==
    /\ alive
    /\ tcp[i] = "post"
    /\ tcp' = [tcp EXCEPT ![i] = "done"]
    /\ connectionStatus' = FALSE
    /\ UNCHANGED <<alive, messages, rawAxes, attempt, interrupted, open, listener, udpVars,
                   presses, wire>>

Ui ==
    \/ PressConnect
    \/ addTCPPacket
    \/ \E axes \in Sticks : setUDPPayload(axes)
    \/ \E i \in Attempts : onPostExecute(i)

-----------------------------------------------------------------------------
(* TCPClient.doInBackground.                                               *)

Connect(i) ==
    /\ alive
    /\ tcp[i] = "connecting"
    /\ tcp' = [tcp EXCEPT ![i] = "status"]
    /\ open' = [open EXCEPT ![i] = TRUE]
    /\ UNCHANGED <<ui, interrupted, listener, udpVars, presses, wire>>

\* Refused, or no answer within 200 ms.
ConnectFails(i) ==
    /\ alive
    /\ tcp[i] = "connecting"
    /\ tcp' = [tcp EXCEPT ![i] = "post"]
    /\ UNCHANGED <<ui, interrupted, open, listener, udpVars, presses, wire>>

SetStatus(i) ==
    /\ alive
    /\ tcp[i] = "status"
    /\ tcp' = [tcp EXCEPT ![i] = "take"]
    /\ connectionStatus' = TRUE
    /\ UNCHANGED <<alive, messages, rawAxes, attempt, interrupted, open, listener, udpVars,
                   presses, wire>>

\* Mutation: the message stays in the queue until the next one is wanted.
Take_Peek(i) ==
    /\ alive
    /\ tcp[i] = "take" /\ ~interrupted[i]
    /\ messages # <<>>
    /\ wire' = [wire EXCEPT ![i] = Append(@, Head(messages))]
    /\ messages' = IF Len(messages) > 1 THEN Tail(messages) ELSE messages
    /\ UNCHANGED <<alive, connectionStatus, rawAxes, attempt, tcp, interrupted, open, listener,
                   udpVars, presses>>

\* take() waits for a message; an interrupt does not stop the println that follows.
Take(i) ==
    /\ alive
    /\ tcp[i] = "take" /\ ~interrupted[i]
    /\ messages # <<>>
    /\ wire' = [wire EXCEPT ![i] = Append(@, Head(messages))]
    /\ messages' = Tail(messages)
    /\ UNCHANGED <<alive, connectionStatus, rawAxes, attempt, tcp, interrupted, open, listener,
                   udpVars, presses>>

\* take() throws InterruptedException, and the socket is closed.
Interrupted(i) ==
    /\ alive
    /\ tcp[i] = "take" /\ interrupted[i]
    /\ tcp' = [tcp EXCEPT ![i] = "post"]
    /\ open' = [open EXCEPT ![i] = FALSE]
    /\ UNCHANGED <<ui, interrupted, listener, udpVars, presses, wire>>

TCPClient(i) == Connect(i) \/ ConnectFails(i) \/ SetStatus(i) \/ Take(i) \/ Interrupted(i)

-----------------------------------------------------------------------------
(* TCPListener.doInBackground and UDPClient.sender.                        *)

\* The exception of getInputStream on a socket that is not connected is printed.
GetStream(i) ==
    /\ alive
    /\ listener[i] = "waiting" /\ connectionStatus
    /\ listener' = [listener EXCEPT ![i] = IF open[i] THEN "reading" ELSE "nostream"]
    /\ UNCHANGED <<ui, tcp, interrupted, open, udpVars, presses, wire>>

ListenerEnds(i) ==
    /\ alive
    /\ listener[i] \in {"reading", "nostream"} /\ ~connectionStatus
    /\ listener' = [listener EXCEPT ![i] = "done"]
    /\ UNCHANGED <<ui, tcp, interrupted, open, udpVars, presses, wire>>

\* mBufferIn is null, and only an IOException of read is caught.
ReadNothing(i) ==
    /\ alive
    /\ listener[i] = "nostream" /\ connectionStatus
    /\ Crash
    /\ UNCHANGED <<rawAxes, sender>>

TCPListener(i) == GetStream(i) \/ ListenerEnds(i) \/ ReadNothing(i)

\* run() with no socket: the exception stops the schedule.  A run with a socket sends
\* packetString, which changes nothing here.
SenderDies(i) ==
    /\ alive
    /\ sender[i] = "on" /\ udpSocket[i] = "null"
    /\ sender' = [sender EXCEPT ![i] = "dead"]
    /\ UNCHANGED <<ui, tcp, interrupted, open, listener, udpSocket, packetString,
                   presses, wire>>

Next ==
    \/ Ui
    \/ \E i \in Attempts : TCPClient(i) \/ TCPListener(i) \/ SenderDies(i)

Spec == Init /\ [][Next]_vars

\* Threads run and the UI thread gets to its callbacks; nothing is assumed of the user.
Fairness ==
    \A i \in Attempts :
        /\ WF_vars(TCPClient(i))
        /\ WF_vars(TCPListener(i))
        /\ WF_vars(onPostExecute(i))

FairSpec == Spec /\ Fairness

-----------------------------------------------------------------------------
(* Properties.                                                             *)

Holds(s, m) == \E k \in 1 .. Len(s) : s[k] = m

Increasing(s) == \A k, l \in 1 .. Len(s) : k < l => s[k] < s[l]

\* However many TCPClients an impatient user has started on the one queue, a command
\* is written to one connection at most, once, and each connection gets its commands
\* in the order of the key presses.
CommandsSentOnce ==
    /\ Increasing(messages)
    /\ \A i \in Attempts : Increasing(wire[i])
    /\ \A m \in 1 .. presses, i \in Attempts :
          Holds(wire[i], m) =>
              /\ ~Holds(messages, m)
              /\ \A j \in Attempts \ {i} : ~Holds(wire[j], m)

\* The status that turns the connect button into a disconnect button is never left on
\* by a connection that is over: one that will still clear it has set it.
StatusHasOwner == connectionStatus => \E i \in Attempts : tcp[i] \in {"take", "post"}

Sending(i) == sender[i] = "on" /\ udpSocket[i] = "bound"

\* Two UDPClients never send at the same time: the drone is not given the sticks of
\* an old attempt and of a new one by turns.
OneSender == \A i, j \in Attempts : Sending(i) /\ Sending(j) => i = j

\* A disconnect completes: once closeConnections has closed an attempt's udpSocket, its
\* TCPClient closes the connection and the callback runs.
DisconnectCompletes ==
    \A i \in Attempts :
        udpSocket[i] = "closed" ~> ((tcp[i] = "done" /\ ~open[i]) \/ ~alive)
=============================================================================
