------------------------------ MODULE EspBridge ------------------------------
(***************************************************************************)
(* The Wi-Fi board of an expander8 and the serial line to it:              *)
(* expander8/esp/esp.c on the main board, and on the Wi-Fi board           *)
(* esp_firmware/user/user_comm.c, user_wifi.c, user_main.c and             *)
(* driver/uart.c.                                                          *)
(*                                                                         *)
(* The Wi-Fi board keeps one datagram.  The main board polls its status    *)
(* every 20 ms, without waiting for the answer to the last poll, and reads *)
(* the datagram when a status says that there is one.  A read that finds   *)
(* none is answered with an empty frame, and the main board processes what *)
(* its frame buffer holds from before: an older frame, one that has failed *)
(* its check sum, or a mixture.                                            *)
(*                                                                         *)
(* A line is the sequence of frames on their way, those that wait in the   *)
(* receiver's ring buffer included.  The txAvail of the main board is      *)
(* written and never read, and so left out.                                *)
(***************************************************************************)
EXTENDS Integers, Sequences, FiniteSets

CONSTANTS
    MaxDatagrams,  \* bound on the datagrams that reach the Wi-Fi board
    MaxPolls,      \* bound on the polls that are unanswered at a time
    FaultKinds,    \* which disturbances the environment causes
    MaxFaults      \* bound on the number of disturbances

ASSUME BridgeAssumption ==
    /\ MaxDatagrams \in Nat
    /\ MaxPolls \in Nat \ {0}
    /\ FaultKinds \subseteq {"garble", "restart", "reboot"}
    /\ MaxFaults \in Nat

VARIABLES
    arrived,   \* number of the latest datagram that reached the Wi-Fi board
    rxData,    \* the datagram in rxData
    rxAvail,   \* rxAvail > 0
    txAvail,   \* txAvail of the Wi-Fi board
    sending,   \* wifiSendFrame() has sent the frame, rxAvail is still to be 0
    toBoard,   \* commands on their way to the Wi-Fi board
    toHost,    \* replies on their way to the main board
    draining,  \* espProcess() is in the loop that empties inBuffer
    buffer,    \* the frame buffer of the main board, behind the command
    passed,    \* number of the latest datagram given to provProcess()
    repeated,  \* history: a datagram was given to provProcess() again
    phantom,   \* history: provProcess() was given bytes that are no datagram
    hasty,     \* history: a poll was sent while an earlier one was unanswered
    broken,    \* history: a board started anew
    faults     \* disturbances so far (bounded by MaxFaults)

wifi == <<rxData, rxAvail, txAvail, sending>>
history == <<passed, repeated, phantom, broken>>
vars == <<arrived, wifi, toBoard, toHost, draining, buffer, history, hasty,
          faults>>

\* What a server sends: a new session key, output levels, or anything else.
Kinds == {"register", "outputs", "request"}
Datagrams == [num : 1 .. MaxDatagrams, kind : Kinds]

\* A buffer of zeros reads as CONTROL_CMD_REGISTER with the key 0.
Zeros == [num |-> 0, kind |-> "register"]
Contents == Datagrams \cup {Zeros}

\* Bytes of a damaged frame, or of several; they may read as any command.
Spoiled == [num |-> 0, kind |-> "any"]

Commands == {"status", "read", "send"}
Replies == [cmd : {"status"}, avail : BOOLEAN, tx : BOOLEAN]
           \cup [cmd : {"frame"}, data : Contents]

\* How the type field of the buffer reads: as in the frame received last, or
\* as the rxAvail and txAvail bytes of a status that came after it.
Heads == {"frame", "control", "output", "other"}

IsStatus(reply) == reply.cmd = "status"
IsDatagram(reply) == ~IsStatus(reply) /\ reply.data # Zeros

\* The frames with a datagram on their way to the main board.
Frames == {i \in DOMAIN toHost : IsDatagram(toHost[i])}

-----------------------------------------------------------------------------
(* The Wi-Fi board                                                         *)

\* at_tcpclient_recv(): a datagram that finds the place taken is dropped.  The
\* SDK calls it in a task of its own, in the middle of wifiSendFrame() as well.
AtTcpclientRecv ==
    /\ arrived < MaxDatagrams
    /\ arrived' = arrived + 1
    /\ IF rxAvail
       THEN UNCHANGED <<rxData, rxAvail>>
       ELSE /\ \E k \in Kinds : rxData' = [num |-> arrived', kind |-> k]
            /\ rxAvail' = TRUE
    /\ UNCHANGED <<txAvail, sending, toBoard, toHost, draining, buffer, history,
                   hasty, faults>>

\* at_tcpclient_sent_cb().
AtTcpclientSentCb ==
    /\ ~txAvail
    /\ txAvail' = TRUE
    /\ UNCHANGED <<arrived, rxData, rxAvail, sending, toBoard, toHost, draining,
                   buffer, history, hasty, faults>>

\* wifiSendStatus().
WifiSendStatus ==
    /\ toHost' = Append(toHost, [cmd |-> "status", avail |-> rxAvail,
                                 tx |-> txAvail])
    /\ UNCHANGED wifi

\* wifiSendFrame(), up to rxAvail = 0.
WifiSendFrame ==
    /\ toHost' = Append(toHost, [cmd |-> "frame",
                                 data |-> IF rxAvail THEN rxData ELSE Zeros])
    /\ sending' = TRUE
    /\ UNCHANGED <<rxData, rxAvail, txAvail>>

\* wifiTransmitFrame(); whether the SDK takes a packet while the last one is
\* in the air is not the firmware's doing.
WifiTransmitFrame ==
    /\ txAvail' = FALSE
    /\ UNCHANGED <<rxData, rxAvail, sending, toHost>>

\* commProcessCommand() for the next command.
CommProcessCommand ==
    /\ ~sending
    /\ toBoard # <<>>
    /\ toBoard' = Tail(toBoard)
    /\ \/ Head(toBoard) = "status" /\ WifiSendStatus
       \/ Head(toBoard) = "read" /\ WifiSendFrame
       \/ Head(toBoard) = "send" /\ WifiTransmitFrame
    /\ UNCHANGED <<arrived, draining, buffer, history, hasty, faults>>

\* Mutant: the datagram stays in its place after it was read.
FrameSentKept ==
    /\ sending
    /\ sending' = FALSE
    /\ UNCHANGED <<arrived, rxData, rxAvail, txAvail, toBoard, toHost, draining,
                   buffer, history, hasty, faults>>

\* The end of wifiSendFrame(): rxAvail = 0, whatever has arrived meanwhile.
FrameSent ==
    /\ sending
    /\ sending' = FALSE
    /\ rxAvail' = FALSE
    /\ UNCHANGED <<arrived, rxData, txAvail, toBoard, toHost, draining, buffer,
                   history, hasty, faults>>

-----------------------------------------------------------------------------
(* The main board                                                          *)

\* The polls and answers on their way.
Polls == Cardinality({i \in DOMAIN toBoard : toBoard[i] = "status"})
         + Cardinality({i \in DOMAIN toHost : IsStatus(toHost[i])})

\* The start of espProcess(), with a poll if 20 ms have passed since the last.
EspProcess ==
    /\ ~draining
    /\ draining' = TRUE
    /\ UNCHANGED <<arrived, wifi, toBoard, toHost, buffer, history, hasty, faults>>

Poll ==
    /\ ~draining
    /\ Polls < MaxPolls
    /\ draining' = TRUE
    /\ toBoard' = Append(toBoard, "status")
    /\ hasty' = (hasty \/ Polls > 0)
    /\ UNCHANGED <<arrived, wifi, toHost, buffer, history, faults>>

\* provProcess() with the first bytes of d.
ProvProcess(d) ==
    /\ passed' = IF d.num = 0 THEN passed ELSE d.num
    /\ repeated' = (repeated \/ d.num \in 1 .. passed)
    /\ phantom' = (phantom \/ d.num = 0)
    /\ UNCHANGED broken

\* A status overwrites the packet id and the type of the frame before it.
StatusHead(reply) ==
    IF reply.tx THEN "other" ELSE IF reply.avail THEN "output" ELSE "control"

\* What is in the buffer still makes sense to provProcess().
Replayable ==
    \/ buffer.head = "frame"
    \/ buffer.head = "control" /\ buffer.body.kind \in {"register", "any"}
    \/ buffer.head = "output" /\ buffer.body.kind \in {"outputs", "any"}

\* Mutant: a frame is fetched only when the Wi-Fi board has nothing to send.
EspProcessStatusIdle(reply) ==
    /\ buffer' = [buffer EXCEPT !.head = StatusHead(reply)]
    /\ toBoard' = IF reply.avail /\ reply.tx THEN Append(toBoard, "read")
                                            ELSE toBoard
    /\ UNCHANGED history

\* espProcessCommand(ESP_CMD_READ_STATUS).
EspProcessStatus(reply) ==
    /\ buffer' = [buffer EXCEPT !.head = StatusHead(reply)]
    /\ toBoard' = IF reply.avail THEN Append(toBoard, "read") ELSE toBoard
    /\ UNCHANGED history

\* Mutant: a frame is followed by the read for the next.
EspProcessFrameReadsOn(reply) ==
    /\ buffer' = [head |-> "frame", body |-> reply.data]
    /\ ProvProcess(reply.data)
    /\ toBoard' = Append(toBoard, "read")

\* espProcessCommand(ESP_CMD_READ_FRAME): the length is not looked at.
EspProcessFrame(reply) ==
    /\ IF reply.data # Zeros
       THEN /\ buffer' = [head |-> "frame", body |-> reply.data]
            /\ ProvProcess(reply.data)
       ELSE /\ UNCHANGED buffer
            /\ \/ Replayable /\ ProvProcess(buffer.body)
               \/ (~Replayable \/ buffer.body = Spoiled) /\ UNCHANGED history
    /\ UNCHANGED toBoard

\* processChar() for the characters of the next frame in inBuffer.
ProcessChar ==
    /\ draining
    /\ toHost # <<>>
    /\ toHost' = Tail(toHost)
    /\ IF IsStatus(Head(toHost)) THEN EspProcessStatus(Head(toHost))
                                 ELSE EspProcessFrame(Head(toHost))
    /\ UNCHANGED <<arrived, wifi, draining, hasty, faults>>

\* inBuffer is empty, and espProcess() returns.
Drained ==
    /\ draining
    /\ toHost = <<>>
    /\ draining' = FALSE
    /\ UNCHANGED <<arrived, wifi, toBoard, toHost, buffer, history, hasty, faults>>

\* provSendPacket(): presence packets, reports and registrations (one on its
\* way at a time, which bounds the line).
ProvSendPacket ==
    /\ \A i \in DOMAIN toBoard : toBoard[i] # "send"
    /\ toBoard' = Append(toBoard, "send")
    /\ UNCHANGED <<arrived, wifi, toHost, draining, buffer, history, hasty, faults>>

-----------------------------------------------------------------------------
(* Disturbances                                                            *)

Disturb(kind) ==
    /\ kind \in FaultKinds
    /\ faults < MaxFaults
    /\ faults' = faults + 1

\* Damaged on their way up, frames fail the check sum or time out after 200 ms;
\* but processChar() has stored what it took for their payload.  The buffer may
\* hold what it held, one of them whole, or a mixture, and the head of another.
SpoilBuffer(damaged) ==
    buffer' \in [head : Heads,
                 body : {buffer.body, Spoiled}
                        \cup {toHost[i].data : i \in Frames \cap damaged}]

\* Characters are lost, to a full ring buffer or on the line.
Garble ==
    /\ Disturb("garble")
    /\ \/ \E n \in 1 .. Len(toBoard) :
            /\ toBoard' = SubSeq(toBoard, n + 1, Len(toBoard))
            /\ UNCHANGED <<toHost, buffer>>
       \/ \E n \in 1 .. Len(toHost) :
            /\ toHost' = SubSeq(toHost, n + 1, Len(toHost))
            /\ SpoilBuffer(1 .. n)
            /\ UNCHANGED toBoard
    /\ UNCHANGED <<arrived, wifi, draining, history, hasty>>

WifiReset ==
    /\ rxData' = Zeros /\ rxAvail' = FALSE /\ txAvail' = TRUE /\ sending' = FALSE
    /\ toBoard' = <<>>
    /\ broken' = TRUE
    /\ UNCHANGED <<arrived, passed, repeated, phantom, hasty>>

\* The Wi-Fi board restarts on its own.
Restart ==
    /\ Disturb("restart")
    /\ WifiReset
    /\ UNCHANGED <<toHost, draining, buffer>>

\* The main board starts, and espInit() resets the Wi-Fi board.
EspInit ==
    /\ Disturb("reboot")
    /\ WifiReset
    /\ toHost' = <<>>
    /\ draining' = FALSE
    /\ buffer' = [head |-> "control", body |-> Zeros]

-----------------------------------------------------------------------------
Init ==
    /\ arrived = 0
    /\ rxData = Zeros /\ rxAvail = FALSE /\ txAvail = TRUE /\ sending = FALSE
    /\ toBoard = <<>> /\ toHost = <<>>
    /\ draining = FALSE
    /\ buffer = [head |-> "control", body |-> Zeros]
    /\ passed = 0 /\ repeated = FALSE /\ phantom = FALSE
    /\ hasty = FALSE /\ broken = FALSE
    /\ faults = 0

Next ==
    \/ AtTcpclientRecv \/ AtTcpclientSentCb
    \/ CommProcessCommand \/ FrameSent
    \/ EspProcess \/ Poll \/ ProcessChar \/ Drained
    \/ ProvSendPacket
    \/ Garble \/ Restart \/ EspInit

Spec == Init /\ [][Next]_vars

\* Both main loops run, and 20 ms pass again and again: the poll is possible
\* only between two calls of espProcess(), hence its strong fairness.
Fairness ==
    /\ WF_vars(CommProcessCommand) /\ WF_vars(FrameSent)
    /\ WF_vars(ProcessChar) /\ WF_vars(Drained)
    /\ SF_vars(Poll)

FairSpec == Spec /\ Fairness

-----------------------------------------------------------------------------
(* Properties                                                              *)

TypeOK ==
    /\ arrived \in 0 .. MaxDatagrams
    /\ rxData \in Contents
    /\ rxAvail \in BOOLEAN /\ txAvail \in BOOLEAN /\ sending \in BOOLEAN
    /\ toBoard \in Seq(Commands) /\ toHost \in Seq(Replies)
    /\ draining \in BOOLEAN
    /\ buffer \in [head : Heads, body : Contents \cup {Spoiled}]
    /\ passed \in 0 .. MaxDatagrams
    /\ repeated \in BOOLEAN /\ phantom \in BOOLEAN
    /\ hasty \in BOOLEAN /\ broken \in BOOLEAN
    /\ faults \in 0 .. MaxFaults

\* As long as no poll has overtaken the answer to the one before it, and no
\* board has restarted, every datagram is processed once and nothing else is.
OnceEach == ~hasty /\ ~broken => ~repeated /\ ~phantom

\* ... and inBuffer has to hold an answer to a poll and a frame at most, so
\* that the missing test for a full buffer does no harm.
RingHasRoom == ~hasty => Len(toHost) <= 2

\* A datagram in rxData that no command threatens is processed.
Safe == rxAvail /\ ~sending /\ ~hasty /\ faults = MaxFaults
ArrivesUpstairs ==
    \A d \in 1 .. MaxDatagrams :
        (Safe /\ rxData.num = d) ~> (passed >= d \/ hasty)

\* The numbers of the datagrams on their way up; one that has arrived while an
\* empty frame is sent is lost already.
Underway ==
    {toHost[i].data.num : i \in Frames}
    \cup (IF rxAvail /\ ~sending THEN {rxData.num} ELSE {})

\* Polls that overlap, frames that are lost and boards that restart
\* notwithstanding, the bridge is a relay that keeps the order, loses nothing
\* it has taken without a disturbance, and hands on again, or for the first
\* time, what the buffer holds, be it nothing that has arrived.
Abstract == INSTANCE Relay WITH
    Numbers <- 1 .. MaxDatagrams, waiting <- Underway, passed <- passed,
    kept <- buffer.body.num, noise <- phantom, damages <- faults
ImplementsRelay == Abstract!Spec

=============================================================================
