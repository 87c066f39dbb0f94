------------------------------ MODULE Readings ------------------------------
(***************************************************************************)
(* The numbers an endpoint reports, from the sensor to the scripts.        *)
(*                                                                         *)
(* An expander8 (expander8/temp.c, providers/provider_temp.c) reads its    *)
(* temperature sensors in turn and sends what it holds of them in turn,    *)
(* over and over.  The energy counter (energy_counter_remote/main.c,       *)
(* endpoint_energy_counter/rf.cpp and main.cpp, provider_counter.c) gets a *)
(* count by radio with every pulse and sends it once.  Both forget what    *)
(* they hold when the server registers them.  On the server TempProvider   *)
(* and CounterProvider keep the last number.                               *)
(*                                                                         *)
(* A session is seen as in Inputs: it starts with the REGISTER command and *)
(* ends when the server drops its provider, with all that is in flight.    *)
(***************************************************************************)
EXTENDS Integers, Sequences

CONSTANTS
    SensorsCnt,   \* tempSensorsCnt: the sensors an expander found at its start
    Temperature,  \* Temperature[i]: what sensor i can measure
    MaxCount,     \* bound on the pulses of the energy counter
    MaxInFlight,  \* an expander sends when fewer packets are in flight
    FaultKinds,   \* which disturbances the environment causes
    MaxFaults     \* bound on the number of disturbances

ASSUME SensorsAssumption ==
    /\ SensorsCnt \in Nat \ {0}
    /\ \A i \in 0 .. SensorsCnt - 1 : 0 \notin Temperature[i]
ASSUME BoundsAssumption ==
    /\ MaxCount \in Nat /\ MaxInFlight \in Nat /\ MaxFaults \in Nat
    /\ FaultKinds \subseteq {"lose", "delay", "duplicate", "reregister",
                      "unplug", "radio", "spi"}

VARIABLES
    board,      \* which of the two endpoints this is
    real,       \* real[i]: temperature at sensor i; real[0]: the count
    present,    \* the sensors that are connected
    scratch,    \* scratch[i]: the scratchpad of sensor i
    status,     \* tempStatus
    idx,        \* tempSensorIdx
    num,        \* num of provTemp_sendData()
    air,        \* payloads in the receiver of the radio chip
    ready,      \* its RX_DR flag
    reading,    \* rfProcess() has read this payload (0: is not reading)
    cleared,    \* and has cleared RX_DR for the second time
    blind,      \* it has read the chip when that held no payload
    tuned,      \* initialized of rf.cpp
    data,       \* prov_tempData, counters
    session,    \* the endpoint has been told the key of a session
    up, late,   \* packets in flight in order; held back or copied ones
    provider,   \* the device has its TempProvider or CounterProvider
    shown,      \* m_sensors, m_counters
    heard,      \* number of counts that provider has heard, 2 for more
    told,       \* the last COUNTER:CHANGED published
    faults,     \* number of disturbances so far
    met         \* and their kinds

bus == <<real, present, scratch, status, idx, num>>
radio == <<air, ready, reading, cleared, blind, tuned>>
server == <<provider, shown, heard, told>>
disturbed == <<faults, met>>
vars == <<board, bus, radio, data, session, up, late, server, disturbed>>

Sensors == 0 .. SensorsCnt - 1

\* The scratchpad of a DS18B20 that has just got its power holds 85 degrees.
PowerOn == 85
Expander == board = "expander"
Indices == IF Expander THEN Sensors ELSE {0}
Numbers(i) == IF Expander THEN Temperature[i] \cup {PowerOn} ELSE 1 .. MaxCount

Nothing == [i \in Indices |-> 0]
RegisterPacket == [kind |-> "register"]
ValuePacket(i, v) == [kind |-> "value", num |-> i, value |-> v]
IsPacket(m) ==
    \/ m = RegisterPacket
    \/ \E i \in Indices : \E v \in Numbers(i) \cup {0} : m = ValuePacket(i, v)

Disturb(kind) ==
    /\ kind \in FaultKinds
    /\ faults < MaxFaults
    /\ faults' = faults + 1
    /\ met' = met \cup {kind}

\* provSendPacket(): outside a session the server answers with a new key.
Send(m) == up' = IF session THEN Append(up, m) ELSE up

-----------------------------------------------------------------------------
(* expander8/temp.c and providers/provider_temp.c                          *)

Warm ==
    /\ Expander
    /\ \E i \in Sensors : \E t \in Temperature[i] \ {real[i]} :
        real' = [real EXCEPT ![i] = t]
    /\ UNCHANGED <<board, present, scratch, status, idx, num, radio, data,
                   session, up, late, server, disturbed>>

Unplug ==
    /\ Expander
    /\ Disturb("unplug")
    /\ \E i \in present : present' = present \ {i}
    /\ UNCHANGED <<board, real, scratch, status, idx, num, radio, data, session,
                   up, late, server>>

Plug ==
    /\ Expander
    /\ \E i \in Sensors \ present :
        /\ present' = present \cup {i}
        /\ scratch' = [scratch EXCEPT ![i] = PowerOn]
    /\ UNCHANGED <<board, real, status, idx, num, radio, data, session, up,
                   late, server, disturbed>>

NextIdx(i) == (i + 1) % SensorsCnt

\* temp_setupNextRead() for sensor i, which converts if it is there.
SetupNextRead(i) ==
    /\ status' = "waiting"
    /\ scratch' = IF i \in present THEN [scratch EXCEPT ![i] = real[i]]
                                   ELSE scratch

\* Mutant: a sensor that does not answer is tried again.
ReadTemperatureAgain ==
    /\ \/ /\ idx \in present
          /\ data' = [data EXCEPT ![idx] = scratch[idx]]
          /\ idx' = NextIdx(idx)
       \/ idx \notin present /\ UNCHANGED <<data, idx>>
    /\ SetupNextRead(idx')

\* temp_readTemperature() on a bus with sensors: without an answer from this
\* one the check sum fails, and the next one has its turn.
ReadTemperature ==
    /\ \/ idx \in present /\ data' = [data EXCEPT ![idx] = scratch[idx]]
       \/ idx \notin present /\ UNCHANGED data
    /\ idx' = NextIdx(idx)
    /\ SetupNextRead(idx')

\* Mutant: what was read of the sensors is cleared.
NoSensorClears ==
    /\ status' = "nosensor"
    /\ data' = Nothing
    /\ UNCHANGED <<scratch, idx>>

\* The reset pulse is not answered.
NoSensor ==
    /\ status' = "nosensor"
    /\ UNCHANGED <<scratch, idx, data>>

\* tempProcess(), 1000 ms after the last conversion was started.
TempProcess ==
    /\ Expander
    /\ \/ /\ status = "nosensor" /\ present # {}
          /\ SetupNextRead(idx)
          /\ UNCHANGED <<idx, data>>
       \/ /\ status = "waiting" /\ present # {}
          /\ ReadTemperature
       \/ /\ status = "waiting" /\ present = {}
          /\ NoSensor
    /\ UNCHANGED <<board, real, present, num, radio, session, up, late, server,
                   disturbed>>

\* provTempTmr() and provTemp_sendData().
ProvTempTmr ==
    /\ Expander
    /\ Len(up) < MaxInFlight
    /\ Send(ValuePacket(num, data[num]))
    /\ num' = NextIdx(num)
    /\ UNCHANGED <<board, real, present, scratch, status, idx, radio, data,
                   session, late, server, disturbed>>

-----------------------------------------------------------------------------
(* energy_counter_remote/main.c and endpoint_energy_counter/rf.cpp         *)

RxFifoSize == 3

\* The radio chip of the endpoint takes the payload, and acknowledges it, when
\* it has room; after some retries the remote gives up.  While the program
\* takes it for uninitialised the chip may receive or not.
Receive(payload) ==
    \/ /\ Len(air) < RxFifoSize
       /\ air' = Append(air, payload) /\ ready' = TRUE
       /\ UNCHANGED disturbed
    \/ /\ ~tuned \/ Len(air) = RxFifoSize
       /\ UNCHANGED <<air, ready, disturbed>>
    \/ Disturb("radio") /\ UNCHANGED <<air, ready>>

\* EXTI0_1_Handler(): a pulse of the meter.
Pulse ==
    /\ ~Expander
    /\ real[0] < MaxCount
    /\ real' = [real EXCEPT ![0] = @ + 1]
    /\ Receive(real'[0])
    /\ UNCHANGED <<board, present, scratch, status, idx, num, reading, cleared,
                   blind, tuned, data, session, up, late, server>>

\* rfInit() succeeds; it may leave what the chip has received, and its flag.
RfInit ==
    /\ ~Expander /\ ~tuned /\ reading = 0
    /\ tuned' = TRUE
    /\ air' \in {air, <<>>} /\ ready' \in {ready, FALSE}
    /\ UNCHANGED <<board, bus, reading, cleared, blind, data, session, up, late,
                   server, disturbed>>

\* What a chip without a payload answers is not specified: any count so far.
Payload ==
    \/ air # <<>> /\ reading' = Head(air) /\ air' = Tail(air) /\ UNCHANGED blind
    \/ air = <<>> /\ reading' \in 1 .. real[0] /\ blind' = TRUE /\ UNCHANGED air

\* rfProcess() up to rfm70ReadRxPayload(): RX_DR is cleared before the read.
\* An rfInit() that fails, at the gpio say, does not keep it from that.
RfRead ==
    /\ ~Expander
    /\ \/ tuned /\ UNCHANGED disturbed
       \/ ~tuned /\ Disturb("spi")
    /\ ready /\ reading = 0
    /\ ready' = FALSE
    /\ Payload
    /\ UNCHANGED <<board, bus, cleared, tuned, data, session, up, late, server>>

\* RX_DR is cleared again.
RfClear ==
    /\ reading # 0 /\ ~cleared
    /\ ready' = FALSE /\ cleared' = TRUE
    /\ UNCHANGED <<board, bus, air, reading, blind, tuned, data, session, up, late,
                   server, disturbed>>

\* The rest of rfProcess(): what has arrived meanwhile is flushed, with RX_DR
\* set if it came after the last command, and rfNewCounterValue() sets the
\* counter and sends it.
RfDone ==
    /\ cleared
    /\ air' = <<>>
    /\ data' = [data EXCEPT ![0] = reading]
    /\ Send(ValuePacket(0, data'[0]))
    /\ reading' = 0 /\ cleared' = FALSE
    /\ UNCHANGED <<board, bus, ready, blind, tuned, session, late, server, disturbed>>

\* ER(): the adapter fails, before the payload is read or after.
RfFails ==
    /\ ~Expander
    /\ tuned \/ reading # 0
    /\ Disturb("spi")
    /\ tuned' = FALSE
    /\ reading' = 0 /\ cleared' = FALSE
    /\ ready' \in {ready, FALSE}
    /\ UNCHANGED <<board, bus, air, blind, data, session, up, late, server>>

-----------------------------------------------------------------------------
(* Sessions, and the providers of the server                               *)

\* The REGISTER command: provTempReset() or provCounterReset(), which is the
\* same for the only counter, and the packet that registers the provider.
StartSession ==
    /\ ~session /\ reading = 0
    /\ session' = TRUE
    /\ data' = Nothing
    /\ up' = <<RegisterPacket>>
    /\ UNCHANGED <<board, bus, radio, late, server, disturbed>>

\* The network, or the bridge of EspBridge, repeats the REGISTER command.
RegisterAgain ==
    /\ session /\ reading = 0
    /\ Disturb("reregister")
    /\ data' = Nothing
    /\ up' = Append(up, RegisterPacket)
    /\ UNCHANGED <<board, bus, radio, session, late, server>>

\* A second provider of the type is never found, and changes nothing.
AddProvider ==
    /\ provider' = TRUE
    /\ IF provider THEN UNCHANGED <<shown, heard>>
                   ELSE shown' = Nothing /\ heard' = 0
    /\ UNCHANGED told

\* TempProvider::processData().
NewTemp(m) ==
    /\ Expander
    /\ shown' = [shown EXCEPT ![m.num] = m.value]
    /\ UNCHANGED <<provider, heard, told>>

\* Mutant: the first two reports count as first data.
NewCountSwallowsTwo(m) ==
    /\ ~Expander
    /\ shown' = [shown EXCEPT ![m.num] = m.value]
    /\ heard' = IF heard < 2 THEN heard + 1 ELSE 2
    /\ told' = IF heard = 2 /\ m.value # shown[m.num] THEN m.value ELSE told
    /\ UNCHANGED provider

\* CounterProvider::processData() calls onCounterChanged() for a change, but
\* not for its first data (m_hasFirstData is heard > 0).
NewCount(m) ==
    /\ ~Expander
    /\ shown' = [shown EXCEPT ![m.num] = m.value]
    /\ heard' = IF heard < 2 THEN heard + 1 ELSE 2
    /\ told' = IF heard > 0 /\ m.value # shown[m.num] THEN m.value ELSE told
    /\ UNCHANGED provider

ProcessData(m) ==
    \/ m.kind = "register" /\ AddProvider
    \/ m.kind = "value" /\ provider /\ (NewTemp(m) \/ NewCount(m))
    \/ m.kind = "value" /\ ~provider /\ UNCHANGED server

Deliver ==
    /\ up # <<>>
    /\ ProcessData(Head(up))
    /\ up' = Tail(up)
    /\ UNCHANGED <<board, bus, radio, data, session, late, disturbed>>

DeliverLate ==
    /\ \E m \in late : ProcessData(m) /\ late' = late \ {m}
    /\ UNCHANGED <<board, bus, radio, data, session, up, disturbed>>

\* markDisconnected().
EndSession ==
    /\ session
    /\ session' = FALSE
    /\ up' = <<>> /\ late' = {}
    /\ provider' = FALSE /\ shown' = Nothing /\ heard' = 0
    /\ UNCHANGED <<board, bus, radio, data, told, disturbed>>

-----------------------------------------------------------------------------
(* The network                                                             *)

Lose ==
    /\ Disturb("lose")
    /\ up # <<>> /\ up' = Tail(up)
    /\ UNCHANGED <<board, bus, radio, data, session, late, server>>

Delay ==
    /\ Disturb("delay")
    /\ up # <<>>
    /\ late' = late \cup {Head(up)} /\ up' = Tail(up)
    /\ UNCHANGED <<board, bus, radio, data, session, server>>

Duplicate ==
    /\ Disturb("duplicate")
    /\ up # <<>>
    /\ late' = late \cup {Head(up)}
    /\ UNCHANGED <<board, bus, radio, data, session, up, server>>

-----------------------------------------------------------------------------
Init ==
    /\ board \in {"expander", "energy"}
    /\ real \in IF Expander THEN {r \in [Sensors -> UNION {Temperature[i] : i \in Sensors}] :
                                    \A i \in Sensors : r[i] \in Temperature[i]}
                             ELSE {Nothing}
    /\ present = IF Expander THEN Sensors ELSE {}
    /\ scratch = [i \in Indices |-> PowerOn]
    /\ status = "nosensor" /\ idx = 0 /\ num = 0
    /\ air = <<>> /\ ready = FALSE /\ reading = 0 /\ tuned = FALSE
    /\ cleared = FALSE /\ blind = FALSE
    /\ data = Nothing
    /\ session = FALSE /\ up = <<>> /\ late = {}
    /\ provider = FALSE /\ shown = Nothing /\ heard = 0 /\ told = 0
    /\ faults = 0 /\ met = {}

Next ==
    \/ Warm \/ Unplug \/ Plug \/ TempProcess \/ ProvTempTmr
    \/ Pulse \/ RfInit \/ RfRead \/ RfClear \/ RfDone \/ RfFails
    \/ StartSession \/ RegisterAgain \/ Deliver \/ DeliverLate \/ EndSession
    \/ Lose \/ Delay \/ Duplicate

Spec == Init /\ [][Next]_vars

\* The main loops run, and packets in flight arrive.
Fairness ==
    /\ WF_vars(TempProcess) /\ WF_vars(ProvTempTmr)
    /\ WF_vars(RfInit) /\ WF_vars(RfRead)
    /\ WF_vars(RfClear) /\ WF_vars(RfDone)
    /\ WF_vars(Deliver) /\ WF_vars(DeliverLate)

FairSpec == Spec /\ Fairness

-----------------------------------------------------------------------------
(* Properties                                                              *)

\* Types, and with them that every sensor has its own numbers all the way up.
TypeOK ==
    /\ board \in {"expander", "energy"}
    /\ \A i \in Indices :
        /\ real[i] \in Numbers(i) \cup {0}
        /\ data[i] \in Numbers(i) \cup {0}
        /\ shown[i] \in Numbers(i) \cup {0}
        /\ Expander => scratch[i] \in Numbers(i)
    /\ present \subseteq Indices
    /\ status \in {"nosensor", "waiting"}
    /\ idx \in Indices /\ num \in Indices
    /\ Len(air) <= RxFifoSize /\ \A k \in DOMAIN air : air[k] \in 1 .. MaxCount
    /\ ready \in BOOLEAN /\ tuned \in BOOLEAN /\ blind \in BOOLEAN
    /\ reading \in 0 .. MaxCount
    /\ cleared \in BOOLEAN /\ (cleared => reading # 0)
    /\ session \in BOOLEAN /\ provider \in BOOLEAN
    /\ \A k \in DOMAIN up : IsPacket(up[k])
    /\ \A m \in late : IsPacket(m)
    /\ heard \in 0 .. 2 /\ told \in 0 .. MaxCount
    /\ faults \in 0 .. MaxFaults /\ met \subseteq FaultKinds

\* The number of a sensor that a session has shown once is not replaced by the
\* 0 of a reset, which the scripts could not tell from a measurement: a dead
\* sensor keeps its last number while the session lasts.  A REGISTER command
\* or a report that comes twice or late breaks that.
NoZeroOnceRead ==
    [][met' \cap {"reregister", "delay", "duplicate"} = {}
       /\ provider /\ provider'
         => \A i \in Indices : shown[i] # 0 => shown'[i] # 0]_vars

\* The scripts are behind the server's count only by the first report of a
\* session, which is taken for the answer to the request that no endpoint
\* gives: with the second one they are told the whole count.  Lost or overtaken
\* reports do no harm.  A report that comes twice can be that second one, and so
\* can the one more that a chip without a payload causes.
OneReportUntold ==
    ~Expander /\ "duplicate" \notin met /\ ~blind /\ heard = 2 => told = shown[0]

Shows(i, v) == i \in Indices /\ shown[i] = v

\* The temperature a connected sensor stays at is shown in the end, whatever
\* was lost before: the reports repeat.  A count is shown when its one report
\* was not lost or overtaken, and if not, with the next pulse.
SettledIsShown ==
    \A i \in Sensors :
        /\ \A t \in Temperature[i] :
            <>[](Expander /\ provider /\ i \in present /\ real[i] = t)
                => <>[]Shows(i, t)
        /\ \A c \in 1 .. MaxCount :
            <>[](/\ ~Expander /\ provider /\ data[0] = c
                 /\ met \cap {"lose", "delay", "duplicate"} = {})
                => <>[]Shows(0, c)

=============================================================================
