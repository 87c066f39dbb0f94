--------------------------- MODULE Sensing_proofs ---------------------------
(***************************************************************************)
(* Theorems about what the endpoints sense.                                *)
(*                                                                         *)
(* Debounce: for every width of the tick counter and every debounce time   *)
(* below it.  Readings: for any number of sensors and any temperatures but *)
(* 0, and any bounds on the count, on the packets in flight and on the     *)
(* disturbances.  Only the theorems share this module, not the models.     *)
(***************************************************************************)
EXTENDS Debounce, Readings, SequenceTheorems, TLAPS

(***************************************************************************)
(* The debouncer of one input                                              *)
(***************************************************************************)

\* One past a value of the counter: the next one, or 0.
LEMMA NextTick ==
    ASSUME NEW t \in Ticks
    PROVE  (t + 1) % TickSize = IF t + 1 = TickSize THEN 0 ELSE t + 1
<1>1. t \in Nat /\ t + 1 \in 1 .. TickSize /\ TickSize \in Nat \ {0}
  BY TicksAssumption DEF Ticks
<1>2. CASE t + 1 = TickSize
  BY <1>1, <1>2
<1>3. CASE t + 1 # TickSize
  BY <1>1, <1>3
<1> QED BY <1>2, <1>3

\* Two levels only: what is not the confirmed level is the other one.
LEMMA TwoLevels ==
    \A a, b, c \in Levels : a # c /\ b # c => a = b
  BY DEF Levels

-----------------------------------------------------------------------------
(* Types                                                                   *)

\* Every reachable state is well typed.
THEOREM DebounceTypeCorrect == DebounceSpec => []DebounceTypeOK
<1>1. DebounceInit => DebounceTypeOK
  <2>1. 0 \in Ticks /\ DebounceTime \in 0 .. DebounceTime
    BY TicksAssumption DEF Ticks
  <2> QED BY <2>1 DEF DebounceInit, DebounceTypeOK
<1>2. DebounceTypeOK /\ [DebounceNext]_debounceVars => DebounceTypeOK'
  <2> SUFFICES ASSUME DebounceTypeOK, [DebounceNext]_debounceVars
               PROVE  DebounceTypeOK'
    OBVIOUS
  <2>1. CASE IoProcess
    <3>1. PICK level \in Levels : pin' = level /\ AdvimProcess(level)
      BY <2>1 DEF IoProcess
    <3>2. polled' = TRUE /\ UNCHANGED ticks
      BY <2>1 DEF IoProcess
    <3>3. 0 \in 0 .. DebounceTime
      BY TicksAssumption
    <3>4. CASE AtRest(level)
      BY <3>1, <3>2, <3>4 DEF AtRest, DebounceTypeOK
    <3>5. CASE Leave(level)
      BY <3>1, <3>2, <3>3, <3>5 DEF Leave, DebounceTypeOK
    <3>6. CASE Wait(level)
      BY <3>1, <3>2, <3>6 DEF Wait, DebounceTypeOK
    <3>7. CASE Confirm(level)
      BY <3>1, <3>2, <3>7 DEF Confirm, DebounceTypeOK
    <3> QED BY <3>1, <3>4, <3>5, <3>6, <3>7 DEF AdvimProcess
  <2>2. CASE Tick
    <3>1. ticks' \in Ticks
      BY <2>2, NextTick, TicksAssumption DEF Tick, DebounceTypeOK, Ticks
    <3>2. age' \in 0 .. DebounceTime
      BY <2>2, TicksAssumption DEF Tick, DebounceTypeOK
    <3> QED BY <2>2, <3>1, <3>2 DEF Tick, DebounceTypeOK
  <2>3. CASE UNCHANGED debounceVars
    BY <2>3 DEF debounceVars, DebounceTypeOK
  <2> QED BY <2>1, <2>2, <2>3 DEF DebounceNext
<1> QED BY <1>1, <1>2, PTL DEF DebounceSpec

-----------------------------------------------------------------------------
(* The debouncer implements the abstract line                              *)

\* While it debounces, and only then, the line is away from its level.
AwayInv == debouncing <=> pin # stable

LEMMA AwayKept ==
    ASSUME DebounceTypeOK, AwayInv, [DebounceNext]_debounceVars
    PROVE  AwayInv'
<1>1. CASE IoProcess
  <2>1. PICK level \in Levels : pin' = level /\ AdvimProcess(level)
    BY <1>1 DEF IoProcess
  <2>2. CASE AtRest(level)
    BY <2>1, <2>2 DEF AtRest, AwayInv
  <2>3. CASE Leave(level)
    BY <2>1, <2>3 DEF Leave, AwayInv
  <2>4. CASE Wait(level)
    BY <2>1, <2>4 DEF Wait, AwayInv
  <2>5. CASE Confirm(level)
    BY <2>1, <2>5 DEF Confirm, AwayInv
  <2> QED BY <2>1, <2>2, <2>3, <2>4, <2>5 DEF AdvimProcess
<1>2. CASE Tick
  BY <1>2 DEF Tick, AwayInv
<1>3. CASE UNCHANGED debounceVars
  BY <1>3 DEF debounceVars, AwayInv
<1> QED BY <1>1, <1>2, <1>3 DEF DebounceNext

THEOREM AlwaysAway == DebounceSpec => []AwayInv
<1>1. DebounceInit => AwayInv
  BY DEF DebounceInit, AwayInv
<1>2. DebounceTypeOK /\ AwayInv /\ [DebounceNext]_debounceVars => AwayInv'
  BY AwayKept
<1> QED BY <1>1, <1>2, DebounceTypeCorrect, PTL DEF DebounceSpec

\* A round either changes the level that was read, or confirms it, never both:
\* the debouncer implements InputLine.
THEOREM LineImplemented == DebounceSpec => ImplementsLine
<1>1. DebounceInit => Line!Init
  BY DEF DebounceInit, Line!Init
<1>2. DebounceTypeOK /\ AwayInv /\ [DebounceNext]_debounceVars => [Line!Next]_<<pin, stable>>
  <2> SUFFICES ASSUME DebounceTypeOK, AwayInv, [DebounceNext]_debounceVars
               PROVE  [Line!Next]_<<pin, stable>>
    OBVIOUS
  <2>1. CASE IoProcess
    <3>1. PICK level \in Levels : pin' = level /\ AdvimProcess(level)
      BY <2>1 DEF IoProcess
    <3>2. CASE UNCHANGED stable
      BY <3>1, <3>2 DEF Line!Next, Line!Change
    <3>3. CASE Confirm(level)
      <4>1. stable' = level /\ level # stable /\ pin # stable
        BY <3>3 DEF Confirm, AwayInv
      <4>2. level = pin
        BY <4>1, TwoLevels DEF DebounceTypeOK
      <4> QED BY <3>1, <4>1, <4>2 DEF Line!Next, Line!Confirm
    <3> QED BY <3>1, <3>2, <3>3 DEF AdvimProcess, AtRest, Leave, Wait
  <2>2. CASE Tick
    BY <2>2 DEF Tick
  <2>3. CASE UNCHANGED debounceVars
    BY <2>3 DEF debounceVars
  <2> QED BY <2>1, <2>2, <2>3 DEF DebounceNext
<1> QED BY <1>1, <1>2, DebounceTypeCorrect, AlwaysAway, PTL DEF DebounceSpec, ImplementsLine, Line!Spec

-----------------------------------------------------------------------------
(* The debounce time                                                       *)

\* The difference the code computes never exceeds the time that has passed;
\* it is that time, and below the debounce time after every round, unless the
\* counter wraps in between.
AgeInv ==
    debouncing =>
        /\ Elapsed <= age \/ age = DebounceTime
        /\ ~DeafEdge => Elapsed = age /\ (polled => age < DebounceTime)

LEMMA AgeKept ==
    ASSUME DebounceTypeOK, AgeInv, [DebounceNext]_debounceVars
    PROVE  AgeInv'
<1> USE TicksAssumption DEF DebounceTypeOK, Ticks, AgeInv, Elapsed, DeafEdge
<1>1. CASE IoProcess
  <2>1. PICK level \in Levels : pin' = level /\ AdvimProcess(level)
    BY <1>1 DEF IoProcess
  <2>2. ticks' = ticks
    BY <1>1 DEF IoProcess
  <2>3. CASE AtRest(level)
    BY <2>3 DEF AtRest
  <2>4. CASE Leave(level)
    BY <2>2, <2>4 DEF Leave
  <2>5. CASE Wait(level)
    BY <2>2, <2>5 DEF Wait
  <2>6. CASE Confirm(level)
    BY <2>6 DEF Confirm
  <2> QED BY <2>1, <2>3, <2>4, <2>5, <2>6 DEF AdvimProcess
<1>2. CASE Tick
  <2>1. ticks' = IF ticks + 1 = TickSize THEN 0 ELSE ticks + 1
    BY <1>2, NextTick DEF Tick
  <2>2. /\ age' = IF age < DebounceTime THEN age + 1 ELSE age
        /\ polled /\ ~polled'
        /\ debouncing' = debouncing /\ changeTime' = changeTime
    BY <1>2 DEF Tick
  <2> QED BY <2>1, <2>2
<1>3. CASE UNCHANGED debounceVars
  BY <1>3 DEF debounceVars
<1> QED BY <1>1, <1>2, <1>3 DEF DebounceNext

LEMMA AgeCorrect == DebounceSpec => []AgeInv
<1>1. DebounceInit => AgeInv
  BY DEF DebounceInit, AgeInv
<1>2. DebounceTypeOK /\ AgeInv /\ [DebounceNext]_debounceVars => AgeInv'
  BY AgeKept
<1> QED BY <1>1, <1>2, DebounceTypeCorrect, PTL DEF DebounceSpec

\* No edge is told early, whatever the tick counter does.
THEOREM EdgesAreHeld == DebounceSpec => HeldLongEnough
<1>1. ASSUME DebounceTypeOK, AgeInv, DebounceNext, stable' # stable
      PROVE  debouncing /\ age = DebounceTime
  <2>1. PICK level \in Levels : Confirm(level)
    BY <1>1 DEF DebounceNext, IoProcess, AdvimProcess, AtRest, Leave, Wait, Tick
  <2>2. debouncing /\ Elapsed >= DebounceTime
    BY <2>1 DEF Confirm
  <2> QED BY <1>1, <2>2, TicksAssumption DEF AgeInv, Elapsed, DebounceTypeOK, Ticks
<1>2. DebounceTypeOK /\ AgeInv /\ [DebounceNext]_debounceVars =>
        [stable' # stable => debouncing /\ age = DebounceTime]_debounceVars
  BY <1>1 DEF debounceVars
<1> QED BY <1>2, DebounceTypeCorrect, AgeCorrect, PTL DEF DebounceSpec, HeldLongEnough

\* An edge that is not shortly before the wrap is told by the round in which
\* its time is up.
THEOREM EdgesAreToldInTime == DebounceSpec => []ToldInTime
<1>1. DebounceTypeOK /\ AgeInv => ToldInTime
  BY TicksAssumption DEF DebounceTypeOK, AgeInv, ToldInTime
<1> QED BY <1>1, DebounceTypeCorrect, AgeCorrect, PTL

(***************************************************************************)
(* The numbers an endpoint reports: types                                  *)
(***************************************************************************)

Packets == {RegisterPacket}
    \cup UNION {{ValuePacket(i, v) : v \in Numbers(i) \cup {0}} : i \in Indices}

\* What TypeOK leaves open: what the arrays are indexed by, and that a sensor
\* that is there is read as what it measures.
Arrays ==
    /\ DOMAIN real = Indices /\ DOMAIN data = Indices
    /\ DOMAIN shown = Indices /\ DOMAIN scratch = Indices
    /\ Expander => reading = 0 /\ \A i \in Indices : real[i] \in Temperature[i]
    /\ air \in Seq(1 .. MaxCount)
    /\ up \in Seq(Packets)

ReadingsInv == TypeOK /\ Arrays

LEMMA PacketsAre == \A m : m \in Packets <=> IsPacket(m)
  BY DEF Packets, IsPacket

\* The board stays what it is, and with it all that depends on it.
LEMMA SameBoard ==
    ASSUME [Next]_vars
    PROVE  /\ board' = board
           /\ Expander' <=> Expander
           /\ Indices' = Indices
           /\ \A i : Numbers(i)' = Numbers(i)
           /\ Packets' = Packets
           /\ Nothing' = Nothing
           /\ \A m : IsPacket(m)' <=> IsPacket(m)
<1>1. board' = board
  BY DEF Next, vars, Warm, Unplug, Plug, TempProcess, ProvTempTmr, Pulse, RfInit,
         RfRead, Payload, RfClear, RfDone, RfFails, StartSession, RegisterAgain, Deliver,
         DeliverLate, EndSession, Lose, Delay, Duplicate
<1> QED BY <1>1 DEF Expander, Indices, Numbers, Packets, Nothing, IsPacket

LEMMA IndexFacts ==
    /\ 0 \in Sensors /\ 0 \in Indices
    /\ \A i \in Sensors : NextIdx(i) \in Sensors
    /\ Expander => Indices = Sensors
    /\ ~Expander => Indices = {0}
<1>1. SensorsCnt \in Nat \ {0}
  BY SensorsAssumption
<1>2. 0 \in Sensors
  BY <1>1 DEF Sensors
<1>3. ASSUME NEW i \in Sensors PROVE NextIdx(i) \in Sensors
  <2>1. i + 1 \in Int
    BY <1>1 DEF Sensors
  <2> QED BY <1>1, <2>1 DEF Sensors, NextIdx
<1> QED BY <1>2, <1>3 DEF Indices

\* A packet that arrives carries a number of its sensor.
LEMMA PacketFacts ==
    ASSUME NEW m, IsPacket(m)
    PROVE  /\ m.kind \in {"register", "value"}
           /\ m.kind = "value" => m.num \in Indices /\ m.value \in Numbers(m.num) \cup {0}
  BY DEF IsPacket, RegisterPacket, ValuePacket

LEMMA SendKept ==
    ASSUME ReadingsInv, NEW m, IsPacket(m), Send(m)
    PROVE  up' \in Seq(Packets)
<1>1. m \in Packets /\ up \in Seq(Packets)
  BY PacketsAre DEF ReadingsInv, Arrays
<1> QED BY <1>1, AppendProperties DEF Send

\* The elements of a sequence of packets are packets.
LEMMA UpTyped ==
    ASSUME NEW s \in Seq(Packets)
    PROVE  \A k \in DOMAIN s : IsPacket(s[k])
<1>1. DOMAIN s = 1 .. Len(s)
  BY LenProperties
<1> QED BY <1>1, ElementOfSeq, PacketsAre

LEMMA AirTyped ==
    ASSUME NEW s \in Seq(1 .. MaxCount)
    PROVE  \A k \in DOMAIN s : s[k] \in 1 .. MaxCount
<1>1. DOMAIN s = 1 .. Len(s)
  BY LenProperties
<1> QED BY <1>1, ElementOfSeq

LEMMA DisturbKept ==
    ASSUME TypeOK, NEW kind, Disturb(kind)
    PROVE  faults' \in 0 .. MaxFaults /\ met' \subseteq FaultKinds
<1>1. faults \in 0 .. MaxFaults /\ MaxFaults \in Nat /\ met \subseteq FaultKinds
  BY BoundsAssumption DEF TypeOK
<1>2. kind \in FaultKinds /\ faults < MaxFaults
  BY DEF Disturb
<1>3. faults' = faults + 1 /\ met' = met \cup {kind}
  BY DEF Disturb
<1>4. faults + 1 \in 0 .. MaxFaults
  BY <1>1, <1>2
<1> QED BY <1>1, <1>2, <1>3, <1>4

LEMMA ProcessDataKept ==
    ASSUME ReadingsInv, [Next]_vars, NEW m, IsPacket(m), ProcessData(m)
    PROVE  /\ provider' \in BOOLEAN
           /\ DOMAIN shown' = Indices
           /\ \A i \in Indices : shown'[i] \in Numbers(i) \cup {0}
           /\ heard' \in 0 .. 2 /\ told' \in 0 .. MaxCount
<1> USE DEF ReadingsInv, TypeOK, Arrays
<1>1. CASE m.kind = "register" /\ AddProvider
  BY <1>1 DEF AddProvider, Nothing
<1>2. CASE m.kind = "value" /\ provider /\ NewTemp(m)
  BY <1>2, PacketFacts DEF NewTemp
<1>3. CASE m.kind = "value" /\ provider /\ NewCount(m)
  <2>1. m.num \in Indices /\ m.value \in Numbers(m.num) \cup {0}
    BY <1>3, PacketFacts
  <2>2. m.value \in 0 .. MaxCount
    BY <1>3, <2>1, BoundsAssumption DEF NewCount, Numbers
  <2> QED BY <1>3, <2>1, <2>2 DEF NewCount
<1>4. CASE m.kind = "value" /\ ~provider /\ UNCHANGED server
  BY <1>4 DEF server
<1> QED BY <1>1, <1>2, <1>3, <1>4 DEF ProcessData

LEMMA ReadingsInit == Init => ReadingsInv
<1> SUFFICES ASSUME Init PROVE ReadingsInv
  OBVIOUS
<1>1. /\ board \in {"expander", "energy"}
      /\ present \subseteq Indices /\ status \in {"nosensor", "waiting"}
      /\ ready = FALSE /\ tuned = FALSE /\ cleared = FALSE /\ blind = FALSE
      /\ session = FALSE /\ provider = FALSE
      /\ air = <<>> /\ up = <<>> /\ late = {} /\ met = {}
  BY IndexFacts DEF Init
<1>2. /\ reading \in 0 .. MaxCount /\ heard \in 0 .. 2 /\ told \in 0 .. MaxCount
      /\ faults \in 0 .. MaxFaults
      /\ idx \in Indices /\ num \in Indices
  BY IndexFacts, BoundsAssumption DEF Init
<1>3. /\ DOMAIN data = Indices /\ DOMAIN shown = Indices /\ DOMAIN scratch = Indices
      /\ \A i \in Indices : data[i] = 0 /\ shown[i] = 0 /\ scratch[i] = PowerOn
  BY DEF Init, Nothing
<1>4. /\ DOMAIN real = Indices
      /\ \A i \in Indices : real[i] \in Numbers(i) \cup {0}
      /\ Expander => \A i \in Indices : real[i] \in Temperature[i]
  BY DEF Init, Nothing, Numbers, Indices
<1>5. /\ air \in Seq(1 .. MaxCount) /\ up \in Seq(Packets) /\ Len(air) <= RxFifoSize
      /\ \A k \in DOMAIN air : air[k] \in 1 .. MaxCount
      /\ \A k \in DOMAIN up : IsPacket(up[k])
  <2>1. air \in Seq(1 .. MaxCount) /\ up \in Seq(Packets) /\ Len(air) = 0
    BY <1>1, EmptySeq
  <2> QED BY <2>1, AirTyped, UpTyped DEF RxFifoSize
<1>6. Expander => reading = 0 /\ \A i \in Indices : PowerOn \in Numbers(i)
  BY DEF Init, Numbers
<1> QED BY <1>1, <1>2, <1>3, <1>4, <1>5, <1>6 DEF ReadingsInv, TypeOK, Arrays

LEMMA ReadingsStep ==
    ASSUME ReadingsInv, [Next]_vars
    PROVE  ReadingsInv'
<1> USE SameBoard
<1> USE DEF ReadingsInv, TypeOK, Arrays
<1>1. CASE Warm
  <2>1. PICK i \in Sensors : \E t \in Temperature[i] : real' = [real EXCEPT ![i] = t]
    BY <1>1 DEF Warm
  <2>2. PICK t \in Temperature[i] : real' = [real EXCEPT ![i] = t]
    BY <2>1
  <2>3. i \in Indices /\ t \in Numbers(i) \cup {0}
    BY <1>1, IndexFacts DEF Warm, Numbers
  <2> QED BY <1>1, <2>2, <2>3 DEF Warm, radio, server, disturbed
<1>2. CASE Unplug
  <2>1. present' \subseteq present
    BY <1>2 DEF Unplug
  <2>2. faults' \in 0 .. MaxFaults /\ met' \subseteq FaultKinds
    BY <1>2, DisturbKept DEF Unplug
  <2> QED BY <1>2, <2>1, <2>2 DEF Unplug, radio, server
<1>3. CASE Plug
  <2>1. PICK i \in Sensors : /\ present' = present \cup {i}
                             /\ scratch' = [scratch EXCEPT ![i] = PowerOn]
    BY <1>3 DEF Plug
  <2>2. i \in Indices /\ PowerOn \in Numbers(i)
    BY <1>3, IndexFacts DEF Plug, Numbers
  <2> QED BY <1>3, <2>1, <2>2 DEF Plug, radio, server, disturbed
<1>4. CASE TempProcess
  <2>1. Expander /\ idx \in Indices /\ NextIdx(idx) \in Indices
    BY <1>4, IndexFacts DEF TempProcess
  <2>2. ASSUME NEW i \in Indices, SetupNextRead(i)
        PROVE  /\ status' \in {"nosensor", "waiting"}
               /\ DOMAIN scratch' = Indices
               /\ \A j \in Indices : scratch'[j] \in Numbers(j)
    BY <2>1, <2>2 DEF SetupNextRead, Numbers
  <2>3. /\ idx' \in Indices /\ status' \in {"nosensor", "waiting"}
        /\ DOMAIN scratch' = Indices /\ \A j \in Indices : scratch'[j] \in Numbers(j)
        /\ DOMAIN data' = Indices /\ \A j \in Indices : data'[j] \in Numbers(j) \cup {0}
    <3>1. CASE SetupNextRead(idx) /\ UNCHANGED <<idx, data>>
      BY <2>1, <2>2, <3>1
    <3>2. CASE ReadTemperature
      <4>1. idx' = NextIdx(idx) /\ SetupNextRead(NextIdx(idx))
        BY <3>2 DEF ReadTemperature, SetupNextRead
      <4>2. DOMAIN data' = Indices /\ \A j \in Indices : data'[j] \in Numbers(j) \cup {0}
        BY <2>1, <3>2 DEF ReadTemperature
      <4> QED BY <2>1, <2>2, <4>1, <4>2
    <3>3. CASE NoSensor
      BY <2>1, <3>3 DEF NoSensor
    <3> QED BY <1>4, <3>1, <3>2, <3>3 DEF TempProcess
  <2> QED BY <1>4, <2>1, <2>3 DEF TempProcess, radio, server, disturbed
<1>5. CASE ProvTempTmr
  <2>1. num' \in Indices
    BY <1>5, IndexFacts DEF ProvTempTmr
  <2>2. IsPacket(ValuePacket(num, data[num]))
    BY DEF IsPacket
  <2>3. up' \in Seq(Packets)
    BY <1>5, <2>2, SendKept DEF ProvTempTmr
  <2>4. \A k \in DOMAIN up' : IsPacket(up'[k])
    BY <2>3, UpTyped
  <2> QED BY <1>5, <2>1, <2>3, <2>4 DEF ProvTempTmr, radio, server, disturbed
<1>6. CASE Pulse
  <2>1. /\ ~Expander /\ Indices = {0}
        /\ real[0] \in 0 .. MaxCount /\ real[0] < MaxCount
    BY <1>6, IndexFacts, BoundsAssumption DEF Pulse, Numbers
  <2>2. real[0] + 1 \in 1 .. MaxCount
    BY <2>1, BoundsAssumption
  <2>3. /\ DOMAIN real' = Indices /\ real'[0] = real[0] + 1
        /\ \A i \in Indices : real'[i] \in Numbers(i) \cup {0}
    BY <1>6, <2>1, <2>2 DEF Pulse, Numbers
  <2>4. /\ air' \in Seq(1 .. MaxCount) /\ Len(air') <= RxFifoSize
        /\ ready' \in BOOLEAN
        /\ faults' \in 0 .. MaxFaults /\ met' \subseteq FaultKinds
    <3>1. CASE /\ Len(air) < RxFifoSize
               /\ air' = Append(air, real'[0]) /\ ready' = TRUE
               /\ UNCHANGED disturbed
      <4>1. /\ air' \in Seq(1 .. MaxCount) /\ Len(air') = Len(air) + 1
            /\ Len(air) \in Nat
        BY <2>2, <2>3, <3>1, AppendProperties, LenProperties
      <4>2. Len(air') <= RxFifoSize
        BY <3>1, <4>1 DEF RxFifoSize
      <4> QED BY <3>1, <4>1, <4>2 DEF disturbed
    <3>2. CASE UNCHANGED <<air, ready, disturbed>>
      BY <3>2 DEF disturbed
    <3>3. CASE Disturb("radio") /\ UNCHANGED <<air, ready>>
      BY <3>3, DisturbKept
    <3> QED BY <1>6, <3>1, <3>2, <3>3 DEF Pulse, Receive
  <2>5. \A k \in DOMAIN air' : air'[k] \in 1 .. MaxCount
    BY <2>4, AirTyped
  <2> QED BY <1>6, <2>1, <2>3, <2>4, <2>5 DEF Pulse, server
<1>7. CASE RfInit
  <2>1. air' = air \/ air' = <<>>
    BY <1>7 DEF RfInit
  <2>2. air' \in Seq(1 .. MaxCount) /\ Len(air') <= RxFifoSize
    <3>1. CASE air' = air
      BY <3>1
    <3>2. CASE air' = <<>>
      <4>1. air' \in Seq(1 .. MaxCount) /\ Len(air') = 0
        BY <3>2, EmptySeq
      <4> QED BY <4>1 DEF RxFifoSize
    <3> QED BY <2>1, <3>1, <3>2
  <2>3. \A k \in DOMAIN air' : air'[k] \in 1 .. MaxCount
    BY <2>2, AirTyped
  <2>4. ready' \in BOOLEAN /\ tuned' \in BOOLEAN
    BY <1>7 DEF RfInit
  <2> QED BY <1>7, <2>2, <2>3, <2>4 DEF RfInit, bus, server, disturbed
<1>8. CASE RfRead
  <2>1. /\ ~Expander /\ ready' = FALSE /\ reading = 0 /\ cleared = FALSE /\ cleared' = cleared
        /\ UNCHANGED <<board, bus, tuned, data, session, up, late, server>>
    BY <1>8 DEF RfRead
  <2>2. faults' \in 0 .. MaxFaults /\ met' \subseteq FaultKinds
    BY <1>8, DisturbKept DEF RfRead, disturbed
  <2>3. /\ reading' \in 0 .. MaxCount /\ blind' \in BOOLEAN
        /\ air' \in Seq(1 .. MaxCount) /\ Len(air') <= RxFifoSize
    <3>1. CASE air # <<>> /\ reading' = Head(air) /\ air' = Tail(air) /\ UNCHANGED blind
      <4>1. /\ Head(air) \in 1 .. MaxCount
            /\ Tail(air) \in Seq(1 .. MaxCount) /\ Len(Tail(air)) = Len(air) - 1
            /\ Len(air) \in Nat
        BY <3>1, HeadTailProperties, LenProperties
      <4> QED BY <3>1, <4>1 DEF RxFifoSize
    <3>2. CASE reading' \in 1 .. real[0] /\ blind' = TRUE /\ UNCHANGED air
      <4>1. real[0] \in 0 .. MaxCount
        BY <2>1, IndexFacts, BoundsAssumption DEF Numbers
      <4>2. reading' \in 0 .. MaxCount
        BY <3>2, <4>1, BoundsAssumption
      <4> QED BY <3>2, <4>2
    <3> QED BY <1>8, <3>1, <3>2 DEF RfRead, Payload
  <2>4. \A k \in DOMAIN air' : air'[k] \in 1 .. MaxCount
    BY <2>3, AirTyped
  <2> QED BY <2>1, <2>2, <2>3, <2>4 DEF bus, server
<1>20. CASE RfClear
  <2>1. ready' \in BOOLEAN /\ cleared' \in BOOLEAN /\ reading' # 0
    BY <1>20 DEF RfClear
  <2> QED BY <1>20, <2>1 DEF RfClear, bus, server, disturbed
<1>9. CASE RfDone
  <2>1. ~Expander /\ Indices = {0} /\ reading \in 1 .. MaxCount
    BY <1>9, IndexFacts, BoundsAssumption DEF RfDone
  <2>2. /\ data' = [data EXCEPT ![0] = reading] /\ Send(ValuePacket(0, data'[0]))
        /\ air' = <<>> /\ reading' = 0 /\ cleared' = FALSE /\ UNCHANGED <<ready, blind, tuned>>
    BY <1>9 DEF RfDone
  <2>3. DOMAIN data' = Indices /\ data'[0] = reading /\ reading \in Numbers(0)
    BY <2>1, <2>2 DEF Numbers
  <2>4. up' \in Seq(Packets)
    BY <2>1, <2>2, <2>3, SendKept DEF IsPacket
  <2>5. \A k \in DOMAIN up' : IsPacket(up'[k])
    BY <2>4, UpTyped
  <2>6. air' \in Seq(1 .. MaxCount) /\ Len(air') = 0 /\ DOMAIN air' = {}
    BY <2>2, EmptySeq
  <2>7. Len(air') <= RxFifoSize /\ reading' \in 0 .. MaxCount
    BY <2>2, <2>6, BoundsAssumption DEF RxFifoSize
  <2>8. \A k \in DOMAIN air' : air'[k] \in 1 .. MaxCount
    BY <2>6, AirTyped
  <2>9. \A i \in Indices : data'[i] \in Numbers(i) \cup {0}
    BY <2>1, <2>2, <2>3
  <2> QED BY <1>9, <2>1, <2>2, <2>3, <2>4, <2>5, <2>6, <2>7, <2>8, <2>9
          DEF RfDone, bus, server, disturbed
<1>10. CASE RfFails
  <2>1. faults' \in 0 .. MaxFaults /\ met' \subseteq FaultKinds
    BY <1>10, DisturbKept DEF RfFails
  <2>2. /\ reading' = 0 /\ 0 \in 0 .. MaxCount
        /\ ready' \in BOOLEAN /\ tuned' = FALSE /\ cleared' = FALSE
    <3>1. 0 \in 0 .. MaxCount
      BY BoundsAssumption
    <3>2. ready' \in {ready, FALSE} /\ ready \in BOOLEAN
      BY <1>10 DEF RfFails
    <3> QED BY <1>10, <3>1, <3>2, Zenon DEF RfFails
  <2> QED BY <1>10, <2>1, <2>2 DEF RfFails, bus, server
<1>11. CASE StartSession
  <2>1. up' = <<RegisterPacket>> /\ RegisterPacket \in Packets
    BY <1>11 DEF StartSession, Packets
  <2>2. up' \in Seq(Packets)
    BY <2>1
  <2>3. \A k \in DOMAIN up' : IsPacket(up'[k])
    BY <2>2, UpTyped
  <2>4. DOMAIN data' = Indices /\ \A i \in Indices : data'[i] = 0
    BY <1>11 DEF StartSession, Nothing
  <2> QED BY <1>11, <2>2, <2>3, <2>4 DEF StartSession, bus, radio, server, disturbed
<1>12. CASE RegisterAgain
  <2>1. up' = Append(up, RegisterPacket) /\ RegisterPacket \in Packets
    BY <1>12 DEF RegisterAgain, Packets
  <2>2. up' \in Seq(Packets)
    BY <2>1, AppendProperties
  <2>3. \A k \in DOMAIN up' : IsPacket(up'[k])
    BY <2>2, UpTyped
  <2>4. DOMAIN data' = Indices /\ \A i \in Indices : data'[i] = 0
    BY <1>12 DEF RegisterAgain, Nothing
  <2>5. faults' \in 0 .. MaxFaults /\ met' \subseteq FaultKinds
    BY <1>12, DisturbKept DEF RegisterAgain
  <2> QED BY <1>12, <2>2, <2>3, <2>4, <2>5 DEF RegisterAgain, bus, radio, server
<1>13. CASE Deliver
  <2>1. /\ Head(up) \in Packets /\ up' \in Seq(Packets)
    BY <1>13, HeadTailProperties DEF Deliver
  <2>2. \A k \in DOMAIN up' : IsPacket(up'[k])
    BY <2>1, UpTyped
  <2>3. /\ provider' \in BOOLEAN
        /\ DOMAIN shown' = Indices
        /\ \A i \in Indices : shown'[i] \in Numbers(i) \cup {0}
        /\ heard' \in 0 .. 2 /\ told' \in 0 .. MaxCount
    BY <1>13, <2>1, PacketsAre, ProcessDataKept DEF Deliver
  <2> QED BY <1>13, <2>1, <2>2, <2>3 DEF Deliver, bus, radio, disturbed
<1>14. CASE DeliverLate
  <2>1. PICK m \in late : ProcessData(m) /\ late' = late \ {m}
    BY <1>14 DEF DeliverLate
  <2>2. IsPacket(m)
    BY <2>1
  <2>3. /\ provider' \in BOOLEAN
        /\ DOMAIN shown' = Indices
        /\ \A i \in Indices : shown'[i] \in Numbers(i) \cup {0}
        /\ heard' \in 0 .. 2 /\ told' \in 0 .. MaxCount
    BY <2>1, <2>2, ProcessDataKept
  <2> QED BY <1>14, <2>1, <2>3 DEF DeliverLate, bus, radio, disturbed
<1>15. CASE EndSession
  <2>1. /\ up' = <<>> /\ <<>> \in Seq(Packets) /\ DOMAIN <<>> = {}
        /\ late' = {} /\ heard' \in 0 .. 2 /\ provider' = FALSE
    BY <1>15, EmptySeq DEF EndSession
  <2>2. DOMAIN shown' = Indices /\ \A i \in Indices : shown'[i] = 0
    BY <1>15 DEF EndSession, Nothing
  <2> QED BY <1>15, <2>1, <2>2 DEF EndSession, bus, radio, disturbed
<1>16. CASE Lose
  <2>1. up' \in Seq(Packets)
    BY <1>16, HeadTailProperties DEF Lose
  <2>2. \A k \in DOMAIN up' : IsPacket(up'[k])
    BY <2>1, UpTyped
  <2>3. faults' \in 0 .. MaxFaults /\ met' \subseteq FaultKinds
    BY <1>16, DisturbKept DEF Lose
  <2> QED BY <1>16, <2>1, <2>2, <2>3 DEF Lose, bus, radio, server
<1>17. CASE Delay
  <2>1. up' \in Seq(Packets) /\ Head(up) \in Packets
    BY <1>17, HeadTailProperties DEF Delay
  <2>2. \A k \in DOMAIN up' : IsPacket(up'[k])
    BY <2>1, UpTyped
  <2>3. \A m \in late' : IsPacket(m)
    BY <1>17, <2>1, PacketsAre DEF Delay
  <2>4. faults' \in 0 .. MaxFaults /\ met' \subseteq FaultKinds
    BY <1>17, DisturbKept DEF Delay
  <2> QED BY <1>17, <2>1, <2>2, <2>3, <2>4 DEF Delay, bus, radio, server
<1>18. CASE Duplicate
  <2>1. Head(up) \in Packets
    BY <1>18, HeadTailProperties DEF Duplicate
  <2>2. \A m \in late' : IsPacket(m)
    BY <1>18, <2>1, PacketsAre DEF Duplicate
  <2>3. faults' \in 0 .. MaxFaults /\ met' \subseteq FaultKinds
    BY <1>18, DisturbKept DEF Duplicate
  <2> QED BY <1>18, <2>2, <2>3 DEF Duplicate, bus, radio, server
<1>19. CASE UNCHANGED vars
  BY <1>19 DEF vars, bus, radio, server, disturbed
<1> QED
  BY <1>1, <1>2, <1>3, <1>4, <1>5, <1>6, <1>7, <1>8, <1>9, <1>10, <1>11, <1>12,
     <1>13, <1>14, <1>15, <1>16, <1>17, <1>18, <1>19, <1>20 DEF Next

LEMMA ReadingsAlways == Spec => []ReadingsInv
<1>1. Init => ReadingsInv
  BY ReadingsInit
<1>2. ReadingsInv /\ [Next]_vars => ReadingsInv'
  BY ReadingsStep
<1> QED BY <1>1, <1>2, PTL DEF Spec

\* Every number that is held, sent or shown for a sensor is one of its own.
THEOREM ReadingsTypeCorrect == Spec => []TypeOK
<1>1. ReadingsInv => TypeOK
  BY DEF ReadingsInv
<1> QED BY <1>1, ReadingsAlways, PTL

(***************************************************************************)
(* The count of the energy counter                                         *)
(***************************************************************************)

\* What the radio still has to bring is newer than what it has brought, as long
\* as every payload that was read had been received.
Rising ==
    ~Expander /\ ~blind =>
        /\ \A j \in DOMAIN air : air[j] <= real[0]
        /\ \A j, k \in DOMAIN air : j < k => air[j] < air[k]
        /\ reading # 0 => reading <= real[0] /\ \A j \in DOMAIN air : reading < air[j]

\* Count c is older than all that the radio has still to bring.
Older(c) ==
    /\ c <= real[0]
    /\ reading # 0 => c < reading
    /\ \A j \in DOMAIN air : c < air[j]

\* A report on its way, of a count the server does not show.
News(m) == m.kind = "value" => m.value # 0 /\ m.value # shown[0] /\ Older(m.value)

\* No two reports carry the same count.
Differ(m, n) == m.kind = "value" /\ n.kind = "value" => m.value # n.value

SentOnce ==
    ~Expander /\ "duplicate" \notin met /\ ~blind =>
        /\ Older(shown[0])
        /\ \A k \in DOMAIN up : News(up[k])
        /\ \A m \in late : News(m)
        /\ \A j, k \in DOMAIN up : j # k => Differ(up[j], up[k])
        /\ \A k \in DOMAIN up : \A m \in late : Differ(up[k], m)

LEMMA Appended ==
    ASSUME NEW S, NEW s \in Seq(S), NEW m \in S
    PROVE  \A k \in DOMAIN Append(s, m) :
              \/ k \in DOMAIN s /\ Append(s, m)[k] = s[k] /\ k < Len(s) + 1
              \/ k = Len(s) + 1 /\ k \notin DOMAIN s /\ Append(s, m)[k] = m
<1>1. PICK n \in Nat : n = Len(s)
  BY LenProperties
<1>2. DOMAIN s = 1 .. n /\ DOMAIN Append(s, m) = 1 .. n + 1
  BY <1>1, LenProperties, AppendProperties
<1>3. ASSUME NEW k \in 1 .. n + 1
      PROVE  \/ k \in 1 .. n /\ k < n + 1
             \/ k = n + 1 /\ k \notin 1 .. n
  BY <1>1
<1> QED BY <1>1, <1>2, <1>3, AppendProperties

LEMMA Shortened ==
    ASSUME NEW S, NEW s \in Seq(S), s # <<>>
    PROVE  /\ 1 \in DOMAIN s /\ Head(s) = s[1] /\ Head(s) \in S
           /\ \A k \in DOMAIN Tail(s) :
                 k \in Nat /\ k + 1 \in DOMAIN s /\ k + 1 # 1 /\ Tail(s)[k] = s[k + 1]
           /\ \A j, k \in DOMAIN Tail(s) : j < k => j + 1 < k + 1
           /\ \A j, k \in DOMAIN Tail(s) : j # k => j + 1 # k + 1
<1>1. PICK n \in Nat : n = Len(s)
  BY LenProperties
<1>2. n # 0
  BY <1>1, EmptySeq
<1>3. /\ Tail(s) \in Seq(S) /\ Len(Tail(s)) = n - 1
      /\ \A i \in 1 .. Len(Tail(s)) : Tail(s)[i] = s[i + 1]
  BY <1>1, HeadTailProperties
<1>4. DOMAIN s = 1 .. n /\ DOMAIN Tail(s) = 1 .. n - 1
  BY <1>1, <1>3, LenProperties
<1>5. 1 \in DOMAIN s
  BY <1>2, <1>4
<1>6. Head(s) = s[1] /\ Head(s) \in S
  BY HeadTailProperties, <1>1, <1>2, ElementOfSeq
<1>7. ASSUME NEW k \in 1 .. n - 1
      PROVE  k \in Nat /\ k + 1 \in 1 .. n /\ k + 1 # 1
  OBVIOUS
<1>8. \A j, k \in 1 .. n - 1 : (j < k => j + 1 < k + 1) /\ (j # k => j + 1 # k + 1)
  OBVIOUS
<1> QED BY <1>3, <1>4, <1>5, <1>6, <1>7, <1>8

LEMMA CountFacts ==
    ASSUME ReadingsInv, ~Expander
    PROVE  /\ Indices = {0} /\ real[0] \in Nat /\ shown[0] \in Nat /\ reading \in Nat
           /\ \A j \in DOMAIN air : air[j] \in Nat \ {0}
           /\ \A m : IsPacket(m) /\ m.kind = "value" =>
                 m.value \in Nat /\ m = ValuePacket(0, m.value)
<1>1. Indices = {0} /\ Numbers(0) \cup {0} = 0 .. MaxCount /\ MaxCount \in Nat
  BY IndexFacts, BoundsAssumption DEF Numbers
<1>2. ASSUME NEW m, IsPacket(m), m.kind = "value"
      PROVE  m.value \in Nat /\ m = ValuePacket(0, m.value)
  <2>1. PICK i \in Indices : \E v \in Numbers(i) \cup {0} : m = ValuePacket(i, v)
    BY <1>2 DEF IsPacket, RegisterPacket
  <2>2. PICK v \in Numbers(i) \cup {0} : m = ValuePacket(i, v)
    BY <2>1
  <2> QED BY <1>1, <2>2 DEF ValuePacket
<1>3. real[0] \in 0 .. MaxCount /\ shown[0] \in 0 .. MaxCount /\ reading \in 0 .. MaxCount
  BY <1>1 DEF ReadingsInv, TypeOK
<1>4. \A j \in DOMAIN air : air[j] \in 1 .. MaxCount
  BY DEF ReadingsInv, TypeOK
<1> QED BY <1>1, <1>2, <1>3, <1>4

\* The energy counter has no sensors, and the radio leaves the rest alone.
LEMMA EnergyOnly ==
    ASSUME ~Expander
    PROVE  ~Warm /\ ~Unplug /\ ~Plug /\ ~TempProcess /\ ~ProvTempTmr
  BY DEF Warm, Unplug, Plug, TempProcess, ProvTempTmr

\* What has been read without a payload is not forgotten.
LEMMA BlindStays ==
    ASSUME ReadingsInv, [Next]_vars, blind
    PROVE  blind'
<1>1. CASE RfRead
  BY <1>1 DEF RfRead, Payload
<1> QED
  BY <1>1 DEF Next, vars, radio, Warm, Unplug, Plug, TempProcess, ProvTempTmr, Pulse,
         RfInit, RfClear, RfDone, RfFails, StartSession, RegisterAgain, Deliver,
         DeliverLate, EndSession, Lose, Delay, Duplicate

LEMMA RisingStep ==
    ASSUME ReadingsInv, Rising, [Next]_vars
    PROVE  Rising'
<1> SUFFICES ASSUME ~Expander, ~blind' PROVE Rising'
  BY SameBoard DEF Rising
<1>0. ~blind
  BY BlindStays
<1>1. /\ real[0] \in Nat /\ reading \in Nat /\ DOMAIN real = {0}
      /\ \A j \in DOMAIN air : air[j] \in Nat \ {0}
  BY CountFacts DEF ReadingsInv, Arrays
<1>2. /\ \A j \in DOMAIN air : air[j] <= real[0]
      /\ \A j, k \in DOMAIN air : j < k => air[j] < air[k]
      /\ reading # 0 => reading <= real[0] /\ \A j \in DOMAIN air : reading < air[j]
  BY <1>0 DEF Rising
<1>3. air \in Seq(1 .. MaxCount)
  BY DEF ReadingsInv, Arrays
<1>4. DOMAIN <<>> = {}
  OBVIOUS
<1>5. CASE UNCHANGED <<real, air, reading>>
  BY <1>2, <1>5, SameBoard DEF Rising
<1>6. CASE Pulse
  <2>1. real'[0] = real[0] + 1 /\ reading' = reading /\ real[0] < MaxCount
    BY <1>1, <1>6 DEF Pulse
  <2>2. CASE UNCHANGED air
    BY <1>1, <1>2, <2>1, <2>2 DEF Rising
  <2>3. CASE air' = Append(air, real[0] + 1)
    <3>1. real[0] + 1 \in 1 .. MaxCount
      BY <1>1, <2>1, BoundsAssumption
    <3>2. \A k \in DOMAIN air' :
             \/ k \in DOMAIN air /\ air'[k] = air[k] /\ k < Len(air) + 1
             \/ k = Len(air) + 1 /\ k \notin DOMAIN air /\ air'[k] = real[0] + 1
      BY <1>3, <2>3, <3>1, Appended
    <3>3. Len(air) \in Nat /\ \A k \in DOMAIN air : k \in Nat
      BY <1>3, LenProperties
    <3>4. \A j, k \in DOMAIN air' : j < k => air'[j] < air'[k]
      BY <1>1, <1>2, <3>2, <3>3
    <3> QED BY <1>1, <1>2, <2>1, <3>2, <3>4 DEF Rising
  <2> QED BY <1>6, <2>1, <2>2, <2>3 DEF Pulse, Receive
<1>7. CASE RfRead
  <2>1. reading' = Head(air) /\ air' = Tail(air) /\ real' = real /\ air # <<>>
    BY <1>7 DEF RfRead, Payload, bus
  <2>2. /\ 1 \in DOMAIN air /\ reading' = air[1]
        /\ \A k \in DOMAIN air' :
              k \in Nat /\ k + 1 \in DOMAIN air /\ k + 1 # 1 /\ air'[k] = air[k + 1]
        /\ \A j, k \in DOMAIN air' : j < k => j + 1 < k + 1
    BY <1>3, <2>1, Shortened
  <2>3. \A k \in DOMAIN air' : 1 < k + 1
    <3>1. \A k \in Nat : k + 1 # 1 => 1 < k + 1
      OBVIOUS
    <3> QED BY <2>2, <3>1
  <2> QED BY <1>2, <2>1, <2>2, <2>3 DEF Rising
<1>8. CASE RfDone
  BY <1>4, <1>8 DEF RfDone, bus, Rising
<1>11. CASE RfClear
  BY <1>2, <1>11 DEF RfClear, bus, Rising
<1>9. CASE RfInit
  BY <1>2, <1>4, <1>9 DEF RfInit, bus, Rising
<1>10. CASE RfFails
  BY <1>2, <1>10 DEF RfFails, bus, Rising
<1> QED
  BY <1>5, <1>6, <1>7, <1>8, <1>9, <1>10, <1>11, EnergyOnly
     DEF Next, vars, bus, radio, StartSession, RegisterAgain, Deliver,
         DeliverLate, EndSession, Lose, Delay, Duplicate

\* What processing a report does to what is still on its way.
LEMMA NewsKept ==
    ASSUME ReadingsInv, ReadingsInv', Rising, [Next]_vars, ~Expander,
           NEW m, IsPacket(m), News(m), ProcessData(m),
           UNCHANGED <<real, reading, air>>, Older(shown[0])
    PROVE  /\ Older(shown[0])'
           /\ \A n : IsPacket(n) /\ News(n) /\ Differ(n, m) => News(n)'
<1>1. DOMAIN shown = {0} /\ Nothing[0] = 0 /\ 0 \in Indices
  BY CountFacts DEF ReadingsInv, Arrays, Nothing
<1>2. /\ real[0] \in Nat /\ reading \in Nat
      /\ \A j \in DOMAIN air : air[j] \in Nat \ {0}
  BY CountFacts
<1>3. Older(0)
  BY <1>2 DEF Older
<1>4. \A c : Older(c)' <=> Older(c)
  BY DEF Older
<1>5. \/ shown' = shown
      \/ shown' = Nothing
      \/ m.kind = "value" /\ shown' = [shown EXCEPT ![0] = m.value]
  <2>1. m.kind = "value" => m.num = 0
    BY CountFacts DEF ValuePacket
  <2> QED BY <2>1 DEF ProcessData, AddProvider, NewTemp, NewCount, server
<1>6. CASE shown' = shown
  BY <1>4, <1>6 DEF News
<1>7. CASE shown' = Nothing
  BY <1>1, <1>3, <1>4, <1>7 DEF News
<1>8. CASE m.kind = "value" /\ shown' = [shown EXCEPT ![0] = m.value]
  <2>1. shown'[0] = m.value
    BY <1>1, <1>8
  <2> QED BY <1>4, <1>8, <2>1 DEF News, Differ
<1> QED BY <1>5, <1>6, <1>7, <1>8

LEMMA SentOnceStep ==
    ASSUME ReadingsInv, ReadingsInv', Rising, SentOnce, [Next]_vars
    PROVE  SentOnce'
<1> SUFFICES ASSUME ~Expander, "duplicate" \notin met', ~blind'
             PROVE  SentOnce'
  BY SameBoard DEF SentOnce
<1>1. "duplicate" \notin met
  BY DEF Next, vars, disturbed, Disturb, Unplug, RfFails, RegisterAgain, Lose, Delay,
         Duplicate, Warm, Plug, TempProcess, ProvTempTmr, Pulse, Receive, RfInit,
         RfRead, Payload, RfClear, RfDone, StartSession, Deliver, DeliverLate, EndSession
<1>0. ~blind
  BY BlindStays
<1>2. /\ Older(shown[0])
      /\ \A k \in DOMAIN up : News(up[k])
      /\ \A m \in late : News(m)
      /\ \A j, k \in DOMAIN up : j # k => Differ(up[j], up[k])
      /\ \A k \in DOMAIN up : \A m \in late : Differ(up[k], m)
  BY <1>0, <1>1 DEF SentOnce
<1>3. /\ up \in Seq(Packets) /\ \A k \in DOMAIN up : IsPacket(up[k])
      /\ \A m \in late : IsPacket(m)
  BY DEF ReadingsInv, TypeOK, Arrays
<1>4. /\ real[0] \in Nat /\ shown[0] \in Nat /\ reading \in Nat
      /\ \A j \in DOMAIN air : air[j] \in Nat \ {0}
      /\ Indices = {0} /\ DOMAIN real = {0} /\ DOMAIN data = {0} /\ DOMAIN shown = {0}
  BY CountFacts DEF ReadingsInv, Arrays
<1>5. \A m : m.kind # "value" =>
         /\ News(m) /\ News(m)'
         /\ \A n : Differ(m, n) /\ Differ(n, m) /\ Differ(m, n)' /\ Differ(n, m)'
  BY DEF News, Differ
<1>6. \A m, n : Differ(m, n)' <=> Differ(m, n)
  BY DEF Differ
<1>7. RegisterPacket \in Packets /\ RegisterPacket.kind # "value"
  BY DEF Packets, RegisterPacket
\* The radio brings another count, or loses what it had.
<1>8. ASSUME UNCHANGED <<up, late, shown>>, \A c \in Nat : Older(c) => Older(c)'
      PROVE  SentOnce'
  <2>1. \A m : IsPacket(m) /\ News(m) => News(m)'
    BY <1>8, CountFacts DEF News
  <2> QED BY <1>2, <1>3, <1>4, <1>6, <1>8, <2>1 DEF SentOnce
\* The packets on their way are some of those that were.
<1>9. ASSUME UNCHANGED <<real, reading, air, shown>>,
             \A k \in DOMAIN up' : News(up'[k]),
             \A m \in late' : News(m),
             \A j, k \in DOMAIN up' : j # k => Differ(up'[j], up'[k]),
             \A k \in DOMAIN up' : \A m \in late' : Differ(up'[k], m)
      PROVE  SentOnce'
  <2>1. \A m : News(m)' <=> News(m)
    BY <1>9 DEF News, Older
  <2>2. Older(shown[0])'
    BY <1>2, <1>9 DEF Older
  <2> QED BY <1>6, <1>9, <2>1, <2>2 DEF SentOnce
<1>10. CASE Pulse
  <2>1. real'[0] = real[0] + 1 /\ reading' = reading /\ real[0] < MaxCount
    BY <1>4, <1>10 DEF Pulse
  <2>2. UNCHANGED <<up, late, shown>>
    BY <1>10 DEF Pulse, server
  <2>3. ASSUME NEW c \in Nat, Older(c)
        PROVE  Older(c)'
    <3>1. c <= real[0] /\ \A j \in DOMAIN air : c < air[j]
      BY <2>3 DEF Older
    <3>2. c <= real'[0]
      BY <1>4, <2>1, <3>1
    <3>3. CASE UNCHANGED air
      BY <2>1, <2>3, <3>2, <3>3 DEF Older
    <3>4. CASE air' = Append(air, real[0] + 1)
      <4>1. real[0] + 1 \in 1 .. MaxCount /\ c < real[0] + 1
        BY <1>4, <2>1, <3>1, BoundsAssumption
      <4>2. air \in Seq(1 .. MaxCount)
        BY DEF ReadingsInv, Arrays
      <4>3. \A j \in DOMAIN air' :
              \/ j \in DOMAIN air /\ air'[j] = air[j]
              \/ air'[j] = real[0] + 1
        BY <3>4, <4>1, <4>2, Appended
      <4> QED BY <2>1, <2>3, <3>1, <3>2, <4>1, <4>3 DEF Older
    <3> QED BY <1>10, <2>1, <3>3, <3>4 DEF Pulse, Receive
  <2> QED BY <1>8, <2>2, <2>3
<1>11. CASE RfInit
  <2>1. \A c : Older(c) => Older(c)'
    BY <1>11 DEF RfInit, bus, Older
  <2> QED BY <1>8, <1>11, <2>1 DEF RfInit, server
<1>12. CASE RfRead
  <2>1. reading' = Head(air) /\ air' = Tail(air) /\ real' = real /\ air # <<>>
    BY <1>12 DEF RfRead, Payload, bus
  <2>2. /\ 1 \in DOMAIN air /\ reading' = air[1]
        /\ \A k \in DOMAIN air' : k + 1 \in DOMAIN air /\ air'[k] = air[k + 1]
    BY <2>1, Shortened DEF ReadingsInv, Arrays
  <2>3. \A c : Older(c) => Older(c)'
    BY <2>1, <2>2 DEF Older
  <2> QED BY <1>8, <1>12, <2>3 DEF RfRead, server
<1>13. CASE RfFails
  <2>1. \A c : Older(c) => Older(c)'
    BY <1>13 DEF RfFails, bus, Older
  <2> QED BY <1>8, <1>13, <2>1 DEF RfFails, server
<1>14. CASE RfDone
  <2> PICK n \in Nat : n = reading
    BY <1>4
  <2> PICK r : r = ValuePacket(0, reading)
    OBVIOUS
  <2>1. /\ reading # 0 /\ reading' = 0 /\ air' = <<>> /\ real' = real
        /\ data'[0] = reading /\ Send(ValuePacket(0, data'[0]))
        /\ UNCHANGED <<late, shown>>
    BY <1>4, <1>14 DEF RfDone, bus, server, ReadingsInv, TypeOK
  <2>2. \A c : Older(c) => Older(c)'
    BY <2>1 DEF Older
  <2>3. r \in Packets /\ IsPacket(r) /\ r.value = reading
    <3>1. reading \in Numbers(0)
      BY <1>4, <2>1 DEF Numbers, ReadingsInv, TypeOK
    <3>2. IsPacket(r)
      BY <1>4, <3>1 DEF IsPacket
    <3> QED BY <3>2, PacketsAre DEF ValuePacket
  <2>4. reading <= real[0]
    BY <1>0, <2>1 DEF Rising
  <2>5. \A d \in Nat : Older(d) => d # reading
    BY <1>4, <2>1 DEF Older
  <2>6. News(r)'
    <3>1. Older(n)'
      BY <2>1, <2>4, DOMAIN <<>> = {} DEF Older
    <3>2. n # shown'[0]
      BY <1>2, <1>4, <2>1, <2>5
    <3> QED BY <2>1, <2>3, <3>1, <3>2 DEF News
  <2>7. \A m : IsPacket(m) /\ News(m) => News(m)' /\ Differ(m, r) /\ Differ(r, m)
    <3>1. ASSUME NEW m, IsPacket(m), News(m), m.kind = "value"
          PROVE  m.value # reading
      BY <2>5, <3>1, CountFacts DEF News
    <3>2. \A m : News(m) => News(m)'
      BY <2>1, <2>2 DEF News
    <3> QED BY <2>3, <3>1, <3>2 DEF Differ
  <2>8. Older(shown[0])'
    BY <1>2, <2>1, <2>2
  <2>9. CASE up' = up
    BY <1>2, <1>3, <1>6, <2>1, <2>7, <2>8, <2>9 DEF SentOnce
  <2>10. CASE up' = Append(up, r)
    <3>1. \A k \in DOMAIN up' :
             \/ k \in DOMAIN up /\ up'[k] = up[k]
             \/ k = Len(up) + 1 /\ k \notin DOMAIN up /\ up'[k] = r
      BY <1>3, <2>3, <2>10, Appended
    <3>2. \A k \in DOMAIN up' : News(up[k])'
      BY <1>2, <1>3, <2>6, <2>7, <3>1
    <3>3. \A m \in late' : News(m)'
      BY <1>2, <1>3, <2>1, <2>7
    <3>4. \A j, k \in DOMAIN up' : j # k => Differ(up'[j], up'[k])
      BY <1>2, <1>3, <2>7, <3>1
    <3>5. \A k \in DOMAIN up' : \A m \in late' : Differ(up'[k], m)
      BY <1>2, <1>3, <2>1, <2>7, <3>1
    <3> QED BY <1>6, <2>8, <3>2, <3>3, <3>4, <3>5 DEF SentOnce
  <2> QED BY <2>1, <2>9, <2>10 DEF Send
<1>25. CASE RfClear
  <2>1. \A c : Older(c) => Older(c)'
    BY <1>25 DEF RfClear, bus, Older
  <2> QED BY <1>8, <1>25, <2>1 DEF RfClear, server
<1>15. CASE StartSession
  <2>1. up' = <<RegisterPacket>>
    BY <1>15 DEF StartSession
  <2>2. DOMAIN up' = {1} /\ up'[1] = RegisterPacket
    BY <2>1
  <2> QED BY <1>2, <1>5, <1>7, <1>9, <1>15, <2>2 DEF StartSession, bus, radio, server
<1>16. CASE RegisterAgain
  <2>1. up' = Append(up, RegisterPacket)
    BY <1>16 DEF RegisterAgain
  <2>2. \A k \in DOMAIN up' :
           \/ k \in DOMAIN up /\ up'[k] = up[k]
           \/ up'[k] = RegisterPacket
    BY <1>3, <1>7, <2>1, Appended
  <2> QED BY <1>2, <1>5, <1>7, <1>9, <1>16, <2>2 DEF RegisterAgain, bus, radio, server
\* The first packet on its way is taken.
<1>17. ASSUME up # <<>>, up' = Tail(up)
       PROVE  /\ Head(up) = up[1] /\ IsPacket(Head(up)) /\ News(Head(up))
              /\ \A k \in DOMAIN up' :
                    /\ IsPacket(up'[k]) /\ News(up'[k])
                    /\ Differ(up'[k], Head(up))
                    /\ \A m \in late : Differ(up'[k], m)
              /\ \A j, k \in DOMAIN up' : j # k => Differ(up'[j], up'[k])
              /\ \A m \in late : Differ(Head(up), m)
  <2>1. /\ 1 \in DOMAIN up /\ Head(up) = up[1]
        /\ \A k \in DOMAIN up' :
              k + 1 \in DOMAIN up /\ k + 1 # 1 /\ up'[k] = up[k + 1]
        /\ \A j, k \in DOMAIN up' : j # k => j + 1 # k + 1
    BY <1>3, <1>17, Shortened
  <2> QED BY <1>2, <1>3, <2>1
<1>18. CASE Deliver
  <2>1. /\ up # <<>> /\ up' = Tail(up) /\ ProcessData(Head(up))
        /\ UNCHANGED <<real, reading, air, late>>
    BY <1>18 DEF Deliver, bus, radio
  <2>2. /\ Older(shown[0])'
        /\ \A n : IsPacket(n) /\ News(n) /\ Differ(n, Head(up)) => News(n)'
    BY <1>2, <1>17, <2>1, NewsKept
  <2>3. \A k \in DOMAIN up' : News(up[k])'
    BY <1>17, <2>1, <2>2
  <2>4. \A m \in late' : News(m)'
    <3>1. \A m \in late : Differ(m, Head(up))
      BY <1>17, <2>1 DEF Differ
    <3> QED BY <1>2, <1>3, <2>1, <2>2, <3>1
  <2> QED BY <1>6, <1>17, <2>1, <2>2, <2>3, <2>4 DEF SentOnce
<1>19. CASE DeliverLate
  <2>1. PICK m \in late : ProcessData(m) /\ late' = late \ {m}
    BY <1>19 DEF DeliverLate
  <2>2. UNCHANGED <<real, reading, air, up>>
    BY <1>19 DEF DeliverLate, bus, radio
  <2>3. /\ Older(shown[0])'
        /\ \A n : IsPacket(n) /\ News(n) /\ Differ(n, m) => News(n)'
    BY <1>2, <1>3, <2>1, <2>2, NewsKept
  <2>4. \A n \in late' : Differ(n, m)
    BY <1>3, <2>1, CountFacts DEF Differ
  <2>5. \A k \in DOMAIN up' : News(up[k])'
    BY <1>2, <1>3, <2>1, <2>2, <2>3
  <2>6. \A n \in late' : News(n)'
    BY <1>2, <1>3, <2>1, <2>3, <2>4
  <2> QED BY <1>2, <1>6, <2>1, <2>2, <2>3, <2>5, <2>6 DEF SentOnce
<1>20. CASE EndSession
  <2>1. shown'[0] = 0 /\ up' = <<>> /\ late' = {} /\ DOMAIN up' = {}
    BY <1>4, <1>20 DEF EndSession, Nothing
  <2>2. Older(0)'
    BY <1>4, <1>20 DEF EndSession, bus, radio, Older
  <2> QED BY <2>1, <2>2 DEF SentOnce
<1>21. CASE Lose
  BY <1>2, <1>9, <1>17, <1>21 DEF Lose, bus, radio, server
<1>22. CASE Delay
  <2>1. /\ up # <<>> /\ up' = Tail(up) /\ late' = late \cup {Head(up)}
        /\ UNCHANGED <<real, reading, air, shown>>
    BY <1>22 DEF Delay, bus, radio, server
  <2> QED BY <1>2, <1>9, <1>17, <2>1
<1>23. CASE Duplicate
  BY <1>23 DEF Duplicate, Disturb
<1>24. CASE UNCHANGED vars
  BY <1>2, <1>9, <1>24 DEF vars, bus, radio, server
<1> QED
  BY <1>10, <1>11, <1>12, <1>13, <1>14, <1>15, <1>16, <1>18, <1>19, <1>20, <1>21,
     <1>22, <1>23, <1>24, <1>25, EnergyOnly DEF Next

\* A count that is heard is another one than the count that is shown.
LEMMA OneReportStep ==
    ASSUME ReadingsInv, SentOnce, OneReportUntold, [Next]_vars
    PROVE  OneReportUntold'
<1> SUFFICES ASSUME ~Expander, "duplicate" \notin met', ~blind', heard' = 2
             PROVE  told' = shown'[0]
  BY SameBoard DEF OneReportUntold
<1>0. ~blind
  BY BlindStays
<1>1. "duplicate" \notin met
  BY DEF Next, vars, disturbed, Disturb, Unplug, RfFails, RegisterAgain, Lose, Delay,
         Duplicate, Warm, Plug, TempProcess, ProvTempTmr, Pulse, Receive, RfInit,
         RfRead, Payload, RfClear, RfDone, StartSession, Deliver, DeliverLate, EndSession
<1>2. heard = 2 => told = shown[0]
  BY <1>0, <1>1 DEF OneReportUntold
<1>3. ASSUME NEW m, IsPacket(m), News(m), ProcessData(m)
      PROVE  told' = shown'[0]
  <2>1. CASE AddProvider
    BY <1>2, <2>1 DEF AddProvider
  <2>2. CASE m.kind = "value" /\ NewCount(m)
    <3>1. m.num = 0 /\ DOMAIN shown = {0} /\ m.value # shown[0]
      BY <1>3, <2>2, CountFacts DEF ValuePacket, News, ReadingsInv, Arrays
    <3>2. shown'[0] = m.value
      BY <2>2, <3>1 DEF NewCount
    <3>3. heard \in 0 .. 2 /\ heard > 0
      BY <2>2 DEF NewCount, ReadingsInv, TypeOK
    <3> QED BY <2>2, <3>1, <3>2, <3>3 DEF NewCount
  <2>3. CASE UNCHANGED server
    BY <1>2, <2>3 DEF server
  <2> QED BY <1>3, <2>1, <2>2, <2>3 DEF ProcessData, NewTemp
<1>4. CASE Deliver
  <2>1. up # <<>> /\ ProcessData(Head(up)) /\ up \in Seq(Packets)
    BY <1>4 DEF Deliver, ReadingsInv, Arrays
  <2>2. 1 \in DOMAIN up /\ Head(up) = up[1] /\ Head(up) \in Packets
    BY <2>1, Shortened
  <2>3. News(Head(up)) /\ IsPacket(Head(up))
    BY <1>0, <1>1, <2>2, PacketsAre DEF SentOnce
  <2> QED BY <1>3, <2>1, <2>3
<1>5. CASE DeliverLate
  <2>1. PICK m \in late : ProcessData(m)
    BY <1>5 DEF DeliverLate
  <2>2. News(m) /\ IsPacket(m)
    BY <1>0, <1>1 DEF SentOnce, ReadingsInv, TypeOK
  <2> QED BY <1>3, <2>1, <2>2
<1>6. CASE EndSession
  BY <1>6 DEF EndSession
<1>7. CASE UNCHANGED <<told, shown, heard>>
  BY <1>2, <1>7
<1> QED
  BY <1>4, <1>5, <1>6, <1>7, EnergyOnly
     DEF Next, vars, server, Pulse, RfInit, RfRead, Payload, RfClear, RfDone, RfFails, StartSession,
         RegisterAgain, Lose, Delay, Duplicate

\* Unless a report comes twice or an empty chip is read, only the first one of a
\* session is not told: no loss, no reordering and no repeated registration can
\* hide another.
THEOREM CountsAreTold == Spec => []OneReportUntold
<1>1. Init => Rising /\ SentOnce /\ OneReportUntold
  <2> SUFFICES ASSUME Init, ~Expander
               PROVE  Rising /\ SentOnce /\ OneReportUntold
    BY DEF Rising, SentOnce, OneReportUntold
  <2>1. Indices = {0}
    BY IndexFacts
  <2>2. real[0] = 0 /\ shown[0] = 0 /\ reading = 0 /\ heard = 0
    BY <2>1 DEF Init, Nothing
  <2>3. DOMAIN air = {} /\ DOMAIN up = {} /\ late = {}
    BY DEF Init
  <2> QED BY <2>2, <2>3 DEF Rising, SentOnce, OneReportUntold, Older
<1>2. ReadingsInv /\ ReadingsInv' /\ Rising /\ SentOnce /\ OneReportUntold /\ [Next]_vars
        => (Rising /\ SentOnce /\ OneReportUntold)'
  BY RisingStep, SentOnceStep, OneReportStep
<1> QED BY <1>1, <1>2, ReadingsAlways, PTL DEF Spec

(***************************************************************************)
(* No sensor goes back to 0                                                *)
(***************************************************************************)

InOrder == met \cap {"reregister", "delay", "duplicate"} = {}

\* A report that can be shown: it does not take a number back, and what it
\* carries the endpoint still has.
Keeps(m) ==
    m.kind = "value" =>
        /\ shown[m.num] # 0 => m.value # 0
        /\ m.value # 0 => data[m.num] # 0

\* A later report n does not take back what m has told.
Follows(n, m) ==
    m.kind = "value" /\ n.kind = "value" /\ m.num = n.num /\ m.value # 0
        => n.value # 0

NothingTakenBack ==
    InOrder =>
        /\ late = {}
        /\ ~session => up = <<>> /\ \A i \in Indices : shown[i] = 0
        /\ \A i \in Indices : shown[i] # 0 => data[i] # 0
        /\ \A k \in DOMAIN up : Keeps(up[k])
        /\ \A j, k \in DOMAIN up : j < k => Follows(up[k], up[j])

LEMMA ZeroIsNoNumber == \A i \in Indices : 0 \notin Numbers(i)
<1>1. CASE Expander
  BY <1>1, SensorsAssumption DEF Indices, Numbers, Sensors, PowerOn
<1>2. CASE ~Expander
  <2>1. 0 \notin 1 .. MaxCount
    BY BoundsAssumption
  <2> QED BY <1>2, <2>1 DEF Numbers
<1> QED BY <1>1, <1>2

LEMMA InOrderBefore ==
    ASSUME [Next]_vars, InOrder'
    PROVE  InOrder /\ ~RegisterAgain /\ ~Delay /\ ~Duplicate
<1>1. met \subseteq met'
  BY DEF Next, vars, disturbed, Disturb, Unplug, RfFails, RegisterAgain, Lose, Delay,
         Duplicate, Warm, Plug, TempProcess, ProvTempTmr, Pulse, Receive, RfInit,
         RfRead, Payload, RfClear, RfDone, StartSession, Deliver, DeliverLate, EndSession
<1>2. InOrder
  BY <1>1 DEF InOrder
<1>3. ~RegisterAgain /\ ~Delay /\ ~Duplicate
  BY DEF InOrder, RegisterAgain, Delay, Duplicate, Disturb
<1> QED BY <1>2, <1>3

\* A report that is sent after the others carries what the endpoint has now.
LEMMA ReportKept ==
    ASSUME ReadingsInv, ReadingsInv', [Next]_vars, NothingTakenBack, InOrder, InOrder',
           NEW m, IsPacket(m), m.kind = "value", Send(m),
           \A i \in Indices : data[i] # 0 => data'[i] # 0,
           m.value = data'[m.num],
           UNCHANGED <<shown, late, session>>
    PROVE  NothingTakenBack'
<1>1. /\ late = {}
      /\ ~session => up = <<>> /\ \A i \in Indices : shown[i] = 0
      /\ \A i \in Indices : shown[i] # 0 => data[i] # 0
      /\ \A k \in DOMAIN up : Keeps(up[k])
      /\ \A j, k \in DOMAIN up : j < k => Follows(up[k], up[j])
  BY DEF NothingTakenBack
<1>2. up \in Seq(Packets) /\ m \in Packets
  BY PacketsAre DEF ReadingsInv, Arrays
<1>3. \A k \in DOMAIN up : IsPacket(up[k])
  BY <1>2, UpTyped
<1>4. m.num \in Indices
  BY PacketFacts
<1>5. \A n : IsPacket(n) /\ Keeps(n) => Keeps(n)' /\ Follows(m, n)
  BY <1>4, PacketFacts DEF Keeps, Follows
<1>6. Keeps(m)'
  BY <1>1, <1>4 DEF Keeps
<1>7. \A i \in Indices : shown'[i] # 0 => data'[i] # 0
  BY <1>1
<1>8. \A n1, n2 : Follows(n1, n2)' <=> Follows(n1, n2)
  BY DEF Follows
<1>9. CASE ~session
  BY <1>1, <1>3, <1>5, <1>7, <1>8, <1>9, SameBoard DEF Send, NothingTakenBack
<1>10. CASE session
  <2>1. up' = Append(up, m)
    BY <1>10 DEF Send
  <2>2. \A k \in DOMAIN up' :
           \/ k \in DOMAIN up /\ up'[k] = up[k] /\ k < Len(up) + 1
           \/ k = Len(up) + 1 /\ k \notin DOMAIN up /\ up'[k] = m
    BY <1>2, <2>1, Appended
  <2>3. Len(up) \in Nat /\ \A k \in DOMAIN up : k \in Nat
    BY <1>2, LenProperties
  <2>4. \A k \in DOMAIN up' : Keeps(up[k])'
    BY <1>1, <1>3, <1>5, <1>6, <2>2
  <2>5. \A j, k \in DOMAIN up' : j < k => j \in DOMAIN up
    BY <2>2, <2>3
  <2>6. \A j, k \in DOMAIN up' : j < k => Follows(up'[k], up'[j])
    BY <1>1, <1>3, <1>5, <2>2, <2>5
  <2> QED BY <1>1, <1>7, <1>8, <1>10, <2>4, <2>6, SameBoard DEF NothingTakenBack
<1> QED BY <1>9, <1>10

LEMMA NothingTakenBackStep ==
    ASSUME ReadingsInv, ReadingsInv', NothingTakenBack, [Next]_vars
    PROVE  NothingTakenBack'
<1> SUFFICES ASSUME InOrder' PROVE NothingTakenBack'
  BY DEF NothingTakenBack
<1>1. InOrder /\ ~RegisterAgain /\ ~Delay /\ ~Duplicate
  BY InOrderBefore
<1>2. /\ late = {}
      /\ ~session => up = <<>> /\ \A i \in Indices : shown[i] = 0
      /\ \A i \in Indices : shown[i] # 0 => data[i] # 0
      /\ \A k \in DOMAIN up : Keeps(up[k])
      /\ \A j, k \in DOMAIN up : j < k => Follows(up[k], up[j])
  BY <1>1 DEF NothingTakenBack
<1>3. up \in Seq(Packets) /\ \A k \in DOMAIN up : IsPacket(up[k])
  BY DEF ReadingsInv, TypeOK, Arrays
<1>4. \A n1, n2 : Follows(n1, n2)' <=> Follows(n1, n2)
  BY DEF Follows
<1>5. DOMAIN data = Indices /\ DOMAIN shown = Indices /\ DOMAIN <<>> = {}
  BY DEF ReadingsInv, Arrays
<1>6. CASE UNCHANGED <<shown, data, up, late, session>>
  BY <1>2, <1>4, <1>6, SameBoard DEF NothingTakenBack, Keeps
<1>7. CASE TempProcess
  <2>1. \/ UNCHANGED data
        \/ Expander /\ data' = [data EXCEPT ![idx] = scratch[idx]]
    BY <1>7 DEF TempProcess, ReadTemperature, NoSensor
  <2>2. Expander => idx \in Indices /\ scratch[idx] # 0
    BY ZeroIsNoNumber DEF ReadingsInv, TypeOK
  <2>3. \A i \in Indices : data[i] # 0 => data'[i] # 0
    BY <1>5, <2>1, <2>2
  <2>4. UNCHANGED <<shown, up, late, session>>
    BY <1>7 DEF TempProcess, server
  <2>5. \A k \in DOMAIN up : Keeps(up[k])'
    BY <1>2, <1>3, <2>3, <2>4, PacketFacts DEF Keeps
  <2> QED BY <1>2, <1>4, <2>3, <2>4, <2>5, SameBoard DEF NothingTakenBack
<1>8. CASE ProvTempTmr
  <2>1. num \in Indices /\ data[num] \in Numbers(num) \cup {0}
    BY DEF ReadingsInv, TypeOK
  <2> PICK m : m = ValuePacket(num, data[num])
    OBVIOUS
  <2>2. IsPacket(m) /\ m.kind = "value" /\ m.value = data[m.num]
    BY <2>1 DEF IsPacket, ValuePacket
  <2>3. Send(m) /\ UNCHANGED <<data, shown, late, session>>
    BY <1>8 DEF ProvTempTmr, server
  <2> QED BY <1>1, <2>2, <2>3, ReportKept
<1>9. CASE RfDone
  <2>1. /\ reading # 0 /\ data' = [data EXCEPT ![0] = reading]
        /\ Send(ValuePacket(0, data'[0]))
        /\ UNCHANGED <<shown, late, session>>
    BY <1>9 DEF RfDone, server, ReadingsInv, TypeOK
  <2>2. ~Expander /\ 0 \in Indices /\ reading \in Numbers(0)
    BY <2>1, IndexFacts, BoundsAssumption DEF ReadingsInv, TypeOK, Arrays, Numbers
  <2> PICK m : m = ValuePacket(0, reading)
    OBVIOUS
  <2>3. data'[0] = reading /\ \A i \in Indices : data[i] # 0 => data'[i] # 0
    BY <1>5, <2>1, <2>2
  <2>4. IsPacket(m) /\ m.kind = "value" /\ m.value = data'[m.num]
    BY <2>2, <2>3 DEF IsPacket, ValuePacket
  <2>5. Send(m)
    BY <2>1, <2>3
  <2> QED BY <1>1, <2>1, <2>3, <2>4, <2>5, ReportKept
<1>10. CASE StartSession
  <2>1. up' = <<RegisterPacket>> /\ ~session /\ session' /\ UNCHANGED <<shown, late>>
    BY <1>10 DEF StartSession, server
  <2>2. DOMAIN up' = {1} /\ up'[1] = RegisterPacket
    BY <2>1
  <2>3. \A k \in DOMAIN up' : Keeps(up[k])'
    BY <2>2 DEF Keeps, RegisterPacket
  <2>4. \A j, k \in DOMAIN up' : Follows(up'[k], up'[j])
    BY <2>2 DEF Follows, RegisterPacket
  <2> QED BY <1>2, <1>4, <2>1, <2>3, <2>4, SameBoard DEF NothingTakenBack
\* The first report on its way is taken.
<1>11. ASSUME up # <<>>, up' = Tail(up)
       PROVE  /\ Head(up) = up[1] /\ IsPacket(Head(up)) /\ Keeps(Head(up))
              /\ \A k \in DOMAIN up' :
                    IsPacket(up'[k]) /\ Keeps(up'[k]) /\ Follows(up'[k], Head(up))
              /\ \A j, k \in DOMAIN up' : j < k => Follows(up'[k], up'[j])
  <2>1. /\ 1 \in DOMAIN up /\ Head(up) = up[1]
        /\ \A k \in DOMAIN up' :
              k \in Nat /\ k + 1 \in DOMAIN up /\ k + 1 # 1 /\ up'[k] = up[k + 1]
        /\ \A j, k \in DOMAIN up' : j < k => j + 1 < k + 1
    BY <1>3, <1>11, Shortened
  <2>2. \A k \in Nat : k + 1 # 1 => 1 < k + 1
    OBVIOUS
  <2> QED BY <1>2, <1>3, <2>1, <2>2
<1>12. CASE Lose
  <2>1. up # <<>> /\ up' = Tail(up) /\ UNCHANGED <<shown, data, late, session>>
    BY <1>12 DEF Lose, server
  <2>2. \A n : Keeps(n)' <=> Keeps(n)
    BY <2>1 DEF Keeps
  <2> QED BY <1>2, <1>4, <1>11, <2>1, <2>2, SameBoard DEF NothingTakenBack
<1>13. CASE Deliver
  <2>1. /\ up # <<>> /\ up' = Tail(up) /\ ProcessData(Head(up))
        /\ UNCHANGED <<data, late, session>>
    BY <1>13 DEF Deliver
  <2> PICK m : m = Head(up)
    OBVIOUS
  <2>2. /\ IsPacket(m) /\ Keeps(m)
        /\ \A k \in DOMAIN up' :
              IsPacket(up'[k]) /\ Keeps(up'[k]) /\ Follows(up'[k], m)
        /\ \A j, k \in DOMAIN up' : j < k => Follows(up'[k], up'[j])
    BY <1>11, <2>1
  <2>3. \/ shown' = shown
        \/ shown' = Nothing
        \/ m.kind = "value" /\ shown' = [shown EXCEPT ![m.num] = m.value]
    BY <2>1 DEF ProcessData, AddProvider, NewTemp, NewCount, server
  <2>4. /\ \A i \in Indices : shown'[i] # 0 => data'[i] # 0
        /\ \A n : IsPacket(n) /\ Keeps(n) /\ Follows(n, m) => Keeps(n)'
    <3>1. CASE shown' = shown
      BY <1>2, <2>1, <3>1 DEF Keeps
    <3>2. CASE shown' = Nothing
      BY <2>1, <3>2, PacketFacts DEF Nothing, Keeps
    <3>3. CASE m.kind = "value" /\ shown' = [shown EXCEPT ![m.num] = m.value]
      <4>1. m.num \in Indices /\ (m.value # 0 => data[m.num] # 0)
        BY <2>2, <3>3, PacketFacts DEF Keeps
      <4>2. \A i \in Indices : shown'[i] = IF i = m.num THEN m.value ELSE shown[i]
        BY <1>5, <3>3
      <4>3. ASSUME NEW n, IsPacket(n), Keeps(n), Follows(n, m) PROVE Keeps(n)'
        <5>1. n.kind = "value" => n.num \in Indices
          BY <4>3, PacketFacts
        <5> QED BY <2>1, <3>3, <4>2, <4>3, <5>1 DEF Keeps, Follows
      <4> QED BY <1>2, <2>1, <4>1, <4>2, <4>3
    <3> QED BY <2>3, <3>1, <3>2, <3>3
  <2>5. \A k \in DOMAIN up' : Keeps(up[k])'
    BY <2>2, <2>4
  <2>6. session
    BY <1>2, <2>1
  <2> QED BY <1>2, <1>4, <2>1, <2>2, <2>4, <2>5, <2>6, SameBoard DEF NothingTakenBack
<1>14. CASE DeliverLate
  BY <1>2, <1>14 DEF DeliverLate
<1>15. CASE EndSession
  <2>1. /\ up' = <<>> /\ DOMAIN up' = {} /\ late' = {}
        /\ \A i \in Indices : shown'[i] = 0
    BY <1>5, <1>15 DEF EndSession, Nothing
  <2> QED BY <2>1, SameBoard DEF NothingTakenBack
<1> QED
  BY <1>1, <1>6, <1>7, <1>8, <1>9, <1>10, <1>12, <1>13, <1>14, <1>15
     DEF Next, vars, radio, server, Warm, Unplug, Plug, Pulse, RfInit, RfRead,
         RfClear, RfFails

LEMMA AlwaysNothingTakenBack == Spec => []NothingTakenBack
<1>1. Init => NothingTakenBack
  <2> SUFFICES ASSUME Init PROVE NothingTakenBack
    OBVIOUS
  <2>1. late = {} /\ up = <<>> /\ DOMAIN up = {} /\ \A i \in Indices : shown[i] = 0
    BY DEF Init, Nothing
  <2> QED BY <2>1 DEF NothingTakenBack
<1>2. ReadingsInv /\ ReadingsInv' /\ NothingTakenBack /\ [Next]_vars => NothingTakenBack'
  BY NothingTakenBackStep
<1> QED BY <1>1, <1>2, ReadingsAlways, PTL DEF Spec

\* While nothing is late, copied or registered again, no number that was shown
\* in a session goes back to the 0 of a reset, whatever is lost or unplugged.
THEOREM NumbersAreNotTakenBack == Spec => NoZeroOnceRead
<1> DEFINE A == met' \cap {"reregister", "delay", "duplicate"} = {}
                /\ provider /\ provider'
                   => \A i \in Indices : shown[i] # 0 => shown'[i] # 0
<1>1. ReadingsInv /\ NothingTakenBack /\ [Next]_vars => [A]_vars
  <2> SUFFICES ASSUME ReadingsInv, NothingTakenBack, [Next]_vars, InOrder',
                      provider, provider', NEW i \in Indices, shown[i] # 0
               PROVE  shown'[i] # 0
    BY DEF InOrder
  <2>1. InOrder /\ late = {} /\ \A k \in DOMAIN up : Keeps(up[k])
    BY InOrderBefore DEF NothingTakenBack
  <2>2. CASE Deliver
    <3>1. up # <<>> /\ ProcessData(Head(up))
      BY <2>2 DEF Deliver
    <3>2. 1 \in DOMAIN up /\ Head(up) = up[1] /\ Keeps(Head(up))
      BY <2>1, <3>1, Shortened DEF ReadingsInv, Arrays
    <3>3. \/ shown' = shown
          \/ /\ Head(up).kind = "value"
             /\ shown' = [shown EXCEPT ![Head(up).num] = Head(up).value]
      BY <3>1 DEF ProcessData, AddProvider, NewTemp, NewCount, server
    <3> QED BY <3>2, <3>3 DEF Keeps, ReadingsInv, Arrays
  <2>3. CASE DeliverLate
    BY <2>1, <2>3 DEF DeliverLate
  <2>4. CASE EndSession
    BY <2>4 DEF EndSession
  <2>5. CASE UNCHANGED shown
    BY <2>5
  <2> QED
    BY <2>2, <2>3, <2>4, <2>5
       DEF Next, vars, server, Warm, Unplug, Plug, TempProcess, ProvTempTmr, Pulse,
           RfInit, RfRead, Payload, RfClear, RfDone, RfFails, StartSession,
           RegisterAgain, Lose, Delay, Duplicate
<1> QED BY <1>1, ReadingsAlways, AlwaysNothingTakenBack, PTL DEF Spec, NoZeroOnceRead

=============================================================================
