------------------------ MODULE DeviceSession_proofs ------------------------
(***************************************************************************)
(* Theorems about DeviceSession, for every set of keys, every list of      *)
(* provider types, all delays and any number of disturbances.              *)
(***************************************************************************)
EXTENDS DeviceSession, TLAPS

-----------------------------------------------------------------------------
(* Facts about the packets                                                 *)

LEMMA NothingInFlight ==
    /\ <<>> \in Seq(Providers)
    /\ <<>> \in Seq(UpPacket)
    /\ <<>> \in Seq(DownPacket)
  OBVIOUS

LEMMA FirstAndRest ==
    ASSUME NEW S, NEW link \in Seq(S), link # <<>>
    PROVE  Head(link) \in S /\ Tail(link) \in Seq(S)
  OBVIOUS

LEMMA AppendIsNotEmpty ==
    ASSUME NEW S, NEW link \in Seq(S), NEW e \in S
    PROVE  Append(link, e) # <<>>
<1>1. Len(Append(link, e)) = Len(link) + 1 /\ Len(link) \in Nat
  OBVIOUS
<1>2. Len(<<>>) = 0
  OBVIOUS
<1>3. Len(Append(link, e)) # Len(<<>>)
  BY <1>1, <1>2
<1> QED BY <1>3, Zenon

LEMMA PacketTypes ==
    /\ \A k \in AnyKey : Status(k) \in UpPacket
    /\ \A k \in Keys : Session(k) \in DownPacket
    /\ \A t \in Providers : Request(t) \in DownPacket
    /\ \A k \in Keys, t \in Providers : Register(k, t) \in UpPacket
  BY DEF Status, Session, Request, Register, UpPacket, DownPacket

LEMMA AnnouncementType ==
    ASSUME NEW k \in Keys
    PROVE  Announcement(k) \in Seq(UpPacket)
<1>1. \A i \in DOMAIN RegisterOrder : RegisterOrder[i] \in Providers
  BY RegisterOrderAssumption
<1>2. \A i \in DOMAIN RegisterOrder : Register(k, RegisterOrder[i]) \in UpPacket
  BY <1>1, PacketTypes
<1>3. DOMAIN RegisterOrder = 1 .. Len(RegisterOrder) /\ Len(RegisterOrder) \in Nat
  BY RegisterOrderAssumption
<1> QED BY <1>2, <1>3 DEF Announcement

-----------------------------------------------------------------------------
(* Each step of a packet's way keeps the types                             *)

LEMMA RegisterDeviceTypes ==
    ASSUME TypeOK, RegisterDevice
    PROVE  /\ sessKey' \in Keys
           /\ sinceRegistration' \in 0 .. REGISTRATION_DATA_DELAY + 1
           /\ down' \in Seq(DownPacket)
  BY PacketTypes, TimingAssumption DEF TypeOK, RegisterDevice

LEMMA DispatchTypes ==
    ASSUME TypeOK, NEW m \in UpPacket, Dispatch(m)
    PROVE  providers' \in Seq(Providers) /\ down' \in Seq(DownPacket)
<1>1. CASE m.kind = "register"
  <2>1. m.prov \in Providers
    BY <1>1 DEF UpPacket
  <2>2. /\ providers' = Append(providers, m.prov)
        /\ \/ down' = Append(down, Request(m.prov))
           \/ down' = down
    BY <1>1 DEF Dispatch
  <2>3. providers \in Seq(Providers) /\ down \in Seq(DownPacket)
    BY DEF TypeOK
  <2> QED BY <2>1, <2>2, <2>3, PacketTypes
<1>2. CASE m.kind # "register"
  BY <1>2 DEF TypeOK, Dispatch
<1> QED BY <1>1, <1>2

LEMMA ProcessDataTypes ==
    ASSUME TypeOK, NEW m \in UpPacket, ProcessData(m)
    PROVE  /\ connected' \in BOOLEAN
           /\ sessKey' \in AnyKey
           /\ providers' \in Seq(Providers)
           /\ sincePacket' \in 0 .. PACKETLOSS_DISCONNECT_DELAY + 1
           /\ sinceRegistration' \in 0 .. REGISTRATION_DATA_DELAY + 1
           /\ down' \in Seq(DownPacket)
<1>1. sincePacket' \in 0 .. PACKETLOSS_DISCONNECT_DELAY + 1
  BY TimingAssumption DEF ProcessData
<1>2. CASE InSession(m)
  BY <1>1, <1>2, DispatchTypes DEF InSession, TypeOK
<1>3. CASE OutOfSession(m)
  <2>1. connected' = FALSE /\ providers' = <<>> /\ RegisterDevice
    BY <1>3 DEF OutOfSession
  <2> QED BY <1>1, <2>1, RegisterDeviceTypes, NothingInFlight DEF AnyKey
<1>4. CASE OpensSession(m)
  BY <1>1, <1>4, DispatchTypes DEF OpensSession, TypeOK
<1>5. CASE ForeignKey(m)
  BY <1>1, <1>5, RegisterDeviceTypes DEF ForeignKey, TypeOK, AnyKey
<1> QED BY <1>2, <1>3, <1>4, <1>5 DEF ProcessData

LEMMA ProvProcessTypes ==
    ASSUME TypeOK, NEW m \in DownPacket, ProvProcess(m)
    PROVE  epKey' \in AnyKey /\ up' \in Seq(UpPacket)
<1>1. CASE m.kind = "session"
  <2>1. m.key \in Keys
    BY <1>1 DEF DownPacket
  <2>2. epKey' = m.key /\ up' = up \o Announcement(m.key)
    BY <1>1 DEF ProvProcess
  <2> QED BY <2>1, <2>2, AnnouncementType DEF TypeOK, AnyKey
<1>2. CASE m.kind = "request"
  <2>1. epKey' = epKey /\ (up' = Append(up, Status(epKey)) \/ up' = up)
    BY <1>2 DEF ProvProcess
  <2>2. epKey \in AnyKey /\ up \in Seq(UpPacket)
    BY DEF TypeOK
  <2> QED BY <2>1, <2>2, PacketTypes
<1> QED BY <1>1, <1>2 DEF ProvProcess

-----------------------------------------------------------------------------
(* Type correctness                                                        *)

THEOREM TypeCorrect == Spec => []TypeOK
<1>1. Init => TypeOK
  <2> SUFFICES ASSUME Init PROVE TypeOK
    OBVIOUS
  <2>1. /\ providers \in Seq(Providers)
        /\ up \in Seq(UpPacket) /\ down \in Seq(DownPacket)
    <3>1. providers = <<>> /\ up = <<>> /\ down = <<>>
      BY DEF Init, ServerInit
    <3> QED BY <3>1, NothingInFlight
  <2>2. /\ sincePacket \in 0 .. PACKETLOSS_DISCONNECT_DELAY + 1
        /\ sinceRegistration \in 0 .. REGISTRATION_DATA_DELAY + 1
        /\ sincePresence \in 0 .. PRESENCE_PERIOD
        /\ faults \in 0 .. MaxFaults
    BY TimingAssumption, FaultsAssumption DEF Init, ServerInit
  <2>3. /\ connected \in BOOLEAN
        /\ sessKey \in AnyKey /\ epKey \in AnyKey
        /\ lateUp \in SUBSET UpPacket /\ lateDown \in SUBSET DownPacket
    BY DEF Init, ServerInit, AnyKey
  <2>4. met \in SUBSET FaultKinds
    BY DEF Init
  <2> QED BY <2>1, <2>2, <2>3, <2>4 DEF TypeOK
<1>2. TypeOK /\ [Next]_vars => TypeOK'
  <2> SUFFICES ASSUME TypeOK, [Next]_vars PROVE TypeOK'
    OBVIOUS
  <2> USE TimingAssumption, FaultsAssumption
  <2>1. CASE DeliverUp
    <3>1. Head(up) \in UpPacket /\ Tail(up) \in Seq(UpPacket)
      BY <2>1 DEF DeliverUp, TypeOK
    <3> QED BY <2>1, <3>1, ProcessDataTypes DEF DeliverUp, TypeOK, endpoint
  <2>2. CASE DeliverLateUp
    <3>1. PICK m \in lateUp : ProcessData(m) /\ lateUp' = lateUp \ {m}
      BY <2>2 DEF DeliverLateUp
    <3>2. m \in UpPacket
      BY DEF TypeOK
    <3> QED BY <2>2, <3>1, <3>2, ProcessDataTypes DEF DeliverLateUp, TypeOK, endpoint
  <2>3. CASE DeliverDown
    <3>1. Head(down) \in DownPacket /\ Tail(down) \in Seq(DownPacket)
      BY <2>3 DEF DeliverDown, TypeOK
    <3> QED BY <2>3, <3>1, ProvProcessTypes DEF DeliverDown, TypeOK, server
  <2>4. CASE DeliverLateDown
    <3>1. PICK m \in lateDown : ProvProcess(m) /\ lateDown' = lateDown \ {m}
      BY <2>4 DEF DeliverLateDown
    <3>2. m \in DownPacket
      BY DEF TypeOK
    <3> QED BY <2>4, <3>1, <3>2, ProvProcessTypes DEF DeliverLateDown, TypeOK, server
  <2>5. CASE CheckConnection
    <3>1. providers' \in Seq(Providers)
      BY <2>5, NothingInFlight DEF CheckConnection
    <3> QED BY <2>5, <3>1 DEF CheckConnection, TypeOK, endpoint, network, AnyKey
  <2>6. CASE SendPresence
    <3>1. up' \in Seq(UpPacket)
      <4>1. up' = Append(up, Status(epKey))
        BY <2>6 DEF SendPresence
      <4>2. epKey \in AnyKey /\ up \in Seq(UpPacket)
        BY DEF TypeOK
      <4> QED BY <4>1, <4>2, PacketTypes
    <3> QED BY <2>6, <3>1 DEF SendPresence, TypeOK, server
  <2>7. CASE SendReport
    <3>1. up' \in Seq(UpPacket)
      <4>1. up' = <<Status(epKey)>> /\ epKey \in AnyKey
        BY <2>7 DEF SendReport, TypeOK
      <4> QED BY <4>1, PacketTypes
    <3> QED BY <2>7, <3>1 DEF SendReport, TypeOK, server, endpoint
  <2>8. CASE Lose
    <3>1. up' \in Seq(UpPacket) /\ down' \in Seq(DownPacket)
      <4>1. up \in Seq(UpPacket) /\ down \in Seq(DownPacket)
        BY DEF TypeOK
      <4>2. CASE up # <<>> /\ up' = Tail(up) /\ UNCHANGED down
        BY <4>1, <4>2, FirstAndRest
      <4>3. CASE down # <<>> /\ down' = Tail(down) /\ UNCHANGED up
        BY <4>1, <4>3, FirstAndRest
      <4> QED BY <2>8, <4>2, <4>3 DEF Lose
    <3>2. faults' \in 0 .. MaxFaults /\ met' \in SUBSET FaultKinds
      BY <2>8 DEF Lose, Disturb, TypeOK
    <3> QED BY <2>8, <3>1, <3>2 DEF Lose, TypeOK, server, endpoint
  <2>9. CASE Delay
    <3>1. /\ up' \in Seq(UpPacket) /\ down' \in Seq(DownPacket)
          /\ lateUp' \in SUBSET UpPacket /\ lateDown' \in SUBSET DownPacket
      <4>1. /\ up \in Seq(UpPacket) /\ down \in Seq(DownPacket)
            /\ lateUp \in SUBSET UpPacket /\ lateDown \in SUBSET DownPacket
        BY DEF TypeOK
      <4>2. CASE /\ up # <<>>
                 /\ up' = Tail(up)
                 /\ lateUp' = lateUp \cup {Head(up)}
                 /\ UNCHANGED <<down, lateDown>>
        BY <4>1, <4>2, FirstAndRest
      <4>3. CASE /\ down # <<>>
                 /\ down' = Tail(down)
                 /\ lateDown' = lateDown \cup {Head(down)}
                 /\ UNCHANGED <<up, lateUp>>
        BY <4>1, <4>3, FirstAndRest
      <4> QED BY <2>9, <4>2, <4>3 DEF Delay
    <3>2. faults' \in 0 .. MaxFaults /\ met' \in SUBSET FaultKinds
      BY <2>9 DEF Delay, Disturb, TypeOK
    <3> QED BY <2>9, <3>1, <3>2 DEF Delay, TypeOK, server, endpoint
  <2>10. CASE Duplicate
    BY <2>10 DEF Duplicate, Disturb, TypeOK, server, endpoint
  <2>11. CASE Reboot
    BY <2>11 DEF Reboot, Disturb, TypeOK, server, network, AnyKey
  <2>12. CASE ServerRestart
    <3>1. providers' \in Seq(Providers)
      BY <2>12, NothingInFlight DEF ServerRestart
    <3>2. /\ sincePacket' \in 0 .. PACKETLOSS_DISCONNECT_DELAY + 1
          /\ sinceRegistration' \in 0 .. REGISTRATION_DATA_DELAY + 1
      <4>1. /\ sincePacket' = PACKETLOSS_DISCONNECT_DELAY + 1
            /\ sinceRegistration' = REGISTRATION_DATA_DELAY + 1
        BY <2>12 DEF ServerRestart
      <4> QED BY <4>1
    <3>5. connected' \in BOOLEAN /\ sessKey' \in AnyKey
      BY <2>12 DEF ServerRestart, AnyKey
    <3>3. faults' \in 0 .. MaxFaults /\ met' \in SUBSET FaultKinds
      BY <2>12 DEF ServerRestart, Disturb, TypeOK
    <3>4. UNCHANGED <<endpoint, network>>
      BY <2>12 DEF ServerRestart
    <3> QED BY <3>1, <3>2, <3>3, <3>4, <3>5 DEF TypeOK, endpoint, network
  <2>13. CASE Tick
    BY <2>13 DEF Tick, Older, TypeOK, network
  <2>14. CASE UNCHANGED vars
    BY <2>14 DEF vars, server, endpoint, network, TypeOK
  <2> QED BY <2>1, <2>2, <2>3, <2>4, <2>5, <2>6, <2>7, <2>8, <2>9, <2>10,
             <2>11, <2>12, <2>13, <2>14 DEF Next
<1> QED BY <1>1, <1>2, PTL DEF Spec

-----------------------------------------------------------------------------
(* Providers exist only in a session with a real key.  The property is     *)
(* inductive given the types: a register packet never carries key 0        *)
(* (UpPacket), so the packet that opens the session of key 0 adds none.    *)

LEMMA OpeningWithoutProviders ==
    ASSUME TypeOK, ProvidersNeedSession, NEW m \in UpPacket, OpensSession(m)
    PROVE  ProvidersNeedSession'
<1>1. connected' /\ sessKey' = sessKey /\ m.key = sessKey
  BY DEF OpensSession
<1>2. CASE m.kind = "register"
  <2>1. m.key # 0
    BY <1>2, KeysAssumption DEF UpPacket
  <2> QED BY <1>1, <2>1 DEF ProvidersNeedSession
<1>3. CASE m.kind # "register"
  <2>1. providers' = providers
    BY <1>3 DEF OpensSession, Dispatch
  <2>2. providers = <<>>
    BY DEF ProvidersNeedSession, OpensSession
  <2> QED BY <2>1, <2>2 DEF ProvidersNeedSession
<1> QED BY <1>2, <1>3

LEMMA PacketKeepsProvidersInSession ==
    ASSUME TypeOK, ProvidersNeedSession, NEW m \in UpPacket, ProcessData(m)
    PROVE  ProvidersNeedSession'
<1>1. CASE InSession(m)
  BY <1>1 DEF InSession, ProvidersNeedSession
<1>2. CASE OutOfSession(m)
  BY <1>2 DEF OutOfSession, ProvidersNeedSession
<1>3. CASE OpensSession(m)
  BY <1>3, OpeningWithoutProviders
<1>4. CASE ForeignKey(m)
  BY <1>4 DEF ForeignKey, ProvidersNeedSession
<1> QED BY <1>1, <1>2, <1>3, <1>4 DEF ProcessData

\* Whatever ends a session (silence, a foreign key, a restart of the server)
\* leaves no provider behind, and the session with key 0 never has one.
THEOREM ProvidersAlwaysNeedSession == Spec => []ProvidersNeedSession
<1>1. Init => ProvidersNeedSession
  BY DEF Init, ServerInit, ProvidersNeedSession
<1>2. TypeOK /\ ProvidersNeedSession /\ [Next]_vars => ProvidersNeedSession'
  <2> SUFFICES ASSUME TypeOK, ProvidersNeedSession, [Next]_vars
               PROVE  ProvidersNeedSession'
    OBVIOUS
  <2>1. CASE DeliverUp
    <3>1. Head(up) \in UpPacket
      BY <2>1, FirstAndRest DEF DeliverUp, TypeOK
    <3> QED BY <2>1, <3>1, PacketKeepsProvidersInSession DEF DeliverUp
  <2>2. CASE DeliverLateUp
    <3>1. PICK m \in lateUp : ProcessData(m)
      BY <2>2 DEF DeliverLateUp
    <3>2. m \in UpPacket
      BY DEF TypeOK
    <3> QED BY <3>1, <3>2, PacketKeepsProvidersInSession
  <2>3. CASE CheckConnection
    BY <2>3 DEF CheckConnection, ProvidersNeedSession
  <2>4. CASE ServerRestart
    BY <2>4 DEF ServerRestart, ProvidersNeedSession
  <2>5. CASE UNCHANGED server
    BY <2>5 DEF server, ProvidersNeedSession
  <2>6. CASE Tick
    BY <2>6 DEF Tick, ProvidersNeedSession
  <2>7. DeliverDown \/ DeliverLateDown \/ SendPresence \/ SendReport
          \/ Lose \/ Delay \/ Duplicate \/ Reboot \/ UNCHANGED vars
        => UNCHANGED server
    BY DEF DeliverDown, DeliverLateDown, SendPresence, SendReport, Lose,
           Delay, Duplicate, Reboot, vars
  <2> QED BY <2>1, <2>2, <2>3, <2>4, <2>5, <2>6, <2>7 DEF Next
<1> QED BY <1>1, <1>2, TypeCorrect, PTL DEF Spec

-----------------------------------------------------------------------------
(* The session implements the abstract handshake.  A fresh key is in no    *)
(* packet and not with the endpoint, so nobody was told it; as long as it  *)
(* is in force, only an endpoint that received it sends it.                *)

Open == connected /\ sessKey # 0

ShakeVars == <<sessKey, Told, Open, providers>>

Carried(link) == {link[i] : i \in DOMAIN link}

LEMMA FlightParts ==
    /\ InFlightUp = Carried(up) \cup lateUp
    /\ InFlightDown = Carried(down) \cup lateDown
    /\ InFlightUp' = Carried(up') \cup lateUp'
    /\ InFlightDown' = Carried(down') \cup lateDown'
  BY DEF InFlightUp, InFlightDown, Carried

LEMMA FirstAndRestElements ==
    ASSUME NEW S, NEW link \in Seq(S), link # <<>>
    PROVE  Carried(link) = Carried(Tail(link)) \cup {Head(link)}
<1>1. 1 \in DOMAIN link /\ Head(link) = link[1]
  OBVIOUS
<1>2. \A i \in DOMAIN Tail(link) : i + 1 \in DOMAIN link /\ Tail(link)[i] = link[i + 1]
  OBVIOUS
<1>3. PICK n \in Nat : /\ n = Len(link) /\ DOMAIN link = 1 .. n
                       /\ DOMAIN Tail(link) = 1 .. n - 1
  OBVIOUS
<1>4. \A i \in 1 .. n : i = 1 \/ (i - 1 \in 1 .. n - 1 /\ (i - 1) + 1 = i)
  OBVIOUS
<1>5. \A i \in DOMAIN link : i = 1 \/ (i - 1 \in DOMAIN Tail(link) /\ Tail(link)[i - 1] = link[i])
  BY <1>2, <1>3, <1>4
<1> QED BY <1>1, <1>2, <1>5 DEF Carried

\* While the server keeps its key and its connection, the endpoint is told or
\* forgets; once it was heard it cannot make the server forget.
LEMMA ShakeOfEndpoint ==
    ASSUME UNCHANGED <<connected, sessKey, providers>>
    PROVE  [Shake!Next]_ShakeVars
<1>1. Open' = Open
  BY DEF Open
<1>2. CASE Told' = Told
  BY <1>1, <1>2 DEF ShakeVars
<1>3. CASE ~Told /\ Told'
  <2>1. sessKey # 0 /\ Told' = TRUE
    BY <1>3 DEF Told
  <2> QED BY <1>1, <2>1 DEF Shake!Next, Shake!Tell, Open
<1>4. CASE Told /\ ~Told'
  <2>1. ~Open /\ Told' = FALSE
    BY <1>4 DEF Told, Open
  <2> QED BY <1>1, <2>1 DEF Shake!Next, Shake!Forget, Open
<1> QED BY <1>2, <1>3, <1>4 DEF Told

LEMMA ShakeOfNewKey ==
    ASSUME TypeOK, RegisterDevice, InFlightUp' \subseteq InFlightUp,
           epKey' = epKey, ~connected', providers' = <<>>
    PROVE  Shake!Offer
<1>1. PICK k \in Keys : (FreshKeys => ~StillAround(k)) /\ sessKey' = k
  BY DEF RegisterDevice
<1>2. FreshKeys => ~Told'
  BY <1>1 DEF StillAround, Told
<1>3. Told' \in BOOLEAN
  BY DEF Told
<1> QED BY <1>1, <1>2, <1>3 DEF Shake!Offer, Open

\* A packet from the network: heard, answered with a new key, or ignored.
LEMMA ShakeOfPacket ==
    ASSUME TypeOK, ProvidersNeedSession, NEW m \in UpPacket, ProcessData(m),
           m \in InFlightUp, epKey' = epKey,
           InFlightUp' \subseteq InFlightUp, InFlightUp \subseteq InFlightUp' \cup {m}
    PROVE  [Shake!Next]_ShakeVars
<1>1. Dispatch(m) =>
         \/ UNCHANGED providers
         \/ \E t \in Providers : providers' = Append(providers, t)
  <2>1. m.kind = "register" => m.prov \in Providers
    BY DEF UpPacket
  <2> QED BY <2>1 DEF Dispatch
<1>2. ASSUME Dispatch(m), connected', sessKey' = sessKey, sessKey # 0, m.key = sessKey
      PROVE  Shake!Accept
  <2>1. Told /\ Told' /\ Open' /\ Told' = Told
    BY <1>2 DEF Told, Open
  <2> QED BY <1>1, <1>2, <2>1 DEF Shake!Accept, Open
<1>3. CASE InSession(m)
  BY <1>2, <1>3 DEF InSession, Shake!Next
<1>4. CASE OutOfSession(m)
  BY <1>4, ShakeOfNewKey DEF OutOfSession, Shake!Next
<1>5. CASE OpensSession(m)
  <2>1. CASE sessKey # 0
    BY <1>2, <1>5, <2>1 DEF OpensSession, Shake!Next
  <2>2. CASE sessKey = 0
    <3>1. m.kind # "register"
      BY <1>5, <2>2, KeysAssumption DEF OpensSession, UpPacket
    <3>2. UNCHANGED <<sessKey, providers>>
      BY <1>5, <3>1 DEF OpensSession, Dispatch
    <3>3. ~Told /\ ~Told' /\ ~Open /\ ~Open'
      BY <2>2, <3>2 DEF Told, Open
    <3> QED BY <3>2, <3>3 DEF ShakeVars, Told, Open
  <2> QED BY <2>1, <2>2
<1>6. CASE ForeignKey(m)
  <2>1. ~connected /\ ~connected' /\ m.key # sessKey /\ providers = <<>> /\ providers' = <<>>
    BY <1>6 DEF ForeignKey, ProvidersNeedSession
  <2>2. CASE RegisterDevice
    BY <2>1, <2>2, ShakeOfNewKey DEF Shake!Next
  <2>3. CASE UNCHANGED sessKey
    BY <1>6, <2>1, <2>3, ShakeOfEndpoint DEF ForeignKey
  <2> QED BY <1>6, <2>2, <2>3 DEF ForeignKey
<1> QED BY <1>3, <1>4, <1>5, <1>6 DEF ProcessData

\* The server forgets the session: silence, or a restart.
LEMMA ShakeOfEnd ==
    ASSUME ~connected', sessKey' = 0, providers' = <<>>
    PROVE  Shake!End
  BY DEF Shake!End, Told, Open

LEMMA ShakeStep ==
    ASSUME TypeOK, ProvidersNeedSession, [Next]_vars
    PROVE  [Shake!Next]_ShakeVars
<1>1. CASE DeliverUp
  <2>1. /\ up # <<>> /\ ProcessData(Head(up)) /\ up' = Tail(up)
        /\ epKey' = epKey /\ lateUp' = lateUp
    BY <1>1 DEF DeliverUp, endpoint
  <2>2. Head(up) \in UpPacket
    BY <2>1, FirstAndRest DEF TypeOK
  <2>3. /\ Head(up) \in InFlightUp /\ InFlightUp' \subseteq InFlightUp
        /\ InFlightUp \subseteq InFlightUp' \cup {Head(up)}
    BY <2>1, FlightParts, FirstAndRestElements DEF TypeOK
  <2> QED BY <2>1, <2>2, <2>3, ShakeOfPacket
<1>2. CASE DeliverLateUp
  <2>1. PICK m \in lateUp : ProcessData(m) /\ lateUp' = lateUp \ {m}
    BY <1>2 DEF DeliverLateUp
  <2>2. up' = up /\ epKey' = epKey /\ m \in UpPacket
    BY <1>2 DEF DeliverLateUp, endpoint, TypeOK
  <2>3. /\ m \in InFlightUp /\ InFlightUp' \subseteq InFlightUp
        /\ InFlightUp \subseteq InFlightUp' \cup {m}
    BY <2>1, <2>2 DEF InFlightUp
  <2> QED BY <2>1, <2>2, <2>3, ShakeOfPacket
<1>3. CASE CheckConnection
  BY <1>3, ShakeOfEnd DEF CheckConnection, Shake!Next
<1>4. CASE ServerRestart
  BY <1>4, ShakeOfEnd DEF ServerRestart, Shake!Next
<1>5. DeliverDown \/ DeliverLateDown \/ SendPresence \/ SendReport
          \/ Lose \/ Delay \/ Duplicate \/ Reboot \/ Tick \/ UNCHANGED vars
        => UNCHANGED <<connected, sessKey, providers>>
  BY DEF DeliverDown, DeliverLateDown, SendPresence, SendReport, Lose,
         Delay, Duplicate, Reboot, Tick, vars, server
<1> QED BY <1>1, <1>2, <1>3, <1>4, <1>5, ShakeOfEndpoint DEF Next

\* Sessions are opened, and providers registered, only by an endpoint that was
\* told the key in force; with fresh keys, since that key was drawn.
THEOREM HandshakeImplemented == Spec => ImplementsHandshake
<1>1. Init => Shake!Init
  BY DEF Init, ServerInit, Shake!Init, Told
<1>2. TypeOK /\ ProvidersNeedSession /\ [Next]_vars => [Shake!Next]_(Shake!vars)
  <2>1. Shake!vars = ShakeVars
    BY DEF Shake!vars, ShakeVars, Open
  <2> QED BY <2>1, ShakeStep DEF Shake!vars, ShakeVars, Open
<1> QED BY <1>1, <1>2, TypeCorrect, ProvidersAlwaysNeedSession, PTL
        DEF Spec, ImplementsHandshake, Shake!Spec

-----------------------------------------------------------------------------
(* A settled session is stable                                             *)

LEMMA RestElements ==
    ASSUME NEW S, NEW link \in Seq(S), link # <<>>, NEW i \in DOMAIN Tail(link)
    PROVE  \E j \in DOMAIN link : Tail(link)[i] = link[j]
<1>1. i + 1 \in DOMAIN link /\ Tail(link)[i] = link[i + 1]
  OBVIOUS
<1> QED BY <1>1

LEMMA AppendElements ==
    ASSUME NEW S, NEW link \in Seq(S), NEW e \in S, NEW i \in DOMAIN Append(link, e)
    PROVE  \/ Append(link, e)[i] = e
           \/ i \in DOMAIN link /\ Append(link, e)[i] = link[i]
<1>1. i \in 1 .. Len(link) + 1
  OBVIOUS
<1>2. CASE i = Len(link) + 1
  BY <1>2
<1>3. CASE i \in 1 .. Len(link)
  BY <1>3
<1> QED BY <1>1, <1>2, <1>3

LEMMA ConcatElements ==
    ASSUME NEW S, NEW s \in Seq(S), NEW t \in Seq(S), NEW i \in DOMAIN (s \o t)
    PROVE  \/ i \in DOMAIN s /\ (s \o t)[i] = s[i]
           \/ \E j \in DOMAIN t : (s \o t)[i] = t[j]
<1>1. i \in 1 .. Len(s) + Len(t)
  OBVIOUS
<1>2. CASE i <= Len(s)
  BY <1>1, <1>2
<1>3. CASE i > Len(s)
  <2>1. i - Len(s) \in DOMAIN t /\ (s \o t)[i] = t[i - Len(s)]
    BY <1>1, <1>3
  <2> QED BY <2>1
<1> QED BY <1>1, <1>2, <1>3

\* The parts of Settled, one per link and direction.
UpAgrees == /\ \A i \in DOMAIN up : up[i].key = sessKey
            /\ \A m \in lateUp : m.key = sessKey
DownAgrees == /\ \A i \in DOMAIN down : down[i].kind = "session" => down[i].key = sessKey
              /\ \A m \in lateDown : m.kind = "session" => m.key = sessKey
SidesAgree == connected /\ sessKey # 0 /\ epKey = sessKey

LEMMA SettledParts == Settled <=> SidesAgree /\ UpAgrees /\ DownAgrees
  BY DEF Settled, SidesAgree, UpAgrees, DownAgrees, InFlightUp, InFlightDown

LEMMA OwnPacketKeepsSettled ==
    ASSUME TypeOK, Settled, NEW m \in UpPacket, m.key = sessKey, ProcessData(m)
    PROVE  /\ connected' /\ sessKey' = sessKey
           /\ \A i \in DOMAIN down' : down'[i].kind = "session" => down'[i].key = sessKey
<1>1. InSession(m)
  BY DEF ProcessData, OutOfSession, OpensSession, ForeignKey, Settled
<1>2. connected' /\ sessKey' = sessKey /\ Dispatch(m)
  BY <1>1 DEF InSession, Settled
<1>3. \A i \in DOMAIN down : down[i].kind = "session" => down[i].key = sessKey
  BY SettledParts DEF DownAgrees
<1>4. CASE down' = down
  BY <1>2, <1>3, <1>4
<1>5. CASE m.kind = "register" /\ down' = Append(down, Request(m.prov))
  <2>1. Request(m.prov) \in DownPacket /\ Request(m.prov).kind # "session"
    BY <1>5, PacketTypes DEF UpPacket, Request
  <2>2. down \in Seq(DownPacket)
    BY DEF TypeOK
  <2> QED BY <1>2, <1>3, <1>5, <2>1, <2>2, AppendElements
<1> QED BY <1>2, <1>4, <1>5 DEF Dispatch

LEMMA OwnCommandKeepsSettled ==
    ASSUME TypeOK, Settled, NEW m \in DownPacket, ProvProcess(m),
           m.kind = "session" => m.key = sessKey
    PROVE  epKey' = sessKey /\ \A i \in DOMAIN up' : up'[i].key = sessKey
<1>1. /\ epKey = sessKey
      /\ \A i \in DOMAIN up : up[i].key = sessKey
      /\ up \in Seq(UpPacket) /\ epKey \in AnyKey
  BY SettledParts DEF SidesAgree, UpAgrees, TypeOK
<1>2. CASE m.kind = "session"
  <2>1. epKey' = sessKey /\ up' = up \o Announcement(sessKey) /\ sessKey \in Keys
    BY <1>2 DEF ProvProcess, DownPacket
  <2>2. \A i \in DOMAIN Announcement(sessKey) : Announcement(sessKey)[i].key = sessKey
    BY DEF Announcement, Register
  <2>3. Announcement(sessKey) \in Seq(UpPacket)
    BY <2>1, AnnouncementType
  <2> QED BY <1>1, <2>1, <2>2, <2>3, ConcatElements
<1>3. CASE m.kind = "request"
  <2>1. epKey' = epKey /\ (up' = Append(up, Status(epKey)) \/ up' = up)
    BY <1>3 DEF ProvProcess
  <2>2. Status(epKey) \in UpPacket /\ Status(epKey).key = sessKey
    BY <1>1, PacketTypes DEF Status
  <2> QED BY <1>1, <2>1, <2>2, AppendElements
<1> QED BY <1>2, <1>3 DEF ProvProcess

\* Once both sides and everything in flight agree on the session, no packet,
\* however it is repeated or reordered, can end it: only a reboot, a restart
\* of the server, or silence for PACKETLOSS_DISCONNECT_DELAY does.
THEOREM SettledSessionIsStable == Spec => SettledIsStable
<1>1. TypeOK /\ [Next]_vars
        => [Settled => Settled' \/ Reboot \/ ServerRestart
                                \/ sincePacket >= PACKETLOSS_DISCONNECT_DELAY]_vars
  <2> SUFFICES ASSUME TypeOK, Settled, Next,
                      ~Reboot, ~ServerRestart, ~CheckConnection
               PROVE  Settled'
    BY DEF CheckConnection
  <2>1. /\ up \in Seq(UpPacket) /\ lateUp \in SUBSET UpPacket
        /\ down \in Seq(DownPacket) /\ lateDown \in SUBSET DownPacket
    BY DEF TypeOK
  <2>2. SidesAgree /\ UpAgrees /\ DownAgrees
    BY SettledParts
  <2> SUFFICES SidesAgree' /\ UpAgrees' /\ DownAgrees'
    BY DEF Settled, SidesAgree, UpAgrees, DownAgrees, InFlightUp, InFlightDown
  <2>3. CASE DeliverUp
    <3>1. /\ Head(up) \in UpPacket /\ ProcessData(Head(up))
          /\ up' = Tail(up) /\ UNCHANGED <<endpoint, lateUp, lateDown>>
      BY <2>1, <2>3, FirstAndRest DEF DeliverUp
    <3>2. Head(up).key = sessKey
      BY <2>1, <2>2, <2>3 DEF UpAgrees, DeliverUp
    <3>3. \A i \in DOMAIN up' : up'[i].key = sessKey
      BY <2>1, <2>2, <2>3, <3>1, RestElements DEF UpAgrees, DeliverUp
    <3> QED BY <2>2, <3>1, <3>2, <3>3, OwnPacketKeepsSettled
            DEF SidesAgree, UpAgrees, DownAgrees, endpoint
  <2>4. CASE DeliverLateUp
    <3>1. PICK m \in lateUp : ProcessData(m) /\ lateUp' = lateUp \ {m}
      BY <2>4 DEF DeliverLateUp
    <3>2. m \in UpPacket /\ m.key = sessKey
      BY <2>1, <2>2 DEF UpAgrees
    <3>3. UNCHANGED <<endpoint, up, lateDown>>
      BY <2>4 DEF DeliverLateUp
    <3> QED BY <2>2, <3>1, <3>2, <3>3, OwnPacketKeepsSettled
            DEF SidesAgree, UpAgrees, DownAgrees, endpoint
  <2>5. CASE DeliverDown
    <3>1. /\ Head(down) \in DownPacket /\ ProvProcess(Head(down))
          /\ down' = Tail(down) /\ UNCHANGED <<server, lateUp, lateDown>>
      BY <2>1, <2>5, FirstAndRest DEF DeliverDown
    <3>2. Head(down).kind = "session" => Head(down).key = sessKey
      BY <2>1, <2>2, <2>5 DEF DownAgrees, DeliverDown
    <3>3. \A i \in DOMAIN down' : down'[i].kind = "session" => down'[i].key = sessKey
      BY <2>1, <2>2, <2>5, <3>1, RestElements DEF DownAgrees, DeliverDown
    <3> QED BY <2>2, <3>1, <3>2, <3>3, OwnCommandKeepsSettled
            DEF SidesAgree, UpAgrees, DownAgrees, server
  <2>6. CASE DeliverLateDown
    <3>1. PICK m \in lateDown : ProvProcess(m) /\ lateDown' = lateDown \ {m}
      BY <2>6 DEF DeliverLateDown
    <3>2. m \in DownPacket /\ (m.kind = "session" => m.key = sessKey)
      BY <2>1, <2>2 DEF DownAgrees
    <3>3. UNCHANGED <<server, down, lateUp>>
      BY <2>6 DEF DeliverLateDown
    <3> QED BY <2>2, <3>1, <3>2, <3>3, OwnCommandKeepsSettled
            DEF SidesAgree, UpAgrees, DownAgrees, server
  <2>7. CASE SendPresence \/ SendReport
    <3>1. /\ up' = Append(up, Status(epKey)) \/ up' = <<Status(epKey)>>
          /\ UNCHANGED <<server, epKey, down, lateUp, lateDown>>
      BY <2>7 DEF SendPresence, SendReport, endpoint
    <3>2. Status(epKey) \in UpPacket /\ Status(epKey).key = sessKey
      BY <2>2, PacketTypes DEF Status, TypeOK, SidesAgree
    <3>3. \A i \in DOMAIN up' : up'[i].key = sessKey
      BY <2>1, <2>2, <3>1, <3>2, AppendElements DEF UpAgrees
    <3> QED BY <2>2, <3>1, <3>3 DEF SidesAgree, UpAgrees, DownAgrees, server
  <2>8. CASE Lose
    <3>1. /\ \/ up # <<>> /\ up' = Tail(up) /\ UNCHANGED down
             \/ down # <<>> /\ down' = Tail(down) /\ UNCHANGED up
          /\ UNCHANGED <<server, endpoint, lateUp, lateDown>>
      BY <2>8 DEF Lose
    <3>2. UNCHANGED <<sessKey, connected, epKey, lateUp, lateDown>>
      BY <3>1 DEF server, endpoint
    <3>3. /\ \A i \in DOMAIN up' : \E j \in DOMAIN up : up'[i] = up[j]
          /\ \A i \in DOMAIN down' : \E j \in DOMAIN down : down'[i] = down[j]
      BY <2>1, <3>1, RestElements
    <3> QED BY <2>2, <3>2, <3>3 DEF SidesAgree, UpAgrees, DownAgrees
  <2>9. CASE Delay
    <3>1. UNCHANGED <<sessKey, connected, epKey>>
      BY <2>9 DEF Delay, server, endpoint
    <3>2. CASE /\ up # <<>>
               /\ up' = Tail(up)
               /\ lateUp' = lateUp \cup {Head(up)}
               /\ UNCHANGED <<down, lateDown>>
      <4>1. Head(up).key = sessKey
        BY <2>1, <2>2, <3>2 DEF UpAgrees
      <4>2. \A i \in DOMAIN up' : \E j \in DOMAIN up : up'[i] = up[j]
        BY <2>1, <3>2, RestElements
      <4> QED BY <2>2, <3>1, <3>2, <4>1, <4>2 DEF SidesAgree, UpAgrees, DownAgrees
    <3>3. CASE /\ down # <<>>
               /\ down' = Tail(down)
               /\ lateDown' = lateDown \cup {Head(down)}
               /\ UNCHANGED <<up, lateUp>>
      <4>1. Head(down).kind = "session" => Head(down).key = sessKey
        BY <2>1, <2>2, <3>3 DEF DownAgrees
      <4>2. \A i \in DOMAIN down' : \E j \in DOMAIN down : down'[i] = down[j]
        BY <2>1, <3>3, RestElements
      <4> QED BY <2>2, <3>1, <3>3, <4>1, <4>2 DEF SidesAgree, UpAgrees, DownAgrees
    <3> QED BY <2>9, <3>2, <3>3 DEF Delay
  <2>10. CASE Duplicate
    <3>1. UNCHANGED <<sessKey, connected, epKey, up, down>>
      BY <2>10 DEF Duplicate, server, endpoint
    <3>2. CASE up # <<>> /\ lateUp' = lateUp \cup {Head(up)} /\ UNCHANGED lateDown
      <4>1. Head(up).key = sessKey
        BY <2>1, <2>2, <3>2 DEF UpAgrees
      <4> QED BY <2>2, <3>1, <3>2, <4>1 DEF SidesAgree, UpAgrees, DownAgrees
    <3>3. CASE down # <<>> /\ lateDown' = lateDown \cup {Head(down)} /\ UNCHANGED lateUp
      <4>1. Head(down).kind = "session" => Head(down).key = sessKey
        BY <2>1, <2>2, <3>3 DEF DownAgrees
      <4> QED BY <2>2, <3>1, <3>3, <4>1 DEF SidesAgree, UpAgrees, DownAgrees
    <3> QED BY <2>10, <3>2, <3>3 DEF Duplicate
  <2>11. CASE Tick
    BY <2>2, <2>11 DEF Tick, network, SidesAgree, UpAgrees, DownAgrees
  <2> QED BY <2>3, <2>4, <2>5, <2>6, <2>7, <2>8, <2>9, <2>10, <2>11 DEF Next
<1> QED BY <1>1, TypeCorrect, PTL DEF Spec, SettledIsStable

-----------------------------------------------------------------------------
(* The server's silence about a connected endpoint                         *)

\* The silence is bounded by one presence period and one more for every
\* disturbance.
SilenceBound == connected => sincePacket <= PRESENCE_PERIOD * (faults + 1)

\* Strengthened to be inductive: while nothing is on its way up, the server last
\* heard of the endpoint when the endpoint last spoke, give or take one period
\* per disturbance.
Allowance == PRESENCE_PERIOD * faults
SilenceInv ==
    connected => /\ sincePacket <= PRESENCE_PERIOD + Allowance
                 /\ up = <<>> => sincePacket <= sincePresence + Allowance

LEMMA AllowanceGrows ==
    ASSUME NEW p \in Nat, NEW f \in Nat
    PROVE  p * f \in Nat /\ p * (f + 1) = p * f + p
  OBVIOUS

LEMMA HeardFromEndpoint ==
    ASSUME TypeOK, sincePacket' = 0, faults' = faults, sincePresence' = sincePresence
    PROVE  SilenceInv'
<1>1. Allowance' = Allowance /\ Allowance \in Nat
  BY TimingAssumption, FaultsAssumption, AllowanceGrows DEF Allowance, TypeOK
<1>2. Allowance' \in Nat /\ PRESENCE_PERIOD \in Nat /\ sincePresence' \in Nat
  BY <1>1, TimingAssumption DEF TypeOK
<1>3. /\ sincePacket' <= PRESENCE_PERIOD + Allowance'
      /\ sincePacket' <= sincePresence' + Allowance'
  BY <1>2 DEF Allowance
<1> QED BY <1>3 DEF SilenceInv

LEMMA DisturbedLink ==
    ASSUME TypeOK, SilenceInv, faults' = faults + 1,
           UNCHANGED <<connected, sincePacket>>, sincePresence' \in Nat
    PROVE  SilenceInv'
<1>1. Allowance' = Allowance + PRESENCE_PERIOD /\ Allowance \in Nat
  BY TimingAssumption, FaultsAssumption, AllowanceGrows DEF Allowance, TypeOK
<1>2. PRESENCE_PERIOD \in Nat /\ sincePacket \in Nat
  BY TimingAssumption DEF TypeOK
<1>3. ASSUME connected'
      PROVE  /\ sincePacket' <= PRESENCE_PERIOD + Allowance'
             /\ sincePacket' <= sincePresence' + Allowance'
  <2>1. sincePacket' <= PRESENCE_PERIOD + Allowance
    BY <1>3 DEF SilenceInv
  <2> QED BY <1>1, <1>2, <2>1 DEF Allowance
<1> QED BY <1>3 DEF SilenceInv

LEMMA QuietStep ==
    ASSUME TypeOK, SilenceInv, UNCHANGED <<connected, sincePacket, faults>>,
           \/ up' # <<>>
           \/ up = <<>> /\ sincePresence' = sincePresence
    PROVE  SilenceInv'
<1>1. Allowance' = Allowance
  BY DEF Allowance
<1> QED BY <1>1 DEF SilenceInv

LEMMA SilenceIsBounded == Spec => []SilenceBound
<1>1. Init => SilenceInv
  BY DEF Init, ServerInit, SilenceInv
<1>2. TypeOK /\ SilenceInv /\ [Next]_vars => SilenceInv'
  <2> SUFFICES ASSUME TypeOK, SilenceInv, [Next]_vars PROVE SilenceInv'
    OBVIOUS
  <2>1. CASE DeliverUp
    BY <2>1, HeardFromEndpoint DEF DeliverUp, ProcessData, endpoint
  <2>2. CASE DeliverLateUp
    BY <2>2, HeardFromEndpoint DEF DeliverLateUp, ProcessData, endpoint
  <2>3. CASE DeliverDown \/ DeliverLateDown
    <3>1. UNCHANGED <<connected, sincePacket, faults, sincePresence>>
      BY <2>3 DEF DeliverDown, DeliverLateDown, server
    <3>2. up # <<>> => up' # <<>>
      <4>1. PICK m \in DownPacket : ProvProcess(m)
        BY <2>3, FirstAndRest DEF DeliverDown, DeliverLateDown, TypeOK
      <4>2. CASE m.kind = "session"
        <5>1. Announcement(m.key) \in Seq(UpPacket) /\ up' = up \o Announcement(m.key)
          BY <4>1, <4>2, AnnouncementType DEF ProvProcess, DownPacket
        <5> QED BY <5>1 DEF TypeOK
      <4>3. CASE m.kind = "request"
        <5>1. up' = Append(up, Status(epKey)) \/ up' = up
          BY <4>1, <4>3 DEF ProvProcess
        <5> QED BY <5>1 DEF TypeOK
      <4> QED BY <4>1, <4>2, <4>3 DEF ProvProcess
    <3> QED BY <3>1, <3>2, QuietStep
  <2>4. CASE CheckConnection
    BY <2>4 DEF CheckConnection, SilenceInv
  <2>5. CASE SendPresence \/ SendReport
    <3>1. UNCHANGED <<connected, sincePacket, faults>>
      BY <2>5 DEF SendPresence, SendReport, server
    <3>2. up' = Append(up, Status(epKey)) \/ up' = <<Status(epKey)>>
      BY <2>5 DEF SendPresence, SendReport
    <3>3. up' # <<>>
      <4>1. up \in Seq(UpPacket) /\ Status(epKey) \in UpPacket
        BY PacketTypes DEF TypeOK
      <4>2. Append(up, Status(epKey)) # <<>>
        BY <4>1, AppendIsNotEmpty
      <4>3. <<Status(epKey)>> # <<>>
        BY Len(<<Status(epKey)>>) = 1, Len(<<>>) = 0
      <4> QED BY <3>2, <4>2, <4>3
    <3> QED BY <3>1, <3>3, QuietStep
  <2>6. CASE Lose \/ Delay \/ Duplicate
    <3>1. UNCHANGED <<connected, sincePacket, sincePresence>> /\ faults' = faults + 1
      BY <2>6 DEF Lose, Delay, Duplicate, Disturb, server, endpoint
    <3> QED BY <3>1, DisturbedLink DEF TypeOK
  <2>7. CASE Reboot
    BY <2>7, DisturbedLink DEF Reboot, Disturb, server
  <2>8. CASE ServerRestart
    BY <2>8 DEF ServerRestart, SilenceInv
  <2>9. CASE Tick
    <3>1. UNCHANGED <<connected, up, faults>> /\ up = <<>>
      BY <2>9 DEF Tick, network
    <3>2. sincePacket' <= sincePacket + 1 /\ sincePresence' = sincePresence + 1
      BY <2>9 DEF Tick, Older, TypeOK
    <3>3. sincePresence + 1 <= PRESENCE_PERIOD /\ sincePacket' \in Nat
      BY <2>9, TimingAssumption DEF Tick, TypeOK, Older
    <3>4. Allowance' = Allowance /\ Allowance \in Nat
      BY <3>1, TimingAssumption, FaultsAssumption, AllowanceGrows DEF Allowance, TypeOK
    <3> QED BY <3>1, <3>2, <3>3, <3>4, TimingAssumption DEF SilenceInv, TypeOK
  <2>10. CASE UNCHANGED vars
    BY <2>10 DEF vars, server, endpoint, network, SilenceInv, Allowance
  <2> QED BY <2>1, <2>2, <2>3, <2>4, <2>5, <2>6, <2>7, <2>8, <2>9, <2>10 DEF Next
<1>3. TypeOK /\ SilenceInv => SilenceBound
  <2> SUFFICES ASSUME TypeOK, SilenceInv PROVE SilenceBound
    OBVIOUS
  <2>1. PRESENCE_PERIOD * (faults + 1) = Allowance + PRESENCE_PERIOD /\ Allowance \in Nat
    BY TimingAssumption, FaultsAssumption, AllowanceGrows DEF Allowance, TypeOK
  <2> QED BY <2>1, TimingAssumption DEF SilenceInv, SilenceBound, TypeOK
<1> QED BY <1>1, <1>2, <1>3, TypeCorrect, PTL DEF Spec

\* checkConnection() ends the session of an endpoint that is alive only after
\* as many disturbances as there are periods in the disconnect delay, less one.
\* With the delays of server/settings.h and providers.c (1 and 3 ticks) one is
\* not enough.
THEOREM LossesAreForgiven == Spec => SilenceNeedsFaults
<1> DEFINE Dropped == connected /\ ~connected' /\ sessKey' = 0 /\ faults' = faults
           Enough == PACKETLOSS_DISCONNECT_DELAY <= PRESENCE_PERIOD * (faults + 1)
<1>1. ASSUME TypeOK, SilenceBound, Next, Dropped
      PROVE  Enough
  <2>1. CASE CheckConnection
    <3>1. /\ PACKETLOSS_DISCONNECT_DELAY <= sincePacket
          /\ sincePacket <= PRESENCE_PERIOD * (faults + 1)
      BY <1>1, <2>1 DEF CheckConnection, SilenceBound
    <3>2. PRESENCE_PERIOD * (faults + 1) \in Nat
      BY <1>1, TimingAssumption, FaultsAssumption, AllowanceGrows DEF TypeOK
    <3> QED BY <1>1, <3>1, <3>2, TimingAssumption DEF TypeOK
  <2>2. ASSUME NEW m, ProcessData(m)
        PROVE  FALSE
    <3>1. OutOfSession(m)
      BY <1>1, <2>2 DEF ProcessData, InSession, OpensSession, ForeignKey
    <3>2. sessKey' \in Keys
      BY <3>1 DEF OutOfSession, RegisterDevice
    <3> QED BY <1>1, <3>2, KeysAssumption
  <2>3. CASE ServerRestart
    BY <1>1, <2>3 DEF ServerRestart, Disturb, TypeOK
  <2> QED
    BY <1>1, <2>1, <2>2, <2>3
       DEF Next, DeliverUp, DeliverLateUp, DeliverDown, DeliverLateDown, SendPresence,
           SendReport, Lose, Delay, Duplicate, Reboot, Tick, server
<1>2. TypeOK /\ SilenceBound /\ [Next]_vars => [Dropped => Enough]_vars
  BY <1>1 DEF vars, server
<1> QED BY <1>2, TypeCorrect, SilenceIsBounded, PTL DEF Spec, SilenceNeedsFaults

-----------------------------------------------------------------------------
(* No provider is forgotten.  Inductive with the types: what takes a link  *)
(* of the chain out of the network puts the next one in.                   *)

Registered(t) == t \in Carried(providers)

Expected(t) ==
    Session(sessKey) \in InFlightDown \/ Register(sessKey, t) \in InFlightUp

LEMMA LinkGrows ==
    ASSUME NEW S, NEW s \in Seq(S), NEW t \in Seq(S)
    PROVE  Carried(s) \cup Carried(t) \subseteq Carried(s \o t)
<1>1. \A i \in DOMAIN s : i \in DOMAIN (s \o t) /\ (s \o t)[i] = s[i]
  OBVIOUS
<1>2. \A i \in DOMAIN t : Len(s) + i \in DOMAIN (s \o t) /\ (s \o t)[Len(s) + i] = t[i]
  OBVIOUS
<1> QED BY <1>1, <1>2 DEF Carried

LEMMA LinkGrowsByOne ==
    ASSUME NEW S, NEW link \in Seq(S), NEW e \in S
    PROVE  Carried(link) \cup {e} \subseteq Carried(Append(link, e))
<1>1. \A i \in DOMAIN link :
          i \in DOMAIN Append(link, e) /\ Append(link, e)[i] = link[i]
  OBVIOUS
<1>2. /\ Len(link) + 1 \in DOMAIN Append(link, e)
      /\ Append(link, e)[Len(link) + 1] = e
  OBVIOUS
<1> QED BY <1>1, <1>2 DEF Carried

\* A packet reaches the server: a registration in the session becomes a
\* provider, one with another key was not the one awaited.
LEMMA ProviderAfterPacket ==
    ASSUME TypeOK, NEW m \in UpPacket, ProcessData(m), sessKey' # 0,
           InFlightUp \subseteq InFlightUp' \cup {m}, lateDown' = lateDown,
           NEW t \in Providers, sessKey # 0 => Expected(t) \/ Registered(t)
    PROVE  Expected(t)' \/ Registered(t)'
<1>0. down \in Seq(DownPacket) /\ providers \in Seq(Providers)
  BY DEF TypeOK
<1>1. CASE RegisterDevice
  <2>1. PICK k \in Keys : sessKey' = k /\ down' = Append(down, Session(k))
    BY <1>1 DEF RegisterDevice
  <2>2. Session(k) \in InFlightDown'
    BY <1>0, <2>1, PacketTypes, FlightParts, LinkGrowsByOne
  <2> QED BY <2>1, <2>2 DEF Expected
<1>2. CASE Dispatch(m) /\ sessKey' = sessKey /\ m.key = sessKey
  <2>1. m.kind = "register" => m.prov \in Providers
    BY DEF UpPacket
  <2>2. InFlightDown \subseteq InFlightDown'
    BY <1>0, <1>2, <2>1, PacketTypes, FlightParts, LinkGrowsByOne DEF Dispatch
  <2>3. Registered(t) => Registered(t)'
    BY <1>0, <1>2, <2>1, LinkGrowsByOne DEF Registered, Dispatch
  <2>4. CASE Register(sessKey, t) = m
    <3>1. providers' = Append(providers, t)
      BY <1>2, <2>4 DEF Dispatch, Register
    <3> QED BY <1>0, <3>1, LinkGrowsByOne DEF Registered
  <2>5. CASE Register(sessKey, t) # m
    BY <1>2, <2>2, <2>3, <2>5 DEF Expected
  <2> QED BY <2>4, <2>5
<1>3. CASE ForeignKey(m) /\ UNCHANGED <<sessKey, down>>
  <2>1. providers' = providers /\ Register(sessKey, t) # m
    BY <1>3 DEF ForeignKey, Register
  <2> QED BY <1>3, <2>1 DEF Expected, Registered, InFlightDown
<1> QED BY <1>1, <1>2, <1>3 DEF ProcessData, InSession, OutOfSession, OpensSession,
           ForeignKey

\* The command of the session reaches the endpoint, which answers with all of
\* its registrations.
LEMMA ProviderAfterCommand ==
    ASSUME TypeOK, NEW m \in DownPacket, ProvProcess(m),
           UNCHANGED <<sessKey, providers, lateUp>>,
           InFlightDown \subseteq InFlightDown' \cup {m},
           NEW n \in DOMAIN RegisterOrder,
           Expected(RegisterOrder[n]) \/ Registered(RegisterOrder[n])
    PROVE  Expected(RegisterOrder[n])' \/ Registered(RegisterOrder[n])'
<1>0. up \in Seq(UpPacket) /\ epKey \in AnyKey
  BY DEF TypeOK
<1>1. CASE m.kind = "session"
  <2>1. m.key \in Keys /\ up' = up \o Announcement(m.key)
    BY <1>1 DEF ProvProcess, DownPacket
  <2>2. Announcement(m.key) \in Seq(UpPacket)
    BY <2>1, AnnouncementType
  <2>3. /\ n \in DOMAIN Announcement(m.key)
        /\ Announcement(m.key)[n] = Register(m.key, RegisterOrder[n])
    BY DEF Announcement
  <2>4. InFlightUp \subseteq InFlightUp' /\ Register(m.key, RegisterOrder[n]) \in InFlightUp'
    <3>1. Register(m.key, RegisterOrder[n]) \in Carried(Announcement(m.key))
      BY <2>3 DEF Carried
    <3>2. Carried(up) \cup Carried(Announcement(m.key)) \subseteq Carried(up')
      BY <1>0, <2>1, <2>2, LinkGrows
    <3> QED BY <3>1, <3>2, FlightParts
  <2>5. Session(sessKey) = m => m.key = sessKey
    BY DEF Session
  <2> QED BY <2>4, <2>5 DEF Expected, Registered
<1>2. CASE m.kind = "request"
  <2>1. InFlightUp \subseteq InFlightUp'
    BY <1>0, <1>2, PacketTypes, FlightParts, LinkGrowsByOne DEF ProvProcess
  <2>2. Session(sessKey) # m
    BY <1>2 DEF Session
  <2> QED BY <2>1, <2>2 DEF Expected, Registered
<1> QED BY <1>1, <1>2 DEF ProvProcess

\* As long as no datagram is lost, every provider of the endpoint is registered
\* in the session the server has offered, or on its way there.
THEOREM ProvidersAreNotForgotten == Spec => []NoProviderForgotten
<1>1. Init => NoProviderForgotten
  BY DEF Init, ServerInit, NoProviderForgotten
<1>2. TypeOK /\ NoProviderForgotten /\ [Next]_vars => NoProviderForgotten'
  <2> SUFFICES ASSUME TypeOK, NoProviderForgotten, [Next]_vars,
                      "lose" \notin met', sessKey' # 0, NEW n \in DOMAIN RegisterOrder
               PROVE  Expected(RegisterOrder[n])' \/ Registered(RegisterOrder[n])'
    BY DEF NoProviderForgotten, Expected, Registered, Carried
  <2>1. "lose" \notin met /\ ~Lose
    BY DEF Next, vars, DeliverUp, DeliverLateUp, DeliverDown, DeliverLateDown,
           CheckConnection, SendPresence, SendReport, Lose, Delay, Duplicate,
           Reboot, ServerRestart, Tick, Disturb
  <2>2. sessKey # 0 => Expected(RegisterOrder[n]) \/ Registered(RegisterOrder[n])
    BY <2>1 DEF NoProviderForgotten, Expected, Registered, Carried
  <2>3. /\ up \in Seq(UpPacket) /\ down \in Seq(DownPacket)
        /\ lateUp \subseteq UpPacket /\ lateDown \subseteq DownPacket
        /\ epKey \in AnyKey /\ RegisterOrder[n] \in Providers
    BY RegisterOrderAssumption DEF TypeOK
  <2>4. CASE DeliverUp
    <3>1. /\ up # <<>> /\ ProcessData(Head(up)) /\ up' = Tail(up)
          /\ UNCHANGED <<lateUp, lateDown>>
      BY <2>4 DEF DeliverUp
    <3>2. Head(up) \in UpPacket
      BY <2>3, <3>1, FirstAndRest
    <3>3. InFlightUp \subseteq InFlightUp' \cup {Head(up)}
      BY <2>3, <3>1, FlightParts, FirstAndRestElements
    <3> QED BY <2>2, <2>3, <3>1, <3>2, <3>3, ProviderAfterPacket
  <2>5. CASE DeliverLateUp
    <3>1. PICK m \in lateUp : ProcessData(m) /\ lateUp' = lateUp \ {m}
      BY <2>5 DEF DeliverLateUp
    <3>2. UNCHANGED <<up, lateDown>> /\ m \in UpPacket
      BY <2>3, <2>5 DEF DeliverLateUp
    <3>3. InFlightUp \subseteq InFlightUp' \cup {m}
      BY <3>1, <3>2 DEF InFlightUp
    <3> QED BY <2>2, <2>3, <3>1, <3>2, <3>3, ProviderAfterPacket
  <2>6. CASE DeliverDown
    <3>1. /\ down # <<>> /\ ProvProcess(Head(down)) /\ down' = Tail(down)
          /\ UNCHANGED <<sessKey, providers, lateUp, lateDown>>
      BY <2>6 DEF DeliverDown, server
    <3>2. Head(down) \in DownPacket
      BY <2>3, <3>1, FirstAndRest
    <3>3. InFlightDown \subseteq InFlightDown' \cup {Head(down)}
      BY <2>3, <3>1, FlightParts, FirstAndRestElements
    <3> QED BY <2>2, <3>1, <3>2, <3>3, ProviderAfterCommand
  <2>7. CASE DeliverLateDown
    <3>1. PICK m \in lateDown : ProvProcess(m) /\ lateDown' = lateDown \ {m}
      BY <2>7 DEF DeliverLateDown
    <3>2. UNCHANGED <<sessKey, providers, down, lateUp>> /\ m \in DownPacket
      BY <2>3, <2>7 DEF DeliverLateDown, server
    <3>3. InFlightDown \subseteq InFlightDown' \cup {m}
      BY <3>1, <3>2 DEF InFlightDown
    <3> QED BY <2>2, <3>1, <3>2, <3>3, ProviderAfterCommand
  <2>8. CASE CheckConnection \/ ServerRestart
    BY <2>8 DEF CheckConnection, ServerRestart
  <2>9. CASE SendPresence \/ SendReport
    <3>1. /\ up' = Append(up, Status(epKey))
          /\ UNCHANGED <<sessKey, providers, down, lateUp, lateDown>>
      <4>1. Append(<<>>, Status(epKey)) = <<Status(epKey)>>
        OBVIOUS
      <4> QED BY <2>9, <4>1 DEF SendPresence, SendReport, server
    <3>2. InFlightUp \subseteq InFlightUp' /\ InFlightDown' = InFlightDown
      BY <2>3, <3>1, PacketTypes, FlightParts, LinkGrowsByOne
    <3> QED BY <2>2, <3>1, <3>2 DEF Expected, Registered
  <2>10. CASE Delay \/ Duplicate
    <3>1. InFlightUp \subseteq InFlightUp' /\ InFlightDown \subseteq InFlightDown'
      BY <2>3, <2>10, FlightParts, FirstAndRestElements DEF Delay, Duplicate
    <3>2. UNCHANGED <<sessKey, providers>>
      BY <2>10 DEF Delay, Duplicate, server
    <3> QED BY <2>2, <3>1, <3>2 DEF Expected, Registered
  <2>11. CASE Reboot \/ Tick \/ UNCHANGED vars
    <3>1. UNCHANGED <<sessKey, providers, up, down, lateUp, lateDown>>
      BY <2>11 DEF Reboot, Tick, vars, server, network
    <3> QED BY <2>2, <3>1 DEF Expected, Registered, InFlightUp, InFlightDown
  <2> QED BY <2>1, <2>4, <2>5, <2>6, <2>7, <2>8, <2>9, <2>10, <2>11 DEF Next
<1> QED BY <1>1, <1>2, TypeCorrect, PTL DEF Spec

-----------------------------------------------------------------------------
(* One provider of each type.  While the network copies nothing and keys   *)
(* are fresh, a session command is on its way once, and so is each         *)
(* registration it causes; a command comes before the registrations with   *)
(* its key, and a registration before the provider it adds.                *)

InFlight(link, late) == {link[i] : i \in DOMAIN link} \cup late

Once(link, late, kind) ==
    /\ \A i \in DOMAIN link : link[i].kind = kind => link[i] \notin late
    /\ \A i, j \in DOMAIN link : link[i].kind = kind /\ link[i] = link[j] => i = j

LEMMA OnceWithoutFirst ==
    ASSUME NEW S, NEW link \in Seq(S), NEW late, NEW kind, link # <<>>,
           Once(link, late, kind)
    PROVE  /\ Once(Tail(link), late, kind)
           /\ InFlight(Tail(link), late) \subseteq InFlight(link, late)
           /\ Head(link) \in InFlight(link, late)
           /\ Head(link).kind = kind => Head(link) \notin InFlight(Tail(link), late)
<1>1. /\ \A i \in DOMAIN Tail(link) : i + 1 \in DOMAIN link /\ Tail(link)[i] = link[i + 1]
      /\ \A i \in DOMAIN Tail(link) : i \in Int /\ i + 1 # 1
      /\ 1 \in DOMAIN link /\ Head(link) = link[1]
  OBVIOUS
<1>2. \A i, j \in DOMAIN Tail(link) : i + 1 = j + 1 => i = j
  BY <1>1
<1>3. Once(Tail(link), late, kind)
  BY <1>1, <1>2 DEF Once
<1>4. Head(link).kind = kind => Head(link) \notin InFlight(Tail(link), late)
  BY <1>1 DEF Once, InFlight
<1> QED BY <1>1, <1>3, <1>4 DEF InFlight

LEMMA OnceOvertaken ==
    ASSUME NEW S, NEW link \in Seq(S), NEW late, NEW kind, link # <<>>,
           Once(link, late, kind)
    PROVE  /\ Once(Tail(link), late \cup {Head(link)}, kind)
           /\ InFlight(Tail(link), late \cup {Head(link)}) \subseteq InFlight(link, late)
<1>1. /\ Once(Tail(link), late, kind)
      /\ InFlight(Tail(link), late) \subseteq InFlight(link, late)
      /\ Head(link) \in InFlight(link, late)
      /\ Head(link).kind = kind => Head(link) \notin InFlight(Tail(link), late)
  BY OnceWithoutFirst
<1> QED BY <1>1 DEF Once, InFlight

LEMMA OnceWithoutLate ==
    ASSUME NEW link, NEW late, NEW kind, NEW m \in late, Once(link, late, kind)
    PROVE  /\ Once(link, late \ {m}, kind)
           /\ InFlight(link, late \ {m}) \subseteq InFlight(link, late)
           /\ m \in InFlight(link, late)
           /\ m.kind = kind => m \notin InFlight(link, late \ {m})
  BY DEF Once, InFlight

LEMMA OnceWithLast ==
    ASSUME NEW S, NEW link \in Seq(S), NEW late, NEW kind, NEW e \in S,
           Once(link, late, kind),
           e.kind = kind => e \notin InFlight(link, late)
    PROVE  /\ Once(Append(link, e), late, kind)
           /\ InFlight(Append(link, e), late) = InFlight(link, late) \cup {e}
<1> DEFINE new == Append(link, e)
<1>1. PICK n \in Nat : n = Len(link)
  OBVIOUS
<1>2. /\ DOMAIN link = 1 .. n /\ DOMAIN new = 1 .. n + 1
      /\ new[n + 1] = e
      /\ \A i \in DOMAIN link : i \in DOMAIN new /\ new[i] = link[i] /\ i # n + 1
  BY <1>1
<1>3. \A i \in DOMAIN new : i = n + 1 \/ i \in DOMAIN link
  BY <1>2
<1>4. n + 1 \in DOMAIN new
  BY <1>2
<1> HIDE DEF new
<1>5. \A i \in DOMAIN new : new[i].kind = kind => new[i] \notin late
  BY <1>2, <1>3 DEF Once, InFlight
<1>6. \A i, j \in DOMAIN new : new[i].kind = kind /\ new[i] = new[j] => i = j
  BY <1>2, <1>3 DEF Once, InFlight
<1>7. InFlight(new, late) = InFlight(link, late) \cup {e}
  BY <1>2, <1>3, <1>4 DEF InFlight
<1> QED BY <1>5, <1>6, <1>7 DEF new, Once

LEMMA OnceWithMore ==
    ASSUME NEW S, NEW link \in Seq(S), NEW late, NEW kind, NEW s \in Seq(S),
           Once(link, late, kind),
           \A i \in DOMAIN s : s[i] \notin InFlight(link, late),
           \A i, j \in DOMAIN s : s[i] = s[j] => i = j
    PROVE  /\ Once(link \o s, late, kind)
           /\ InFlight(link \o s, late) \subseteq InFlight(link, late) \cup InFlight(s, {})
<1> DEFINE new == link \o s
<1>1. PICK n \in Nat : n = Len(link)
  OBVIOUS
<1>2. /\ DOMAIN link = 1 .. n
      /\ \A i \in DOMAIN new : \/ i \in DOMAIN link /\ new[i] = link[i]
                               \/ i > n /\ i - n \in DOMAIN s /\ new[i] = s[i - n]
      /\ \A i, j \in DOMAIN new : i - n = j - n => i = j
  BY <1>1
<1>0. \A a \in DOMAIN link, b \in DOMAIN s : link[a] # s[b]
  BY DEF InFlight
<1> HIDE DEF new
<1>3. \A i \in DOMAIN new : new[i].kind = kind => new[i] \notin late
  BY <1>2 DEF Once, InFlight
<1>4. ASSUME NEW i \in DOMAIN new, NEW j \in DOMAIN new,
             new[i].kind = kind, new[i] = new[j]
      PROVE  i = j
  <2>1. CASE i \in DOMAIN link /\ new[i] = link[i]
    <3>1. j \in DOMAIN link /\ new[j] = link[j]
      BY <1>0, <1>2, <1>4, <2>1
    <3> QED BY <1>4, <2>1, <3>1 DEF Once
  <2>2. CASE i - n \in DOMAIN s /\ new[i] = s[i - n]
    <3>1. j - n \in DOMAIN s /\ new[j] = s[j - n]
      BY <1>0, <1>2, <1>4, <2>2
    <3> QED BY <1>2, <1>4, <2>2, <3>1
  <2> QED BY <1>2, <2>1, <2>2
<1>5. InFlight(new, late) \subseteq InFlight(link, late) \cup InFlight(s, {})
  BY <1>2 DEF InFlight
<1> QED BY <1>3, <1>4, <1>5 DEF new, Once

Up == InFlight(up, lateUp)
Down == InFlight(down, lateDown)

RegistersOnce == Once(up, lateUp, "register")
SessionsOnce == Once(down, lateDown, "session")
SessionBeforeRegister ==
    \A c \in Down, r \in Up :
        c.kind = "session" /\ r.kind = "register" => r.key # c.key
SessionBeforeProviders ==
    \A c \in Down : c.kind = "session" /\ c.key = sessKey => providers = <<>>
RegisterBeforeProvider ==
    \A r \in Up : r.kind = "register" /\ r.key = sessKey
                    => \A i \in DOMAIN providers : providers[i] # r.prov
NoTwins == \A i, j \in DOMAIN providers : providers[i] = providers[j] => i = j

OrderedInv ==
    /\ RegistersOnce /\ SessionsOnce
    /\ SessionBeforeRegister /\ SessionBeforeProviders /\ RegisterBeforeProvider
    /\ NoTwins

\* Packets that get fewer, and those of other kinds, disturb nothing.
LEMMA OrderedWithLess ==
    ASSUME OrderedInv, RegistersOnce', SessionsOnce',
           UNCHANGED <<sessKey, providers>>,
           \A r \in Up' : r.kind = "register" => r \in Up,
           \A c \in Down' : c.kind = "session" => c \in Down
    PROVE  OrderedInv'
<1>1. SessionBeforeRegister'
  BY DEF OrderedInv, SessionBeforeRegister
<1>2. SessionBeforeProviders' /\ RegisterBeforeProvider' /\ NoTwins'
  BY DEF OrderedInv, SessionBeforeProviders, RegisterBeforeProvider, NoTwins
<1> QED BY <1>1, <1>2 DEF OrderedInv

LEMMA OrderedWithoutProviders ==
    ASSUME OrderedInv, UNCHANGED network, providers' = <<>>
    PROVE  OrderedInv'
<1>1. RegistersOnce' /\ SessionsOnce' /\ SessionBeforeRegister'
  BY DEF OrderedInv, network, RegistersOnce, SessionsOnce, Once,
         SessionBeforeRegister, Up, Down, InFlight
<1>2. DOMAIN providers' = {}
  BY DOMAIN <<>> = {}
<1>3. SessionBeforeProviders' /\ RegisterBeforeProvider' /\ NoTwins'
  BY <1>2 DEF SessionBeforeProviders, RegisterBeforeProvider, NoTwins
<1> QED BY <1>1, <1>3 DEF OrderedInv

\* A packet has left the link to the server, which takes it.
Taken(m) ==
    /\ m \in Up
    /\ RegistersOnce'
    /\ Up' \subseteq Up
    /\ m.kind = "register" => m \notin Up'
    /\ lateDown' = lateDown

LEMMA OrderedAfterRegisterDevice ==
    ASSUME TypeOK, FreshKeys, OrderedInv, NEW m \in UpPacket, Taken(m),
           RegisterDevice, providers' = <<>>
    PROVE  OrderedInv'
<1>1. PICK k \in Keys : /\ ~StillAround(k)
                        /\ sessKey' = k /\ down' = Append(down, Session(k))
  BY DEF RegisterDevice
<1>2. /\ \A r \in Up : r.key # k
      /\ \A c \in Down : c.kind = "session" => c.key # k
  BY <1>1 DEF StillAround, InFlightUp, InFlightDown, Up, Down, InFlight
<1>3. Session(k) \in DownPacket /\ Session(k).kind = "session" /\ Session(k).key = k
  BY PacketTypes DEF Session
<1>4. down \in Seq(DownPacket)
  BY DEF TypeOK
<1>5. SessionsOnce' /\ Down' = Down \cup {Session(k)}
  <2>1. Once(down, lateDown, "session") /\ Session(k) \notin InFlight(down, lateDown)
    BY <1>2, <1>3 DEF OrderedInv, SessionsOnce, Down
  <2>2. /\ Once(Append(down, Session(k)), lateDown, "session")
        /\ InFlight(Append(down, Session(k)), lateDown)
             = InFlight(down, lateDown) \cup {Session(k)}
    BY <1>3, <1>4, <2>1, OnceWithLast
  <2> QED BY <1>1, <2>2 DEF SessionsOnce, Down, Taken
<1>6. SessionBeforeRegister'
  BY <1>2, <1>3, <1>5 DEF OrderedInv, SessionBeforeRegister, Taken
<1>7. DOMAIN providers' = {}
  BY DOMAIN <<>> = {}
<1>8. SessionBeforeProviders' /\ RegisterBeforeProvider' /\ NoTwins'
  BY <1>7 DEF SessionBeforeProviders, RegisterBeforeProvider, NoTwins
<1> QED BY <1>5, <1>6, <1>8 DEF OrderedInv, Taken

LEMMA OrderedAfterDispatch ==
    ASSUME TypeOK, OrderedInv, NEW m \in UpPacket, Taken(m), Dispatch(m),
           m.key = sessKey, sessKey' = sessKey
    PROVE  OrderedInv'
<1>1. down \in Seq(DownPacket) /\ providers \in Seq(Providers)
  BY DEF TypeOK
<1>2. SessionsOnce' /\ \A c \in Down' : c.kind = "session" => c \in Down
  <2>1. CASE down' = down
    BY <2>1 DEF OrderedInv, SessionsOnce, Down, Taken
  <2>2. CASE m.kind = "register" /\ down' = Append(down, Request(m.prov))
    <3>1. Request(m.prov) \in DownPacket /\ Request(m.prov).kind # "session"
      BY <2>2, PacketTypes DEF UpPacket, Request
    <3>2. /\ Once(Append(down, Request(m.prov)), lateDown, "session")
          /\ InFlight(Append(down, Request(m.prov)), lateDown)
               = InFlight(down, lateDown) \cup {Request(m.prov)}
      BY <1>1, <3>1, OnceWithLast DEF OrderedInv, SessionsOnce
    <3> QED BY <2>2, <3>1, <3>2 DEF SessionsOnce, Down, Taken
  <2> QED BY <2>1, <2>2 DEF Dispatch
<1>3. CASE m.kind # "register"
  BY <1>2, <1>3, OrderedWithLess DEF Dispatch, Taken
<1>4. CASE m.kind = "register"
  <2>1. providers' = Append(providers, m.prov) /\ m.prov \in Providers
    BY <1>4 DEF Dispatch, UpPacket
  <2>2. \A i \in DOMAIN providers' :
            \/ providers'[i] = m.prov
            \/ i \in DOMAIN providers /\ providers'[i] = providers[i]
    BY <1>1, <2>1, AppendElements
  <2>3. \A i \in DOMAIN providers : providers[i] # m.prov
    BY <1>4 DEF OrderedInv, RegisterBeforeProvider, Taken
  <2>4. \A i, j \in DOMAIN providers' :
            providers'[i] = m.prov /\ providers'[j] = m.prov => i = j
    <3>1. PICK n \in Nat : n = Len(providers)
      BY <1>1
    <3>2. /\ DOMAIN providers' = 1 .. n + 1 /\ DOMAIN providers = 1 .. n
          /\ \A i \in 1 .. n : providers'[i] = providers[i]
      BY <1>1, <2>1, <3>1
    <3>3. \A i \in 1 .. n + 1 : i = n + 1 \/ i \in 1 .. n
      OBVIOUS
    <3> QED BY <2>3, <3>2, <3>3
  <2>5. NoTwins'
    BY <2>2, <2>3, <2>4 DEF OrderedInv, NoTwins
  <2>6. SessionBeforeProviders'
    BY <1>2, <1>4 DEF OrderedInv, SessionBeforeProviders, SessionBeforeRegister, Taken
  <2>7. SessionBeforeRegister'
    BY <1>2 DEF OrderedInv, SessionBeforeRegister, Taken
  <2>8. RegisterBeforeProvider'
    <3>1. SUFFICES ASSUME NEW r \in Up', r.kind = "register", r.key = sessKey
                   PROVE  \A i \in DOMAIN providers' : providers'[i] # r.prov
      BY DEF RegisterBeforeProvider
    <3>2. r \in Up /\ r # m /\ r \in UpPacket
      BY <1>4, <3>1 DEF Taken, Up, InFlight, TypeOK
    <3>3. r.prov # m.prov
      BY <1>4, <3>1, <3>2 DEF UpPacket
    <3>4. \A i \in DOMAIN providers : providers[i] # r.prov
      BY <3>1, <3>2 DEF OrderedInv, RegisterBeforeProvider
    <3> QED BY <2>2, <3>3, <3>4
  <2> QED BY <1>2, <2>5, <2>6, <2>7, <2>8 DEF OrderedInv, Taken
<1> QED BY <1>3, <1>4

LEMMA OrderedAfterPacket ==
    ASSUME TypeOK, ProvidersNeedSession, FreshKeys, OrderedInv,
           NEW m \in UpPacket, Taken(m), ProcessData(m)
    PROVE  OrderedInv'
<1>1. CASE InSession(m) \/ OpensSession(m)
  BY <1>1, OrderedAfterDispatch DEF InSession, OpensSession
<1>2. CASE OutOfSession(m)
  BY <1>2, OrderedAfterRegisterDevice DEF OutOfSession
<1>3. CASE ForeignKey(m) /\ RegisterDevice
  BY <1>3, OrderedAfterRegisterDevice DEF ForeignKey, ProvidersNeedSession
<1>4. CASE ForeignKey(m) /\ UNCHANGED <<sessKey, down>>
  <2>1. SessionsOnce' /\ Down' = Down
    BY <1>4 DEF OrderedInv, SessionsOnce, Down, Taken
  <2> QED BY <1>4, <2>1, OrderedWithLess DEF ForeignKey, Taken
<1> QED BY <1>1, <1>2, <1>3, <1>4 DEF ProcessData, ForeignKey

\* A command has left the link to the endpoint, which takes it.
Heard(m) ==
    /\ m \in Down
    /\ SessionsOnce'
    /\ Down' \subseteq Down
    /\ m.kind = "session" => m \notin Down'
    /\ lateUp' = lateUp

EachTypeOnce ==
    \A i, j \in DOMAIN RegisterOrder : RegisterOrder[i] = RegisterOrder[j] => i = j

LEMMA OrderedWithStatus ==
    ASSUME TypeOK, OrderedInv, UNCHANGED <<sessKey, providers, lateUp>>,
           NEW k \in AnyKey, up' = Append(up, Status(k)),
           SessionsOnce', Down' \subseteq Down
    PROVE  OrderedInv'
<1>1. Status(k) \in UpPacket /\ Status(k).kind # "register" /\ up \in Seq(UpPacket)
  BY PacketTypes DEF Status, TypeOK
<1>2. /\ Once(Append(up, Status(k)), lateUp, "register")
      /\ InFlight(Append(up, Status(k)), lateUp) = InFlight(up, lateUp) \cup {Status(k)}
  BY <1>1, OnceWithLast DEF OrderedInv, RegistersOnce
<1>3. RegistersOnce' /\ \A r \in Up' : r.kind = "register" => r \in Up
  BY <1>1, <1>2 DEF RegistersOnce, Up
<1> QED BY <1>3, OrderedWithLess

LEMMA OrderedAfterCommand ==
    ASSUME TypeOK, OrderedInv, EachTypeOnce, UNCHANGED <<sessKey, providers>>,
           NEW m \in DownPacket, Heard(m), ProvProcess(m)
    PROVE  OrderedInv'
<1>1. up \in Seq(UpPacket) /\ epKey \in AnyKey
  BY DEF TypeOK
<1>2. CASE m.kind = "session"
  <2> DEFINE s == Announcement(m.key)
  <2>1. m.key \in Keys /\ s \in Seq(UpPacket) /\ up' = up \o s
    BY <1>2, AnnouncementType DEF ProvProcess, DownPacket
  <2>2. \A i \in DOMAIN s : /\ i \in DOMAIN RegisterOrder
                            /\ s[i] = Register(m.key, RegisterOrder[i])
    BY DEF Announcement
  <2> HIDE DEF s
  <2>3. \A i \in DOMAIN s : s[i].kind = "register" /\ s[i].key = m.key
    BY <2>2 DEF Register
  <2>4. \A i, j \in DOMAIN s : s[i] = s[j] => i = j
    <3>1. \A i \in DOMAIN s : s[i].prov = RegisterOrder[i]
      BY <2>2 DEF Register
    <3> QED BY <2>2, <3>1 DEF EachTypeOnce
  <2>5. \A r \in Up : r.kind = "register" => r.key # m.key
    BY <1>2 DEF Heard, OrderedInv, SessionBeforeRegister
  <2>6. \A i \in DOMAIN s : s[i] \notin InFlight(up, lateUp)
    BY <2>3, <2>5 DEF Up
  <2>7. /\ Once(up \o s, lateUp, "register")
        /\ InFlight(up \o s, lateUp) \subseteq InFlight(up, lateUp) \cup InFlight(s, {})
    <3>1. Once(up, lateUp, "register") /\ up \in Seq(UpPacket) /\ s \in Seq(UpPacket)
      BY <1>1, <2>1 DEF OrderedInv, RegistersOnce
    <3>2. /\ \A i \in DOMAIN s : s[i] \notin InFlight(up, lateUp)
          /\ \A i, j \in DOMAIN s : s[i] = s[j] => i = j
      BY <2>4, <2>6
    <3>3. Once(up \o s, lateUp, "register")
      BY <3>1, <3>2, OnceWithMore, Zenon
    <3>4. InFlight(up \o s, lateUp) \subseteq InFlight(up, lateUp) \cup InFlight(s, {})
      BY <3>1, <3>2, OnceWithMore, Zenon
    <3> QED BY <3>3, <3>4
  <2>8. RegistersOnce' /\ \A r \in Up' : r \in Up \/ r.key = m.key
    <3>1. \A r \in InFlight(s, {}) : r.key = m.key
      BY <2>3 DEF InFlight
    <3> QED BY <2>1, <2>7, <3>1 DEF RegistersOnce, Up, Heard
  <2>9. \A c \in Down' : c.kind = "session" => c.key # m.key
    <3>1. SUFFICES ASSUME NEW c \in Down', c.kind = "session", c.key = m.key
                   PROVE  FALSE
      OBVIOUS
    <3>2. c \in DownPacket
      BY DEF Heard, Down, InFlight, TypeOK
    <3>3. c = m
      BY <1>2, <3>1, <3>2 DEF DownPacket
    <3> QED BY <1>2, <3>3 DEF Heard
  <2>10. SessionBeforeRegister'
    BY <2>8, <2>9 DEF OrderedInv, SessionBeforeRegister, Heard
  <2>11. SessionBeforeProviders' /\ NoTwins'
    BY DEF OrderedInv, SessionBeforeProviders, NoTwins, Heard
  <2>12. RegisterBeforeProvider'
    <3>1. SUFFICES ASSUME NEW r \in Up', r.kind = "register", r.key = sessKey
                   PROVE  \A i \in DOMAIN providers : providers[i] # r.prov
      BY DEF RegisterBeforeProvider
    <3>2. CASE r \in Up
      BY <3>1, <3>2 DEF OrderedInv, RegisterBeforeProvider
    <3>3. CASE r.key = m.key
      <4>1. providers = <<>>
        BY <1>2, <3>1, <3>3 DEF OrderedInv, SessionBeforeProviders, Heard
      <4> QED BY <4>1, DOMAIN <<>> = {}
    <3> QED BY <2>8, <3>2, <3>3
  <2> QED BY <2>8, <2>10, <2>11, <2>12 DEF OrderedInv, Heard
<1>3. CASE m.kind = "request" /\ up' = up
  <2>1. RegistersOnce' /\ Up' = Up
    BY <1>3 DEF OrderedInv, RegistersOnce, Up, Heard
  <2> QED BY <2>1, OrderedWithLess DEF Heard
<1>4. CASE m.kind = "request" /\ up' = Append(up, Status(epKey))
  BY <1>1, <1>4, OrderedWithStatus DEF Heard
<1> QED BY <1>2, <1>3, <1>4 DEF ProvProcess

LEMMA OrderedAfterDisturbance ==
    ASSUME TypeOK, OrderedInv, Lose \/ Delay
    PROVE  OrderedInv'
<1>1. UNCHANGED <<sessKey, providers>>
  BY DEF Lose, Delay, server
<1>2. /\ up \in Seq(UpPacket) /\ down \in Seq(DownPacket)
      /\ Once(up, lateUp, "register") /\ Once(down, lateDown, "session")
  BY DEF TypeOK, OrderedInv, RegistersOnce, SessionsOnce
<1>3. CASE up # <<>> /\ up' = Tail(up) /\ UNCHANGED <<down, lateUp, lateDown>>
  <2>1. /\ Once(Tail(up), lateUp, "register")
        /\ InFlight(Tail(up), lateUp) \subseteq InFlight(up, lateUp)
    BY <1>2, <1>3, OnceWithoutFirst
  <2>2. RegistersOnce' /\ Up' \subseteq Up /\ SessionsOnce' /\ Down' = Down
    BY <1>2, <1>3, <2>1 DEF RegistersOnce, SessionsOnce, Up, Down
  <2> QED BY <1>1, <2>2, OrderedWithLess
<1>4. CASE down # <<>> /\ down' = Tail(down) /\ UNCHANGED <<up, lateUp, lateDown>>
  <2>1. /\ Once(Tail(down), lateDown, "session")
        /\ InFlight(Tail(down), lateDown) \subseteq InFlight(down, lateDown)
    BY <1>2, <1>4, OnceWithoutFirst
  <2>2. RegistersOnce' /\ Up' = Up /\ SessionsOnce' /\ Down' \subseteq Down
    BY <1>2, <1>4, <2>1 DEF RegistersOnce, SessionsOnce, Up, Down
  <2> QED BY <1>1, <2>2, OrderedWithLess
<1>5. CASE /\ up # <<>> /\ up' = Tail(up) /\ lateUp' = lateUp \cup {Head(up)}
           /\ UNCHANGED <<down, lateDown>>
  <2>1. /\ Once(Tail(up), lateUp \cup {Head(up)}, "register")
        /\ InFlight(Tail(up), lateUp \cup {Head(up)}) \subseteq InFlight(up, lateUp)
    BY <1>2, <1>5, OnceOvertaken
  <2>2. RegistersOnce' /\ Up' \subseteq Up /\ SessionsOnce' /\ Down' = Down
    BY <1>2, <1>5, <2>1 DEF RegistersOnce, SessionsOnce, Up, Down
  <2> QED BY <1>1, <2>2, OrderedWithLess
<1>6. CASE /\ down # <<>> /\ down' = Tail(down)
           /\ lateDown' = lateDown \cup {Head(down)} /\ UNCHANGED <<up, lateUp>>
  <2>1. /\ Once(Tail(down), lateDown \cup {Head(down)}, "session")
        /\ InFlight(Tail(down), lateDown \cup {Head(down)}) \subseteq InFlight(down, lateDown)
    BY <1>2, <1>6, OnceOvertaken
  <2>2. RegistersOnce' /\ Up' = Up /\ SessionsOnce' /\ Down' \subseteq Down
    BY <1>2, <1>6, <2>1 DEF RegistersOnce, SessionsOnce, Up, Down
  <2> QED BY <1>1, <2>2, OrderedWithLess
<1> QED BY <1>3, <1>4, <1>5, <1>6 DEF Lose, Delay

\* A server whose keys are fresh gives a device that announces each of its
\* provider types once each provider once, through every loss, delay, reboot
\* and restart, as long as the network copies nothing.
THEOREM ProvidersAreUnique ==
    ASSUME FreshKeys, EachTypeOnce
    PROVE  Spec => []OneProviderPerType
<1> DEFINE Inv == "duplicate" \notin met => OrderedInv
<1>1. Init => Inv
  <2> SUFFICES ASSUME Init PROVE OrderedInv
    OBVIOUS
  <2>1. /\ DOMAIN up = {} /\ DOMAIN down = {} /\ DOMAIN providers = {}
        /\ lateUp = {} /\ lateDown = {}
    BY DOMAIN <<>> = {} DEF Init, ServerInit
  <2> QED BY <2>1 DEF OrderedInv, RegistersOnce, SessionsOnce, Once, NoTwins, Up,
             Down, InFlight, SessionBeforeRegister, SessionBeforeProviders,
             RegisterBeforeProvider
<1>2. TypeOK /\ ProvidersNeedSession /\ Inv /\ [Next]_vars => Inv'
  <2> SUFFICES ASSUME TypeOK, ProvidersNeedSession, Inv, [Next]_vars,
                      "duplicate" \notin met'
               PROVE  OrderedInv'
    OBVIOUS
  <2>1. OrderedInv /\ ~Duplicate
    <3>1. met \subseteq met' /\ ~Duplicate
      BY DEF Next, vars, DeliverUp, DeliverLateUp, DeliverDown, DeliverLateDown,
             CheckConnection, SendPresence, SendReport, Lose, Delay, Duplicate,
             Reboot, ServerRestart, Tick, Disturb
    <3> QED BY <3>1
  <2> HIDE DEF Inv
  <2>2. /\ up \in Seq(UpPacket) /\ down \in Seq(DownPacket)
        /\ lateUp \subseteq UpPacket /\ lateDown \subseteq DownPacket
        /\ Once(up, lateUp, "register") /\ Once(down, lateDown, "session")
    BY <2>1 DEF TypeOK, OrderedInv, RegistersOnce, SessionsOnce
  <2>3. CASE DeliverUp
    <3>1. /\ up # <<>> /\ ProcessData(Head(up)) /\ up' = Tail(up)
          /\ UNCHANGED <<lateUp, lateDown>>
      BY <2>3 DEF DeliverUp
    <3>2. Head(up) \in UpPacket
      BY <2>2, <3>1, FirstAndRest
    <3>3. /\ Once(Tail(up), lateUp, "register")
          /\ InFlight(Tail(up), lateUp) \subseteq InFlight(up, lateUp)
          /\ Head(up) \in InFlight(up, lateUp)
          /\ Head(up).kind = "register" => Head(up) \notin InFlight(Tail(up), lateUp)
      BY <2>2, <3>1, OnceWithoutFirst
    <3>4. Taken(Head(up))
      BY <3>1, <3>3 DEF Taken, RegistersOnce, Up
    <3> QED BY <2>1, <3>1, <3>2, <3>4, OrderedAfterPacket
  <2>4. CASE DeliverLateUp
    <3>1. /\ UNCHANGED <<up, lateDown>>
          /\ \E m \in lateUp : ProcessData(m) /\ lateUp' = lateUp \ {m}
      BY <2>4 DEF DeliverLateUp
    <3>2. PICK m \in lateUp : ProcessData(m) /\ lateUp' = lateUp \ {m}
      BY <3>1
    <3>3. /\ Once(up, lateUp \ {m}, "register")
          /\ InFlight(up, lateUp \ {m}) \subseteq InFlight(up, lateUp)
          /\ m \in InFlight(up, lateUp)
          /\ m.kind = "register" => m \notin InFlight(up, lateUp \ {m})
      BY <2>2, OnceWithoutLate
    <3>4. Taken(m)
      BY <3>1, <3>2, <3>3 DEF Taken, RegistersOnce, Up
    <3> QED BY <2>1, <2>2, <3>2, <3>4, OrderedAfterPacket
  <2>5. CASE DeliverDown
    <3>1. /\ down # <<>> /\ ProvProcess(Head(down)) /\ down' = Tail(down)
          /\ UNCHANGED <<sessKey, providers, lateUp, lateDown>>
      BY <2>5 DEF DeliverDown, server
    <3>2. Head(down) \in DownPacket
      BY <2>2, <3>1, FirstAndRest
    <3>3. /\ Once(Tail(down), lateDown, "session")
          /\ InFlight(Tail(down), lateDown) \subseteq InFlight(down, lateDown)
          /\ Head(down) \in InFlight(down, lateDown)
          /\ Head(down).kind = "session"
               => Head(down) \notin InFlight(Tail(down), lateDown)
      BY <2>2, <3>1, OnceWithoutFirst
    <3>4. Heard(Head(down))
      BY <3>1, <3>3 DEF Heard, SessionsOnce, Down
    <3> QED BY <2>1, <3>1, <3>2, <3>4, OrderedAfterCommand
  <2>6. CASE DeliverLateDown
    <3>1. /\ UNCHANGED <<sessKey, providers, down, lateUp>>
          /\ \E m \in lateDown : ProvProcess(m) /\ lateDown' = lateDown \ {m}
      BY <2>6 DEF DeliverLateDown, server
    <3>2. PICK m \in lateDown : ProvProcess(m) /\ lateDown' = lateDown \ {m}
      BY <3>1
    <3>3. /\ Once(down, lateDown \ {m}, "session")
          /\ InFlight(down, lateDown \ {m}) \subseteq InFlight(down, lateDown)
          /\ m \in InFlight(down, lateDown)
          /\ m.kind = "session" => m \notin InFlight(down, lateDown \ {m})
      BY <2>2, OnceWithoutLate
    <3>4. Heard(m)
      BY <3>1, <3>2, <3>3 DEF Heard, SessionsOnce, Down
    <3> QED BY <2>1, <2>2, <3>1, <3>2, <3>4, OrderedAfterCommand
  <2>7. CASE CheckConnection \/ ServerRestart
    BY <2>1, <2>7, OrderedWithoutProviders DEF CheckConnection, ServerRestart
  <2>8. CASE SendPresence \/ SendReport
    <3>1. /\ up' = Append(up, Status(epKey))
          /\ UNCHANGED <<sessKey, providers, down, lateUp, lateDown>>
      <4>1. Append(<<>>, Status(epKey)) = <<Status(epKey)>>
        OBVIOUS
      <4> QED BY <2>8, <4>1 DEF SendPresence, SendReport, server
    <3>2. SessionsOnce' /\ Down' = Down /\ epKey \in AnyKey
      BY <2>2, <3>1 DEF SessionsOnce, Down, TypeOK
    <3> QED BY <2>1, <3>1, <3>2, OrderedWithStatus
  <2>9. CASE Lose \/ Delay
    BY <2>1, <2>9, OrderedAfterDisturbance
  <2>10. CASE Reboot \/ Tick \/ UNCHANGED vars
    <3>1. UNCHANGED <<sessKey, providers, up, down, lateUp, lateDown>>
      BY <2>10 DEF Reboot, Tick, vars, server, network
    <3>2. RegistersOnce' /\ SessionsOnce' /\ Up' = Up /\ Down' = Down
      BY <2>2, <3>1 DEF RegistersOnce, SessionsOnce, Up, Down
    <3> QED BY <2>1, <3>1, <3>2, OrderedWithLess
  <2> QED BY <2>1, <2>3, <2>4, <2>5, <2>6, <2>7, <2>8, <2>9, <2>10 DEF Next
<1>3. Inv => OneProviderPerType
  BY DEF OneProviderPerType, OrderedInv, NoTwins
<1> QED BY <1>1, <1>2, <1>3, TypeCorrect, ProvidersAlwaysNeedSession, PTL DEF Spec

=============================================================================
