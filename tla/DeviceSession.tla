--------------------------- MODULE DeviceSession ---------------------------
(***************************************************************************)
(* The session between the KDHome server (server/EthernetDevice.cpp, one   *)
(* object per endpoint) and one endpoint running the provider library      *)
(* (providers/providers.c), over UDP.                                      *)
(*                                                                         *)
(* The server draws a 16 bit session key and sends it in a REGISTER        *)
(* command.  The endpoint puts the key it last received into every packet  *)
(* and announces its providers; the server takes a packet carrying the key *)
(* it last drew as the proof that the session is up.  Key 0 means "none"   *)
(* on both sides.                                                          *)
(*                                                                         *)
(* Time is counted in ticks of the endpoint's presence period.  A datagram *)
(* that is neither lost nor late arrives within the tick it was sent in.   *)
(***************************************************************************)
EXTENDS Integers, Sequences

CONSTANTS
    Keys,                        \* what rand() % 0xfffe + 1 can return
    FreshKeys,                   \* rand() returns no key that is still around
    RegisterOrder,               \* the provider types compiled into the endpoint
    PRESENCE_PERIOD,             \* ticks between two presence packets
    REGISTRATION_DATA_DELAY,     \* server/settings.h, in ticks
    PACKETLOSS_DISCONNECT_DELAY, \* server/settings.h, in ticks
    FaultKinds,                  \* which disturbances the environment causes
    MaxFaults                    \* bound on the number of disturbances

Providers == {"output", "input", "ir", "temp", "counter"}

ASSUME KeysAssumption == Keys \subseteq Nat \ {0} /\ FreshKeys \in BOOLEAN
ASSUME RegisterOrderAssumption == RegisterOrder \in Seq(Providers)
ASSUME TimingAssumption ==
    /\ PRESENCE_PERIOD \in Nat \ {0}
    /\ REGISTRATION_DATA_DELAY \in Nat
    /\ PACKETLOSS_DISCONNECT_DELAY \in Nat \ {0}
ASSUME FaultsAssumption ==
    /\ FaultKinds \subseteq {"lose", "delay", "duplicate", "reboot", "restart"}
    /\ MaxFaults \in Nat

VARIABLES
    connected,          \* EthernetDevice::m_connected
    sessKey,            \* EthernetDevice::m_sessKey
    providers,          \* EthernetDevice::m_providers, their types in order
    sincePacket,        \* getTicks() - m_lastPacketTime
    sinceRegistration,  \* getTicks() - m_registrationDataSendTime
    epKey,              \* sessKey of providers.c
    sincePresence,      \* getTicks() - lastPresenceSendTime
    up, down,           \* datagrams in flight, in order
    lateUp, lateDown,   \* datagrams the network holds back or has copied
    faults,             \* number of disturbances so far
    met                 \* and their kinds

server == <<connected, sessKey, providers, sincePacket, sinceRegistration>>
endpoint == <<epKey, sincePresence>>
network == <<up, down, lateUp, lateDown>>
vars == <<server, endpoint, network, faults, met>>

-----------------------------------------------------------------------------
(* Packets.  The endpoint gets the key in one packet only, and sends it in *)
(* all.  Packet ids are left out: the test the server makes on them asks   *)
(* for a difference of at least 11 when it is at most 0, in int.           *)

\* A presence packet, or a report of a provider: no registration.
Status(k) == [kind |-> "status", key |-> k]

\* provXxxRegister(): cmd 0 of a provider type.
Register(k, t) == [kind |-> "register", key |-> k, prov |-> t]

\* TSrvCmdRegister, the only packet that carries a key to the endpoint.
Session(k) == [kind |-> "session", key |-> k]

\* XXX_REQ_SENDSTATE, sent by the init() of a provider.
Request(t) == [kind |-> "request", prov |-> t]

AnyKey == Keys \cup {0}
UpPacket == [kind : {"status"}, key : AnyKey]
              \cup [kind : {"register"}, key : Keys, prov : Providers]
DownPacket == [kind : {"session"}, key : Keys]
                \cup [kind : {"request"}, prov : Providers]

\* The provider types whose init() asks the endpoint for its state.
Requesting == {"input", "counter"}

\* The provider types whose request provProcess() answers.
Answering == {"input"}

InFlightUp == {up[i] : i \in DOMAIN up} \cup lateUp
InFlightDown == {down[i] : i \in DOMAIN down} \cup lateDown

\* Ages are compared with their delay only, so they stop one past it.
Older(age, limit) == IF age > limit THEN age ELSE age + 1

-----------------------------------------------------------------------------
(* server/EthernetDevice.cpp                                               *)

ServerInit ==
    /\ connected = FALSE
    /\ sessKey = 0
    /\ providers = <<>>
    /\ sincePacket = PACKETLOSS_DISCONNECT_DELAY + 1
    /\ sinceRegistration = REGISTRATION_DATA_DELAY + 1

\* A key one of the sides holds, or that some packet still carries.
StillAround(k) ==
    \/ k \in {sessKey, epKey}
    \/ k \in {m.key : m \in InFlightUp}
    \/ k \in {m.key : m \in {d \in InFlightDown : d.kind = "session"}}

RegisterDevice ==
    \E k \in Keys :
        /\ FreshKeys => ~StillAround(k)
        /\ sessKey' = k
        /\ sinceRegistration' = 0
        /\ down' = Append(down, Session(k))

\* What an accepted packet does: a registration adds a provider, and the
\* init() of the new provider may send a request.
Dispatch(m) ==
    IF m.kind = "register"
    THEN /\ providers' = Append(providers, m.prov)
         /\ down' = IF m.prov \in Requesting THEN Append(down, Request(m.prov))
                                             ELSE down
    ELSE UNCHANGED <<providers, down>>

InSession(m) ==
    /\ connected
    /\ sessKey # 0
    /\ m.key = sessKey
    /\ Dispatch(m)
    /\ UNCHANGED <<connected, sessKey, sinceRegistration>>

\* markDisconnected(), registerDevice(), return.
OutOfSession(m) ==
    /\ connected
    /\ sessKey = 0 \/ m.key # sessKey
    /\ connected' = FALSE
    /\ providers' = <<>>
    /\ RegisterDevice

\* Mutant: return after markConnected().
OpensSessionOnly(m) ==
    /\ ~connected
    /\ m.key = sessKey
    /\ connected' = TRUE
    /\ UNCHANGED <<sessKey, providers, sinceRegistration, down>>

\* Mutant: while disconnected, any key opens the session.
OpensAnySession(m) ==
    /\ ~connected
    /\ sessKey # 0 \/ m.key = sessKey
    /\ connected' = TRUE
    /\ Dispatch(m)
    /\ UNCHANGED <<sessKey, sinceRegistration>>

\* markConnected(), then the packet is dispatched.  There is no provider to
\* initialise: m_providers is empty while disconnected (ProvidersNeedSession).
OpensSession(m) ==
    /\ ~connected
    /\ m.key = sessKey
    /\ connected' = TRUE
    /\ Dispatch(m)
    /\ UNCHANGED <<sessKey, sinceRegistration>>

\* Mutant: no second registration while the first one is unanswered.
ForeignKeyNoRetry(m) ==
    /\ ~connected
    /\ m.key # sessKey
    /\ IF sessKey = 0
       THEN RegisterDevice
       ELSE UNCHANGED <<sessKey, sinceRegistration, down>>
    /\ UNCHANGED <<connected, providers>>

ForeignKey(m) ==
    /\ ~connected
    /\ m.key # sessKey
    /\ IF sinceRegistration > REGISTRATION_DATA_DELAY
       THEN RegisterDevice
       ELSE UNCHANGED <<sessKey, sinceRegistration, down>>
    /\ UNCHANGED <<connected, providers>>

ProcessData(m) ==
    /\ InSession(m) \/ OutOfSession(m) \/ OpensSession(m) \/ ForeignKey(m)
    /\ sincePacket' = 0

\* Mutant: only the connected flag is reset when the endpoint is silent.
CheckConnectionKeepsProviders ==
    /\ connected
    /\ sincePacket >= PACKETLOSS_DISCONNECT_DELAY
    /\ connected' = FALSE
    /\ sessKey' = 0
    /\ UNCHANGED <<providers, sincePacket, sinceRegistration, endpoint,
                   network, faults, met>>

\* Mutant: one period too early.
CheckConnectionEarly ==
    /\ connected
    /\ sincePacket >= PACKETLOSS_DISCONNECT_DELAY - PRESENCE_PERIOD
    /\ connected' = FALSE
    /\ sessKey' = 0
    /\ providers' = <<>>
    /\ UNCHANGED <<sincePacket, sinceRegistration, endpoint, network, faults,
                   met>>

\* process() every 100 ms: checkConnection() finds the endpoint silent.
CheckConnection ==
    /\ connected
    /\ sincePacket >= PACKETLOSS_DISCONNECT_DELAY
    /\ connected' = FALSE
    /\ sessKey' = 0
    /\ providers' = <<>>
    /\ UNCHANGED <<sincePacket, sinceRegistration, endpoint, network, faults,
                   met>>

-----------------------------------------------------------------------------
(* providers/providers.c                                                   *)

Announcement(k) == [i \in DOMAIN RegisterOrder |-> Register(k, RegisterOrder[i])]

ProvProcess(m) ==
    \/ /\ m.kind = "session"
       /\ epKey' = m.key
       /\ up' = up \o Announcement(m.key)
    \/ /\ m.kind = "request"
       /\ up' = IF m.prov \in Answering THEN Append(up, Status(epKey)) ELSE up
       /\ UNCHANGED epKey

\* Mutant: the presence packet does not pass through provPrepareHeader().
SendPresenceWithoutKey ==
    /\ sincePresence >= PRESENCE_PERIOD
    /\ sincePresence' = 0
    /\ up' = Append(up, Status(0))
    /\ UNCHANGED <<server, epKey, down, lateUp, lateDown, faults, met>>

\* provTmr(): the presence packet.
SendPresence ==
    /\ sincePresence >= PRESENCE_PERIOD
    /\ sincePresence' = 0
    /\ up' = Append(up, Status(epKey))
    /\ UNCHANGED <<server, epKey, down, lateUp, lateDown, faults, met>>

\* An input, IR, temperature or counter report of the application; one at a
\* time is enough here, its content does not touch the session.
SendReport ==
    /\ up = <<>>
    /\ up' = <<Status(epKey)>>
    /\ UNCHANGED <<server, endpoint, down, lateUp, lateDown, faults, met>>

-----------------------------------------------------------------------------
(* The network and the environment                                         *)

DeliverUp ==
    /\ up # <<>>
    /\ ProcessData(Head(up))
    /\ up' = Tail(up)
    /\ UNCHANGED <<endpoint, lateUp, lateDown, faults, met>>

DeliverLateUp ==
    /\ \E m \in lateUp :
        /\ ProcessData(m)
        /\ lateUp' = lateUp \ {m}
    /\ UNCHANGED <<endpoint, up, lateDown, faults, met>>

DeliverDown ==
    /\ down # <<>>
    /\ ProvProcess(Head(down))
    /\ down' = Tail(down)
    /\ UNCHANGED <<server, sincePresence, lateUp, lateDown, faults, met>>

DeliverLateDown ==
    /\ \E m \in lateDown :
        /\ ProvProcess(m)
        /\ lateDown' = lateDown \ {m}
    /\ UNCHANGED <<server, sincePresence, down, lateUp, faults, met>>

Disturb(kind) ==
    /\ kind \in FaultKinds
    /\ faults < MaxFaults
    /\ faults' = faults + 1
    /\ met' = met \cup {kind}

Lose ==
    /\ Disturb("lose")
    /\ \/ up # <<>> /\ up' = Tail(up) /\ UNCHANGED down
       \/ down # <<>> /\ down' = Tail(down) /\ UNCHANGED up
    /\ UNCHANGED <<server, endpoint, lateUp, lateDown>>

\* The datagram is overtaken by later ones, or outlives its session.
Delay ==
    /\ Disturb("delay")
    /\ \/ /\ up # <<>>
          /\ up' = Tail(up)
          /\ lateUp' = lateUp \cup {Head(up)}
          /\ UNCHANGED <<down, lateDown>>
       \/ /\ down # <<>>
          /\ down' = Tail(down)
          /\ lateDown' = lateDown \cup {Head(down)}
          /\ UNCHANGED <<up, lateUp>>
    /\ UNCHANGED <<server, endpoint>>

Duplicate ==
    /\ Disturb("duplicate")
    /\ \/ up # <<>> /\ lateUp' = lateUp \cup {Head(up)} /\ UNCHANGED lateDown
       \/ down # <<>> /\ lateDown' = lateDown \cup {Head(down)} /\ UNCHANGED lateUp
    /\ UNCHANGED <<server, endpoint, up, down>>

\* provInit(), with every static of the library back at its initial value.
Reboot ==
    /\ Disturb("reboot")
    /\ epKey' = 0
    /\ sincePresence' = 0
    /\ UNCHANGED <<server, network>>

\* Controller::reload() deletes the devices; the scripts register them again.
ServerRestart ==
    /\ Disturb("restart")
    /\ connected' = FALSE
    /\ sessKey' = 0
    /\ providers' = <<>>
    /\ sincePacket' = PACKETLOSS_DISCONNECT_DELAY + 1
    /\ sinceRegistration' = REGISTRATION_DATA_DELAY + 1
    /\ UNCHANGED <<endpoint, network>>

\* Time passes when the due presence packet has been sent and the datagrams
\* that are not late have arrived.
Tick ==
    /\ sincePresence < PRESENCE_PERIOD
    /\ up = <<>> /\ down = <<>>
    /\ sincePresence' = sincePresence + 1
    /\ sincePacket' = Older(sincePacket, PACKETLOSS_DISCONNECT_DELAY)
    /\ sinceRegistration' = Older(sinceRegistration, REGISTRATION_DATA_DELAY)
    /\ UNCHANGED <<connected, sessKey, providers, epKey, network, faults, met>>

-----------------------------------------------------------------------------
Init ==
    /\ ServerInit
    /\ epKey = 0
    /\ sincePresence = 0
    /\ up = <<>> /\ down = <<>>
    /\ lateUp = {} /\ lateDown = {}
    /\ faults = 0 /\ met = {}

Next ==
    \/ DeliverUp \/ DeliverLateUp \/ DeliverDown \/ DeliverLateDown
    \/ CheckConnection
    \/ SendPresence \/ SendReport
    \/ Lose \/ Delay \/ Duplicate \/ Reboot \/ ServerRestart
    \/ Tick

Spec == Init /\ [][Next]_vars

\* Datagrams in flight arrive, both main loops keep running and time passes.
\* Reports may keep the link busy, so the passage of time is strongly fair.
Fairness ==
    /\ WF_vars(DeliverUp) /\ WF_vars(DeliverDown)
    /\ WF_vars(DeliverLateUp) /\ WF_vars(DeliverLateDown)
    /\ WF_vars(CheckConnection) /\ WF_vars(SendPresence)
    /\ SF_vars(Tick)

FairSpec == Spec /\ Fairness

-----------------------------------------------------------------------------
(* Properties                                                              *)

TypeOK ==
    /\ connected \in BOOLEAN
    /\ sessKey \in AnyKey
    /\ providers \in Seq(Providers)
    /\ sincePacket \in 0 .. PACKETLOSS_DISCONNECT_DELAY + 1
    /\ sinceRegistration \in 0 .. REGISTRATION_DATA_DELAY + 1
    /\ epKey \in AnyKey
    /\ sincePresence \in 0 .. PRESENCE_PERIOD
    /\ up \in Seq(UpPacket) /\ down \in Seq(DownPacket)
    /\ lateUp \in SUBSET UpPacket /\ lateDown \in SUBSET DownPacket
    /\ faults \in 0 .. MaxFaults /\ met \in SUBSET FaultKinds

\* Providers exist only in a session with a real key.  A server that has just
\* started accepts the key 0 of an endpoint that has just booted and calls
\* that a connection; nothing may ever be registered in it, and no way out of
\* a session (silence, foreign key, key 0) may leave a provider behind.
ProvidersNeedSession == providers # <<>> => connected /\ sessKey # 0

\* No provider is forgotten while no datagram is lost: each one of the endpoint
\* is registered in the session the server has offered, or its registration is
\* on its way, or the command that asks for it.  Late and repeated packets, keys
\* drawn twice, reboots, and the packet that opens the session must not break
\* that chain, since an endpoint registers once per command.
NoProviderForgotten ==
    "lose" \notin met /\ sessKey # 0 =>
        \A i \in DOMAIN RegisterOrder :
            \/ Session(sessKey) \in InFlightDown
            \/ Register(sessKey, RegisterOrder[i]) \in InFlightUp
            \/ \E j \in DOMAIN providers : providers[j] = RegisterOrder[i]

\* A registration that the network does not duplicate, in a session whose key
\* is really new, gives the device each provider once: addProvider() does not
\* look for a provider of the same type, and getProvider() finds the first.
OneProviderPerType ==
    "duplicate" \notin met =>
        \A i, j \in DOMAIN providers : providers[i] = providers[j] => i = j

\* The server takes a connected endpoint for dead only when disturbances have
\* eaten the presence packets of the whole disconnect delay, less one: too few
\* lost or late packets, or a reboot, never look like a dead endpoint, whatever
\* opened the session and whenever the last packet before it had come.  (A
\* restart of the server is a disturbance, a foreign key brings a new key.)
SilenceNeedsFaults ==
    [][connected /\ ~connected' /\ sessKey' = 0 /\ faults' = faults
          => PACKETLOSS_DISCONNECT_DELAY <= PRESENCE_PERIOD * (faults + 1)]_vars

\* Both sides, and everything on its way between them, agree on the session.
Settled ==
    /\ connected
    /\ sessKey # 0
    /\ epKey = sessKey
    /\ \A m \in InFlightUp : m.key = sessKey
    /\ \A m \in InFlightDown : m.kind = "session" => m.key = sessKey

\* A settled session ends only by a reboot, a restart or silence: no report,
\* no duplicate and no reordering of its own packets can break it.
SettledIsStable ==
    [][Settled => Settled' \/ Reboot \/ ServerRestart
                           \/ sincePacket >= PACKETLOSS_DISCONNECT_DELAY]_vars

\* After finitely many disturbances the session is up for good, under one key.
Converges == <>[](connected /\ sessKey # 0 /\ epKey = sessKey)

\* ... and, when no datagram has been lost, with every provider.
ProvidersComplete ==
    <>[](\/ "lose" \in met
         \/ \A i \in DOMAIN RegisterOrder :
                \E j \in DOMAIN providers : providers[j] = RegisterOrder[i])

\* The session implements the abstract handshake.  The endpoint was told the
\* key in force when it holds it, when a packet with it is on its way, or when
\* the server has heard it.
Told ==
    /\ sessKey # 0
    /\ connected \/ epKey = sessKey \/ \E m \in InFlightUp : m.key = sessKey

Shake == INSTANCE Handshake WITH
            Types <- Providers, offered <- sessKey, told <- Told,
            open <- connected /\ sessKey # 0, registered <- providers

\* With fresh keys only an endpoint that has received the very key the server
\* offered last can open a session or register a provider: nothing of an older
\* session, late or copied, and no endpoint that has booted since, passes for
\* an answer.  Keys that repeat weaken just that.
ImplementsHandshake == Shake!Spec

\* server/settings.h:4 on REGISTRATION_DATA_DELAY, "Time (in milis) of
\* preventing sending new registration key."
NewKeyRateLimited ==
    [][sessKey' # sessKey /\ sessKey' # 0
          => sinceRegistration > REGISTRATION_DATA_DELAY]_vars

=============================================================================
