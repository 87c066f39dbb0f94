------------------------------- MODULE Outputs -------------------------------
(***************************************************************************)
(* The outputs of one endpoint: what the scripts ask of the controller     *)
(* (server/Controller.cpp), the file it keeps the values in                *)
(* (server/StorageEngine.cpp), the output provider of the device           *)
(* (server/providers/OutputProvider.cpp) and the pins of the endpoint      *)
(* (providers/provider_output.c, expander16/io.c).                         *)
(*                                                                         *)
(* The provider always sends the level of every output, and sends it again *)
(* when it has been silent for two seconds; the endpoint never answers.    *)
(* The session is reduced to what the provider sees of it: the provider is *)
(* created when its registration arrives and deleted with the session (see *)
(* DeviceSession).  A registration that arrives once more makes one more   *)
(* provider, a twin: commands and restored values reach the first one only *)
(* (Controller::findProvider), so that a twin sends that every output is   *)
(* off, until the session ends.                                            *)
(***************************************************************************)
EXTENDS Integers, Sequences, FiniteSets

CONSTANTS
    Outputs,         \* the outputs of the endpoint
    REFRESH_PERIOD,  \* the 2000 ms of OutputProvider::process, in ticks
    MaxInFlight,     \* the server sends when fewer packets are on their way
    FaultKinds,      \* which disturbances the environment causes
    MaxFaults        \* bound on the number of disturbances

ASSUME OutputsAssumption == IsFiniteSet(Outputs)
ASSUME BoundsAssumption ==
    /\ REFRESH_PERIOD \in Nat \ {0}
    /\ MaxInFlight \in Nat \ {0}
    /\ FaultKinds \subseteq {"lose", "delay", "duplicate", "reboot", "disk", "crash",
                       "reregister"}
    /\ MaxFaults \in Nat

VARIABLES
    value,        \* m_outputs of the controller, "unset": not initialized
    persistent,   \* m_persistentOutputs
    config,       \* "output-<id>" in m_config, "unset": no entry
    file,         \* the same in the storage file
    fileState,    \* "absent", "whole", or "torn": the server does not start
    saved,        \* what save() returned last, which nobody looks at
    last,         \* history: the level each output was last set to
    forgotten,    \* history: a save that failed or broke off has cost a value
    provider,     \* the device has an OutputProvider
    bits,         \* OutputProvider::m_outputs
    restored,     \* OutputProvider::m_hasInitialStates
    sinceUpdate,  \* getTicks() - m_lastUpdateTime
    twins,        \* the same of every further OutputProvider, or NewTwin
    down,         \* SET_OUTPUTS packets in flight, in order
    late,         \* packets the network holds back or has copied
    pins,         \* ioOutputs, written to the pins
    faults        \* disturbances so far (bounded by MaxFaults)

disk == <<file, fileState>>
storage == <<config, disk, saved, last, forgotten>>
controller == <<value, persistent, storage>>
providerVars == <<provider, bits, restored, sinceUpdate, twins>>
vars == <<controller, providerVars, down, late, pins, faults>>

Levels == {"on", "off"}
AllOff == [o \in Outputs |-> "off"]
NoneSet == [o \in Outputs |-> "unset"]
Packets == [Outputs -> Levels]

\* The server ends, again and again, on a file it cannot parse.
Running == fileState # "torn"

Flip(v) == IF v = "on" THEN "off" ELSE "on"

Disturb(kind) ==
    /\ kind \in FaultKinds
    /\ faults < MaxFaults
    /\ faults' = faults + 1

-----------------------------------------------------------------------------
(* server/providers/OutputProvider.cpp                                     *)

\* The orders in which a loop can visit the outputs of S.
Orders(S) ==
    {s \in [1 .. Cardinality(S) -> S] : \A o \in S : \E i \in DOMAIN s : s[i] = o}

\* The packets of a loop that calls setOutputState(o, target[o]) in order s.
OneByOne(s, target) ==
    [n \in DOMAIN s |->
        [o \in Outputs |->
            IF \E i \in 1 .. n : s[i] = o THEN target[o] ELSE bits[o]]]

Changes(target) == {o \in Outputs : target[o] # bits[o]}

\* Mutant: update() is called for the outputs that are switched on only.
DriveQuietOff(target, others) ==
    IF provider /\ Changes(target) # {}
    THEN /\ bits' = target
         /\ sinceUpdate' = 0
         /\ \E s \in Orders({o \in Changes(target) : target[o] = "on"}) :
                down' = down \o OneByOne(s, target) \o others
    ELSE down' = down \o others /\ UNCHANGED <<bits, sinceUpdate>>

\* setOutputInProvider() for every output: nothing without a provider, and an
\* update() for each output whose level in the first provider changes; then
\* the packets of other providers.
Drive(target, others) ==
    IF provider /\ Changes(target) # {}
    THEN /\ bits' = target
         /\ sinceUpdate' = 0
         /\ \E s \in Orders(Changes(target)) :
                down' = down \o OneByOne(s, target) \o others
    ELSE down' = down \o others /\ UNCHANGED <<bits, sinceUpdate>>

\* onInitialStatesRequest(): the outputs the controller has a value for.
InitialStates ==
    [o \in Outputs |-> IF value[o] = "unset" THEN bits[o] ELSE value[o]]

Due == sinceUpdate >= REFRESH_PERIOD

\* A twin that has not asked for its initial states, and never sent anything.
NewTwin == REFRESH_PERIOD + 1

DueTwins == {i \in DOMAIN twins : twins[i] >= REFRESH_PERIOD}

\* What the twins that are due send, every output off.
TwinPackets == [i \in 1 .. Cardinality(DueTwins) |-> AllOff]

TwinsSend ==
    twins' = [i \in DOMAIN twins |-> IF i \in DueTwins THEN 0 ELSE twins[i]]

\* onInitialStatesRequest() sets the first provider, whoever asks.
Asked == ~restored \/ \E i \in DOMAIN twins : twins[i] = NewTwin
AskedFor == IF Asked THEN InitialStates ELSE bits

\* Mutant: the initial states are marked as asked for, and not asked for.
ProcessForgetsRestore ==
    /\ provider
    /\ ~restored \/ Due \/ DueTwins # {}
    /\ Len(down) < MaxInFlight
    /\ restored' = TRUE
    /\ IF Due
       THEN /\ down' = Append(down, bits) \o TwinPackets
            /\ sinceUpdate' = 0
            /\ UNCHANGED bits
       ELSE Drive(bits, TwinPackets)
    /\ TwinsSend
    /\ UNCHANGED <<controller, provider, late, pins, faults>>

\* Mutant: the outputs are sent when they change, and never again.
ProcessNoRefresh ==
    /\ provider
    /\ ~restored \/ Due \/ DueTwins # {}
    /\ Len(down) < MaxInFlight
    /\ restored' = TRUE
    /\ IF Due /\ Changes(AskedFor) = {}
       THEN sinceUpdate' = 0 /\ UNCHANGED <<bits, down>>
       ELSE Drive(AskedFor, TwinPackets)
    /\ TwinsSend
    /\ UNCHANGED <<controller, provider, late, pins, faults>>

\* EthernetDevice::process(), every 100 ms: OutputProvider::process() of the
\* first provider and of its twins.  An update() sent while restoring makes the
\* periodic one unnecessary.
Process ==
    /\ provider
    /\ ~restored \/ Due \/ DueTwins # {}
    /\ Len(down) < MaxInFlight
    /\ restored' = TRUE
    /\ IF Due /\ Changes(AskedFor) = {}
       THEN /\ down' = Append(down, bits) \o TwinPackets
            /\ sinceUpdate' = 0
            /\ UNCHANGED bits
       ELSE Drive(AskedFor, TwinPackets)
    /\ TwinsSend
    /\ UNCHANGED <<controller, provider, late, pins, faults>>

\* The first registration of a session creates the provider that commands reach;
\* m_lastUpdateTime = 0 is long ago.
Connect ==
    /\ Running
    /\ ~provider
    /\ provider' = TRUE
    /\ bits' = AllOff
    /\ restored' = FALSE
    /\ sinceUpdate' = REFRESH_PERIOD
    /\ UNCHANGED <<controller, twins, down, late, pins, faults>>

NoProvider ==
    /\ provider' = FALSE
    /\ bits' = AllOff
    /\ restored' = FALSE
    /\ sinceUpdate' = REFRESH_PERIOD
    /\ twins' = <<>>

\* The network has copied the registration or the REGISTER that asked for it,
\* and nothing looks whether there is a provider of the type.
ConnectAgain ==
    /\ Running
    /\ provider
    /\ Disturb("reregister")
    /\ twins' = Append(twins, NewTwin)
    /\ UNCHANGED <<controller, provider, bits, restored, sinceUpdate, down, late,
                   pins>>

\* markDisconnected() deletes them, whatever the reason.
Disconnect ==
    /\ provider
    /\ NoProvider
    /\ UNCHANGED <<controller, down, late, pins, faults>>

-----------------------------------------------------------------------------
(* server/StorageEngine.cpp                                                *)

\* setInt("output-" + id, level[o]) for the outputs of S.
With(S, level) == [o \in Outputs |-> IF o \in S THEN level[o] ELSE config[o]]

\* getInt("output-" + id, 0).
StoredLevel(o) == IF config[o] = "unset" THEN "off" ELSE config[o]

\* Mutant: only the outputs declared persistent are saved.
SavePersistentOnly(S, level) ==
    LET P == S \cap persistent
    IN  /\ config' = With(P, level)
        /\ last' = [o \in Outputs |-> IF o \in S THEN level[o] ELSE last[o]]
        /\ file' = With(P, level) /\ fileState' = "whole" /\ saved' = TRUE
        /\ UNCHANGED <<forgotten, faults>>

\* Mutant: a save writes the entries that have changed, nothing else.
SaveChangesOnly(S, level) ==
    /\ config' = With(S, level)
    /\ last' = [o \in Outputs |-> IF o \in S THEN level[o] ELSE last[o]]
    /\ \/ /\ file' = [o \in Outputs |-> IF o \in S THEN level[o] ELSE file[o]]
          /\ fileState' = "whole" /\ saved' = TRUE
          /\ UNCHANGED faults
       \/ /\ Disturb("disk")
          /\ saved' = FALSE
          /\ UNCHANGED disk
    /\ UNCHANGED forgotten

\* savePersistentState() of the outputs of S, persistent or not, one by one:
\* every save() writes all of m_config.  One that cannot open the file leaves
\* it as it was, and is made up for by the next.
SavePersistentState(S, level) ==
    /\ config' = With(S, level)
    /\ last' = [o \in Outputs |-> IF o \in S THEN level[o] ELSE last[o]]
    /\ \/ /\ file' = With(S, level) /\ fileState' = "whole" /\ saved' = TRUE
          /\ UNCHANGED faults
       \/ /\ Disturb("disk")
          /\ saved' = FALSE
          /\ \/ UNCHANGED disk
             \/ \E D \in SUBSET S \ {{}, S} :
                    file' = With(D, level) /\ fileState' = "whole"
    /\ UNCHANGED forgotten

\* A new process loads what is there; nobody misses what the old one could
\* not save.
LoadFresh ==
    /\ config' = file' /\ saved' = TRUE
    /\ UNCHANGED last

-----------------------------------------------------------------------------
(* server/Controller.cpp                                                   *)

\* Mutant: the value is saved only if the device has a provider.
SetOutputConnectedOnly(o, v) ==
    /\ value[o] # v
    /\ Drive([bits EXCEPT ![o] = v], <<>>)
    /\ value' = [value EXCEPT ![o] = v]
    /\ IF provider THEN SavePersistentState({o}, value') ELSE UNCHANGED <<storage, faults>>
    /\ UNCHANGED <<persistent, provider, restored, twins, late, pins>>

\* setOutput(): the provider first, then the value, then the file.
SetOutput(o, v) ==
    /\ value[o] # v
    /\ Drive([bits EXCEPT ![o] = v], <<>>)
    /\ value' = [value EXCEPT ![o] = v]
    /\ SavePersistentState({o}, value')
    /\ UNCHANGED <<persistent, provider, restored, twins, late, pins>>

\* OUTPUT:SET.
Set ==
    /\ Running
    /\ Len(down) < MaxInFlight
    /\ \E o \in Outputs, v \in Levels : SetOutput(o, v)

\* OUTPUT:TOGGLE; an output that is not set counts as off.
Toggle ==
    /\ Running
    /\ Len(down) < MaxInFlight
    /\ \E o \in Outputs : SetOutput(o, Flip(value[o]))

\* OUTPUT:SET-PERSISTENT.
SetOutputAsPersistent ==
    /\ Running
    /\ \E o \in Outputs \ persistent : persistent' = persistent \cup {o}
    /\ UNCHANGED <<value, storage, providerVars, down, late, pins, faults>>

\* The outputs the loop of INIT-OK passes the first test of setOutput() for.
ToInitialise == {o \in persistent : value[o] # StoredLevel(o)}

\* CTRL:INIT-OK: setOutput() of every persistent output.
InitOk ==
    /\ Running
    /\ Len(down) < MaxInFlight
    /\ ToInitialise # {}
    /\ Drive([o \in Outputs |-> IF o \in ToInitialise THEN StoredLevel(o)
                                                      ELSE bits[o]], <<>>)
    /\ value' = [o \in Outputs |-> IF o \in ToInitialise THEN StoredLevel(o)
                                                         ELSE value[o]]
    /\ SavePersistentState(ToInitialise, value')
    /\ UNCHANGED <<persistent, provider, restored, twins, late, pins>>

\* reload(): values, persistence marks and devices go.
Reload ==
    /\ value' = NoneSet
    /\ persistent' = {}
    /\ NoProvider

\* CTRL:RESET: m_config is read again, or stays as it is if there is no file.
Reset ==
    /\ Running
    /\ Reload
    /\ IF fileState = "absent"
       THEN UNCHANGED <<config, saved, forgotten>>
       ELSE config' = file /\ saved' = TRUE /\ forgotten' = (forgotten \/ ~saved)
    /\ UNCHANGED <<disk, last, down, late, pins, faults>>

\* The server is stopped, or dies between two requests, and is started.
Restart ==
    /\ Running
    /\ Reload
    /\ UNCHANGED disk
    /\ LoadFresh
    /\ forgotten' = (forgotten \/ ~saved)
    /\ UNCHANGED <<down, late, pins, faults>>

\* The server dies inside setOutput(): the packet is out, nothing is saved.
CrashInSetOutput ==
    /\ Running
    /\ Len(down) < MaxInFlight
    /\ \E o \in Outputs, v \in Levels :
        /\ value[o] # v
        /\ provider /\ bits[o] # v
        /\ down' = Append(down, [bits EXCEPT ![o] = v])
    /\ Reload
    /\ UNCHANGED disk
    /\ LoadFresh
    /\ forgotten' = (forgotten \/ ~saved)
    /\ UNCHANGED <<late, pins, faults>>

\* The server dies inside save(), which has emptied the file: some entries are
\* in it, and if it ends within one, its ParseException ends every new start.
CrashInSave ==
    /\ Running
    /\ Disturb("crash")
    /\ Len(down) < MaxInFlight
    /\ \E o \in Outputs, v \in Levels :
        /\ value[o] # v
        /\ down' = IF provider /\ bits[o] # v
                   THEN Append(down, [bits EXCEPT ![o] = v]) ELSE down
        /\ \/ /\ fileState' = "torn" /\ file' = NoneSet
           \/ /\ fileState' = "whole"
              /\ \E kept \in SUBSET Outputs :
                    file' = [x \in Outputs |-> IF x \notin kept THEN "unset"
                                               ELSE IF x = o THEN v ELSE config[x]]
    /\ Reload
    /\ LoadFresh
    /\ forgotten' = TRUE
    /\ UNCHANGED <<late, pins>>

\* Somebody removes the torn file.
Repair ==
    /\ fileState = "torn"
    /\ fileState' = "absent"
    /\ UNCHANGED <<value, persistent, config, file, saved, last, forgotten,
                   providerVars, down, late, pins, faults>>

-----------------------------------------------------------------------------
(* providers/provider_output.c, and the network                            *)

\* provOutputProcess(): every output of the packet, then provOutputUpdate().
ProvOutputProcess(p) == pins' = p

Deliver ==
    /\ down # <<>>
    /\ ProvOutputProcess(Head(down))
    /\ down' = Tail(down)
    /\ UNCHANGED <<controller, providerVars, late, faults>>

DeliverLate ==
    /\ \E p \in late :
        /\ ProvOutputProcess(p)
        /\ late' = late \ {p}
    /\ UNCHANGED <<controller, providerVars, down, faults>>

Lose ==
    /\ Disturb("lose")
    /\ down # <<>>
    /\ down' = Tail(down)
    /\ UNCHANGED <<controller, providerVars, late, pins>>

Delay ==
    /\ Disturb("delay")
    /\ down # <<>>
    /\ down' = Tail(down)
    /\ late' = late \cup {Head(down)}
    /\ UNCHANGED <<controller, providerVars, pins>>

Duplicate ==
    /\ Disturb("duplicate")
    /\ down # <<>>
    /\ late' = late \cup {Head(down)}
    /\ UNCHANGED <<controller, providerVars, down, pins>>

\* ioInit() switches every output off.
Reboot ==
    /\ Disturb("reboot")
    /\ pins' = AllOff
    /\ UNCHANGED <<controller, providerVars, down, late>>

\* Time passes when the due updates have been sent and packets have arrived.
Tick ==
    /\ provider /\ restored /\ ~Due /\ DueTwins = {}
    /\ down = <<>>
    /\ sinceUpdate' = sinceUpdate + 1
    /\ twins' = [i \in DOMAIN twins |-> twins[i] + 1]
    /\ UNCHANGED <<controller, provider, bits, restored, down, late, pins,
                   faults>>

-----------------------------------------------------------------------------
Init ==
    /\ value = NoneSet
    /\ persistent = {}
    /\ file \in [Outputs -> Levels \cup {"unset"}]
    /\ fileState \in (IF file = NoneSet THEN {"absent", "whole"} ELSE {"whole"})
    /\ config = file /\ saved = TRUE
    /\ last = config /\ forgotten = FALSE
    /\ provider = FALSE
    /\ bits = AllOff
    /\ restored = FALSE
    /\ sinceUpdate = REFRESH_PERIOD
    /\ twins = <<>>
    /\ down = <<>> /\ late = {}
    /\ pins \in Packets
    /\ faults = 0

Next ==
    \/ Set \/ Toggle \/ SetOutputAsPersistent \/ InitOk
    \/ Reset \/ Restart \/ CrashInSetOutput \/ CrashInSave \/ Repair
    \/ Connect \/ ConnectAgain \/ Disconnect \/ Process
    \/ Deliver \/ DeliverLate \/ Tick
    \/ Lose \/ Delay \/ Duplicate \/ Reboot

Spec == Init /\ [][Next]_vars

\* Datagrams in flight arrive, the 100 ms timer fires and time passes; the
\* commands of the scripts may fill the link again and again (MaxInFlight),
\* hence the strong fairness.
Fairness ==
    /\ WF_vars(Deliver) /\ WF_vars(DeliverLate)
    /\ SF_vars(Process) /\ SF_vars(Tick)

FairSpec == Spec /\ Fairness

-----------------------------------------------------------------------------
(* Properties                                                              *)

TypeOK ==
    /\ value \in [Outputs -> Levels \cup {"unset"}]
    /\ persistent \subseteq Outputs
    /\ config \in [Outputs -> Levels \cup {"unset"}]
    /\ file \in [Outputs -> Levels \cup {"unset"}]
    /\ last \in [Outputs -> Levels \cup {"unset"}]
    /\ fileState \in {"absent", "whole", "torn"}
    /\ saved \in BOOLEAN /\ forgotten \in BOOLEAN
    /\ provider \in BOOLEAN
    /\ bits \in Packets
    /\ restored \in BOOLEAN
    /\ sinceUpdate \in 0 .. REFRESH_PERIOD
    /\ twins \in Seq(0 .. NewTwin)
    /\ down \in Seq(Packets)
    /\ late \in SUBSET Packets
    /\ pins \in Packets
    /\ faults \in 0 .. MaxFaults

\* Whatever was set before the endpoint connected, between the registration
\* and the first process(), or later: the provider that commands reach holds,
\* once it has asked for its initial states, the controller's value of every
\* output that has one, and it never holds an output on that the controller does
\* not.  (Of a twin this is not so: it has all outputs off, whatever is set.)
ProviderFollowsController ==
    \A o \in Outputs :
        /\ provider /\ restored /\ value[o] # "unset" => bits[o] = value[o]
        /\ provider /\ bits[o] = "on" => value[o] = "on"

\* Whatever save() returns, m_config holds the value of every output that is
\* set; and one save that succeeds makes up for all that failed before it.
StorageAgrees ==
    /\ \A o \in Outputs : value[o] # "unset" => config[o] = value[o]
    /\ saved => file = config

\* Unless a save has broken off, or failed and not been made up for before the
\* values were dropped, INIT-OK gives every persistent output the level it was
\* last set to, through any number of resets, restarts and crashes.
RestoresLast ==
    [][InitOk /\ ~forgotten =>
        \A o \in persistent :
            value'[o] = IF last[o] = "unset" THEN "off" ELSE last[o]]_vars

\* A controller that publishes CTRL:INIT again, or several scripts, can send
\* INIT-OK late or more than once: it never undoes a SET made since.
InitOkKeepsOutputs ==
    [][InitOk => \A o \in Outputs : value[o] # "unset" => value'[o] = value[o]]_vars

\* What the endpoint will show once the packets in flight have arrived.
Outcome == IF down = <<>> THEN pins ELSE down[Len(down)]

\* As long as the network has done nothing wrong, what the last packet makes
\* of the pins is what the provider holds, one update per change being enough.
LastPacketIsCurrent == faults = 0 /\ provider /\ restored => Outcome = bits

\* After finitely many disturbances an output whose value has come to rest
\* shows it, however much the other outputs change; an output that is on does so
\* in a session without twins, which would switch it off every two seconds.
FollowsEventually ==
    \A o \in Outputs, v \in Levels :
        <>[](provider /\ value[o] = v /\ (v = "off" \/ twins = <<>>))
            => <>[](pins[o] = v)

=============================================================================
