------------------------------- MODULE Inputs --------------------------------
(***************************************************************************)
(* One input of an endpoint, from the pin to the scripts: the endpoint     *)
(* (expander16/io.c, providers/provider_input.c) counts the falling and    *)
(* the rising edges it has confirmed in two 8 bit counters and sends both; *)
(* the input provider of the server (server/providers/InputProvider.cpp)   *)
(* turns the difference to the counters it has seen into calls of the      *)
(* controller (server/Controller.cpp), which tells the scripts.            *)
(*                                                                         *)
(* A session starts with the REGISTER command of the server, which resets  *)
(* the counters of the endpoint, and ends when the server drops its        *)
(* provider; packets of an older session are never heard (DeviceSession).  *)
(***************************************************************************)
EXTENDS Integers, Sequences, FiniteSets

CONSTANTS
    CounterSize,  \* number of values of a uint8_t edge counter (256)
    MaxChanges,   \* bound on the changes made in one session
    FaultKinds,   \* which disturbances the environment causes
    MaxFaults     \* bound on the number of disturbances in one session

ASSUME CounterAssumption == CounterSize \in Nat \ {0, 1} /\ MaxChanges \in Nat
ASSUME FaultsAssumption ==
    /\ FaultKinds \subseteq {"lose", "delay", "duplicate", "reregister",
                      "early", "unsteady"}
    /\ MaxFaults \in Nat

VARIABLES
    pin,            \* io_getInp(): the level read from the expander
    stable,         \* the level advimProcess has confirmed
    low, high,      \* prov_inputLow, prov_inputHigh
    reported,       \* the counters have been sent since they were reset
    session,        \* the endpoint has been told the key of a session
    up, late,       \* packets in flight in order; held back or copied ones
    asked,          \* an INPUT_REQ_SENDSTATE is in flight
    provider,       \* the device has an InputProvider
    seenLow,        \* its TInput::low
    seenHigh,       \* its TInput::high
    hasFirstData,   \* its m_hasFirstData
    value,          \* m_inputs of the controller, "unset": not initialized
    made, told,     \* changes confirmed and INPUT:CHANGED published (session)
    faults,         \* number of disturbances so far in this session
    met             \* and their kinds

pins == <<pin, stable>>
endpoint == <<low, high, reported, session>>
server == <<provider, seenLow, seenHigh, hasFirstData, value>>
vars == <<pins, endpoint, up, late, asked, server, made, told, faults, met>>

Levels == {"low", "high"}
Other(level) == IF level = "low" THEN "high" ELSE "low"
Counts == 0 .. CounterSize - 1
RegisterPacket == [kind |-> "register"]
StatePacket(l, h) == [kind |-> "state", low |-> l, high |-> h]
Packets == [kind : {"register"}] \cup [kind : {"state"}, low : Counts, high : Counts]

Disturb(kind) ==
    /\ kind \in FaultKinds
    /\ faults < MaxFaults
    /\ faults' = faults + 1
    /\ met' = met \cup {kind}

-----------------------------------------------------------------------------
(* The endpoint                                                            *)

\* The input line changes.
PinChanges ==
    /\ pin' = Other(pin)
    /\ UNCHANGED <<stable, endpoint, up, late, asked, server, made, told,
                   faults, met>>

\* provInputSetState().
ProvInputSetState(v) ==
    IF v = "high" THEN high' = (high + 1) % CounterSize /\ UNCHANGED low
                  ELSE low' = (low + 1) % CounterSize /\ UNCHANGED high

\* Mutant: the change is counted, and sent with the next one.
ConfirmUnsent ==
    /\ session /\ pin # stable
    /\ made < MaxChanges
    /\ stable' = pin
    /\ ProvInputSetState(pin)
    /\ UNCHANGED <<up, reported>>
    /\ made' = made + 1
    /\ UNCHANGED <<pin, session, late, asked, server, told, faults, met>>

\* onInputLow(), onInputHigh(): the debouncer has confirmed the level, which
\* is counted and sent.  A change before the counters of the session have been
\* sent once is "early".
Confirm ==
    /\ session /\ pin # stable
    /\ made < MaxChanges
    /\ stable' = pin
    /\ ProvInputSetState(pin)
    /\ up' = Append(up, StatePacket(low', high'))
    /\ reported' = TRUE
    /\ made' = made + 1
    /\ IF reported THEN UNCHANGED <<faults, met>> ELSE Disturb("early")
    /\ UNCHANGED <<pin, session, late, asked, server, told>>

\* The same outside a session: nobody hears the packet, and the counters are
\* reset before the next session, so both are left out.
ConfirmUnheard ==
    /\ ~session /\ pin # stable
    /\ stable' = pin
    /\ UNCHANGED <<pin, endpoint, up, late, asked, server, made, told, faults,
                   met>>

SendState ==
    /\ up' = Append(up, StatePacket(low, high))
    /\ reported' = TRUE

\* Another input of the endpoint changes: the packet carries all of them.
OtherInput ==
    /\ session /\ up = <<>>
    /\ SendState
    /\ UNCHANGED <<pins, low, high, session, late, asked, server, made, told,
                   faults, met>>

\* Mutant: the request is not answered.
SendStateRequestedIgnored ==
    /\ asked
    /\ asked' = FALSE
    /\ UNCHANGED <<pins, endpoint, up, late, server, made, told, faults, met>>

\* provInputProcess(): INPUT_REQ_SENDSTATE.
SendStateRequested ==
    /\ asked
    /\ asked' = FALSE
    /\ SendState
    /\ UNCHANGED <<pins, low, high, session, late, server, made, told, faults,
                   met>>

\* provInputReset() and provInputResetState(): the first count is taken from
\* the level of the pin, confirmed or not.
ProvInputReset ==
    /\ low' = IF pin = "high" THEN 0 ELSE 1
    /\ high' = IF pin = "high" THEN 1 ELSE 0
    /\ reported' = FALSE

\* The REGISTER command of a new session: reset, then provInputRegister().  To
\* start while the pin and the confirmed level differ is "unsteady".
StartSession ==
    /\ ~session
    /\ session' = TRUE
    /\ ProvInputReset
    /\ up' = <<RegisterPacket>>
    /\ made' = 0 /\ told' = 0
    /\ IF pin = stable
       THEN faults' = 0 /\ met' = {}
       ELSE /\ "unsteady" \in FaultKinds /\ MaxFaults > 0
            /\ faults' = 1 /\ met' = {"unsteady"}
    /\ UNCHANGED <<pins, late, asked, server>>

\* The network has copied the REGISTER command: the counters are reset in the
\* middle of the session.
RegisterAgain ==
    /\ session
    /\ pin = stable \/ "unsteady" \in FaultKinds
    /\ Disturb("reregister")
    /\ ProvInputReset
    /\ up' = Append(up, RegisterPacket)
    /\ UNCHANGED <<pins, session, late, asked, server, made, told>>

-----------------------------------------------------------------------------
(* server/providers/InputProvider.cpp and server/Controller.cpp            *)

\* What inp.low++ and inp.high++ have to make up for, modulo 2^8.
Behind(seen, count) == (count - seen) % CounterSize

\* Mutant: the rising edges are replayed first.
CallbacksHighFirst(lows, highs) ==
    [i \in 1 .. lows + highs |->
        IF lows >= (i + 1) \div 2 /\ highs >= (i + 1) \div 2
        THEN IF i % 2 = 1 THEN "high" ELSE "low"
        ELSE IF lows > highs THEN "low" ELSE "high"]

\* Mutant: every edge toggles the value.
CallbacksToggle(lows, highs) ==
    [i \in 1 .. lows + highs |-> IF i % 2 = 1 THEN Other(value) ELSE value]

\* The calls the replay loop makes: a falling and a rising edge in turn until
\* one kind is used up, then the rest of the other kind.
Callbacks(lows, highs) ==
    [i \in 1 .. lows + highs |->
        IF lows >= (i + 1) \div 2 /\ highs >= (i + 1) \div 2
        THEN IF i % 2 = 1 THEN "low" ELSE "high"
        ELSE IF lows > highs THEN "low" ELSE "high"]

\* onInputChanged() publishes a call that differs from the value before it.
Published(calls) ==
    Cardinality({i \in DOMAIN calls :
                    calls[i] # (IF i = 1 THEN value ELSE calls[i - 1])})

\* INPUT_NOTF_NEWSTATE: every call sets the value.  The first packet's calls
\* go to onInputInitState(), which publishes the state and no change.
NewState(m) ==
    LET calls == Callbacks(Behind(seenLow, m.low), Behind(seenHigh, m.high)) IN
    /\ seenLow' = m.low /\ seenHigh' = m.high
    /\ value' = IF calls = <<>> THEN value ELSE calls[Len(calls)]
    /\ told' = IF hasFirstData THEN told + Published(calls) ELSE told
    /\ hasFirstData' = TRUE
    /\ UNCHANGED <<provider, asked>>

\* Mutant: a new provider takes its first packet for a change.
AddProviderWithData ==
    /\ provider' = TRUE
    /\ asked' = TRUE
    /\ IF provider
       THEN UNCHANGED <<seenLow, seenHigh, hasFirstData>>
       ELSE seenLow' = 0 /\ seenHigh' = 0 /\ hasFirstData' = TRUE
    /\ UNCHANGED <<value, told>>

\* INPUT_CMD_REGISTER: init() of the new provider sends the request.  If there
\* is a provider already, the new one asks too, and then is never found.
AddProvider ==
    /\ provider' = TRUE
    /\ asked' = TRUE
    /\ IF provider
       THEN UNCHANGED <<seenLow, seenHigh, hasFirstData>>
       ELSE seenLow' = 0 /\ seenHigh' = 0 /\ hasFirstData' = FALSE
    /\ UNCHANGED <<value, told>>

\* EthernetDevice::processData: a state without a provider is dropped.
ProcessData(m) ==
    \/ m.kind = "register" /\ AddProvider
    \/ m.kind = "state" /\ provider /\ NewState(m)
    \/ m.kind = "state" /\ ~provider /\ UNCHANGED <<server, asked, told>>

Deliver ==
    /\ up # <<>>
    /\ ProcessData(Head(up))
    /\ up' = Tail(up)
    /\ UNCHANGED <<pins, endpoint, late, made, faults, met>>

DeliverLate ==
    /\ \E m \in late : ProcessData(m) /\ late' = late \ {m}
    /\ UNCHANGED <<pins, endpoint, up, made, faults, met>>

\* markDisconnected(): the provider goes, and with the key of the session
\* everything in flight; the controller keeps the value.
EndSession ==
    /\ session
    /\ session' = FALSE
    /\ low' = 0 /\ high' = 0 /\ reported' = FALSE
    /\ up' = <<>> /\ late' = {} /\ asked' = FALSE
    /\ provider' = FALSE /\ seenLow' = 0 /\ seenHigh' = 0 /\ hasFirstData' = FALSE
    /\ made' = 0 /\ told' = 0 /\ faults' = 0 /\ met' = {}
    /\ UNCHANGED <<pins, value>>

-----------------------------------------------------------------------------
(* The network                                                             *)

Lose ==
    /\ Disturb("lose")
    /\ \/ up # <<>> /\ up' = Tail(up) /\ UNCHANGED asked
       \/ asked /\ asked' = FALSE /\ UNCHANGED up
    /\ UNCHANGED <<pins, endpoint, late, server, made, told>>

Delay ==
    /\ Disturb("delay")
    /\ up # <<>>
    /\ late' = late \cup {Head(up)}
    /\ up' = Tail(up)
    /\ UNCHANGED <<pins, endpoint, asked, server, made, told>>

Duplicate ==
    /\ Disturb("duplicate")
    /\ up # <<>>
    /\ late' = late \cup {Head(up)}
    /\ UNCHANGED <<pins, endpoint, up, asked, server, made, told>>

-----------------------------------------------------------------------------
Init ==
    /\ pin \in Levels /\ stable = pin
    /\ low = 0 /\ high = 0 /\ reported = FALSE /\ session = FALSE
    /\ up = <<>> /\ late = {} /\ asked = FALSE
    /\ provider = FALSE /\ seenLow = 0 /\ seenHigh = 0 /\ hasFirstData = FALSE
    /\ value = "unset"
    /\ made = 0 /\ told = 0 /\ faults = 0 /\ met = {}

Next ==
    \/ PinChanges \/ Confirm \/ ConfirmUnheard \/ OtherInput
    \/ SendStateRequested \/ StartSession \/ RegisterAgain
    \/ Deliver \/ DeliverLate \/ EndSession
    \/ Lose \/ Delay \/ Duplicate

Spec == Init /\ [][Next]_vars

\* Packets in flight arrive and the endpoint answers.
Fairness ==
    /\ WF_vars(Deliver) /\ WF_vars(DeliverLate)
    /\ WF_vars(SendStateRequested)

FairSpec == Spec /\ Fairness

-----------------------------------------------------------------------------
(* Properties                                                              *)

TypeOK ==
    /\ pin \in Levels /\ stable \in Levels
    /\ low \in Counts /\ high \in Counts
    /\ reported \in BOOLEAN /\ session \in BOOLEAN
    /\ up \in Seq(Packets) /\ late \in SUBSET Packets
    /\ asked \in BOOLEAN
    /\ provider \in BOOLEAN /\ hasFirstData \in BOOLEAN
    /\ seenLow \in Counts /\ seenHigh \in Counts
    /\ value \in Levels \cup {"unset"}
    /\ made \in 0 .. MaxChanges
    /\ told \in Nat
    /\ faults \in 0 .. MaxFaults /\ met \in SUBSET FaultKinds

\* The server has heard of the input, and nothing is on its way to it.
Quiet == provider /\ hasFirstData /\ up = <<>> /\ late = {} /\ ~asked

\* In a session without any disturbance, whatever went wrong in earlier ones,
\* the scripts see every change the endpoint has confirmed, once each, and end
\* up with its level: through the wrap of the counters, and whatever packets
\* are sent for other inputs.
NothingMissed == Quiet /\ met = {} => value = stable /\ told = made

\* However many packets are lost and however early the first change is, the
\* scripts never hear of more changes than were made,
NoPhantomChanges == met \subseteq {"lose", "early", "unsteady"} => told <= made

\* The last counters the endpoint has sent are those the server has.
UpToDate == Quiet /\ seenLow = low /\ seenHigh = high

\* and an input shown as low by the latest counters is low: the replay ends
\* with a rising edge unless more falling edges are missing.  As long as fewer
\* packets are lost than a counter has values, the error is towards high.
ShownLowIsLow ==
    met \subseteq {"lose", "early"} /\ faults < CounterSize
        /\ UpToDate /\ value = "low" => stable = "low"

\* Lost, reordered and duplicated packets may leave a wrong value; the next
\* change that arrives after them, alone, puts it right.
OneEdgeBehind == Behind(seenLow, low) + Behind(seenHigh, high) = 1
HearsTheLatest == up = <<StatePacket(low, high)>> /\ Deliver

HealsWithNextChange ==
    [][met \cap {"reregister", "unsteady"} = {} /\ provider /\ hasFirstData
       /\ OneEdgeBehind /\ HearsTheLatest
         => value' = stable]_vars

\* The level an input settles at in a session without disturbances, whatever
\* went wrong in earlier ones, is the level the scripts get.
SettledLevelIsShown ==
    \A v \in Levels :
        <>[](session /\ stable = v /\ met = {}) => <>[](value = v)

\* providers/provider_input.h:18 on provInputSendState(), "Sends current state
\* to server": once it has been heard, the server has that state.
StateIsCurrent == UpToDate => value = stable

=============================================================================
