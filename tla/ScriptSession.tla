---------------------------- MODULE ScriptSession ----------------------------
(***************************************************************************)
(* The scripts of a house (server/scripts/kdhome.py) and the controller    *)
(* they configure (server/Controller.cpp).  The server publishes messages  *)
(* on a PUB socket, each with the key of its session; a script adopts the  *)
(* key of every message it reads and puts it into its requests, which it   *)
(* sends one at a time over a REQ socket, blocking for the reply.          *)
(*                                                                         *)
(* A server that has no configuration publishes CTRL:INIT every 500 ms.    *)
(* One script answers: in onInitEvent() it registers the devices, names an *)
(* output and makes it persistent; then process() sends INIT-OK.           *)
(***************************************************************************)
EXTENDS Integers, Sequences

CONSTANTS
    Scripts, Configurer,     \* the scripts, and the one that answers INIT
    InitDevices,             \* the devices onInitEvent() registers, in order
    OutputId, OutputName,    \* the output it names and makes persistent
    FaultKinds, MaxFaults,   \* disturbances, and a bound on their number
    InboxLimit               \* length of a SUB queue (its high water mark)

ASSUME ScriptsAssumption == Configurer \in Scripts
ASSUME NamesAssumption == OutputId # OutputName
ASSUME FaultsAssumption ==
    /\ FaultKinds \subseteq {"reset", "crash", "stop", "miss"}
    /\ MaxFaults \in Nat /\ InboxLimit \in Nat \ {0}
ASSUME DevicesAssumption ==
    InitDevices \in Seq({InitDevices[i] : i \in DOMAIN InitDevices})

VARIABLES
    sessKey,      \* Controller::m_sessKey
    initialized,  \* Controller::m_initialized
    devices,      \* Controller::m_devices, their names in order
    outputs,      \* Controller::m_outputs: id and name of the entries
    persistent,   \* Controller::m_persistentOutputs
    usedEarly,    \* a request has used OutputName before it was given
    up,           \* the scripts that run
    key,          \* KDHome.sessKey of each script
    inbox,        \* the SUB queue of each script
    todo,         \* the requests its handler has still to make
    line,         \* what became of the first of them
    faults        \* number of disturbances so far

server == <<sessKey, initialized, devices, outputs, persistent, usedEarly>>
script == <<up, key, inbox, todo, line>>
vars == <<server, script, faults>>

Message(cmd) == [cmd |-> cmd, key |-> sessKey]
Request(cmd, arg) == [cmd |-> cmd, arg |-> arg]
Disturb(kind) == kind \in FaultKinds /\ faults < MaxFaults /\ faults' = faults + 1

-----------------------------------------------------------------------------
(* server/Controller.cpp                                                   *)

Matches(entry, text) == entry.id = text \/ entry.name = text
Matching(entries, text) == {i \in DOMAIN entries : Matches(entries[i], text)}

\* findValue() with an empty list: a text nothing matches becomes an entry.
WithEntry(entries, text) ==
    IF Matching(entries, text) # {} THEN entries
    ELSE Append(entries, [id |-> text, name |-> text])

\* The first entry that matches.
First(entries, text) ==
    CHOOSE i \in Matching(entries, text) :
        \A j \in Matching(entries, text) : i <= j

Lookup(text) == LET e == WithEntry(outputs, text) IN e[First(e, text)].id

\* rand() % 89999 + 10000, taken to be new: keys are compared for equality
\* only, so the sessions are numbered.
NewSessKey == sessKey' = sessKey + 1

\* Mutant: m_outputs is not cleared.
ReloadKeepsOutputs ==
    /\ NewSessKey
    /\ initialized' = FALSE
    /\ devices' = <<>> /\ persistent' = {} /\ usedEarly' = FALSE
    /\ UNCHANGED outputs

\* Mutant: the new session has no key of its own.
ReloadSameKey ==
    /\ initialized' = FALSE
    /\ devices' = <<>> /\ outputs' = <<>> /\ persistent' = {} /\ usedEarly' = FALSE
    /\ UNCHANGED sessKey

\* reload().
Reload ==
    /\ NewSessKey
    /\ initialized' = FALSE
    /\ devices' = <<>> /\ outputs' = <<>> /\ persistent' = {} /\ usedEarly' = FALSE

\* REGISTER-ETHERNET-DEVICE: no look for a device of that name or address.
RegisterEthernetDevice(name) ==
    /\ devices' = Append(devices, name)
    /\ UNCHANGED <<sessKey, initialized, outputs, persistent, usedEarly>>

\* OUTPUT:SET-NAME.
SetName(id, name) ==
    LET e == WithEntry(outputs, id) IN
    /\ outputs' = [e EXCEPT ![First(e, id)].name = name]
    /\ UNCHANGED <<sessKey, initialized, devices, persistent, usedEarly>>

\* OUTPUT:SET-PERSISTENT.
SetPersistent(name) ==
    /\ outputs' = WithEntry(outputs, name)
    /\ persistent' = persistent \cup {Lookup(name)}
    /\ UNCHANGED <<sessKey, initialized, devices, usedEarly>>

\* OUTPUT:SET, TOGGLE and GET look the name up; what they do to the output is
\* the subject of Outputs.
UseName(name) ==
    /\ outputs' = WithEntry(outputs, name)
    /\ usedEarly' = (usedEarly \/ Matching(outputs, name) = {})
    /\ UNCHANGED <<sessKey, initialized, devices, persistent>>

\* CTRL:INIT-OK, without the restoring of the outputs.
InitOk ==
    /\ initialized' = TRUE
    /\ UNCHANGED <<sessKey, devices, outputs, persistent, usedEarly>>

Serve(r) ==
    \/ r.cmd = "REGISTER" /\ RegisterEthernetDevice(r.arg)
    \/ r.cmd = "SET-NAME" /\ SetName(OutputId, r.arg)
    \/ r.cmd = "SET-PERSISTENT" /\ SetPersistent(r.arg)
    \/ r.cmd = "GET" /\ UseName(r.arg)
    \/ r.cmd = "INIT-OK" /\ InitOk
    \/ r.cmd = "RESET" /\ Reload

Accepts(k) == k = 0 \/ k = sessKey

\* Mutant: the key of a request is not looked at.
ProcessREQAnyKey(s) ==
    /\ line[s] = "sent"
    /\ Serve(Head(todo[s]))
    /\ line' = [line EXCEPT ![s] = "answered"]
    /\ UNCHANGED <<up, key, inbox, todo, faults>>

\* processREQ(), and its reply: "" when the key is that of another session.
ProcessREQ(s) ==
    /\ line[s] = "sent"
    /\ \/ /\ Accepts(key[s])
          /\ Serve(Head(todo[s]))
          /\ line' = [line EXCEPT ![s] = "answered"]
       \/ /\ ~Accepts(key[s])
          /\ line' = [line EXCEPT ![s] = "refused"]
          /\ UNCHANGED server
    /\ UNCHANGED <<up, key, inbox, todo, faults>>

\* A message that finds a full queue is dropped by the PUB socket.
Publish(m, free) ==
    inbox' = [s \in Scripts |-> IF s \in up /\ Len(inbox[s]) < free
                                THEN Append(inbox[s], m) ELSE inbox[s]]

\* Mutant: INIT is published once, when the server is reloaded.
PublishInitOnce ==
    /\ ~initialized
    /\ devices = <<>>
    /\ \A s \in Scripts : key[s] # sessKey
    /\ Publish(Message("INIT"), 1)
    /\ UNCHANGED <<server, up, key, todo, line, faults>>

\* run(): every 500 ms until somebody has answered.
PublishInit ==
    /\ ~initialized
    /\ Publish(Message("INIT"), InboxLimit)
    /\ UNCHANGED <<server, up, key, todo, line, faults>>

\* INPUT:CHANGED and the like; one at a time is enough here, so that they
\* never push a CTRL:INIT out of the queue.
PublishEvent ==
    /\ Publish(Message("EVENT"), 1)
    /\ UNCHANGED <<server, up, key, todo, line, faults>>

\* The server process dies and is started again: requests on their way and
\* replies are lost.
Crash ==
    /\ Disturb("crash")
    /\ Reload
    /\ line' = [s \in Scripts |->
                   IF line[s] = "idle" THEN "idle" ELSE "lost"]
    /\ UNCHANGED <<up, key, inbox, todo>>

-----------------------------------------------------------------------------
(* server/scripts/kdhome.py                                                *)

\* onInitEvent() of the configuring script, and the INIT-OK of process().
InitRequests ==
    [i \in DOMAIN InitDevices |-> Request("REGISTER", InitDevices[i])]
        \o <<Request("SET-NAME", OutputName), Request("SET-PERSISTENT", OutputName),
             Request("INIT-OK", "")>>

Uses == {<<>>, <<Request("GET", OutputName)>>}

\* process(): the key is adopted, then the message's handler called.
Receive(s) ==
    /\ s \in up /\ line[s] = "idle" /\ todo[s] = <<>> /\ inbox[s] # <<>>
    /\ LET m == Head(inbox[s]) IN
        /\ key' = [key EXCEPT ![s] = m.key]
        /\ \/ /\ m.cmd = "INIT" /\ s = Configurer
              /\ todo' = [todo EXCEPT ![s] = InitRequests]
              /\ UNCHANGED faults
           \/ /\ ~(m.cmd = "INIT" /\ s = Configurer)
              /\ \E use \in Uses : todo' = [todo EXCEPT ![s] = use]
              /\ UNCHANGED faults
           \/ /\ m.cmd = "EVENT"
              /\ todo' = [todo EXCEPT ![s] = <<Request("RESET", "")>>]
              /\ Disturb("reset")
    /\ inbox' = [inbox EXCEPT ![s] = Tail(@)]
    /\ UNCHANGED <<server, up, line>>

\* request(): send, then wait in recv().
Send(s) ==
    /\ s \in up /\ line[s] = "idle" /\ todo[s] # <<>>
    /\ line' = [line EXCEPT ![s] = "sent"]
    /\ UNCHANGED <<server, up, key, inbox, todo, faults>>

\* int(resp) of an empty reply ends the script.
Parsed == {"REGISTER", "GET"}

Return(s) ==
    /\ s \in up /\ line[s] \in {"answered", "refused"}
    /\ line' = [line EXCEPT ![s] = "idle"]
    /\ IF line[s] = "refused" /\ Head(todo[s]).cmd \in Parsed
       THEN up' = up \ {s} /\ UNCHANGED todo
       ELSE todo' = [todo EXCEPT ![s] = Tail(@)] /\ UNCHANGED up
    /\ UNCHANGED <<server, key, inbox, faults>>

\* A script that has ended, or waits for a reply that was lost, is started
\* again; a request it may have left behind has been served by then.
Start(s) ==
    /\ s \notin up \/ line[s] = "lost"
    /\ line[s] # "sent"
    /\ up' = up \cup {s}
    /\ key' = [key EXCEPT ![s] = 0]
    /\ inbox' = [inbox EXCEPT ![s] = <<>>]
    /\ todo' = [todo EXCEPT ![s] = <<>>]
    /\ line' = [line EXCEPT ![s] = "idle"]
    /\ UNCHANGED <<server, faults>>

\* A script is stopped, in the middle of its handler perhaps.
Stop(s) ==
    /\ Disturb("stop")
    /\ s \in up
    /\ up' = up \ {s}
    /\ UNCHANGED <<server, key, inbox, todo, line>>

\* The SUB socket is not connected when the message is published.
Miss(s) ==
    /\ Disturb("miss")
    /\ inbox[s] # <<>>
    /\ inbox' = [inbox EXCEPT ![s] = Tail(@)]
    /\ UNCHANGED <<server, up, key, todo, line>>

-----------------------------------------------------------------------------
Init ==
    /\ sessKey = 1
    /\ initialized = FALSE
    /\ devices = <<>> /\ outputs = <<>> /\ persistent = {} /\ usedEarly = FALSE
    /\ up = Scripts
    /\ key = [s \in Scripts |-> 0]
    /\ inbox = [s \in Scripts |-> <<>>]
    /\ todo = [s \in Scripts |-> <<>>]
    /\ line = [s \in Scripts |-> "idle"]
    /\ faults = 0

ScriptStep(s) ==
    \/ Receive(s) \/ Send(s) \/ Return(s) \/ Start(s) \/ Stop(s) \/ Miss(s)

Next ==
    \/ PublishInit \/ PublishEvent \/ Crash
    \/ \E s \in Scripts : ProcessREQ(s) \/ ScriptStep(s)

Spec == Init /\ [][Next]_vars

\* The poll loops of the server and of the scripts go on.
Fairness ==
    /\ WF_vars(PublishInit)
    /\ \A s \in Scripts :
        WF_vars(ProcessREQ(s)) /\ WF_vars(Receive(s) \/ Send(s) \/ Return(s))

FairSpec == Spec /\ Fairness

-----------------------------------------------------------------------------
(* Properties                                                              *)

Texts == {OutputId, OutputName}
SessKeys == Nat \ {0}
Requests == {InitRequests[i] : i \in DOMAIN InitRequests}
              \cup {Request("GET", OutputName), Request("RESET", "")}

TypeOK ==
    /\ sessKey \in SessKeys /\ initialized \in BOOLEAN
    /\ devices \in Seq({InitDevices[i] : i \in DOMAIN InitDevices})
    /\ outputs \in Seq([id : Texts, name : Texts])
    /\ persistent \in SUBSET Texts /\ usedEarly \in BOOLEAN
    /\ up \in SUBSET Scripts
    /\ key \in [Scripts -> SessKeys \cup {0}]
    /\ inbox \in [Scripts -> Seq([cmd : {"INIT", "EVENT"}, key : SessKeys])]
    /\ todo \in [Scripts -> Seq(Requests)]
    /\ line \in [Scripts -> {"idle", "sent", "answered", "refused", "lost"}]
    /\ faults \in 0 .. MaxFaults

\* A server that believes to be initialized has the whole configuration, in
\* this session: a reset or a crash in the middle of onInitEvent() lets the
\* rest of its requests, INIT-OK too, come to nothing.
Registered(d) == \E i \in DOMAIN devices : devices[i] = d

ConfiguredWhenInitialized ==
    initialized => /\ \A i \in DOMAIN InitDevices : Registered(InitDevices[i])
                   /\ Matching(outputs, OutputName) # {}
                   /\ persistent # {}

\* From INIT-OK to the end of the session the name of the output leads to it
\* and its state is kept, unless a request that came before the naming has
\* made the name an output of its own.
NameLeadsToOutput ==
    initialized /\ ~usedEarly
        => Lookup(OutputName) = OutputId /\ persistent = {OutputId}

\* A configuration is never lost, whatever the scripts do, but by a reset.
KeepsConfiguration ==
    [][initialized /\ sessKey' = sessKey
           => initialized' /\ persistent' = persistent]_vars

\* The scripts that run and wait for no reply that was lost.
Running == {s \in up : line[s] # "lost"}

\* After finitely many disturbances the server is configured, as long as the
\* configuring script does not stay dead: the first message of the new session
\* gives it the key, and INIT is repeated until it has been answered.
GetsConfigured == []<>(Configurer \in Running) => <>[]initialized

=============================================================================
