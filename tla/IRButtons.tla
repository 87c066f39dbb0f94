------------------------------ MODULE IRButtons ------------------------------
(***************************************************************************)
(* From the button of a remote control to IR:PRESSED and IR:RELEASED.  The *)
(* remote sends the code of the button once and then, while it is held, a  *)
(* repeat mark every 108 ms; the endpoint forwards both                    *)
(* (expander16/ir.c, providers/provider_ir.c).  The IR provider of the     *)
(* server (server/providers/IRProvider.cpp) takes a repeat mark for the    *)
(* last code if that is at most 300 ms old, and a code that has not been   *)
(* heard for 500 ms for released.                                          *)
(*                                                                         *)
(* Time is counted in ticks of 100 ms, the period of process().            *)
(***************************************************************************)
EXTENDS Integers, Sequences

CONSTANTS
    Codes,        \* the codes of the buttons
    Repeat,       \* 0xffffffff, the repeat mark
    Nothing,      \* no button
    RepeatTime,   \* how old the last code may be for a repeat mark: 300 ms
    ReleaseTime,  \* silence after which a button is released: 500 ms
    MaxFaults     \* bound on the number of lost packets and ended sessions

ASSUME CodesAssumption ==
    Repeat \notin Codes /\ Nothing \notin Codes \cup {Repeat}
ASSUME TimesAssumption ==
    /\ RepeatTime \in Nat /\ ReleaseTime \in Nat
    /\ RepeatTime < ReleaseTime
ASSUME FaultsAssumption == MaxFaults \in Nat

VARIABLES
    button,    \* the button that is held, or Nothing
    sent,      \* the remote has sent the frame of this tick
    up,        \* packets in flight, in order
    provider,  \* the device has an IRProvider
    held,      \* the keys of m_codes
    age,       \* ticks since m_codes[c], ReleaseTime at most; 0 if not held
    lastCode,  \* m_lastCode
    lastAge,   \* ticks since m_lastCodeTime, RepeatTime + 1 at most
    heard,     \* a code has set both: they are not what the heap held before
    polled,    \* process() has been called in this tick
    shown,     \* codes the scripts have seen pressed and not released
    orphans,   \* of these, the ones whose provider has gone
    reached,   \* the code of the button has reached the provider
    missed,    \* repeat marks lost since the button was pressed
    faults     \* number of disturbances so far

remote == <<button, sent, missed>>
server == <<provider, held, age, lastCode, lastAge, heard, polled>>
scripts == <<shown, orphans>>
vars == <<remote, reached, up, server, scripts, faults>>

Packets == Codes \cup {Repeat}
Disturb == faults < MaxFaults /\ faults' = faults + 1

-----------------------------------------------------------------------------
(* The remote and the endpoint                                             *)

\* irProcess() and provIRNewCode(), for the frame of a button just pressed
Press ==
    /\ button = Nothing /\ ~sent
    /\ \E c \in Codes : button' = c /\ up' = Append(up, c)
    /\ sent' = TRUE /\ missed' = 0 /\ reached' = FALSE
    /\ UNCHANGED <<server, scripts, faults>>

\* and for the repeat mark of one that is held.
Hold ==
    /\ button # Nothing /\ ~sent
    /\ up' = Append(up, Repeat)
    /\ sent' = TRUE
    /\ UNCHANGED <<button, missed, reached, server, scripts, faults>>

LetGo ==
    /\ button # Nothing
    /\ button' = Nothing
    /\ UNCHANGED <<sent, missed, reached, up, server, scripts, faults>>

-----------------------------------------------------------------------------
(* server/providers/IRProvider.cpp and server/Controller.cpp               *)

\* Mutant: a repeat mark is good for the last code for ever.
MeantAlways(p) == IF p = Repeat THEN lastCode ELSE p

\* The code a packet stands for; a repeat mark may stand for none.
Meant(p) == IF p = Repeat /\ lastAge <= RepeatTime THEN lastCode ELSE p

\* Mutant: m_codes is written when a button is pressed only.
HearOnce(c) ==
    /\ lastCode' = c /\ lastAge' = 0 /\ heard' = TRUE
    /\ shown' = shown \cup {c} /\ orphans' = orphans \ {c}
    /\ held' = held \cup {c}
    /\ UNCHANGED age

\* IR:PRESSED is published for a code that is not in m_codes.
Hear(c) ==
    /\ lastCode' = c /\ lastAge' = 0 /\ heard' = TRUE
    /\ shown' = shown \cup {c} /\ orphans' = orphans \ {c}
    /\ held' = held \cup {c} /\ age' = [age EXCEPT ![c] = 0]

\* IR_NOTF_NEWCODE; without a provider the packet is dropped.
ProcessData(p) ==
    /\ IF provider /\ Meant(p) # Repeat
       THEN Hear(Meant(p))
       ELSE UNCHANGED <<lastCode, lastAge, heard, scripts, held, age>>
    /\ reached' = (reached \/ (provider /\ p # Repeat))
    /\ UNCHANGED <<provider, polled>>

Expired == {c \in held : age[c] >= ReleaseTime}

\* m_codes.erase(), for all codes of S.
Forget(S) ==
    /\ held' = held \ S
    /\ age' = [c \in Codes |-> IF c \in S THEN 0 ELSE age[c]]

\* Mutant: IR:RELEASED is published for the first code the loop erases only.
ProcessOne ==
    /\ ~polled /\ polled' = TRUE
    /\ Forget(Expired)
    /\ shown' = shown \ {CHOOSE c \in Codes : Expired # {} => c \in Expired}
    /\ UNCHANGED <<remote, reached, up, provider, lastCode, lastAge, heard,
                   orphans, faults>>

\* Mutant: nobody calls process().
ProcessNothing ==
    /\ ~polled /\ polled' = TRUE
    /\ UNCHANGED <<remote, reached, up, provider, held, age, lastCode, lastAge,
                   heard, scripts, faults>>

\* process(): IR:RELEASED for every code that has expired.  it->first is read
\* after erase(it); the node is free but nothing has written to its key yet.
Process ==
    /\ ~polled /\ polled' = TRUE
    /\ Forget(Expired)
    /\ shown' = shown \ Expired
    /\ UNCHANGED <<remote, reached, up, provider, lastCode, lastAge, heard,
                   orphans, faults>>

\* IR_CMD_REGISTER: the constructor leaves m_lastCode and m_lastCodeTime as the
\* heap had them, those of the last provider perhaps.
AddProvider ==
    /\ ~provider
    /\ provider' = TRUE
    /\ lastCode' \in Packets /\ lastAge' \in 0 .. RepeatTime + 1
    /\ heard' = FALSE
    /\ UNCHANGED <<remote, reached, up, held, age, polled, scripts, faults>>

\* markDisconnected(): the provider goes with its m_codes; nobody tells the
\* scripts, and no packet of the session is heard any more.
EndSession ==
    /\ Disturb
    /\ provider
    /\ provider' = FALSE
    /\ Forget(Codes)
    /\ lastCode' = Repeat /\ lastAge' = 0 /\ heard' = FALSE
    /\ orphans' = shown
    /\ up' = <<>> /\ reached' = FALSE
    /\ UNCHANGED <<remote, polled, shown>>

-----------------------------------------------------------------------------
(* The network and time                                                    *)

Deliver ==
    /\ up # <<>>
    /\ ProcessData(Head(up))
    /\ up' = Tail(up)
    /\ UNCHANGED <<remote, faults>>

Lose ==
    /\ Disturb
    /\ up # <<>>
    /\ up' = Tail(up)
    /\ missed' = IF Head(up) = Repeat THEN missed + 1 ELSE missed
    /\ UNCHANGED <<button, sent, reached, server, scripts>>

Older(a, limit) == IF a >= limit THEN a ELSE a + 1

\* The packets in flight arrive and process() is called within 100 ms, and the
\* remote repeats in every tick.
Tick ==
    /\ polled /\ up = <<>> /\ (button # Nothing => sent)
    /\ age' = [c \in Codes |->
                  IF c \in held THEN Older(age[c], ReleaseTime) ELSE 0]
    /\ lastAge' = Older(lastAge, RepeatTime + 1)
    /\ polled' = FALSE /\ sent' = FALSE
    /\ UNCHANGED <<button, missed, reached, up, provider, held, lastCode, heard,
                   scripts, faults>>

Init ==
    /\ button = Nothing /\ sent = FALSE /\ missed = 0
    /\ up = <<>> /\ reached = FALSE
    /\ provider = FALSE
    /\ held = {} /\ age = [c \in Codes |-> 0]
    /\ lastCode = Repeat /\ lastAge = 0 /\ heard = FALSE
    /\ polled = TRUE
    /\ shown = {} /\ orphans = {}
    /\ faults = 0

Next ==
    \/ Press \/ Hold \/ LetGo
    \/ Deliver \/ Process \/ AddProvider \/ EndSession
    \/ Lose \/ Tick

Spec == Init /\ [][Next]_vars

\* Time passes, and with it packets arrive and the timer of the server fires.
Fairness ==
    WF_vars(Tick) /\ WF_vars(Process) /\ WF_vars(Deliver)

FairSpec == Spec /\ Fairness

-----------------------------------------------------------------------------
(* Properties                                                              *)

TypeOK ==
    /\ button \in Codes \cup {Nothing} /\ sent \in BOOLEAN
    /\ missed \in 0 .. faults
    /\ up \in Seq(Packets) /\ reached \in BOOLEAN
    /\ provider \in BOOLEAN
    /\ held \in SUBSET Codes /\ age \in [Codes -> 0 .. ReleaseTime]
    /\ lastCode \in Packets /\ lastAge \in 0 .. RepeatTime + 1
    /\ heard \in BOOLEAN
    /\ polled \in BOOLEAN
    /\ shown \in SUBSET Codes /\ orphans \in SUBSET Codes
    /\ faults \in 0 .. MaxFaults

\* What the scripts take for pressed is what the provider will release: every
\* IR:PRESSED is followed by an IR:RELEASED before the next one of its code,
\* unless the provider goes in between.  Then the code is an orphan, and stays
\* pressed for the scripts until the button is used again.
ShownIsHeld == shown = held \cup orphans /\ held \cap orphans = {}

\* A repeat mark never presses a button, once a code has been heard in the
\* session: while it is good for the last code, that code has not expired.
\* (Before, it is resolved with what the heap held, and may press any button.)
RepeatNeverPresses ==
    [][heard /\ Deliver /\ Head(up) = Repeat => shown' = shown]_vars

\* A button is not released while it is held, unless so many repeat marks in a
\* row are lost that the last code is too old for the next one.
HeldStaysPressed ==
    [][\A c \in shown \ shown' :
            button = c /\ reached => missed >= RepeatTime]_vars

\* When no button is held any more, all that are not orphans are released.
EventuallyReleased == <>[](button = Nothing) => <>[](shown = orphans)

=============================================================================
