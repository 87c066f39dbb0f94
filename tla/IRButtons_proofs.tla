-------------------------- MODULE IRButtons_proofs ---------------------------
(***************************************************************************)
(* Proofs about IRButtons.                                                 *)
(***************************************************************************)
EXTENDS IRButtons, TLAPS

-----------------------------------------------------------------------------
(* Types                                                                   *)

\* A packet in flight is a code or the repeat mark.
LEMMA FirstAndRest ==
    ASSUME up \in Seq(Packets), up # <<>>
    PROVE  Head(up) \in Packets /\ Tail(up) \in Seq(Packets)
  OBVIOUS

\* An empty link holds only packets.
LEMMA NothingInFlight == <<>> \in Seq(Packets)
  OBVIOUS

\* What a packet stands for is a packet again, and the repeat mark only if it
\* stands for nothing.
LEMMA MeantIsPacket ==
    ASSUME TypeOK, NEW p \in Packets
    PROVE  Meant(p) \in Packets
  BY DEF Meant, TypeOK

\* Every variable keeps its type: no packet and no timer takes m_codes, the
\* last code or what the scripts see out of the known codes.
THEOREM TypeCorrect == Spec => []TypeOK
<1>1. Init => TypeOK
  <2> SUFFICES ASSUME Init PROVE TypeOK
    OBVIOUS
  <2>1. up \in Seq(Packets)
    <3>1. up = <<>>
      BY DEF Init
    <3> QED BY <3>1, NothingInFlight
  <2>2. missed \in 0 .. faults /\ faults \in 0 .. MaxFaults
    BY FaultsAssumption DEF Init
  <2>3. age \in [Codes -> 0 .. ReleaseTime] /\ lastAge \in 0 .. RepeatTime + 1
    <3>1. age = [c \in Codes |-> 0] /\ lastAge = 0
      BY DEF Init
    <3>2. 0 \in 0 .. ReleaseTime /\ 0 \in 0 .. RepeatTime + 1
      BY TimesAssumption
    <3> QED BY <3>1, <3>2
  <2>4. lastCode \in Packets /\ shown \in SUBSET Codes /\ orphans \in SUBSET Codes
    BY DEF Init, Packets
  <2>5. /\ button \in Codes \cup {Nothing} /\ sent \in BOOLEAN
        /\ reached \in BOOLEAN /\ provider \in BOOLEAN
        /\ held \in SUBSET Codes /\ heard \in BOOLEAN /\ polled \in BOOLEAN
    BY DEF Init
  <2> QED BY <2>1, <2>2, <2>3, <2>4, <2>5 DEF TypeOK
<1>2. TypeOK /\ [Next]_vars => TypeOK'
  <2> SUFFICES ASSUME TypeOK, [Next]_vars PROVE TypeOK'
    OBVIOUS
  <2> USE TimesAssumption, FaultsAssumption
  <2>1. CASE Press
    <3>1. PICK c \in Codes : button' = c /\ up' = Append(up, c)
      BY <2>1 DEF Press
    <3>2. up' \in Seq(Packets)
      BY <3>1 DEF TypeOK, Packets
    <3>3. missed' \in 0 .. faults' /\ faults' \in 0 .. MaxFaults
      BY <2>1 DEF Press, TypeOK
    <3>4. button' \in Codes \cup {Nothing}
      BY <3>1
    <3>5. /\ sent' = TRUE /\ reached' = FALSE
          /\ UNCHANGED <<provider, held, age, lastCode, lastAge, heard, polled,
                         shown, orphans>>
      BY <2>1 DEF Press, server, scripts
    <3> QED BY <3>2, <3>3, <3>4, <3>5 DEF TypeOK
  <2>2. CASE Hold
    <3>1. up' \in Seq(Packets)
      BY <2>2 DEF Hold, TypeOK, Packets
    <3> QED BY <2>2, <3>1 DEF Hold, TypeOK, server, scripts
  <2>3. CASE LetGo
    BY <2>3 DEF LetGo, TypeOK, server, scripts
  <2>4. CASE Deliver
    <3>1. Head(up) \in Packets /\ up' \in Seq(Packets)
      BY <2>4, FirstAndRest DEF Deliver, TypeOK
    <3>2. ProcessData(Head(up)) /\ UNCHANGED <<remote, faults>>
      BY <2>4 DEF Deliver
    <3>3. reached' \in BOOLEAN
      BY <3>2, Zenon DEF ProcessData, TypeOK
    <3>4. CASE provider /\ Meant(Head(up)) # Repeat
      <4>1. Meant(Head(up)) \in Codes
        BY <3>1, <3>4, MeantIsPacket DEF Packets
      <4>2. Hear(Meant(Head(up))) /\ UNCHANGED <<provider, polled>>
        BY <3>2, <3>4 DEF ProcessData
      <4>3. /\ lastCode' \in Packets /\ lastAge' \in 0 .. RepeatTime + 1
            /\ heard' \in BOOLEAN
            /\ held' \in SUBSET Codes /\ age' \in [Codes -> 0 .. ReleaseTime]
            /\ shown' \in SUBSET Codes /\ orphans' \in SUBSET Codes
        BY <4>1, <4>2 DEF Hear, TypeOK, Packets
      <4> QED BY <3>1, <3>2, <3>3, <4>2, <4>3 DEF TypeOK, remote
    <3>5. CASE ~(provider /\ Meant(Head(up)) # Repeat)
      <4>1. /\ UNCHANGED <<lastCode, lastAge, heard, scripts, held, age>>
            /\ UNCHANGED <<provider, polled>>
        BY <3>2, <3>5 DEF ProcessData
      <4> QED BY <3>1, <3>2, <3>3, <4>1 DEF TypeOK, remote, scripts
    <3> QED BY <3>4, <3>5
  <2>5. CASE Process
    BY <2>5 DEF Process, Forget, Expired, TypeOK, remote, scripts
  <2>6. CASE AddProvider
    BY <2>6 DEF AddProvider, TypeOK, remote, scripts
  <2>7. CASE EndSession
    <3>1. up' \in Seq(Packets)
      <4>1. up' = <<>>
        BY <2>7 DEF EndSession
      <4> QED BY <4>1, NothingInFlight
    <3>2. held' \in SUBSET Codes /\ age' \in [Codes -> 0 .. ReleaseTime]
      BY <2>7 DEF EndSession, Forget, TypeOK
    <3>3. missed' \in 0 .. faults' /\ faults' \in 0 .. MaxFaults
      BY <2>7 DEF EndSession, Disturb, TypeOK, remote
    <3>4. lastCode' \in Packets /\ lastAge' \in 0 .. RepeatTime + 1
      BY <2>7 DEF EndSession, Packets
    <3>5. /\ provider' = FALSE /\ heard' = FALSE /\ reached' = FALSE
          /\ orphans' = shown
          /\ UNCHANGED <<button, sent, polled, shown>>
      BY <2>7 DEF EndSession, remote
    <3> QED BY <3>1, <3>2, <3>3, <3>4, <3>5 DEF TypeOK
  <2>8. CASE Lose
    <3>1. up' \in Seq(Packets)
      BY <2>8, FirstAndRest DEF Lose, TypeOK
    <3>2. missed' \in 0 .. faults' /\ faults' \in 0 .. MaxFaults
      BY <2>8 DEF Lose, Disturb, TypeOK
    <3> QED BY <2>8, <3>1, <3>2 DEF Lose, TypeOK, server, scripts
  <2>9. CASE Tick
    <3>1. age' \in [Codes -> 0 .. ReleaseTime]
      BY <2>9 DEF Tick, Older, TypeOK
    <3>2. lastAge' \in 0 .. RepeatTime + 1
      BY <2>9 DEF Tick, Older, TypeOK
    <3>3. /\ polled' = FALSE /\ sent' = FALSE
          /\ UNCHANGED <<button, missed, reached, up, provider, held, lastCode,
                         heard, shown, orphans, faults>>
      BY <2>9 DEF Tick, scripts
    <3> QED BY <3>1, <3>2, <3>3 DEF TypeOK
  <2>10. CASE UNCHANGED vars
    BY <2>10 DEF vars, remote, server, scripts, TypeOK
  <2> QED BY <2>1, <2>2, <2>3, <2>4, <2>5, <2>6, <2>7, <2>8, <2>9, <2>10 DEF Next
<1> QED BY <1>1, <1>2, PTL DEF Spec

-----------------------------------------------------------------------------
(* IR:PRESSED and IR:RELEASED                                              *)

\* Each IR:PRESSED is followed by an IR:RELEASED before the next one of its
\* code, unless the provider goes in between.  The property is inductive given
\* the types: hearing a code adds it to both sides and takes it from the
\* orphans, expiry takes the same codes from both, and the end of a session
\* turns whatever was held into orphans.
THEOREM ShownIsAlwaysHeld == Spec => []ShownIsHeld
<1>1. Init => ShownIsHeld
  BY DEF Init, ShownIsHeld
<1>2. TypeOK /\ ShownIsHeld /\ [Next]_vars => ShownIsHeld'
  <2> SUFFICES ASSUME TypeOK, ShownIsHeld, [Next]_vars PROVE ShownIsHeld'
    OBVIOUS
  <2>1. CASE Deliver
    <3>1. ProcessData(Head(up))
      BY <2>1 DEF Deliver
    <3>2. CASE provider /\ Meant(Head(up)) # Repeat
      BY <3>1, <3>2 DEF ProcessData, Hear, ShownIsHeld
    <3>3. CASE ~(provider /\ Meant(Head(up)) # Repeat)
      BY <3>1, <3>3 DEF ProcessData, scripts, ShownIsHeld
    <3> QED BY <3>2, <3>3
  <2>2. CASE Process
    BY <2>2 DEF Process, Forget, Expired, ShownIsHeld
  <2>3. CASE EndSession
    BY <2>3 DEF EndSession, Forget, ShownIsHeld, TypeOK
  <2>4. CASE Press \/ Hold \/ LetGo \/ AddProvider \/ Lose \/ Tick
    BY <2>4 DEF Press, Hold, LetGo, AddProvider, Lose, Tick, server, scripts,
                ShownIsHeld
  <2>5. CASE UNCHANGED vars
    BY <2>5 DEF vars, server, scripts, ShownIsHeld
  <2> QED BY <2>1, <2>2, <2>3, <2>4, <2>5 DEF Next
<1> QED BY <1>1, <1>2, TypeCorrect, PTL DEF Spec

-----------------------------------------------------------------------------
(* The repeat mark                                                         *)

\* While the last code is young enough for a repeat mark it is in m_codes, and
\* both clocks agree on its age: it cannot have expired.
LastCodeIsHeld ==
    heard /\ lastAge <= RepeatTime
        => provider /\ lastCode \in held /\ age[lastCode] = lastAge

\* The two clocks of the last code, m_lastCodeTime and m_codes, run together
\* until a repeat mark is too late for it.
LEMMA LastCodeAlwaysHeld == Spec => []LastCodeIsHeld
<1>1. Init => LastCodeIsHeld
  BY DEF Init, LastCodeIsHeld
<1>2. TypeOK /\ LastCodeIsHeld /\ [Next]_vars => LastCodeIsHeld'
  <2> SUFFICES ASSUME TypeOK, LastCodeIsHeld, [Next]_vars PROVE LastCodeIsHeld'
    OBVIOUS
  <2> USE TimesAssumption
  <2>1. CASE Deliver
    <3>1. Head(up) \in Packets
      BY <2>1, FirstAndRest DEF Deliver, TypeOK
    <3>2. ProcessData(Head(up))
      BY <2>1 DEF Deliver
    <3>3. CASE provider /\ Meant(Head(up)) # Repeat
      <4>1. Meant(Head(up)) \in Codes
        BY <3>1, <3>3, MeantIsPacket DEF Packets
      <4> QED BY <3>2, <3>3, <4>1 DEF ProcessData, Hear, LastCodeIsHeld, TypeOK
    <3>4. CASE ~(provider /\ Meant(Head(up)) # Repeat)
      <4>1. UNCHANGED <<lastCode, lastAge, heard, held, age, provider>>
        BY <3>2, <3>4 DEF ProcessData
      <4> QED BY <4>1 DEF LastCodeIsHeld
    <3> QED BY <3>3, <3>4
  <2>2. CASE Process
    BY <2>2 DEF Process, Forget, Expired, LastCodeIsHeld, TypeOK
  <2>3. CASE AddProvider \/ EndSession
    BY <2>3 DEF AddProvider, EndSession, LastCodeIsHeld
  <2>4. CASE Tick
    <3>1. /\ lastAge' = Older(lastAge, RepeatTime + 1)
          /\ \A c \in held : age'[c] = Older(age[c], ReleaseTime)
          /\ UNCHANGED <<provider, held, lastCode, heard>>
      BY <2>4 DEF Tick, TypeOK
    <3> QED BY <3>1 DEF Older, LastCodeIsHeld, TypeOK
  <2>5. CASE Press \/ Hold \/ LetGo \/ Lose
    <3>1. UNCHANGED <<lastCode, lastAge, heard, held, age, provider>>
      BY <2>5 DEF Press, Hold, LetGo, Lose, server
    <3> QED BY <3>1 DEF LastCodeIsHeld
  <2>6. CASE UNCHANGED vars
    BY <2>6 DEF vars, server, LastCodeIsHeld
  <2> QED BY <2>1, <2>2, <2>3, <2>4, <2>5, <2>6 DEF Next
<1> QED BY <1>1, <1>2, TypeCorrect, PTL DEF Spec

\* Once a code has been heard in the session a repeat mark never presses a
\* button: the code it stands for is in m_codes.
THEOREM RepeatsNeverPress == Spec => RepeatNeverPresses
<1>1. TypeOK /\ ShownIsHeld /\ LastCodeIsHeld /\ [Next]_vars
        => (heard /\ Deliver /\ Head(up) = Repeat => shown' = shown)
  <2> SUFFICES ASSUME TypeOK, ShownIsHeld, LastCodeIsHeld, heard, Deliver,
                      Head(up) = Repeat
               PROVE  shown' = shown
    OBVIOUS
  <2>1. ProcessData(Repeat)
    BY DEF Deliver
  <2>2. CASE provider /\ Meant(Repeat) # Repeat
    <3>1. lastAge <= RepeatTime /\ Meant(Repeat) = lastCode
      BY <2>2 DEF Meant
    <3>2. lastCode \in shown
      BY <3>1 DEF LastCodeIsHeld, ShownIsHeld
    <3> QED BY <2>1, <2>2, <3>1, <3>2 DEF ProcessData, Hear
  <2>3. CASE ~(provider /\ Meant(Repeat) # Repeat)
    BY <2>1, <2>3 DEF ProcessData, scripts
  <2> QED BY <2>2, <2>3
<1> QED BY <1>1, TypeCorrect, ShownIsAlwaysHeld, LastCodeAlwaysHeld, PTL
        DEF Spec, RepeatNeverPresses

-----------------------------------------------------------------------------
(* Holding a button                                                        *)

\* The remote sends one frame in a tick: the code of a button that has just
\* been pressed, or a repeat mark.
OneFrame ==
    up # <<>> => /\ sent
                 /\ \E p \in Packets :
                      /\ up = <<p>>
                      /\ p # Repeat => ~reached /\ button \in {p, Nothing}

LEMMA AtMostOneFrame == Spec => []OneFrame
<1>1. Init => OneFrame
  BY DEF Init, OneFrame
<1>2. TypeOK /\ OneFrame /\ [Next]_vars => OneFrame'
  <2> SUFFICES ASSUME TypeOK, OneFrame, [Next]_vars PROVE OneFrame'
    OBVIOUS
  <2> USE CodesAssumption
  <2>1. ~sent => up = <<>>
    BY DEF OneFrame
  <2>2. CASE Press
    <3>1. PICK c \in Codes : button' = c /\ up' = Append(up, c)
      BY <2>2 DEF Press
    <3>2. up' = <<c>> /\ sent' /\ ~reached'
      BY <2>1, <2>2, <3>1 DEF Press
    <3> QED BY <3>1, <3>2 DEF OneFrame, Packets
  <2>3. CASE Hold
    <3>1. up' = <<Repeat>> /\ sent'
      BY <2>1, <2>3 DEF Hold
    <3> QED BY <3>1 DEF OneFrame, Packets
  <2>4. CASE LetGo
    BY <2>4 DEF LetGo, OneFrame
  <2>5. CASE Deliver \/ Lose
    <3>1. \E p \in Packets : up = <<p>>
      BY <2>5 DEF Deliver, Lose, OneFrame
    <3>2. up' = <<>>
      BY <2>5, <3>1 DEF Deliver, Lose
    <3> QED BY <3>2 DEF OneFrame
  <2>6. CASE EndSession
    BY <2>6 DEF EndSession, OneFrame
  <2>7. CASE Tick
    BY <2>7 DEF Tick, OneFrame
  <2>8. CASE Process \/ AddProvider \/ UNCHANGED vars
    <3>1. UNCHANGED <<up, sent, reached, button>>
      BY <2>8 DEF Process, AddProvider, vars, remote
    <3> QED BY <3>1 DEF OneFrame
  <2> QED BY <2>2, <2>3, <2>4, <2>5, <2>6, <2>7, <2>8 DEF Next
<1> QED BY <1>1, <1>2, TypeCorrect, PTL DEF Spec

\* While a button is held whose code the provider has heard, that code stays
\* the last one, and is no older than the repeat marks lost since it was
\* pressed and the one that is due explain.
HeldIsFresh ==
    button # Nothing /\ reached /\ missed < RepeatTime
        => /\ heard /\ lastCode = button
           /\ lastAge <= missed + (IF sent /\ up = <<>> THEN 0 ELSE 1)

LEMMA HeldAlwaysFresh == Spec => []HeldIsFresh
<1>1. Init => HeldIsFresh
  BY DEF Init, HeldIsFresh
<1>2. TypeOK /\ OneFrame /\ LastCodeIsHeld /\ HeldIsFresh /\ [Next]_vars => HeldIsFresh'
  <2> SUFFICES ASSUME TypeOK, OneFrame, LastCodeIsHeld, HeldIsFresh, [Next]_vars,
                      button' # Nothing, reached', missed' < RepeatTime
               PROVE  /\ heard' /\ lastCode' = button'
                      /\ lastAge' <= missed' + (IF sent' /\ up' = <<>> THEN 0 ELSE 1)
    BY DEF HeldIsFresh
  <2> USE CodesAssumption, TimesAssumption
  <2>1. /\ lastAge \in Nat /\ missed \in Nat /\ RepeatTime \in Nat
        /\ button \in Codes \cup {Nothing}
    BY FaultsAssumption DEF TypeOK
  <2>2. reached /\ button # Nothing /\ missed < RepeatTime
          => /\ provider /\ heard /\ lastCode = button /\ lastAge <= RepeatTime
             /\ lastAge <= missed + (IF sent /\ up = <<>> THEN 0 ELSE 1)
    BY <2>1 DEF HeldIsFresh, LastCodeIsHeld
  <2>3. CASE Deliver
    <3>1. PICK p \in Packets : up = <<p>> /\ (p # Repeat => ~reached /\ button \in {p, Nothing})
      BY <2>3 DEF Deliver, OneFrame
    <3>2. Head(up) = p /\ up' = <<>> /\ sent
      BY <2>3, <3>1 DEF Deliver, OneFrame
    <3>3. /\ ProcessData(p) /\ button' = button /\ missed' = missed /\ sent' = sent
      BY <2>3, <3>2 DEF Deliver, remote
    <3>4. provider /\ Meant(p) = button
      <4>1. CASE p = Repeat
        <5>1. reached
          BY <3>3, <4>1 DEF ProcessData
        <5> QED BY <2>2, <3>3, <4>1, <5>1 DEF Meant
      <4>2. CASE p # Repeat
        <5>1. provider
          BY <3>1, <3>3, <4>2 DEF ProcessData
        <5> QED BY <3>1, <3>3, <4>2, <5>1 DEF Meant
      <4> QED BY <4>1, <4>2
    <3>5. Meant(p) # Repeat
      BY <2>1, <3>3, <3>4
    <3>6. heard' /\ lastCode' = button /\ lastAge' = 0
      BY <3>3, <3>4, <3>5 DEF ProcessData, Hear
    <3> QED BY <2>1, <3>3, <3>6
  <2>4. CASE Lose
    <3>1. PICK p \in Packets : up = <<p>> /\ (p # Repeat => ~reached)
      BY <2>4 DEF Lose, OneFrame
    <3>2. Head(up) = p /\ up # <<>> /\ up' = <<>> /\ sent
      BY <2>4, <3>1 DEF Lose, OneFrame
    <3>3. UNCHANGED <<button, sent, reached, heard, lastCode, lastAge>>
      BY <2>4 DEF Lose, server
    <3>4. p = Repeat /\ missed' = missed + 1
      BY <2>4, <3>1, <3>2, <3>3 DEF Lose
    <3> QED BY <2>1, <2>2, <3>2, <3>3, <3>4
  <2>5. CASE Tick
    <3>1. /\ UNCHANGED <<button, missed, reached, lastCode, heard>>
          /\ lastAge' = Older(lastAge, RepeatTime + 1) /\ ~sent'
          /\ up = <<>> /\ sent
      BY <2>5 DEF Tick
    <3>2. lastAge' <= lastAge + 1
      BY <2>1, <3>1 DEF Older
    <3>3. lastAge' \in Nat
      BY <2>1, <3>1 DEF Older
    <3> QED BY <2>1, <2>2, <3>1, <3>2, <3>3
  <2>6. CASE Hold
    <3>1. UNCHANGED <<button, missed, reached, lastCode, lastAge, heard>> /\ ~sent
      BY <2>6 DEF Hold, server
    <3>2. up' # <<>>
      BY <2>6 DEF Hold, TypeOK, Packets
    <3> QED BY <2>2, <3>1, <3>2
  <2>7. ~Press /\ ~LetGo /\ ~EndSession
    BY DEF Press, LetGo, EndSession
  <2>8. CASE AddProvider
    <3>1. ~provider /\ UNCHANGED <<button, missed, reached>>
      BY <2>8 DEF AddProvider, remote
    <3> QED BY <2>2, <3>1
  <2>9. CASE Process \/ UNCHANGED vars
    <3>1. UNCHANGED <<button, missed, sent, reached, up, lastCode, lastAge, heard>>
      BY <2>9 DEF Process, vars, remote, server
    <3> QED BY <2>2, <3>1
  <2> QED BY <2>3, <2>4, <2>5, <2>6, <2>7, <2>8, <2>9 DEF Next
<1> QED BY <1>1, <1>2, TypeCorrect, AtMostOneFrame, LastCodeAlwaysHeld, PTL DEF Spec

\* A button that is held is not released for the scripts as long as fewer
\* repeat marks are lost than the last code may be old: its code cannot have
\* expired by then.
THEOREM HeldButtonsStay == Spec => HeldStaysPressed
<1>1. TypeOK /\ LastCodeIsHeld /\ HeldIsFresh /\ [Next]_vars
        => (\A c \in shown \ shown' : button = c /\ reached => missed >= RepeatTime)
  <2> SUFFICES ASSUME TypeOK, LastCodeIsHeld, HeldIsFresh, [Next]_vars,
                      NEW c \in shown \ shown', button = c, reached,
                      ~(missed >= RepeatTime)
               PROVE  FALSE
    OBVIOUS
  <2>1. Process
    <3>1. CASE Deliver
      <4>1. shown \subseteq shown'
        BY <3>1 DEF Deliver, ProcessData, Hear, scripts
      <4> QED BY <4>1
    <3>2. CASE Press \/ Hold \/ LetGo \/ AddProvider \/ EndSession \/ Lose \/ Tick
               \/ UNCHANGED vars
      <4>1. shown' = shown
        BY <3>2 DEF Press, Hold, LetGo, AddProvider, EndSession, Lose, Tick, vars,
                    scripts
      <4> QED BY <4>1
    <3> QED BY <3>1, <3>2 DEF Next
  <2>2. c \in Expired
    BY <2>1 DEF Process
  <2>3. c \in Codes /\ age[c] \in Nat /\ age[c] >= ReleaseTime
    BY <2>2, TimesAssumption DEF Expired, TypeOK
  <2>4. missed \in Nat /\ lastAge \in Nat /\ RepeatTime \in Nat /\ ReleaseTime \in Nat
    BY TimesAssumption, FaultsAssumption DEF TypeOK
  <2>5. c # Nothing /\ missed < RepeatTime
    BY <2>3, <2>4, CodesAssumption
  <2>6. heard /\ lastCode = c /\ lastAge <= RepeatTime
    BY <2>4, <2>5 DEF HeldIsFresh
  <2>7. age[c] = lastAge
    BY <2>6 DEF LastCodeIsHeld
  <2> QED BY <2>3, <2>4, <2>6, <2>7, TimesAssumption
<1> QED BY <1>1, TypeCorrect, LastCodeAlwaysHeld, HeldAlwaysFresh, PTL
        DEF Spec, HeldStaysPressed

=============================================================================
