----------------------------- MODULE Inputs_proofs -----------------------------
(***************************************************************************)
(* Proofs about Inputs, for every width of the edge counters: types; that  *)
(* an undisturbed session tells the scripts every change once; that lost   *)
(* packets never make up a change; that the next change heard puts right   *)
(* what lost, late and copied packets have left wrong; and that an input   *)
(* shown as low is low as long as few packets are lost.                    *)
(***************************************************************************)
EXTENDS Inputs, FiniteSetTheorems, SequenceTheorems, TLAPS

-----------------------------------------------------------------------------
(* Counting modulo CounterSize                                             *)

LEMMA Counting ==
    /\ CounterSize \in Nat /\ CounterSize > 1
    /\ \A a \in Counts : (a + 1) % CounterSize \in Counts
    /\ \A a, b \in Counts : Behind(a, b) \in Counts /\ Behind(a, b) \in Nat
    /\ \A a \in Counts : Behind(a, a) = 0
    /\ \A a \in Counts : Behind(a, (a + 1) % CounterSize) = 1
    /\ 0 \in Counts /\ 1 \in Counts
<1>1. CounterSize \in Nat /\ CounterSize > 1
  BY CounterAssumption
<1>2. \A x \in Int : x % CounterSize \in 0 .. CounterSize - 1
  BY <1>1
<1>3. \A a \in Counts : a \in Int /\ a + 1 \in Int
  BY <1>1 DEF Counts
<1>4. \A a, b \in Counts : Behind(a, b) \in Counts
  BY <1>2, <1>3 DEF Behind, Counts
<1>5. \A a \in Counts : a \in Nat
  BY <1>1 DEF Counts
<1>6. ASSUME NEW a \in Counts PROVE Behind(a, a) = 0
  BY <1>1, <1>3 DEF Behind
<1>7. ASSUME NEW a \in Counts PROVE Behind(a, (a + 1) % CounterSize) = 1
  <2>1. CASE a = CounterSize - 1
    <3>1. (a + 1) % CounterSize = 0
      BY <1>1, <2>1
    <3>2. (1 - CounterSize) % CounterSize = 1
      BY <1>1
    <3>3. 0 - a = 1 - CounterSize
      BY <1>1, <2>1
    <3> QED BY <3>1, <3>2, <3>3 DEF Behind
  <2>2. CASE a # CounterSize - 1
    <3>1. (a + 1) % CounterSize = a + 1
      BY <1>1, <2>2 DEF Counts
    <3>2. (a + 1) - a = 1
      BY <1>3
    <3>3. 1 % CounterSize = 1
      BY <1>1
    <3> QED BY <3>1, <3>2, <3>3 DEF Behind
  <2> QED BY <2>1, <2>2
<1>8. \A a \in Counts : (a + 1) % CounterSize \in Counts
  BY <1>2, <1>3 DEF Counts
<1>9. 0 \in Counts /\ 1 \in Counts
  BY <1>1 DEF Counts
<1> QED BY <1>1, <1>4, <1>5, <1>6, <1>7, <1>8, <1>9

-----------------------------------------------------------------------------
(* The calls of a replay                                                   *)

\* A replay of n changes is a list of n levels.
LEMMA CallsProperties ==
    ASSUME NEW l \in Nat, NEW h \in Nat
    PROVE  /\ Callbacks(l, h) \in Seq(Levels)
           /\ Len(Callbacks(l, h)) = l + h
           /\ DOMAIN Callbacks(l, h) = 1 .. l + h
           /\ Callbacks(l, h) = <<>> <=> l + h = 0
<1> DEFINE c == Callbacks(l, h)
<1>1. l + h \in Nat
  OBVIOUS
<1>2. c \in [1 .. l + h -> Levels]
  BY DEF Callbacks, Levels
<1> HIDE DEF c
<1>3. c \in Seq(Levels)
  BY <1>1, <1>2, SeqDef
<1>4. Len(c) \in Nat /\ DOMAIN c = 1 .. Len(c)
  BY <1>3, LenProperties
<1>5. DOMAIN c = 1 .. l + h
  BY <1>2
<1>6. Len(c) = l + h
  <2> DEFINE n == l + h
             k == Len(c)
  <2>1. n \in Nat /\ k \in Nat /\ 1 .. n = 1 .. k
    BY <1>1, <1>4, <1>5
  <2> HIDE DEF n, k
  <2>2. n = k
    <3>1. n <= k
      <4>1. CASE n = 0
        BY <2>1, <4>1
      <4>2. CASE n # 0
        <5>1. n \in 1 .. k
          BY <2>1, <4>2
        <5> QED BY <2>1, <5>1
      <4> QED BY <4>1, <4>2
    <3>2. k <= n
      <4>1. CASE k = 0
        BY <2>1, <4>1
      <4>2. CASE k # 0
        <5>1. k \in 1 .. n
          BY <2>1, <4>2
        <5> QED BY <2>1, <5>1
      <4> QED BY <4>1, <4>2
    <3> QED BY <2>1, <3>1, <3>2
  <2> QED BY <2>2 DEF n, k
<1>7. c = <<>> <=> l + h = 0
  BY <1>3, <1>6, EmptySeq
<1> QED BY <1>3, <1>5, <1>6, <1>7 DEF c

LEMMA PublishedProperties ==
    ASSUME NEW l \in Nat, NEW h \in Nat
    PROVE  Published(Callbacks(l, h)) \in Nat
<1> DEFINE c == Callbacks(l, h)
           T == {i \in DOMAIN c : c[i] # (IF i = 1 THEN value ELSE c[i - 1])}
<1>1. DOMAIN c = 1 .. l + h
  BY CallsProperties
<1> HIDE DEF c
<1>2. T \subseteq 1 .. l + h
  BY <1>1
<1> HIDE DEF T
<1>3. IsFiniteSet(1 .. l + h)
  BY FS_Interval
<1>4. Cardinality(T) \in Nat
  BY <1>2, <1>3, FS_Subset, FS_CardinalityType
<1> QED BY <1>4 DEF Published, T, c

\* The replay of one change is one call, which is published if it tells
\* another level.
LEMMA OneCall ==
    /\ \A c : c = Callbacks(1, 0) =>
          Len(c) = 1 /\ c[1] = "low" /\ Published(c) = IF value = "low" THEN 0 ELSE 1
    /\ \A c : c = Callbacks(0, 1) =>
          Len(c) = 1 /\ c[1] = "high" /\ Published(c) = IF value = "high" THEN 0 ELSE 1
<1>1. ASSUME NEW c, NEW v, DOMAIN c = 1 .. 1, c[1] = v
      PROVE  Published(c) = IF value = v THEN 0 ELSE 1
  <2> DEFINE T == {i \in DOMAIN c : c[i] # (IF i = 1 THEN value ELSE c[i - 1])}
  <2>1. T = IF value = v THEN {} ELSE {1}
    BY <1>1
  <2> HIDE DEF T
  <2>2. Cardinality({}) = 0 /\ Cardinality({1}) = 1
    BY FS_EmptySet, FS_Singleton
  <2>3. Cardinality(T) = IF value = v THEN 0 ELSE 1
    BY <2>1, <2>2
  <2> QED BY <2>3 DEF Published, T
<1>2. ASSUME NEW c, c = Callbacks(1, 0)
      PROVE  Len(c) = 1 /\ DOMAIN c = 1 .. 1 /\ c[1] = "low"
  <2>0. Len(Callbacks(1, 0)) = 1 + 0 /\ DOMAIN Callbacks(1, 0) = 1 .. 1 + 0
    <3>1. 0 \in Nat /\ 1 \in Nat
      OBVIOUS
    <3> QED BY <3>1, CallsProperties
  <2>1. Len(c) = 1 /\ DOMAIN c = 1 .. 1
    <3>1. 1 + 0 = 1
      OBVIOUS
    <3> QED BY <1>2, <2>0, <3>1
  <2>2. c[1] = "low"
    BY <1>2 DEF Callbacks
  <2> QED BY <2>1, <2>2
<1>3. ASSUME NEW c, c = Callbacks(0, 1)
      PROVE  Len(c) = 1 /\ DOMAIN c = 1 .. 1 /\ c[1] = "high"
  <2>0. Len(Callbacks(0, 1)) = 0 + 1 /\ DOMAIN Callbacks(0, 1) = 1 .. 0 + 1
    <3>1. 0 \in Nat /\ 1 \in Nat
      OBVIOUS
    <3> QED BY <3>1, CallsProperties
  <2>1. Len(c) = 1 /\ DOMAIN c = 1 .. 1
    <3>1. 0 + 1 = 1
      OBVIOUS
    <3> QED BY <1>3, <2>0, <3>1
  <2>2. c[1] = "high"
    BY <1>3 DEF Callbacks
  <2> QED BY <2>1, <2>2
<1> QED BY <1>1, <1>2, <1>3

-----------------------------------------------------------------------------
(* Types                                                                   *)

LEMMA PacketProperties ==
    /\ RegisterPacket \in Packets
    /\ \A l, h \in Counts : StatePacket(l, h) \in Packets
    /\ \A m \in Packets : m.kind \in {"register", "state"}
    /\ \A m \in Packets : m.kind = "state" => m.low \in Counts /\ m.high \in Counts
<1>1. RegisterPacket \in [kind : {"register"}]
  BY DEF RegisterPacket
<1>2. \A l, h \in Counts :
         StatePacket(l, h) \in [kind : {"state"}, low : Counts, high : Counts]
  BY DEF StatePacket
<1>3. \A m \in [kind : {"register"}] : m.kind = "register"
  OBVIOUS
<1>4. \A m \in [kind : {"state"}, low : Counts, high : Counts] :
         m.kind = "state" /\ m.low \in Counts /\ m.high \in Counts
  OBVIOUS
<1> QED BY <1>1, <1>2, <1>3, <1>4 DEF Packets

\* What a packet does to the server.
LEMMA ProcessDataTypes ==
    ASSUME TypeOK, NEW m \in Packets, ProcessData(m)
    PROVE  /\ provider' \in BOOLEAN /\ hasFirstData' \in BOOLEAN
           /\ seenLow' \in Counts /\ seenHigh' \in Counts
           /\ value' \in Levels \cup {"unset"}
           /\ told' \in Nat /\ asked' \in BOOLEAN
<1> USE DEF server
<1>1. CASE m.kind = "register" /\ AddProvider
  BY <1>1, Counting DEF AddProvider, TypeOK
<1>2. CASE m.kind = "state" /\ provider /\ NewState(m)
  <2> DEFINE l == Behind(seenLow, m.low)
             h == Behind(seenHigh, m.high)
             calls == Callbacks(l, h)
  <2>1. m.low \in Counts /\ m.high \in Counts
    BY <1>2, PacketProperties
  <2>2. l \in Nat /\ h \in Nat
    BY <2>1, Counting DEF TypeOK
  <2>3. /\ seenLow' = m.low /\ seenHigh' = m.high
        /\ value' = IF calls = <<>> THEN value ELSE calls[Len(calls)]
        /\ told' = IF hasFirstData THEN told + Published(calls) ELSE told
        /\ hasFirstData' = TRUE
        /\ UNCHANGED <<provider, asked>>
    BY <1>2 DEF NewState
  <2> HIDE DEF l, h
  <2>4. /\ calls \in Seq(Levels)
        /\ Len(calls) = l + h
        /\ calls = <<>> <=> l + h = 0
    BY <2>2, CallsProperties
  <2>5. Published(calls) \in Nat
    BY <2>2, PublishedProperties
  <2> HIDE DEF calls
  <2>6. value' \in Levels \cup {"unset"}
    <3>1. CASE calls = <<>>
      BY <2>3, <3>1 DEF TypeOK
    <3>2. CASE calls # <<>>
      <4>1. Len(calls) \in 1 .. Len(calls)
        BY <2>2, <2>4, <3>2
      <4>2. calls[Len(calls)] \in Levels
        BY <2>4, <4>1, ElementOfSeq
      <4> QED BY <2>3, <3>2, <4>2
    <3> QED BY <3>1, <3>2
  <2>7. told' \in Nat
    BY <2>3, <2>5 DEF TypeOK
  <2> QED BY <2>1, <2>3, <2>6, <2>7 DEF TypeOK
<1>3. CASE m.kind = "state" /\ ~provider /\ UNCHANGED <<server, asked, told>>
  BY <1>3 DEF TypeOK
<1> QED BY <1>1, <1>2, <1>3 DEF ProcessData

\* Adding to and taking from the packets in flight.
LEMMA Sent ==
    ASSUME NEW m \in Packets, up \in Seq(Packets)
    PROVE  Append(up, m) \in Seq(Packets)
<1> QED BY AppendProperties

LEMMA Taken ==
    ASSUME up \in Seq(Packets), up # <<>>
    PROVE  Head(up) \in Packets /\ Head(up) = up[1] /\ Tail(up) \in Seq(Packets)
<1> QED BY HeadTailProperties

LEMMA TypesAreKept == TypeOK /\ [Next]_vars => TypeOK'
<1> SUFFICES ASSUME TypeOK, [Next]_vars
             PROVE  TypeOK'
  OBVIOUS
<1> USE DEF pins, endpoint, server
<1>0. ASSUME NEW kind, Disturb(kind)
      PROVE  faults' \in 0 .. MaxFaults /\ met' \in SUBSET FaultKinds
  BY <1>0, FaultsAssumption DEF Disturb, TypeOK
<1>a. up \in Seq(Packets)
  BY DEF TypeOK
<1>1. CASE UNCHANGED vars
  BY <1>1 DEF TypeOK, vars
<1>2. CASE PinChanges
  BY <1>2 DEF PinChanges, TypeOK, Other, Levels
<1>3. CASE Confirm
  <2>1. low' \in Counts /\ high' \in Counts
    BY <1>3, Counting DEF Confirm, ProvInputSetState, TypeOK
  <2>2. up' \in Seq(Packets)
    BY <1>3, <1>a, <2>1, PacketProperties, Sent DEF Confirm
  <2>3. made' \in 0 .. MaxChanges
    BY <1>3, CounterAssumption DEF Confirm, TypeOK
  <2>4. faults' \in 0 .. MaxFaults /\ met' \in SUBSET FaultKinds
    BY <1>0, <1>3 DEF Confirm, TypeOK
  <2> QED BY <1>3, <2>1, <2>2, <2>3, <2>4 DEF Confirm, TypeOK
<1>4. CASE ConfirmUnheard
  BY <1>4 DEF ConfirmUnheard, TypeOK
<1>5. CASE OtherInput
  <2>1. up' \in Seq(Packets)
    BY <1>5, <1>a, PacketProperties, Sent DEF OtherInput, SendState, TypeOK
  <2> QED BY <1>5, <2>1 DEF OtherInput, SendState, TypeOK
<1>6. CASE SendStateRequested
  <2>1. up' \in Seq(Packets)
    BY <1>6, <1>a, PacketProperties, Sent DEF SendStateRequested, SendState, TypeOK
  <2> QED BY <1>6, <2>1 DEF SendStateRequested, SendState, TypeOK
<1>7. CASE StartSession
  <2>1. up' \in Seq(Packets)
    <3>1. <<RegisterPacket>> \in Seq(Packets)
      BY PacketProperties
    <3> QED BY <1>7, <3>1 DEF StartSession
  <2>2. low' \in Counts /\ high' \in Counts /\ reported' \in BOOLEAN
    BY <1>7, Counting DEF StartSession, ProvInputReset
  <2>3. faults' \in 0 .. MaxFaults /\ met' \in SUBSET FaultKinds
    BY <1>7, FaultsAssumption DEF StartSession
  <2>4. made' \in 0 .. MaxChanges /\ told' \in Nat
    BY <1>7, CounterAssumption DEF StartSession
  <2> QED BY <1>7, <2>1, <2>2, <2>3, <2>4 DEF StartSession, TypeOK
<1>8. CASE RegisterAgain
  <2>1. up' \in Seq(Packets)
    BY <1>8, <1>a, PacketProperties, Sent DEF RegisterAgain
  <2>2. low' \in Counts /\ high' \in Counts /\ reported' \in BOOLEAN
    BY <1>8, Counting DEF RegisterAgain, ProvInputReset
  <2>3. faults' \in 0 .. MaxFaults /\ met' \in SUBSET FaultKinds
    BY <1>0, <1>8 DEF RegisterAgain
  <2> QED BY <1>8, <2>1, <2>2, <2>3 DEF RegisterAgain, TypeOK
<1>9. CASE Deliver
  <2>1. ProcessData(Head(up)) /\ Head(up) \in Packets /\ up' \in Seq(Packets)
    BY <1>9, <1>a, Taken DEF Deliver
  <2>2. /\ provider' \in BOOLEAN /\ hasFirstData' \in BOOLEAN
        /\ seenLow' \in Counts /\ seenHigh' \in Counts
        /\ value' \in Levels \cup {"unset"}
        /\ told' \in Nat /\ asked' \in BOOLEAN
    BY <2>1, ProcessDataTypes
  <2> QED BY <1>9, <2>1, <2>2 DEF Deliver, TypeOK
<1>10. CASE DeliverLate
  <2>1. PICK m \in late : ProcessData(m) /\ late' = late \ {m}
    BY <1>10 DEF DeliverLate
  <2>2. m \in Packets /\ late' \in SUBSET Packets
    BY <2>1 DEF TypeOK
  <2>3. /\ provider' \in BOOLEAN /\ hasFirstData' \in BOOLEAN
        /\ seenLow' \in Counts /\ seenHigh' \in Counts
        /\ value' \in Levels \cup {"unset"}
        /\ told' \in Nat /\ asked' \in BOOLEAN
    BY <2>1, <2>2, ProcessDataTypes
  <2> QED BY <1>10, <2>2, <2>3 DEF DeliverLate, TypeOK
<1>11. CASE EndSession
  <2>1. up' \in Seq(Packets)
    <3>1. up' = <<>>
      BY <1>11 DEF EndSession
    <3> QED BY <3>1
  <2>2. made' \in 0 .. MaxChanges /\ told' \in Nat /\ faults' \in 0 .. MaxFaults
    BY <1>11, CounterAssumption, FaultsAssumption DEF EndSession
  <2>3. low' \in Counts /\ high' \in Counts /\ seenLow' \in Counts /\ seenHigh' \in Counts
    BY <1>11, Counting DEF EndSession
  <2> QED BY <1>11, <2>1, <2>2, <2>3 DEF EndSession, TypeOK
<1>12. CASE Lose
  <2>1. up' \in Seq(Packets) /\ asked' \in BOOLEAN
    <3>1. CASE up # <<>> /\ up' = Tail(up) /\ UNCHANGED asked
      BY <1>a, <3>1, Taken DEF TypeOK
    <3>2. CASE asked /\ asked' = FALSE /\ UNCHANGED up
      BY <1>a, <3>2
    <3> QED BY <1>12, <3>1, <3>2 DEF Lose
  <2>2. faults' \in 0 .. MaxFaults /\ met' \in SUBSET FaultKinds
    BY <1>0, <1>12 DEF Lose
  <2> QED BY <1>12, <2>1, <2>2 DEF Lose, TypeOK
<1>13. CASE Delay
  <2>1. up' \in Seq(Packets) /\ late' \in SUBSET Packets
    BY <1>13, <1>a, Taken DEF Delay, TypeOK
  <2>2. faults' \in 0 .. MaxFaults /\ met' \in SUBSET FaultKinds
    BY <1>0, <1>13 DEF Delay
  <2> QED BY <1>13, <2>1, <2>2 DEF Delay, TypeOK
<1>14. CASE Duplicate
  <2>1. late' \in SUBSET Packets
    BY <1>14, <1>a, Taken DEF Duplicate, TypeOK
  <2>2. faults' \in 0 .. MaxFaults /\ met' \in SUBSET FaultKinds
    BY <1>0, <1>14 DEF Duplicate
  <2> QED BY <1>14, <2>1, <2>2 DEF Duplicate, TypeOK
<1> QED BY <1>1, <1>2, <1>3, <1>4, <1>5, <1>6, <1>7, <1>8, <1>9, <1>10, <1>11,
           <1>12, <1>13, <1>14 DEF Next

LEMMA InitTypes == Init => TypeOK
<1> SUFFICES ASSUME Init PROVE TypeOK
  OBVIOUS
<1>1. up \in Seq(Packets)
  <2>1. up = <<>>
    BY DEF Init
  <2> QED BY <2>1
<1>2. made \in 0 .. MaxChanges /\ faults \in 0 .. MaxFaults /\ told \in Nat
  BY CounterAssumption, FaultsAssumption DEF Init
<1> QED BY <1>1, <1>2, Counting DEF Init, TypeOK

\* The types of endpoint, packets, provider and controller, for every width of
\* the counters and all disturbances.
THEOREM TypeCorrect == Spec => []TypeOK
<1> QED BY InitTypes, TypesAreKept, PTL DEF Spec

-----------------------------------------------------------------------------
(* A session without disturbances                                          *)

\* A point in the life of the input: the counters, the number of changes since
\* the session began, and the level.
At(l, h, n, v) == [low |-> l, high |-> h, edges |-> n, level |-> v]
Points == [low : Counts, high : Counts, edges : Nat, level : Levels]

Now == At(low, high, made, stable)
Seen == At(seenLow, seenHigh, told, value)

First(p) == p = At(0, 1, 0, "high") \/ p = At(1, 0, 0, "low")

After(p) ==
    IF p.level = "high"
    THEN At((p.low + 1) % CounterSize, p.high, p.edges + 1, "low")
    ELSE At(p.low, (p.high + 1) % CounterSize, p.edges + 1, "high")

Step(p, q) == q = p \/ q = After(p)

IsState(i) == up[i].kind = "state"
IsFirst(i) == IsState(i) /\ (i = 1 \/ ~IsState(i - 1))

\* g tells the point at which each state packet in flight was sent: one is at
\* most one change later than the one before it, or than what the server has
\* seen, and the last one is from now.
Track(g) ==
    /\ g \in [DOMAIN up -> Points]
    /\ \A i \in DOMAIN up :
          IsState(i) => up[i].low = g[i].low /\ up[i].high = g[i].high
    /\ \A i, j \in DOMAIN up : j = i + 1 /\ IsState(i) => Step(g[i], g[j])
    /\ \A i \in DOMAIN up : IsFirst(i) =>
          IF hasFirstData THEN Step(Seen, g[i]) ELSE First(g[i])
    /\ \A i \in DOMAIN up : i = Len(up) /\ IsState(i) => g[i] = Now

Undisturbed ==
    session /\ met = {} =>
        /\ late = {}
        /\ \A i \in DOMAIN up : ~IsState(i) => i = 1 /\ ~provider
        /\ provider \/ (1 \in DOMAIN up /\ ~IsState(1))
        /\ hasFirstData => provider
        /\ ~hasFirstData => seenLow = 0 /\ seenHigh = 0 /\ told = 0
        /\ ~reported => /\ First(Now) /\ ~hasFirstData
                        /\ \A i \in DOMAIN up : ~IsState(i)
        /\ reported /\ (\A i \in DOMAIN up : ~IsState(i)) =>
              hasFirstData /\ Seen = Now
        /\ \E g : Track(g)

\* Nothing is left of a session that has ended.
Idle ==
    ~session =>
        /\ up = <<>> /\ late = {} /\ ~asked
        /\ ~provider /\ ~hasFirstData
        /\ seenLow = 0 /\ seenHigh = 0 /\ told = 0

LEMMA PointProperties ==
    /\ TypeOK => Now \in Points /\ After(Now) \in Points
    /\ \A p \in Points :
          /\ p.low \in Counts /\ p.high \in Counts
          /\ p.edges \in Nat /\ p.level \in Levels
          /\ p = At(p.low, p.high, p.edges, p.level)
    /\ \A p : First(p) => p \in Points
<1>1. \A l, h \in Counts, n \in Nat, v \in Levels : At(l, h, n, v) \in Points
  BY DEF At, Points
<1>2. ASSUME TypeOK PROVE Now \in Points
  <2>1. low \in Counts /\ high \in Counts /\ made \in Nat /\ stable \in Levels
    BY <1>2, CounterAssumption DEF TypeOK
  <2> QED BY <1>1, <2>1 DEF Now
<1>3. \A p \in Points :
          /\ p.low \in Counts /\ p.high \in Counts
          /\ p.edges \in Nat /\ p.level \in Levels
          /\ p = At(p.low, p.high, p.edges, p.level)
  BY DEF At, Points
<1>4. ASSUME NEW p \in Points PROVE After(p) \in Points
  <2>1. /\ (p.low + 1) % CounterSize \in Counts
        /\ (p.high + 1) % CounterSize \in Counts
        /\ p.edges + 1 \in Nat
    BY <1>3, Counting
  <2>2. "low" \in Levels /\ "high" \in Levels
    BY DEF Levels
  <2> QED BY <1>1, <1>3, <2>1, <2>2 DEF After
<1>5. ASSUME NEW p, First(p) PROVE p \in Points
  <2>1. "low" \in Levels /\ "high" \in Levels
    BY DEF Levels
  <2> QED BY <1>1, <1>5, <2>1, Counting DEF First
<1> QED BY <1>2, <1>3, <1>4, <1>5

\* A confirmed level is the change after now.
LEMMA ConfirmIsAfter ==
    ASSUME TypeOK, pin # stable, stable' = pin, ProvInputSetState(pin), made' = made + 1
    PROVE  Now' = After(Now)
<1>1. CASE stable = "high" /\ pin = "low"
  <2>1. low' = (low + 1) % CounterSize /\ high' = high
    BY <1>1 DEF ProvInputSetState
  <2> QED BY <1>1, <2>1 DEF Now, After, At
<1>2. CASE stable = "low" /\ pin = "high"
  <2>1. high' = (high + 1) % CounterSize /\ low' = low
    BY <1>2 DEF ProvInputSetState
  <2> QED BY <1>2, <2>1 DEF Now, After, At
<1> QED BY <1>1, <1>2 DEF TypeOK, Levels

\* The replay brings the server to the point the packet was sent at, and tells
\* the change on the way.
LEMMA SeesThePoint ==
    ASSUME TypeOK, NEW m, NEW p \in Points,
           m.low = p.low, m.high = p.high, NewState(m),
           IF hasFirstData THEN Step(Seen, p)
           ELSE First(p) /\ seenLow = 0 /\ seenHigh = 0 /\ told = 0
    PROVE  Seen' = p /\ hasFirstData' /\ UNCHANGED <<provider, asked>>
<1> DEFINE l == Behind(seenLow, m.low)
           h == Behind(seenHigh, m.high)
           calls == Callbacks(l, h)
<1>1. /\ seenLow' = p.low /\ seenHigh' = p.high
      /\ value' = IF calls = <<>> THEN value ELSE calls[Len(calls)]
      /\ told' = IF hasFirstData THEN told + Published(calls) ELSE told
      /\ hasFirstData' /\ UNCHANGED <<provider, asked>>
  BY DEF NewState
<1>2. /\ p.low \in Counts /\ p.high \in Counts /\ p.edges \in Nat /\ p.level \in Levels
      /\ p = At(p.low, p.high, p.edges, p.level)
  BY PointProperties
<1>3. seenLow \in Counts /\ seenHigh \in Counts /\ told \in Nat
  BY DEF TypeOK
<1>4. Seen' = p <=> /\ seenLow' = p.low /\ seenHigh' = p.high
                    /\ told' = p.edges /\ value' = p.level
  BY <1>2 DEF Seen, At
<1>5. calls = <<>> <=> l + h = 0
  <2>1. l \in Nat /\ h \in Nat
    BY <1>2, <1>3, Counting
  <2> HIDE DEF l, h
  <2> QED BY <2>1, CallsProperties
<1>6. /\ l = 1 /\ h = 0 => calls = Callbacks(1, 0)
      /\ l = 0 /\ h = 1 => calls = Callbacks(0, 1)
  OBVIOUS
<1>l. l = Behind(seenLow, p.low) /\ h = Behind(seenHigh, p.high)
  OBVIOUS
<1> HIDE DEF l, h, calls
<1>7. CASE hasFirstData /\ p = Seen
  <2>1. p.low = seenLow /\ p.high = seenHigh /\ p.edges = told /\ p.level = value
    BY <1>7 DEF Seen, At
  <2>2. l = 0 /\ h = 0
    BY <1>3, <1>l, <2>1, Counting
  <2>3. calls = <<>>
    BY <1>5, <2>2
  <2>4. l \in Nat /\ h \in Nat
    BY <2>2
  <2>5. Published(<<>>) = 0
    <3>1. {i \in DOMAIN <<>> : <<>>[i] # (IF i = 1 THEN value ELSE <<>>[i - 1])} = {}
      OBVIOUS
    <3> QED BY <3>1, FS_EmptySet DEF Published
  <2> QED BY <1>1, <1>3, <1>4, <1>7, <2>1, <2>3, <2>5
<1>8. CASE hasFirstData /\ p = After(Seen) /\ value = "high"
  <2>1. /\ p.low = (seenLow + 1) % CounterSize /\ p.high = seenHigh
        /\ p.edges = told + 1 /\ p.level = "low"
    BY <1>8 DEF Seen, At, After
  <2>2. l = 1 /\ h = 0
    BY <1>3, <1>l, <2>1, Counting
  <2>3. Len(calls) = 1 /\ calls[1] = "low" /\ Published(calls) = 1
    BY <1>6, <1>8, <2>2, OneCall
  <2>4. calls # <<>>
    BY <1>5, <2>2
  <2> QED BY <1>1, <1>4, <1>8, <2>1, <2>3, <2>4
<1>9. CASE hasFirstData /\ p = After(Seen) /\ value # "high"
  <2>1. /\ p.low = seenLow /\ p.high = (seenHigh + 1) % CounterSize
        /\ p.edges = told + 1 /\ p.level = "high"
    BY <1>9 DEF Seen, At, After
  <2>2. l = 0 /\ h = 1
    BY <1>3, <1>l, <2>1, Counting
  <2>3. Len(calls) = 1 /\ calls[1] = "high" /\ Published(calls) = 1
    BY <1>6, <1>9, <2>2, OneCall
  <2>4. calls # <<>>
    BY <1>5, <2>2
  <2> QED BY <1>1, <1>4, <1>9, <2>1, <2>3, <2>4
<1>10. CASE ~hasFirstData
  <2>0. /\ seenLow = 0 /\ seenHigh = 0 /\ told = 0
        /\ First(p)
    BY <1>10
  <2>1. Behind(0, 0) = 0 /\ Behind(0, 1) = 1
    <3>1. (0 + 1) % CounterSize = 1
      BY Counting
    <3> QED BY <3>1, Counting
  <2>2. CASE p = At(0, 1, 0, "high")
    <3>1. p.low = 0 /\ p.high = 1 /\ p.edges = 0 /\ p.level = "high"
      BY <2>2 DEF At
    <3>2. l = 0 /\ h = 1
      BY <1>l, <2>0, <2>1, <3>1
    <3>3. Len(calls) = 1 /\ calls[1] = "high" /\ calls # <<>>
      BY <1>5, <1>6, <3>2, OneCall
    <3> QED BY <1>1, <1>4, <1>10, <2>0, <3>1, <3>3
  <2>3. CASE p = At(1, 0, 0, "low")
    <3>1. p.low = 1 /\ p.high = 0 /\ p.edges = 0 /\ p.level = "low"
      BY <2>3 DEF At
    <3>2. l = 1 /\ h = 0
      BY <1>l, <2>0, <2>1, <3>1
    <3>3. Len(calls) = 1 /\ calls[1] = "low" /\ calls # <<>>
      BY <1>5, <1>6, <3>2, OneCall
    <3> QED BY <1>1, <1>4, <1>10, <2>0, <3>1, <3>3
  <2> QED BY <2>0, <2>2, <2>3 DEF First
<1> QED BY <1>7, <1>8, <1>9, <1>10 DEF Step

\* A packet with the counters as they are, or after one more change, continues
\* the track.
LEMMA TrackGrows ==
    ASSUME TypeOK, Undisturbed, session, met = {}, NEW p \in Points,
           p = Now \/ (reported /\ p = After(Now)),
           up' = Append(up, StatePacket(p.low, p.high)), Now' = p, reported',
           UNCHANGED <<session, met, late, provider, seenLow, seenHigh,
                       hasFirstData, value, told>>
    PROVE  Undisturbed'
<1>0. Len(up) \in Nat /\ DOMAIN up = 1 .. Len(up) /\ up \in Seq(Packets)
  BY LenProperties DEF TypeOK
<1>n. PICK n \in Nat : n = Len(up)
  BY <1>0
<1>1. n = Len(up) /\ n \in Nat /\ DOMAIN up = 1 .. n /\ up \in Seq(Packets)
  BY <1>0, <1>n
<1>2. p.low \in Counts /\ p.high \in Counts
  BY PointProperties
<1>3. StatePacket(p.low, p.high) \in Packets
  BY <1>2, PacketProperties
<1>4. /\ up' \in Seq(Packets) /\ Len(up') = n + 1
      /\ \A i \in 1 .. n : up'[i] = up[i]
      /\ up'[n + 1] = StatePacket(p.low, p.high)
  BY <1>1, <1>3, AppendProperties
<1>5. DOMAIN up' = 1 .. n + 1
  BY <1>4, LenProperties
<1>6. IsState(n + 1)'
  BY <1>4 DEF IsState, StatePacket
<1>7. \A i \in 1 .. n : IsState(i)' <=> IsState(i)
  BY <1>4 DEF IsState
<1>8. Seen' = Seen
  BY DEF Seen
<1>9. PICK g : Track(g)
  BY DEF Undisturbed
<1> DEFINE f == [i \in 1 .. n + 1 |-> IF i = n + 1 THEN p ELSE g[i]]
<1>10. Track(f)'
  <2>1. \A i \in 1 .. n : g[i] \in Points
    BY <1>1, <1>9 DEF Track
  <2>2. f \in [DOMAIN up' -> Points]
    BY <1>1, <1>5, <2>1
  <2>3. f[n + 1] = p /\ \A i \in 1 .. n : f[i] = g[i]
    BY <1>1
  <2> HIDE DEF f
  <2>4. \A i \in DOMAIN up' : IsState(i)' => up'[i].low = f[i].low /\ up'[i].high = f[i].high
    <3>1. \A i \in 1 .. n : IsState(i)' => up'[i].low = f[i].low /\ up'[i].high = f[i].high
      BY <1>1, <1>4, <1>7, <1>9, <2>3 DEF Track
    <3>2. up'[n + 1].low = f[n + 1].low /\ up'[n + 1].high = f[n + 1].high
      BY <1>4, <2>3 DEF StatePacket
    <3> QED BY <1>1, <1>5, <3>1, <3>2
  <2>5. \A i, j \in DOMAIN up' : j = i + 1 /\ IsState(i)' => Step(f[i], f[j])
    <3> SUFFICES ASSUME NEW i \in 1 .. n, IsState(i)
                 PROVE  Step(f[i], f[i + 1])
      BY <1>1, <1>5, <1>7
    <3>1. CASE i < n
      <4>1. i \in DOMAIN up /\ i + 1 \in DOMAIN up /\ i + 1 \in 1 .. n
        BY <1>1, <3>1
      <4>2. Step(g[i], g[i + 1])
        BY <1>9, <4>1 DEF Track
      <4> QED BY <2>3, <4>1, <4>2
    <3>2. CASE i = n
      <4>1. n \in DOMAIN up /\ g[n] = Now
        BY <1>1, <1>9, <3>2 DEF Track
      <4> QED BY <2>3, <3>2, <4>1 DEF Step
    <3> QED BY <1>1, <3>1, <3>2
  <2>6. \A i \in DOMAIN up' : IsFirst(i)' =>
          IF hasFirstData' THEN Step(Seen', f[i]) ELSE First(f[i])
    <3> SUFFICES ASSUME NEW i \in 1 .. n + 1, IsFirst(i)'
                 PROVE  IF hasFirstData THEN Step(Seen, f[i]) ELSE First(f[i])
      BY <1>5, <1>8
    <3>1. CASE i \in 1 .. n
      <4>1. i # 1 => i - 1 \in 1 .. n
        BY <1>1, <3>1
      <4>2. IsFirst(i)
        BY <1>7, <3>1, <4>1 DEF IsFirst
      <4> QED BY <1>1, <1>9, <2>3, <3>1, <4>2 DEF Track
    <3>2. CASE i = n + 1
      <4>1. \A k \in DOMAIN up : ~IsState(k)
        <5>1. CASE n = 0
          BY <1>1, <5>1
        <5>2. CASE n # 0
          <6>1. n \in 1 .. n /\ (n + 1) - 1 = n /\ n + 1 # 1
            BY <1>1, <5>2
          <6>2. ~IsState(n)
            BY <1>7, <3>2, <6>1 DEF IsFirst
          <6>3. n = 1
            BY <1>1, <6>1, <6>2 DEF Undisturbed
          <6> QED BY <1>1, <6>2, <6>3
        <5> QED BY <5>1, <5>2
      <4>2. CASE reported
        <5>1. hasFirstData /\ Seen = Now
          BY <4>1, <4>2 DEF Undisturbed
        <5> QED BY <2>3, <3>2, <5>1 DEF Step
      <4>3. CASE ~reported
        <5>1. ~hasFirstData /\ First(Now)
          BY <4>3 DEF Undisturbed
        <5> QED BY <2>3, <3>2, <4>3, <5>1
      <4> QED BY <4>2, <4>3
    <3> QED BY <1>1, <3>1, <3>2
  <2>7. \A i \in DOMAIN up' : i = Len(up') /\ IsState(i)' => f[i] = Now'
    BY <1>4, <2>3
  <2> QED BY <2>2, <2>4, <2>5, <2>6, <2>7 DEF Track
<1>11. \A i \in DOMAIN up' : ~IsState(i)' => i = 1 /\ ~provider'
  BY <1>1, <1>5, <1>6, <1>7 DEF Undisturbed
<1>12. provider' \/ (1 \in DOMAIN up' /\ ~IsState(1)')
  BY <1>1, <1>5, <1>7 DEF Undisturbed
<1>13. ~(\A i \in DOMAIN up' : ~IsState(i)')
  BY <1>1, <1>5, <1>6
<1>14. /\ late' = {}
       /\ hasFirstData' => provider'
       /\ ~hasFirstData' => seenLow' = 0 /\ seenHigh' = 0 /\ told' = 0
  BY DEF Undisturbed
<1> HIDE DEF f
<1> QED BY <1>10, <1>11, <1>12, <1>13, <1>14 DEF Undisturbed

\* A packet that arrives shortens the track.
LEMMA TrackShrinks ==
    ASSUME TypeOK, Undisturbed, session, met = {},
           up # <<>>, up' = Tail(up), ProcessData(Head(up)),
           UNCHANGED <<session, met, late, low, high, made, stable, reported>>
    PROVE  Undisturbed'
<1>0. Len(up) \in Nat /\ DOMAIN up = 1 .. Len(up) /\ up \in Seq(Packets)
  BY LenProperties DEF TypeOK
<1>n. PICK n \in Nat : n = Len(up)
  BY <1>0
<1>1. n = Len(up) /\ n \in Nat /\ DOMAIN up = 1 .. n /\ up \in Seq(Packets)
  BY <1>0, <1>n
<1>2. n # 0 /\ 1 \in DOMAIN up
  BY <1>1, EmptySeq
<1>3. /\ Head(up) = up[1]
      /\ up' \in Seq(Packets) /\ Len(up') = n - 1
      /\ \A i \in 1 .. n - 1 : up'[i] = up[i + 1]
  BY <1>1, HeadTailProperties
<1>4. DOMAIN up' = 1 .. n - 1
  BY <1>3, LenProperties
<1>5. \A i \in 1 .. n - 1 : i + 1 \in DOMAIN up /\ i + 1 # 1
  BY <1>1
<1>6. \A i \in 1 .. n - 1 : IsState(i)' /\ IsState(i + 1)
  <2>1. \A i \in 1 .. n - 1 : IsState(i + 1)
    BY <1>5 DEF Undisturbed
  <2> QED BY <1>3, <2>1 DEF IsState
<1>7. PICK g : Track(g)
  BY DEF Undisturbed
<1>8. Now' = Now
  BY DEF Now
<1> DEFINE f == [i \in 1 .. n - 1 |-> g[i + 1]]
<1>9. /\ f \in [DOMAIN up' -> Points]
      /\ \A i \in DOMAIN up' :
            IsState(i)' => up'[i].low = f[i].low /\ up'[i].high = f[i].high
      /\ \A i, j \in DOMAIN up' : j = i + 1 /\ IsState(i)' => Step(f[i], f[j])
      /\ \A i \in DOMAIN up' : i = Len(up') /\ IsState(i)' => f[i] = Now'
  <2>1. \A i \in DOMAIN up : g[i] \in Points
    BY <1>7 DEF Track
  <2>2. f \in [DOMAIN up' -> Points]
    BY <1>4, <1>5, <2>1
  <2>3. \A i \in 1 .. n - 1 : f[i] = g[i + 1]
    OBVIOUS
  <2> HIDE DEF f
  <2>4. \A i \in DOMAIN up' : up'[i].low = f[i].low /\ up'[i].high = f[i].high
    BY <1>3, <1>4, <1>5, <1>6, <1>7, <2>3 DEF Track
  <2>5. \A i, j \in DOMAIN up' : j = i + 1 => Step(f[i], f[j])
    <3> SUFFICES ASSUME NEW i \in 1 .. n - 1, i + 1 \in 1 .. n - 1
                 PROVE  Step(f[i], f[i + 1])
      BY <1>4
    <3>1. IsState(i + 1) /\ i + 1 \in DOMAIN up /\ (i + 1) + 1 \in DOMAIN up
      BY <1>5, <1>6
    <3>2. Step(g[i + 1], g[(i + 1) + 1])
      BY <1>7, <3>1 DEF Track
    <3> QED BY <2>3, <3>2
  <2>6. \A i \in DOMAIN up' : i = Len(up') => f[i] = Now'
    <3> SUFFICES ASSUME NEW i \in 1 .. n - 1, i = n - 1
                 PROVE  f[i] = Now
      BY <1>3, <1>4, <1>8
    <3>1. i + 1 = n /\ i + 1 \in DOMAIN up /\ IsState(i + 1)
      BY <1>1, <1>5, <1>6
    <3>2. g[i + 1] = Now
      BY <1>1, <1>7, <3>1 DEF Track
    <3> QED BY <2>3, <3>2
  <2> QED BY <2>2, <2>4, <2>5, <2>6
<1>10. \A i \in DOMAIN up' : IsFirst(i)' => i = 1
  <2> SUFFICES ASSUME NEW i \in 1 .. n - 1, i # 1
               PROVE  ~IsFirst(i)'
    BY <1>4
  <2>1. i - 1 \in 1 .. n - 1
    BY <1>1
  <2>2. IsState(i - 1)'
    BY <1>6, <2>1
  <2> QED BY <2>2 DEF IsFirst
<1>11. f[1] = g[2] \/ DOMAIN up' = {}
  BY <1>1, <1>2, <1>4
<1> HIDE DEF f
<1>12. CASE ~IsState(1)
  <2>1. AddProvider /\ ~provider /\ ~hasFirstData
    <3>1. up[1].kind \in {"register", "state"}
      BY <1>1, <1>2, PacketProperties, ElementOfSeq
    <3>2. ~provider
      BY <1>2, <1>12 DEF Undisturbed
    <3>3. ~hasFirstData
      BY <3>2 DEF Undisturbed
    <3> QED BY <1>3, <1>12, <3>1, <3>2, <3>3 DEF ProcessData, IsState
  <2>2. /\ provider' /\ ~hasFirstData' /\ seenLow' = 0 /\ seenHigh' = 0
        /\ told' = told /\ told = 0
    BY <2>1 DEF AddProvider, Undisturbed
  <2>3. \A i \in DOMAIN up' : IsFirst(i)' => First(f[i])
    <3> SUFFICES ASSUME 1 \in DOMAIN up'
                 PROVE  First(g[2])
      BY <1>10, <1>11
    <3>1. 2 \in DOMAIN up /\ 2 - 1 = 1 /\ 1 \in 1 .. n - 1
      BY <1>1, <1>4
    <3>2. IsState(1 + 1)
      BY <1>6, <3>1
    <3>3. IsFirst(2)
      BY <1>12, <3>1, <3>2 DEF IsFirst
    <3> QED BY <1>7, <2>1, <3>1, <3>3 DEF Track
  <2>4. Track(f)'
    BY <1>9, <2>2, <2>3 DEF Track
  <2>5. ~(reported' /\ \A i \in DOMAIN up' : ~IsState(i)')
    <3> SUFFICES ASSUME reported, \A i \in DOMAIN up' : ~IsState(i)'
                 PROVE  FALSE
      OBVIOUS
    <3>1. \A i \in 1 .. n - 1 : FALSE
      BY <1>4, <1>6
    <3>2. n = 1
      <4> SUFFICES ASSUME n # 1 PROVE FALSE
        OBVIOUS
      <4>1. 1 \in 1 .. n - 1
        BY <1>1, <1>2
      <4> QED BY <3>1, <4>1
    <3>3. \A i \in DOMAIN up : ~IsState(i)
      BY <1>1, <1>12, <3>2
    <3>4. hasFirstData
      BY <3>3 DEF Undisturbed
    <3> QED BY <2>1, <3>4
  <2>6. ~reported' => First(Now)'
    BY <1>8 DEF Undisturbed, First, Now, At
  <2>7. ~reported' => \A i \in DOMAIN up' : ~IsState(i)'
    <3> SUFFICES ASSUME ~reported PROVE \A i \in DOMAIN up' : FALSE
      OBVIOUS
    <3>1. \A i \in DOMAIN up : ~IsState(i)
      BY DEF Undisturbed
    <3> QED BY <1>4, <1>5, <1>6, <3>1
  <2>8. late' = {} /\ \A i \in DOMAIN up' : IsState(i)'
    BY <1>4, <1>6 DEF Undisturbed
  <2> QED BY <2>2, <2>4, <2>5, <2>6, <2>7, <2>8 DEF Undisturbed
<1>13. CASE IsState(1)
  <2>1. provider /\ reported
    BY <1>2, <1>13 DEF Undisturbed
  <2>2. NewState(up[1])
    BY <1>3, <1>13, <2>1 DEF ProcessData, IsState
  <2>3. /\ g[1] \in Points /\ up[1].low = g[1].low /\ up[1].high = g[1].high
        /\ IF hasFirstData THEN Step(Seen, g[1]) ELSE First(g[1])
    BY <1>2, <1>7, <1>13 DEF Track, IsFirst
  <2>4. ~hasFirstData => seenLow = 0 /\ seenHigh = 0 /\ told = 0
    BY DEF Undisturbed
  <2>5. Seen' = g[1] /\ hasFirstData' /\ provider' = provider
    <3>1. IF hasFirstData THEN Step(Seen, g[1])
          ELSE First(g[1]) /\ seenLow = 0 /\ seenHigh = 0 /\ told = 0
      BY <2>3, <2>4
    <3> QED BY <2>2, <2>3, <3>1, SeesThePoint
  <2>6. \A i \in DOMAIN up' : IsFirst(i)' => Step(Seen', f[i])
    <3> SUFFICES ASSUME 1 \in DOMAIN up'
                 PROVE  Step(g[1], g[2])
      BY <1>10, <1>11, <2>5
    <3>1. 2 \in DOMAIN up /\ 2 = 1 + 1
      BY <1>1, <1>4
    <3> QED BY <1>2, <1>7, <1>13, <3>1 DEF Track
  <2>7. Track(f)'
    BY <1>9, <2>5, <2>6 DEF Track
  <2>8. (\A i \in DOMAIN up' : ~IsState(i)') => Seen' = Now'
    <3> SUFFICES ASSUME \A i \in DOMAIN up' : ~IsState(i)'
                 PROVE  g[1] = Now
      BY <1>8, <2>5
    <3>1. \A i \in 1 .. n - 1 : FALSE
      BY <1>4, <1>6
    <3>2. n = 1
      <4> SUFFICES ASSUME n # 1 PROVE FALSE
        OBVIOUS
      <4>1. 1 \in 1 .. n - 1
        BY <1>1, <1>2
      <4> QED BY <3>1, <4>1
    <3> QED BY <1>1, <1>2, <1>7, <1>13, <3>2 DEF Track
  <2>9. late' = {} /\ \A i \in DOMAIN up' : IsState(i)'
    BY <1>4, <1>6 DEF Undisturbed
  <2> QED BY <2>1, <2>5, <2>7, <2>8, <2>9 DEF Undisturbed
<1> QED BY <1>12, <1>13

LEMMA IdleIsKept == TypeOK /\ Idle /\ [Next]_vars => Idle'
<1> SUFFICES ASSUME TypeOK, Idle, [Next]_vars, ~session'
             PROVE  Idle'
  BY DEF Idle
<1> USE DEF pins, endpoint, server
<1>1. CASE UNCHANGED vars
  BY <1>1 DEF Idle, vars
<1>2. CASE PinChanges
  BY <1>2 DEF PinChanges, Idle
<1>3. CASE Confirm
  BY <1>3 DEF Confirm
<1>4. CASE ConfirmUnheard
  BY <1>4 DEF ConfirmUnheard, Idle
<1>5. CASE OtherInput
  BY <1>5 DEF OtherInput
<1>6. CASE SendStateRequested
  BY <1>6 DEF SendStateRequested, Idle
<1>7. CASE StartSession
  BY <1>7 DEF StartSession
<1>8. CASE RegisterAgain
  BY <1>8 DEF RegisterAgain
<1>9. CASE Deliver
  BY <1>9 DEF Deliver, Idle
<1>10. CASE DeliverLate
  BY <1>10 DEF DeliverLate, Idle
<1>11. CASE EndSession
  BY <1>11 DEF EndSession, Idle
<1>12. CASE Lose
  BY <1>12 DEF Lose, Idle
<1>13. CASE Delay
  BY <1>13 DEF Delay, Idle
<1>14. CASE Duplicate
  BY <1>14 DEF Duplicate, Idle
<1> QED BY <1>1, <1>2, <1>3, <1>4, <1>5, <1>6, <1>7, <1>8, <1>9, <1>10, <1>11,
           <1>12, <1>13, <1>14 DEF Next

\* A session that begins on a steady input.
LEMMA UndisturbedBegins ==
    ASSUME TypeOK, Idle, StartSession, met' = {}
    PROVE  Undisturbed'
<1> USE DEF pins, endpoint, server
<1>1. /\ ~session /\ up' = <<RegisterPacket>> /\ made' = 0 /\ told' = 0
      /\ ProvInputReset /\ pin = stable
      /\ UNCHANGED <<pin, stable, late, provider, seenLow, seenHigh, hasFirstData, value>>
  BY DEF StartSession
<1>2. DOMAIN up' = {1} /\ up'[1] = RegisterPacket
  BY <1>1
<1>3. ~IsState(1)'
  BY <1>2 DEF IsState, RegisterPacket
<1>4. First(Now)' /\ reported' = FALSE
  <2>1. pin = "high" \/ pin = "low"
    BY DEF TypeOK, Levels
  <2>2. Now' = At(low', high', 0, pin)
    BY <1>1 DEF Now
  <2>3. First(Now') /\ reported' = FALSE
    BY <1>1, <2>1, <2>2 DEF ProvInputReset, First
  <2> QED BY <2>3 DEF First
<1> DEFINE g == [i \in {1} |-> At(0, 1, 0, "high")]
<1>5. Track(g)'
  <2>1. At(0, 1, 0, "high") \in Points
    BY PointProperties DEF First
  <2>2. g \in [DOMAIN up' -> Points]
    BY <1>2, <2>1
  <2> HIDE DEF g
  <2> QED BY <1>2, <1>3, <2>2 DEF Track, IsFirst
<1>6. /\ late' = {} /\ ~provider' /\ ~hasFirstData'
      /\ seenLow' = 0 /\ seenHigh' = 0 /\ told' = 0
  BY <1>1 DEF Idle
<1> HIDE DEF g
<1> QED BY <1>2, <1>3, <1>4, <1>5, <1>6 DEF Undisturbed

LEMMA UndisturbedIsKept == TypeOK /\ Idle /\ Undisturbed /\ [Next]_vars => Undisturbed'
<1> SUFFICES ASSUME TypeOK, Idle, Undisturbed, [Next]_vars, session', met' = {}
             PROVE  Undisturbed'
  BY DEF Undisturbed
<1> USE DEF pins, endpoint, server
<1>0. ASSUME NEW kind, Disturb(kind) PROVE FALSE
  BY <1>0 DEF Disturb
<1>1. CASE UNCHANGED vars
  BY <1>1 DEF vars, Undisturbed, Track, First, Now, Seen, At, IsFirst, IsState
<1>2. CASE PinChanges
  BY <1>2 DEF PinChanges, Undisturbed, Track, First, Now, Seen, At, IsFirst, IsState
<1>3. CASE Confirm
  <2>1. /\ session /\ pin # stable /\ stable' = pin /\ ProvInputSetState(pin)
        /\ up' = Append(up, StatePacket(low', high'))
        /\ reported' = TRUE /\ made' = made + 1
        /\ UNCHANGED <<session, late, provider, seenLow, seenHigh, hasFirstData,
                       value, told>>
    BY <1>3 DEF Confirm
  <2>2. reported /\ met' = met
    BY <1>0, <1>3 DEF Confirm
  <2>3. Now' = After(Now)
    BY <2>1, ConfirmIsAfter
  <2>4. PICK p \in Points : p = After(Now)
    BY PointProperties
  <2>5. p.low = low' /\ p.high = high'
    BY <2>3, <2>4 DEF Now, At
  <2> QED BY <2>1, <2>2, <2>3, <2>4, <2>5, TrackGrows
<1>4. CASE ConfirmUnheard
  BY <1>4 DEF ConfirmUnheard
<1>5. CASE OtherInput
  <2>1. /\ session /\ up' = Append(up, StatePacket(low, high)) /\ reported' = TRUE
        /\ UNCHANGED <<session, met, late, provider, seenLow, seenHigh, hasFirstData,
                       value, told, low, high, made, stable>>
    BY <1>5 DEF OtherInput, SendState
  <2>2. PICK p \in Points : p = Now
    BY PointProperties
  <2>3. Now' = p /\ p.low = low /\ p.high = high
    BY <2>1, <2>2 DEF Now, At
  <2> QED BY <2>1, <2>2, <2>3, TrackGrows
<1>6. CASE SendStateRequested
  <2>1. /\ session /\ up' = Append(up, StatePacket(low, high)) /\ reported' = TRUE
        /\ UNCHANGED <<session, met, late, provider, seenLow, seenHigh, hasFirstData,
                       value, told, low, high, made, stable>>
    BY <1>6 DEF SendStateRequested, SendState
  <2>2. PICK p \in Points : p = Now
    BY PointProperties
  <2>3. Now' = p /\ p.low = low /\ p.high = high
    BY <2>1, <2>2 DEF Now, At
  <2> QED BY <2>1, <2>2, <2>3, TrackGrows
<1>7. CASE StartSession
  BY <1>7, UndisturbedBegins
<1>8. CASE RegisterAgain
  BY <1>0, <1>8 DEF RegisterAgain
<1>9. CASE Deliver
  BY <1>9, TrackShrinks DEF Deliver
<1>10. CASE DeliverLate
  BY <1>10 DEF DeliverLate, Undisturbed
<1>11. CASE EndSession
  BY <1>11 DEF EndSession
<1>12. CASE Lose
  BY <1>0, <1>12 DEF Lose
<1>13. CASE Delay
  BY <1>0, <1>13 DEF Delay
<1>14. CASE Duplicate
  BY <1>0, <1>14 DEF Duplicate
<1> QED BY <1>1, <1>2, <1>3, <1>4, <1>5, <1>6, <1>7, <1>8, <1>9, <1>10, <1>11,
           <1>12, <1>13, <1>14 DEF Next

LEMMA Invariants == Spec => [](TypeOK /\ Idle /\ Undisturbed)
<1>1. Init => TypeOK /\ Idle /\ Undisturbed
  BY InitTypes DEF Init, Idle, Undisturbed
<1>2. TypeOK /\ Idle /\ Undisturbed /\ [Next]_vars => (TypeOK /\ Idle /\ Undisturbed)'
  BY TypesAreKept, IdleIsKept, UndisturbedIsKept
<1> QED BY <1>1, <1>2, PTL DEF Spec

\* In a session without disturbances every change is told once and the last
\* level is the true one, for counters of every width and however many changes
\* are made: no packet in flight is more than one change behind the next.
THEOREM NothingIsMissed == Spec => []NothingMissed
<1>1. TypeOK /\ Idle /\ Undisturbed => NothingMissed
  <2> SUFFICES ASSUME TypeOK, Idle, Undisturbed, Quiet, met = {}
               PROVE  value = stable /\ told = made
    BY DEF NothingMissed
  <2>1. provider /\ hasFirstData /\ up = <<>>
    BY DEF Quiet
  <2>2. session
    BY <2>1 DEF Idle
  <2>3. reported /\ DOMAIN up = {}
    BY <2>1, <2>2 DEF Undisturbed
  <2>4. Seen = Now
    BY <2>2, <2>3 DEF Undisturbed
  <2> QED BY <2>4 DEF Seen, Now, At
<1> QED BY <1>1, Invariants, PTL

-----------------------------------------------------------------------------
(* A session that only loses packets, or begins with an early change       *)

\* A difference of counters, without the modulus.
LEMMA BehindValue ==
    \A a, b \in Counts :
        Behind(a, b) = IF a <= b THEN b - a ELSE (b - a) + CounterSize
<1> SUFFICES ASSUME NEW a \in Counts, NEW b \in Counts
             PROVE  Behind(a, b) = IF a <= b THEN b - a ELSE (b - a) + CounterSize
  OBVIOUS
<1>1. CounterSize \in Nat /\ CounterSize > 1 /\ a \in Nat /\ b \in Nat
      /\ a < CounterSize /\ b < CounterSize
  BY Counting DEF Counts
<1>2. CASE a <= b
  <2>1. b - a \in 0 .. CounterSize - 1
    BY <1>1, <1>2
  <2>2. (b - a) % CounterSize = b - a
    BY <1>1, <2>1
  <2> QED BY <1>2, <2>2 DEF Behind
<1>3. CASE ~(a <= b)
  <2>1. (b - a) + CounterSize \in 0 .. CounterSize - 1 /\ b - a \in Int
    BY <1>1, <1>3
  <2>2. (b - a) % CounterSize = (b - a) + CounterSize
    BY <1>1, <2>1
  <2> QED BY <1>3, <2>2 DEF Behind
<1> QED BY <1>2, <1>3

\* What lies between two counts is not more than what lies between each of
\* them and a third.
LEMMA BehindTriangle ==
    \A a, b, c \in Counts : Behind(a, c) <= Behind(a, b) + Behind(b, c)
<1> SUFFICES ASSUME NEW a \in Counts, NEW b \in Counts, NEW c \in Counts
             PROVE  Behind(a, c) <= Behind(a, b) + Behind(b, c)
  OBVIOUS
<1>1. CounterSize \in Nat /\ a \in 0 .. CounterSize - 1
      /\ b \in 0 .. CounterSize - 1 /\ c \in 0 .. CounterSize - 1
  BY Counting DEF Counts
<1>2. /\ Behind(a, b) = IF a <= b THEN b - a ELSE (b - a) + CounterSize
      /\ Behind(b, c) = IF b <= c THEN c - b ELSE (c - b) + CounterSize
      /\ Behind(a, c) = IF a <= c THEN c - a ELSE (c - a) + CounterSize
  BY BehindValue
<1> QED BY <1>1, <1>2

LEMMA BehindNext ==
    \A a, b \in Counts : Behind(a, (b + 1) % CounterSize) <= Behind(a, b) + 1
<1> SUFFICES ASSUME NEW a \in Counts, NEW b \in Counts
             PROVE  Behind(a, (b + 1) % CounterSize) <= Behind(a, b) + 1
  OBVIOUS
<1>1. (b + 1) % CounterSize \in Counts /\ Behind(b, (b + 1) % CounterSize) = 1
  BY Counting
<1>2. Behind(a, (b + 1) % CounterSize)
        <= Behind(a, b) + Behind(b, (b + 1) % CounterSize)
  BY <1>1, BehindTriangle
<1> QED BY <1>1, <1>2

LEMMA PublishedBound ==
    ASSUME NEW l \in Nat, NEW h \in Nat
    PROVE  Published(Callbacks(l, h)) \in Nat /\ Published(Callbacks(l, h)) <= l + h
<1> DEFINE c == Callbacks(l, h)
           T == {i \in DOMAIN c : c[i] # (IF i = 1 THEN value ELSE c[i - 1])}
<1>1. DOMAIN c = 1 .. l + h
  BY CallsProperties
<1> HIDE DEF c
<1>2. T \subseteq 1 .. l + h
  BY <1>1
<1> HIDE DEF T
<1>3. IsFiniteSet(1 .. l + h) /\ Cardinality(1 .. l + h) = l + h
  <2>1. l + h \in Nat /\ 1 \in Nat
    OBVIOUS
  <2>2. /\ IsFiniteSet(1 .. l + h)
        /\ Cardinality(1 .. l + h) = IF 1 > l + h THEN 0 ELSE (l + h) - 1 + 1
    BY <2>1, FS_Interval
  <2> QED BY <2>1, <2>2
<1>4. Cardinality(T) \in Nat /\ Cardinality(T) <= l + h
  BY <1>2, <1>3, FS_Subset, FS_CardinalityType
<1> QED BY <1>4 DEF Published, T, c

\* From p to q there are at least as many changes as the counters tell.
Within(p, q) ==
    p.edges + Behind(p.low, q.low) + Behind(p.high, q.high) <= q.edges

\* g tells a point for each packet in flight, at which it was sent.
Chain(g) ==
    /\ g \in [DOMAIN up -> Points]
    /\ \A i \in DOMAIN up :
          IsState(i) => up[i].low = g[i].low /\ up[i].high = g[i].high
    /\ \A i, j \in DOMAIN up : i < j => Within(g[i], g[j])
    /\ \A i \in DOMAIN up : Within(g[i], Now)
    /\ hasFirstData =>
          Within(Seen, Now) /\ \A i \in DOMAIN up : Within(Seen, g[i])

Harmless == {"lose", "early", "unsteady"}
OnlyLosses ==
    session /\ met \subseteq Harmless =>
        /\ late = {}
        /\ hasFirstData => provider
        /\ ~hasFirstData => told = 0
        /\ \E g : Chain(g)

IsPoint(p) == p.low \in Counts /\ p.high \in Counts /\ p.edges \in Nat

LEMMA ArePoints ==
    /\ TypeOK => IsPoint(Now) /\ IsPoint(Seen)
    /\ \A p \in Points : IsPoint(p)
<1>1. \A p \in Points : IsPoint(p)
  BY PointProperties DEF IsPoint
<1>2. TypeOK => IsPoint(Seen)
  BY DEF TypeOK, Seen, At, IsPoint
<1>3. TypeOK => IsPoint(Now)
  BY <1>1, PointProperties
<1> QED BY <1>1, <1>2, <1>3

LEMMA WithinItself == \A p : IsPoint(p) => Within(p, p)
  BY Counting DEF IsPoint, Within

LEMMA WithinLater ==
    ASSUME NEW p, NEW q, NEW r, IsPoint(p), IsPoint(q), IsPoint(r),
           Within(p, q), r = q \/ r = After(q)
    PROVE  Within(p, r)
<1>1. /\ Behind(p.low, q.low) \in Nat /\ Behind(p.high, q.high) \in Nat
      /\ p.edges \in Nat /\ q.edges \in Nat
  BY Counting DEF IsPoint
<1>2. CASE r = q
  BY <1>2
<1>3. CASE r = After(q) /\ q.level = "high"
  <2>1. /\ r.low = (q.low + 1) % CounterSize /\ r.high = q.high
        /\ r.edges = q.edges + 1
    BY <1>3 DEF After, At
  <2>2. /\ Behind(p.low, r.low) <= Behind(p.low, q.low) + 1
        /\ Behind(p.low, r.low) \in Nat
    BY <2>1, BehindNext, Counting DEF IsPoint
  <2> QED BY <1>1, <2>1, <2>2 DEF Within
<1>4. CASE r = After(q) /\ q.level # "high"
  <2>1. /\ r.low = q.low /\ r.high = (q.high + 1) % CounterSize
        /\ r.edges = q.edges + 1
    BY <1>4 DEF After, At
  <2>2. /\ Behind(p.high, r.high) <= Behind(p.high, q.high) + 1
        /\ Behind(p.high, r.high) \in Nat
    BY <2>1, BehindNext, Counting DEF IsPoint
  <2> QED BY <1>1, <2>1, <2>2 DEF Within
<1> QED BY <1>2, <1>3, <1>4

\* The packet on its way tells not more changes than were made when it was sent.
LEMMA TellsNoMore ==
    ASSUME TypeOK, NEW m, NEW p \in Points, m.low = p.low, m.high = p.high,
           NewState(m), IF hasFirstData THEN Within(Seen, p) ELSE told = 0
    PROVE  /\ Within(Seen', p)
           /\ \A q \in Points : Within(p, q) => Within(Seen', q)
           /\ IsPoint(Now) /\ Within(p, Now) => Within(Seen', Now)
           /\ hasFirstData' /\ UNCHANGED provider
<1> DEFINE l == Behind(seenLow, m.low)
           h == Behind(seenHigh, m.high)
<1>1. /\ seenLow' = p.low /\ seenHigh' = p.high
      /\ told' = IF hasFirstData THEN told + Published(Callbacks(l, h)) ELSE told
      /\ hasFirstData' /\ UNCHANGED provider
  BY DEF NewState
<1>2. IsPoint(p) /\ IsPoint(Seen)
  BY ArePoints
<1>3. l \in Nat /\ h \in Nat
  <2>1. /\ seenLow \in Counts /\ seenHigh \in Counts
        /\ m.low \in Counts /\ m.high \in Counts
    BY <1>2 DEF TypeOK, IsPoint
  <2> QED BY <2>1, Counting
<1>4. /\ Published(Callbacks(l, h)) \in Nat
      /\ Published(Callbacks(l, h)) <= l + h
  <2> HIDE DEF l, h
  <2> QED BY <1>3, PublishedBound
<1>5. hasFirstData => told + l + h <= p.edges
  BY DEF Within, Seen, At
<1> HIDE DEF l, h
<1>6. told' \in Nat /\ told' <= p.edges
  <2>1. told \in Nat /\ p.edges \in Nat
    BY <1>2 DEF TypeOK, IsPoint
  <2>2. CASE hasFirstData
    <3> DEFINE n == Published(Callbacks(l, h))
    <3>1. n \in Nat /\ n <= l + h /\ told' = told + n /\ told + l + h <= p.edges
      BY <1>1, <1>4, <1>5, <2>2
    <3> HIDE DEF n
    <3> QED BY <1>3, <2>1, <3>1
  <2>3. CASE ~hasFirstData
    BY <1>1, <2>1, <2>3
  <2> QED BY <2>2, <2>3
<1>7. Seen'.low = p.low /\ Seen'.high = p.high /\ Seen'.edges = told'
  BY <1>1 DEF Seen, At
<1>8. ASSUME NEW q, IsPoint(q), Within(p, q) PROVE Within(Seen', q)
  <2>1. /\ Behind(p.low, q.low) \in Nat /\ Behind(p.high, q.high) \in Nat
        /\ p.edges \in Nat /\ q.edges \in Nat
    BY <1>2, <1>8, Counting DEF IsPoint
  <2>2. Within(Seen', q)
          <=> told' + Behind(p.low, q.low) + Behind(p.high, q.high) <= q.edges
    BY <1>7 DEF Within
  <2>3. p.edges + Behind(p.low, q.low) + Behind(p.high, q.high) <= q.edges
    BY <1>8 DEF Within
  <2> QED BY <1>6, <2>1, <2>2, <2>3
<1>9. Within(Seen', p)
  BY <1>2, <1>8, WithinItself
<1> QED BY <1>1, <1>8, <1>9, ArePoints

\* A packet that is sent continues the chain,
LEMMA ChainGrows ==
    ASSUME TypeOK, NEW g, Chain(g), NEW p \in Points, p = Now \/ p = After(Now),
           up' = Append(up, StatePacket(p.low, p.high)), Now' = p,
           UNCHANGED <<hasFirstData, seenLow, seenHigh, value, told>>
    PROVE  \E f : Chain(f)'
<1>0. Len(up) \in Nat /\ DOMAIN up = 1 .. Len(up) /\ up \in Seq(Packets)
  BY LenProperties DEF TypeOK
<1>n. PICK n \in Nat : n = Len(up)
  BY <1>0
<1>1. n = Len(up) /\ n \in Nat /\ DOMAIN up = 1 .. n /\ up \in Seq(Packets)
  BY <1>0, <1>n
<1>2. IsPoint(p) /\ IsPoint(Now) /\ IsPoint(Seen)
  BY ArePoints
<1>3. StatePacket(p.low, p.high) \in Packets
  BY <1>2, PacketProperties DEF IsPoint
<1>4. /\ up' \in Seq(Packets) /\ Len(up') = n + 1
      /\ \A i \in 1 .. n : up'[i] = up[i]
      /\ up'[n + 1] = StatePacket(p.low, p.high)
  BY <1>1, <1>3, AppendProperties
<1>5. DOMAIN up' = 1 .. n + 1
  BY <1>4, LenProperties
<1>6. \A i \in 1 .. n : IsState(i)' <=> IsState(i)
  BY <1>4 DEF IsState
<1>7. \A i \in 1 .. n + 1 : i \in 1 .. n \/ i = n + 1
  BY <1>1
<1>8. /\ g \in [1 .. n -> Points]
      /\ \A i \in 1 .. n : g[i] \in Points /\ IsPoint(g[i])
  BY <1>1, ArePoints DEF Chain
<1> DEFINE f == [i \in 1 .. n + 1 |-> IF i = n + 1 THEN p ELSE g[i]]
<1>9. /\ f \in [1 .. n + 1 -> Points]
      /\ f[n + 1] = p /\ \A i \in 1 .. n : f[i] = g[i]
  BY <1>1, <1>7, <1>8
<1> HIDE DEF f
<1>10. \A i \in 1 .. n : Within(g[i], p)
  BY <1>1, <1>2, <1>8, WithinLater DEF Chain
<1>11. Within(p, p)
  BY <1>2, WithinItself
<1>12. \A i \in DOMAIN up' : IsState(i)' => up'[i].low = f[i].low /\ up'[i].high = f[i].high
  <2>1. \A i \in 1 .. n : IsState(i)' => up'[i].low = f[i].low /\ up'[i].high = f[i].high
    BY <1>1, <1>4, <1>6, <1>9 DEF Chain
  <2>2. up'[n + 1].low = f[n + 1].low /\ up'[n + 1].high = f[n + 1].high
    BY <1>4, <1>9 DEF StatePacket
  <2> QED BY <1>5, <1>7, <2>1, <2>2
<1>13. \A i, j \in DOMAIN up' : i < j => Within(f[i], f[j])
  <2> SUFFICES ASSUME NEW i \in 1 .. n + 1, NEW j \in 1 .. n + 1, i < j
               PROVE  Within(f[i], f[j])
    BY <1>5
  <2>1. i \in 1 .. n
    BY <1>1
  <2>2. CASE j \in 1 .. n
    BY <1>1, <1>9, <2>1, <2>2 DEF Chain
  <2>3. CASE j = n + 1
    BY <1>9, <1>10, <2>1, <2>3
  <2> QED BY <1>7, <2>2, <2>3
<1>14. \A i \in DOMAIN up' : Within(f[i], p)
  BY <1>5, <1>7, <1>9, <1>10, <1>11
<1>15. hasFirstData' => Within(Seen', p) /\ \A i \in DOMAIN up' : Within(Seen', f[i])
  <2>1. Seen' = Seen
    BY DEF Seen
  <2>2. SUFFICES ASSUME hasFirstData
                 PROVE  Within(Seen, p) /\ \A i \in 1 .. n + 1 : Within(Seen, f[i])
    BY <1>5, <2>1
  <2>3. Within(Seen, p)
    BY <1>2, <2>2, WithinLater DEF Chain
  <2>4. \A i \in 1 .. n : Within(Seen, f[i])
    BY <1>1, <1>9, <2>2 DEF Chain
  <2> QED BY <1>7, <1>9, <2>3, <2>4
<1>16. Chain(f)'
  BY <1>5, <1>9, <1>12, <1>13, <1>14, <1>15 DEF Chain
<1> QED BY <1>16

\* and one that has gone shortens it.
LEMMA ChainWithoutFirst ==
    ASSUME TypeOK, NEW g, Chain(g), up # <<>>, up' = Tail(up),
           UNCHANGED <<low, high, made, stable>>,
           hasFirstData' =>
              \/ hasFirstData /\ UNCHANGED <<seenLow, seenHigh, value, told>>
              \/ /\ \A q \in Points : Within(g[1], q) => Within(Seen', q)
                 /\ Within(Seen', Now)
    PROVE  \E f : Chain(f)'
<1>0. Len(up) \in Nat /\ DOMAIN up = 1 .. Len(up) /\ up \in Seq(Packets)
  BY LenProperties DEF TypeOK
<1>n. PICK n \in Nat : n = Len(up)
  BY <1>0
<1>1. n = Len(up) /\ n \in Nat /\ DOMAIN up = 1 .. n /\ up \in Seq(Packets)
  BY <1>0, <1>n
<1>2. n # 0 /\ 1 \in DOMAIN up
  BY <1>1, EmptySeq
<1>3. /\ up' \in Seq(Packets) /\ Len(up') = n - 1
      /\ \A i \in 1 .. n - 1 : up'[i] = up[i + 1]
  BY <1>1, HeadTailProperties
<1>4. DOMAIN up' = 1 .. n - 1
  BY <1>3, LenProperties
<1>5. \A i \in 1 .. n - 1 : i + 1 \in DOMAIN up /\ 1 < i + 1
  BY <1>1
<1>6. \A i \in 1 .. n - 1 : IsState(i)' <=> IsState(i + 1)
  BY <1>3 DEF IsState
<1>7. Now' = Now
  BY DEF Now
<1> DEFINE f == [i \in 1 .. n - 1 |-> g[i + 1]]
<1>8. f \in [1 .. n - 1 -> Points] /\ \A i \in 1 .. n - 1 : f[i] = g[i + 1]
  BY <1>5 DEF Chain
<1> HIDE DEF f
<1>9. \A i \in DOMAIN up' : IsState(i)' => up'[i].low = f[i].low /\ up'[i].high = f[i].high
  BY <1>3, <1>4, <1>5, <1>6, <1>8 DEF Chain
<1>10. \A i, j \in DOMAIN up' : i < j => Within(f[i], f[j])
  <2> SUFFICES ASSUME NEW i \in 1 .. n - 1, NEW j \in 1 .. n - 1, i < j
               PROVE  Within(f[i], f[j])
    BY <1>4
  <2>1. i + 1 \in DOMAIN up /\ j + 1 \in DOMAIN up /\ i + 1 < j + 1
    BY <1>5
  <2>2. Within(g[i + 1], g[j + 1])
    BY <2>1 DEF Chain
  <2> QED BY <1>8, <2>2
<1>11. \A i \in DOMAIN up' : Within(f[i], Now)
  BY <1>4, <1>5, <1>8 DEF Chain
<1>12. hasFirstData' => Within(Seen', Now) /\ \A i \in DOMAIN up' : Within(Seen', f[i])
  <2>1. CASE hasFirstData /\ UNCHANGED <<seenLow, seenHigh, value, told>>
    <3>1. Seen' = Seen
      BY <2>1 DEF Seen
    <3> QED BY <1>4, <1>5, <1>8, <2>1, <3>1 DEF Chain
  <2>2. CASE /\ \A q \in Points : Within(g[1], q) => Within(Seen', q)
             /\ Within(Seen', Now)
    <3>1. \A i \in 1 .. n - 1 : g[i + 1] \in Points /\ Within(g[1], g[i + 1])
      BY <1>2, <1>5 DEF Chain
    <3> QED BY <1>4, <1>8, <2>2, <3>1
  <2> QED BY <2>1, <2>2
<1>13. Chain(f)'
  BY <1>4, <1>7, <1>8, <1>9, <1>10, <1>11, <1>12 DEF Chain
<1> QED BY <1>13

LEMMA OnlyLossesBegin ==
    ASSUME TypeOK, Idle, StartSession
    PROVE  OnlyLosses'
<1> USE DEF pins, endpoint, server
<1>1. /\ up' = <<RegisterPacket>> /\ late' = {} /\ ~hasFirstData' /\ told' = 0
  BY DEF StartSession, Idle
<1>2. DOMAIN up' = {1} /\ up'[1] = RegisterPacket
  BY <1>1
<1>3. ~IsState(1)'
  BY <1>2 DEF IsState, RegisterPacket
<1>4. TypeOK'
  BY TypesAreKept DEF Next
<1>5. Now' \in Points /\ IsPoint(Now')
  <2>1. low' \in Counts /\ high' \in Counts /\ made' \in Nat /\ stable' \in Levels
    BY <1>4, CounterAssumption DEF TypeOK
  <2> QED BY <2>1 DEF Now, At, Points, IsPoint
<1>p. PICK p \in Points : p = Now'
  BY <1>5
<1> DEFINE g == [i \in {1} |-> p]
<1>6. g \in [{1} -> Points] /\ g[1] = Now'
  BY <1>p
<1> HIDE DEF g
<1>7. Within(g[1], Now')
  BY <1>5, <1>6, WithinItself
<1>8. Chain(g)'
  <2>1. \A i, j \in DOMAIN up' : ~(i < j)
    BY <1>2
  <2>2. g \in [DOMAIN up' -> Points]
    BY <1>2, <1>6
  <2>3. \A i \in DOMAIN up' : ~IsState(i)' /\ Within(g[i], Now')
    BY <1>2, <1>3, <1>7
  <2> QED BY <1>1, <2>1, <2>2, <2>3 DEF Chain
<1> QED BY <1>1, <1>8 DEF OnlyLosses

LEMMA OnlyLossesAreKept ==
    TypeOK /\ Idle /\ OnlyLosses /\ [Next]_vars => OnlyLosses'
<1> SUFFICES ASSUME TypeOK, Idle, OnlyLosses, [Next]_vars,
                    session', met' \subseteq Harmless
             PROVE  OnlyLosses'
  BY DEF OnlyLosses
<1> USE DEF pins, endpoint, server
<1>1. CASE StartSession
  BY <1>1, OnlyLossesBegin
<1>2. CASE session /\ met \subseteq met' /\ ~StartSession
  <2>1. /\ late = {} /\ (hasFirstData => provider) /\ (~hasFirstData => told = 0)
        /\ session
    BY <1>2 DEF OnlyLosses
  <2>2. PICK g : Chain(g)
    BY <1>2 DEF OnlyLosses
  <2>3. TypeOK'
    BY TypesAreKept
  <2>4. CASE PinChanges \/ UNCHANGED vars
    <3>1. /\ UNCHANGED <<up, late, low, high, made, stable, provider, seenLow,
                         seenHigh, hasFirstData, value, told>>
      BY <2>4 DEF PinChanges, vars
    <3>2. Chain(g)'
      BY <2>2, <3>1 DEF Chain, IsState, Now, Seen
    <3> QED BY <2>1, <3>1, <3>2 DEF OnlyLosses
  <2>5. CASE Confirm \/ OtherInput \/ SendStateRequested
    <3>1. PICK p \in Points :
              /\ p = Now \/ p = After(Now)
              /\ Now' = p /\ up' = Append(up, StatePacket(p.low, p.high))
      <4>1. Now \in Points /\ After(Now) \in Points
        BY PointProperties
      <4>2. Now'.low = low' /\ Now'.high = high'
        BY DEF Now, At
      <4>3. CASE Confirm
        <5>1. /\ pin # stable /\ stable' = pin /\ ProvInputSetState(pin)
              /\ up' = Append(up, StatePacket(low', high')) /\ made' = made + 1
          BY <4>3 DEF Confirm
        <5>2. Now' = After(Now)
          BY <5>1, ConfirmIsAfter
        <5> QED BY <4>1, <4>2, <5>1, <5>2
      <4>4. CASE OtherInput \/ SendStateRequested
        <5>1. /\ up' = Append(up, StatePacket(low, high))
              /\ UNCHANGED <<low, high, made, stable>>
          BY <4>4 DEF OtherInput, SendStateRequested, SendState
        <5>2. Now' = Now
          BY <5>1 DEF Now
        <5> QED BY <4>1, <4>2, <5>1, <5>2
      <4> QED BY <2>5, <4>3, <4>4
    <3>2. UNCHANGED <<late, provider, seenLow, seenHigh, hasFirstData, value, told>>
      BY <2>5 DEF Confirm, OtherInput, SendStateRequested
    <3>3. \E f : Chain(f)'
      BY <2>2, <3>1, <3>2, ChainGrows
    <3> QED BY <2>1, <3>2, <3>3 DEF OnlyLosses
  <2>6. CASE Deliver
    <3>1. /\ up # <<>> /\ up' = Tail(up) /\ ProcessData(Head(up))
          /\ UNCHANGED <<late, low, high, made, stable>>
      BY <2>6 DEF Deliver
    <3>2. up \in Seq(Packets)
      BY DEF TypeOK
    <3>3. Head(up) = up[1] /\ up[1] \in Packets
      BY <3>1, <3>2, Taken
    <3>2a. 1 \in DOMAIN up
      BY <3>1, <3>2, EmptySeq, LenProperties
    <3>4. CASE UNCHANGED <<hasFirstData, provider, seenLow, seenHigh, value, told>>
      <4>1. \E f : Chain(f)'
        BY <2>2, <3>1, <3>4, ChainWithoutFirst
      <4> QED BY <2>1, <3>1, <3>4, <4>1 DEF OnlyLosses
    <3>5. CASE ~provider /\ AddProvider
      <4>1. provider' /\ ~hasFirstData' /\ told' = told /\ told = 0
        BY <2>1, <3>5 DEF AddProvider
      <4>2. \E f : Chain(f)'
        BY <2>2, <3>1, <4>1, ChainWithoutFirst
      <4> QED BY <2>1, <3>1, <4>1, <4>2 DEF OnlyLosses
    <3>6. CASE up[1].kind = "state" /\ provider /\ NewState(up[1])
      <4>1. g[1] \in Points /\ up[1].low = g[1].low /\ up[1].high = g[1].high
        BY <2>2, <3>2a, <3>6 DEF Chain, IsState
      <4>2. /\ IF hasFirstData THEN Within(Seen, g[1]) ELSE told = 0
            /\ Within(g[1], Now) /\ IsPoint(Now)
        BY <2>1, <2>2, <3>2a, ArePoints DEF Chain
      <4>3. /\ \A q \in Points : Within(g[1], q) => Within(Seen', q)
            /\ Within(Seen', Now)
            /\ hasFirstData' /\ UNCHANGED provider
        BY <3>6, <4>1, <4>2, TellsNoMore
      <4>4. \E f : Chain(f)'
        BY <2>2, <3>1, <4>3, ChainWithoutFirst
      <4> QED BY <2>1, <3>1, <3>6, <4>3, <4>4 DEF OnlyLosses
    <3> QED BY <3>1, <3>3, <3>4, <3>5, <3>6 DEF ProcessData, AddProvider
  <2>7. CASE Lose
    <3>1. UNCHANGED <<late, low, high, made, stable, provider, seenLow, seenHigh,
                      hasFirstData, value, told>>
      BY <2>7 DEF Lose
    <3>2. CASE up # <<>> /\ up' = Tail(up)
      <4>1. \E f : Chain(f)'
        BY <2>2, <3>1, <3>2, ChainWithoutFirst
      <4> QED BY <2>1, <3>1, <4>1 DEF OnlyLosses
    <3>3. CASE up' = up
      <4>1. Chain(g)'
        BY <2>2, <3>1, <3>3 DEF Chain, IsState, Now, Seen
      <4> QED BY <2>1, <3>1, <4>1 DEF OnlyLosses
    <3> QED BY <2>7, <3>2, <3>3 DEF Lose
  <2>8. ~RegisterAgain /\ ~Delay /\ ~Duplicate
    <3>1. \A kind \in {"reregister", "delay", "duplicate"} : ~Disturb(kind)
      BY DEF Disturb, Harmless
    <3> QED BY <3>1 DEF RegisterAgain, Delay, Duplicate
  <2>9. ~ConfirmUnheard /\ ~DeliverLate /\ ~EndSession
    BY <1>2, <2>1 DEF ConfirmUnheard, DeliverLate, EndSession
  <2> QED BY <1>2, <2>4, <2>5, <2>6, <2>7, <2>8, <2>9 DEF Next
<1>3. StartSession \/ (session /\ met \subseteq met')
  BY DEF Next, vars, PinChanges, Confirm, ConfirmUnheard, OtherInput,
         SendStateRequested, StartSession, RegisterAgain, Deliver, DeliverLate,
         EndSession, Lose, Delay, Duplicate, Disturb
<1> QED BY <1>1, <1>2, <1>3

\* Lost packets and an early change make the scripts miss changes and never
\* invent one, for counters of every width and any number of losses: what the
\* counters tell from one packet to the next is at most what was made between.
THEOREM NoChangeIsInvented == Spec => []NoPhantomChanges
<1>1. Init => OnlyLosses
  BY DEF Init, OnlyLosses
<1>2. TypeOK /\ Idle /\ OnlyLosses => NoPhantomChanges
  <2> SUFFICES ASSUME TypeOK, Idle, OnlyLosses, met \subseteq Harmless
               PROVE  told <= made
    BY DEF NoPhantomChanges, Harmless
  <2>1. told \in Nat /\ made \in Nat
    BY CounterAssumption DEF TypeOK
  <2>2. CASE told = 0
    BY <2>1, <2>2
  <2>3. CASE told # 0
    <3>1. session /\ hasFirstData
      BY <2>3 DEF Idle, OnlyLosses
    <3>2. Within(Seen, Now)
      BY <3>1 DEF OnlyLosses, Chain
    <3>3. /\ Behind(seenLow, low) \in Nat /\ Behind(seenHigh, high) \in Nat
          /\ told + Behind(seenLow, low) + Behind(seenHigh, high) <= made
      BY <3>2, Counting DEF Within, Seen, Now, At, TypeOK
    <3> QED BY <2>1, <3>3
  <2> QED BY <2>2, <2>3
<1> QED BY <1>1, <1>2, Invariants, OnlyLossesAreKept, PTL DEF Spec

-----------------------------------------------------------------------------
(* The next change heals.  Falling and rising edges alternate, so for a     *)
(* session that begins on a steady input and is not reset, the difference   *)
(* of the counters is d while the input is high and one less while it is    *)
(* low; whatever packet comes late or twice, it shows one of the two.       *)

LEMMA EdgeCounts ==
    ASSUME NEW a \in Counts, NEW b \in Counts
    PROVE  /\ Behind((a + 1) % CounterSize, b)
                = IF Behind(a, b) = 0 THEN CounterSize - 1 ELSE Behind(a, b) - 1
           /\ Behind(a, (b + 1) % CounterSize)
                = IF Behind(a, b) = CounterSize - 1 THEN 0 ELSE Behind(a, b) + 1
           /\ Behind(a, b) = 0 => a = b
           /\ Behind(a, b) = 1 => b = (a + 1) % CounterSize
<1>1. /\ CounterSize \in Nat /\ CounterSize > 1
      /\ a \in 0 .. CounterSize - 1 /\ b \in 0 .. CounterSize - 1
  BY Counting DEF Counts
<1>2. \A x \in Counts :
          (x + 1) % CounterSize = IF x = CounterSize - 1 THEN 0 ELSE x + 1
  <2> SUFFICES ASSUME NEW x \in Counts
               PROVE  (x + 1) % CounterSize = IF x = CounterSize - 1 THEN 0 ELSE x + 1
    OBVIOUS
  <2>1. x \in 0 .. CounterSize - 1
    BY DEF Counts
  <2>2. CASE x = CounterSize - 1
    BY <1>1, <2>2
  <2>3. CASE x # CounterSize - 1
    BY <1>1, <2>1, <2>3
  <2> QED BY <2>2, <2>3
<1>3. /\ (a + 1) % CounterSize \in Counts /\ (b + 1) % CounterSize \in Counts
  BY Counting
<1> DEFINE c == (a + 1) % CounterSize
           e == (b + 1) % CounterSize
<1>4. /\ c = IF a = CounterSize - 1 THEN 0 ELSE a + 1
      /\ e = IF b = CounterSize - 1 THEN 0 ELSE b + 1
  BY <1>2
<1>5. /\ Behind(a, b) = IF a <= b THEN b - a ELSE (b - a) + CounterSize
      /\ Behind(c, b) = IF c <= b THEN b - c ELSE (b - c) + CounterSize
      /\ Behind(a, e) = IF a <= e THEN e - a ELSE (e - a) + CounterSize
  BY <1>3, BehindValue
<1> HIDE DEF c, e
<1>6. Behind(c, b) = IF Behind(a, b) = 0 THEN CounterSize - 1 ELSE Behind(a, b) - 1
  BY <1>1, <1>4, <1>5
<1>7. Behind(a, e) = IF Behind(a, b) = CounterSize - 1 THEN 0 ELSE Behind(a, b) + 1
  BY <1>1, <1>4, <1>5
<1>8. Behind(a, b) = 0 => a = b
  BY <1>1, <1>5
<1>9. Behind(a, b) = 1 => b = c
  BY <1>1, <1>4, <1>5
<1> QED BY <1>6, <1>7, <1>8, <1>9 DEF c, e

WhenHigh(d, l, h) == Behind(l, h) = d
WhenLow(d, l, h) == Behind(l, h) = IF d = 0 THEN CounterSize - 1 ELSE 0
Either(d, l, h) == WhenHigh(d, l, h) \/ WhenLow(d, l, h)

Alternates(d) ==
    /\ IF stable = "high" THEN WhenHigh(d, low, high) ELSE WhenLow(d, low, high)
    /\ \A i \in DOMAIN up : IsState(i) => Either(d, up[i].low, up[i].high)
    /\ \A m \in late : m.kind = "state" => Either(d, m.low, m.high)
    /\ hasFirstData => Either(d, seenLow, seenHigh)

Steady ==
    session /\ met \cap {"reregister", "unsteady"} = {} =>
        \E d \in {0, 1} : Alternates(d)

LEMMA EdgeAlternates ==
    ASSUME NEW d \in {0, 1}, NEW l \in Counts, NEW h \in Counts
    PROVE  /\ WhenHigh(d, l, h) => WhenLow(d, (l + 1) % CounterSize, h)
           /\ WhenLow(d, l, h) => WhenHigh(d, l, (h + 1) % CounterSize)
           /\ CounterSize > 2 /\ Either(d, l, h)
                => /\ ~WhenHigh(d, (l + 1) % CounterSize, h)
                   /\ ~WhenLow(d, l, (h + 1) % CounterSize)
<1>1. CounterSize \in Nat /\ CounterSize > 1 /\ Behind(l, h) \in Nat
  BY Counting
<1>2. /\ Behind((l + 1) % CounterSize, h)
           = IF Behind(l, h) = 0 THEN CounterSize - 1 ELSE Behind(l, h) - 1
      /\ Behind(l, (h + 1) % CounterSize)
           = IF Behind(l, h) = CounterSize - 1 THEN 0 ELSE Behind(l, h) + 1
  BY EdgeCounts
<1>3. CASE d = 0
  BY <1>1, <1>2, <1>3 DEF WhenHigh, WhenLow, Either
<1>4. CASE d = 1
  BY <1>1, <1>2, <1>4 DEF WhenHigh, WhenLow, Either
<1> QED BY <1>3, <1>4

LEMMA SteadyBegins ==
    ASSUME TypeOK, Idle, StartSession, pin = stable
    PROVE  Steady'
<1> USE DEF pins, endpoint, server
<1>1. /\ up' = <<RegisterPacket>> /\ late' = {} /\ ~hasFirstData'
      /\ ProvInputReset /\ stable' = stable
  BY DEF StartSession, Idle
<1>2. DOMAIN up' = {1} /\ up'[1] = RegisterPacket
  BY <1>1
<1>3. ~IsState(1)'
  BY <1>2 DEF IsState, RegisterPacket
<1>4. Behind(0, 1) = 1 /\ Behind(1, 0) = CounterSize - 1
  <2>1. /\ Behind(0, 1) = IF 0 <= 1 THEN 1 - 0 ELSE (1 - 0) + CounterSize
        /\ Behind(1, 0) = IF 1 <= 0 THEN 0 - 1 ELSE (0 - 1) + CounterSize
    BY BehindValue, Counting
  <2> QED BY <2>1, Counting
<1>5. CASE stable = "high"
  <2>1. Alternates(1)'
    BY <1>1, <1>2, <1>3, <1>4, <1>5 DEF Alternates, ProvInputReset, WhenHigh
  <2> QED BY <2>1 DEF Steady
<1>6. CASE stable # "high"
  <2>1. Alternates(0)'
    BY <1>1, <1>2, <1>3, <1>4, <1>6 DEF Alternates, ProvInputReset, WhenLow
  <2> QED BY <2>1 DEF Steady
<1> QED BY <1>5, <1>6

\* Every packet on its way after a step was there before, or is from now.
LEMMA FromBefore ==
    /\ \A m : up \in Seq(Packets) /\ m \in Packets /\ up' = Append(up, m)
          => \A i \in DOMAIN up' : up'[i] = m \/ (i \in DOMAIN up /\ up'[i] = up[i])
    /\ up \in Seq(Packets) /\ up # <<>> /\ up' = Tail(up)
          => \A i \in DOMAIN up' : i + 1 \in DOMAIN up /\ up'[i] = up[i + 1]
    /\ up \in Seq(Packets) /\ up # <<>> => 1 \in DOMAIN up /\ Head(up) = up[1]
<1>1. ASSUME NEW m \in Packets, up \in Seq(Packets), up' = Append(up, m),
             NEW i \in DOMAIN up'
      PROVE  up'[i] = m \/ (i \in DOMAIN up /\ up'[i] = up[i])
  BY <1>1
<1>2. ASSUME up \in Seq(Packets), up # <<>>, up' = Tail(up), NEW i \in DOMAIN up'
      PROVE  i + 1 \in DOMAIN up /\ up'[i] = up[i + 1]
  BY <1>2
<1>3. ASSUME up \in Seq(Packets), up # <<>>
      PROVE  1 \in DOMAIN up /\ Head(up) = up[1]
  BY <1>3
<1> QED BY <1>1, <1>2, <1>3

LEMMA SteadyAfterPacket ==
    ASSUME NEW d, NEW m, ProcessData(m),
           m.kind = "state" => Either(d, m.low, m.high),
           hasFirstData => Either(d, seenLow, seenHigh)
    PROVE  hasFirstData' => Either(d, seenLow', seenHigh')
<1> USE DEF server
<1>1. CASE m.kind = "state" /\ NewState(m)
  BY <1>1 DEF NewState
<1>2. CASE AddProvider
  BY <1>2 DEF AddProvider
<1>3. CASE UNCHANGED server
  BY <1>3
<1> QED BY <1>1, <1>2, <1>3 DEF ProcessData

LEMMA SteadyIsKept == TypeOK /\ Idle /\ Steady /\ [Next]_vars => Steady'
<1> SUFFICES ASSUME TypeOK, Idle, Steady, [Next]_vars,
                    session', met' \cap {"reregister", "unsteady"} = {}
             PROVE  Steady'
  BY DEF Steady
<1> USE DEF pins, endpoint, server
<1>1. CASE StartSession
  <2>1. pin = stable
    BY <1>1 DEF StartSession
  <2> QED BY <1>1, <2>1, SteadyBegins
<1>2. CASE session /\ met \subseteq met' /\ ~StartSession
  <2>1. PICK d \in {0, 1} : Alternates(d)
    BY <1>2 DEF Steady
  <2>2. /\ up \in Seq(Packets) /\ late \in SUBSET Packets
        /\ low \in Counts /\ high \in Counts
    BY DEF TypeOK
  <2>3. SUFFICES Alternates(d)'
    BY DEF Steady
  <2>4. Either(d, low, high)
    BY <2>1 DEF Alternates, Either
  <2>5. CASE PinChanges \/ UNCHANGED vars
    <3>1. UNCHANGED <<up, late, low, high, stable, hasFirstData, seenLow, seenHigh>>
      BY <2>5 DEF PinChanges, vars
    <3> QED BY <2>1, <3>1 DEF Alternates, IsState
  <2>6. CASE Confirm
    <3>1. /\ pin # stable /\ stable' = pin /\ ProvInputSetState(pin)
          /\ up' = Append(up, StatePacket(low', high'))
          /\ UNCHANGED <<late, hasFirstData, seenLow, seenHigh>>
      BY <2>6 DEF Confirm
    <3>2. IF stable' = "high" THEN WhenHigh(d, low', high') ELSE WhenLow(d, low', high')
      <4>1. CASE stable = "high" /\ pin = "low"
        <5>1. low' = (low + 1) % CounterSize /\ high' = high
          BY <3>1, <4>1 DEF ProvInputSetState
        <5> QED BY <2>1, <2>2, <3>1, <4>1, <5>1, EdgeAlternates DEF Alternates
      <4>2. CASE stable = "low" /\ pin = "high"
        <5>1. high' = (high + 1) % CounterSize /\ low' = low
          BY <3>1, <4>2 DEF ProvInputSetState
        <5> QED BY <2>1, <2>2, <3>1, <4>2, <5>1, EdgeAlternates DEF Alternates
      <4> QED BY <3>1, <4>1, <4>2 DEF TypeOK, Levels
    <3>3. Either(d, low', high')
      BY <3>2 DEF Either
    <3>4. StatePacket(low', high') \in Packets
      BY <2>2, <3>1, Counting, PacketProperties DEF ProvInputSetState
    <3>5. \A i \in DOMAIN up' : IsState(i)' => Either(d, up'[i].low, up'[i].high)
      <4>1. \A i \in DOMAIN up' :
                up'[i] = StatePacket(low', high') \/ (i \in DOMAIN up /\ up'[i] = up[i])
        BY <2>2, <3>1, <3>4, FromBefore
      <4> QED BY <2>1, <3>3, <4>1 DEF Alternates, IsState, StatePacket
    <3> QED BY <2>1, <3>1, <3>2, <3>5 DEF Alternates
  <2>7. CASE OtherInput \/ SendStateRequested
    <3>1. /\ up' = Append(up, StatePacket(low, high))
          /\ UNCHANGED <<low, high, stable, late, hasFirstData, seenLow, seenHigh>>
      BY <2>7 DEF OtherInput, SendStateRequested, SendState
    <3>2. StatePacket(low, high) \in Packets
      BY <2>2, PacketProperties
    <3>3. \A i \in DOMAIN up' : IsState(i)' => Either(d, up'[i].low, up'[i].high)
      <4>1. \A i \in DOMAIN up' :
                up'[i] = StatePacket(low, high) \/ (i \in DOMAIN up /\ up'[i] = up[i])
        BY <2>2, <3>1, <3>2, FromBefore
      <4> QED BY <2>1, <2>4, <4>1 DEF Alternates, IsState, StatePacket
    <3> QED BY <2>1, <3>1, <3>3 DEF Alternates
  <2>8. CASE Deliver
    <3>1. /\ up # <<>> /\ up' = Tail(up) /\ ProcessData(up[1])
          /\ UNCHANGED <<low, high, stable, late>>
      BY <2>2, <2>8, FromBefore DEF Deliver
    <3>2. \A i \in DOMAIN up' : i + 1 \in DOMAIN up /\ up'[i] = up[i + 1]
      BY <2>2, <3>1, FromBefore
    <3>3. up[1].kind = "state" => Either(d, up[1].low, up[1].high)
      BY <2>1, <2>2, <3>1, FromBefore DEF Alternates, IsState
    <3>4. hasFirstData' => Either(d, seenLow', seenHigh')
      BY <2>1, <3>1, <3>3, SteadyAfterPacket DEF Alternates
    <3> QED BY <2>1, <3>1, <3>2, <3>4 DEF Alternates, IsState
  <2>9. CASE DeliverLate
    <3>1. PICK m \in late : ProcessData(m) /\ late' = late \ {m}
      BY <2>9 DEF DeliverLate
    <3>2. UNCHANGED <<low, high, stable, up>>
      BY <2>9 DEF DeliverLate
    <3>3. hasFirstData' => Either(d, seenLow', seenHigh')
      BY <2>1, <3>1, SteadyAfterPacket DEF Alternates
    <3> QED BY <2>1, <3>1, <3>2, <3>3 DEF Alternates, IsState
  <2>10. CASE Lose \/ Delay \/ Duplicate
    <3>1. UNCHANGED <<low, high, stable, hasFirstData, seenLow, seenHigh>>
      BY <2>10 DEF Lose, Delay, Duplicate
    <3>2. \A i \in DOMAIN up' : IsState(i)' => Either(d, up'[i].low, up'[i].high)
      <4>1. CASE up # <<>> /\ up' = Tail(up)
        <5>1. \A i \in DOMAIN up' : i + 1 \in DOMAIN up /\ up'[i] = up[i + 1]
          BY <2>2, <4>1, FromBefore
        <5> QED BY <2>1, <5>1 DEF Alternates, IsState
      <4>2. CASE up' = up
        BY <2>1, <4>2 DEF Alternates, IsState
      <4> QED BY <2>10, <4>1, <4>2 DEF Lose, Delay, Duplicate
    <3>3. \A m \in late' : m.kind = "state" => Either(d, m.low, m.high)
      <4>1. CASE late' = late
        BY <2>1, <4>1 DEF Alternates
      <4>2. CASE up # <<>> /\ late' = late \cup {Head(up)}
        <5>1. Head(up) = up[1] /\ 1 \in DOMAIN up
          BY <2>2, <4>2, FromBefore
        <5> QED BY <2>1, <4>2, <5>1 DEF Alternates, IsState
      <4> QED BY <2>10, <4>1, <4>2 DEF Lose, Delay, Duplicate
    <3> QED BY <2>1, <3>1, <3>2, <3>3 DEF Alternates
  <2>11. ~RegisterAgain /\ ~ConfirmUnheard /\ ~EndSession
    BY <1>2 DEF RegisterAgain, Disturb, ConfirmUnheard, EndSession
  <2> QED BY <1>2, <2>5, <2>6, <2>7, <2>8, <2>9, <2>10, <2>11 DEF Next
<1>3. StartSession \/ (session /\ met \subseteq met')
  BY DEF Next, vars, PinChanges, Confirm, ConfirmUnheard, OtherInput,
         SendStateRequested, StartSession, RegisterAgain, Deliver, DeliverLate,
         EndSession, Lose, Delay, Duplicate, Disturb
<1> QED BY <1>1, <1>2, <1>3

\* However many packets were lost, late or copied before: when the server is
\* one edge behind and hears the counters of now, it has the level of now.
\* Counters of two values would not do.
THEOREM NextChangeHeals ==
    ASSUME CounterSize > 2
    PROVE  Spec => HealsWithNextChange
<1>1. ASSUME TypeOK, Idle, Steady, met \cap {"reregister", "unsteady"} = {},
             provider, hasFirstData, OneEdgeBehind, HearsTheLatest
      PROVE  value' = stable
  <2>1. PICK d \in {0, 1} : Alternates(d)
    BY <1>1 DEF Steady, Idle
  <2>2. /\ low \in Counts /\ high \in Counts
        /\ seenLow \in Counts /\ seenHigh \in Counts
        /\ Either(d, seenLow, seenHigh)
        /\ Behind(seenLow, low) + Behind(seenHigh, high) = 1
    BY <1>1, <2>1 DEF TypeOK, Alternates, OneEdgeBehind
  <2>3. NewState(StatePacket(low, high))
    <3>1. up = <<StatePacket(low, high)>> /\ ProcessData(Head(up))
      BY <1>1 DEF HearsTheLatest, Deliver
    <3>2. Head(up) = StatePacket(low, high)
      BY <3>1
    <3> QED BY <1>1, <3>1, <3>2 DEF ProcessData, StatePacket
  <2> DEFINE l == Behind(seenLow, low)
             h == Behind(seenHigh, high)
             calls == Callbacks(l, h)
  <2>4. value' = IF calls = <<>> THEN value ELSE calls[Len(calls)]
    BY <2>3 DEF NewState, StatePacket
  <2>5. l \in Nat /\ h \in Nat /\ l + h = 1
    BY <2>2, Counting
  <2>6. (l = 1 /\ h = 0) \/ (l = 0 /\ h = 1)
    <3> HIDE DEF l, h
    <3> QED BY <2>5
  <2>7. CASE l = 1 /\ h = 0
    <3>1. low = (seenLow + 1) % CounterSize /\ high = seenHigh
      BY <2>2, <2>7, EdgeCounts
    <3>2. ~WhenHigh(d, low, high)
      BY <2>2, <3>1, EdgeAlternates
    <3>2a. stable # "high"
      BY <2>1, <3>2 DEF Alternates
    <3>3. stable = "low"
      BY <1>1, <3>2a DEF TypeOK, Levels
    <3>4. calls = Callbacks(1, 0)
      BY <2>7
    <3>5. Len(calls) = 1 /\ calls[1] = "low"
      BY <3>4, OneCall
    <3> HIDE DEF calls
    <3> QED BY <2>4, <3>3, <3>5
  <2>8. CASE l = 0 /\ h = 1
    <3>1. high = (seenHigh + 1) % CounterSize /\ low = seenLow
      BY <2>2, <2>8, EdgeCounts
    <3>2. ~WhenLow(d, low, high)
      BY <2>2, <3>1, EdgeAlternates
    <3>3. stable = "high"
      BY <2>1, <3>2 DEF Alternates
    <3>4. calls = Callbacks(0, 1)
      BY <2>8
    <3>5. Len(calls) = 1 /\ calls[1] = "high"
      BY <3>4, OneCall
    <3> HIDE DEF calls
    <3> QED BY <2>4, <3>3, <3>5
  <2> QED BY <2>6, <2>7, <2>8
<1>2. Init => Steady
  BY DEF Init, Steady
<1>3. TypeOK /\ Idle /\ Steady
        => [met \cap {"reregister", "unsteady"} = {} /\ provider /\ hasFirstData
            /\ OneEdgeBehind /\ HearsTheLatest
              => value' = stable]_vars
  BY <1>1
<1> QED BY <1>2, <1>3, Invariants, SteadyIsKept, PTL DEF Spec, HealsWithNextChange

-----------------------------------------------------------------------------
(* What is shown as low is low.  While fewer packets are lost than a counter *)
(* has values, the server is less than a turn behind the next packet, so the  *)
(* differences it replays are the edges that were made.                       *)

Rise(v) == IF v = "high" THEN 1 ELSE 0

\* From p to q there are at least j and at most k changes, and the counters
\* tell how the level has changed.
Ahead(p, q, j, k) ==
    LET a == Behind(p.low, q.low)
        b == Behind(p.high, q.high)
    IN  /\ j <= a + b /\ a + b <= k
        /\ Rise(q.level) - Rise(p.level) = b - a

\* The counters a new provider starts from are one change before the first.
Unseen == IF hasFirstData THEN 0 ELSE 1

\* The server is behind p by the packets lost and at most slack changes more,
\* and if it shows the input as low, it was low then.
InView(p, slack) ==
    \E v \in Levels :
        /\ Ahead(At(seenLow, seenHigh, 0, v), p, Unseen, faults + Unseen + slack)
        /\ hasFirstData /\ value = "low" => v = "low"

Follows(g) ==
    /\ g \in [DOMAIN up -> Points]
    /\ \A i \in DOMAIN up :
          IsState(i) => up[i].low = g[i].low /\ up[i].high = g[i].high
    /\ \A i \in DOMAIN up : ~IsState(i) => i = 1 /\ ~provider /\ First(g[1])
    /\ \A i, j \in DOMAIN up : j = i + 1 => Step(g[i], g[j])
    /\ \A i \in DOMAIN up : i = Len(up) => g[i] = Now
    /\ provider => IF up = <<>> THEN InView(Now, 0) ELSE InView(g[1], 1)

FewLosses ==
    session /\ met \subseteq {"lose", "early"} /\ faults < CounterSize =>
        late = {} /\ \E g : Follows(g)

LEMMA AheadItself ==
    ASSUME NEW p, NEW q, q.low \in Counts, q.high \in Counts,
           p.low = q.low, p.high = q.high, p.level = q.level, q.level \in Levels
    PROVE  Ahead(p, q, 0, 0)
<1>1. Behind(p.low, q.low) = 0 /\ Behind(p.high, q.high) = 0
  BY Counting
<1>2. Rise(q.level) - Rise(p.level) = 0
  BY DEF Rise
<1> QED BY <1>1, <1>2 DEF Ahead

\* One more change does not wrap: falling and rising edges alternate, so
\* neither kind makes up a turn.
LEMMA AheadLater ==
    ASSUME CounterSize > 2, NEW p, p.low \in Counts, p.high \in Counts, p.level \in Levels,
           NEW q \in Points, NEW r, Step(q, r),
           NEW j \in Nat, NEW k \in Nat, k <= CounterSize, Ahead(p, q, j, k)
    PROVE  Ahead(p, r, j, k + 1)
<1> DEFINE a == Behind(p.low, q.low)
           b == Behind(p.high, q.high)
<1>1. /\ q.low \in Counts /\ q.high \in Counts /\ q.level \in Levels
  BY PointProperties
<1>2. /\ a \in Nat /\ b \in Nat /\ CounterSize \in Nat
      /\ j <= a + b /\ a + b <= k
      /\ Rise(q.level) - Rise(p.level) = b - a
  BY <1>1, Counting DEF Ahead
<1>3. Rise(p.level) \in {0, 1}
  BY DEF Rise
<1>4. CASE r = q
  <2> HIDE DEF a, b
  <2>1. a + b <= k + 1
    BY <1>2
  <2> QED BY <1>2, <1>4, <2>1 DEF Ahead, a, b
<1>5. CASE r = After(q) /\ q.level = "high"
  <2>1. /\ r.low = (q.low + 1) % CounterSize /\ r.high = q.high /\ r.level = "low"
    BY <1>5 DEF After, At
  <2>2. b - a = 1 - Rise(p.level)
    BY <1>2, <1>5 DEF Rise
  <2>3. Behind(p.low, r.low) = IF a = CounterSize - 1 THEN 0 ELSE a + 1
    BY <1>1, <2>1, EdgeCounts
  <2>4. Behind(p.high, r.high) = b
    BY <2>1
  <2>5. Rise(r.level) = 0
    BY <2>1 DEF Rise
  <2> DEFINE c == Behind(p.low, r.low)
  <2> HIDE DEF a, b, c
  <2>6. a # CounterSize - 1
    BY <1>2, <1>3, <2>2
  <2>7. c = a + 1
    BY <2>3, <2>6 DEF c
  <2>8. j <= c + b /\ c + b <= k + 1 /\ Rise(r.level) - Rise(p.level) = b - c
    BY <1>2, <1>3, <2>2, <2>5, <2>7
  <2> QED BY <2>4, <2>8 DEF Ahead, c
<1>6. CASE r = After(q) /\ q.level # "high"
  <2>1. /\ r.low = q.low /\ r.high = (q.high + 1) % CounterSize /\ r.level = "high"
    BY <1>6 DEF After, At
  <2>2. b - a = 0 - Rise(p.level)
    BY <1>2, <1>6 DEF Rise
  <2>3. Behind(p.high, r.high) = IF b = CounterSize - 1 THEN 0 ELSE b + 1
    BY <1>1, <2>1, EdgeCounts
  <2>4. Behind(p.low, r.low) = a
    BY <2>1
  <2>5. Rise(r.level) = 1
    BY <2>1 DEF Rise
  <2> DEFINE c == Behind(p.high, r.high)
  <2> HIDE DEF a, b, c
  <2>6. b # CounterSize - 1
    BY <1>2, <1>3, <2>2
  <2>7. c = b + 1
    BY <2>3, <2>6 DEF c
  <2>8. j <= a + c /\ a + c <= k + 1 /\ Rise(r.level) - Rise(p.level) = c - a
    BY <1>2, <1>3, <2>2, <2>5, <2>7
  <2> QED BY <2>4, <2>8 DEF Ahead, c
<1> QED BY <1>4, <1>5, <1>6 DEF Step

\* A replay ends with a falling edge only if more of them are missing.
LEMMA LastCall ==
    ASSUME NEW l \in Nat, NEW h \in Nat, l + h # 0,
           Callbacks(l, h)[l + h] = "low"
    PROVE  l > h
<1>n. PICK n \in Nat : n = l + h
  OBVIOUS
<1>1. n \in 1 .. l + h /\ n = l + h /\ n # 0
  BY <1>n
<1>2. Callbacks(l, h)[n] = IF l >= (n + 1) \div 2 /\ h >= (n + 1) \div 2
                           THEN IF n % 2 = 1 THEN "low" ELSE "high"
                           ELSE IF l > h THEN "low" ELSE "high"
  BY <1>1 DEF Callbacks
<1>3. Callbacks(l, h)[n] = "low"
  BY <1>1
<1>4. CASE l >= (n + 1) \div 2 /\ h >= (n + 1) \div 2 /\ n % 2 = 1
  BY <1>1, <1>4
<1> QED BY <1>2, <1>3, <1>4

LEMMA ViewLater ==
    ASSUME CounterSize > 2, TypeOK, NEW q \in Points, NEW r, Step(q, r),
           NEW s \in {0, 1}, faults + Unseen + s <= CounterSize, InView(q, s)
    PROVE  InView(r, s + 1)
<1>1. PICK v \in Levels :
          /\ Ahead(At(seenLow, seenHigh, 0, v), q, Unseen, faults + Unseen + s)
          /\ hasFirstData /\ value = "low" => v = "low"
  BY DEF InView
<1> DEFINE p == At(seenLow, seenHigh, 0, v)
           k == faults + Unseen + s
<1>2. p.low \in Counts /\ p.high \in Counts /\ p.level \in Levels
  BY DEF At, TypeOK
<1>3. Unseen \in Nat /\ faults \in Nat /\ s \in Nat
  BY FaultsAssumption DEF Unseen, TypeOK
<1>4. k \in Nat /\ k + 1 = faults + Unseen + (s + 1)
  BY <1>3
<1>5. k <= CounterSize /\ Ahead(p, q, Unseen, k)
  BY <1>1
<1> HIDE DEF p, k
<1>6. Ahead(p, r, Unseen, k + 1)
  BY <1>2, <1>3, <1>4, <1>5, AheadLater
<1>7. Ahead(p, r, Unseen, faults + Unseen + (s + 1))
  BY <1>4, <1>6
<1> QED BY <1>1, <1>7 DEF InView, p

\* What is seen does not change, and at most as much is lost as is allowed for.
LEMMA ViewStays ==
    ASSUME TypeOK, NEW p \in Points, NEW s \in Nat, NEW t \in Nat,
           InView(p, s), faults' \in Nat, faults + s <= faults' + t,
           UNCHANGED <<seenLow, seenHigh, hasFirstData, value>>
    PROVE  InView(p, t)'
<1>1. PICK v \in Levels :
          /\ Ahead(At(seenLow, seenHigh, 0, v), p, Unseen, faults + Unseen + s)
          /\ hasFirstData /\ value = "low" => v = "low"
  BY DEF InView
<1> DEFINE a == Behind(seenLow, p.low)
           b == Behind(seenHigh, p.high)
<1>2. a \in Nat /\ b \in Nat
  BY Counting, PointProperties DEF TypeOK
<1>3. Unseen \in Nat /\ faults \in Nat /\ Unseen' = Unseen
  BY FaultsAssumption DEF Unseen, TypeOK
<1>4. /\ Unseen <= a + b /\ a + b <= faults + Unseen + s
      /\ Rise(p.level) - Rise(v) = b - a
  BY <1>1 DEF Ahead, At
<1> HIDE DEF a, b
<1>5. a + b <= faults' + Unseen' + t
  <2>1. PICK n \in Nat, m \in Nat, u \in Nat, d \in Nat :
            n = faults /\ m = faults' /\ u = Unseen /\ d = a + b
    BY <1>2, <1>3
  <2>2. n + s <= m + t /\ d <= n + u + s
    BY <1>4, <2>1
  <2>3. d <= m + u + t
    BY <2>2
  <2> QED BY <1>3, <2>1, <2>3
<1>6. Ahead(At(seenLow, seenHigh, 0, v), p, Unseen', faults' + Unseen' + t)
  BY <1>3, <1>4, <1>5 DEF Ahead, At, a, b
<1>7. /\ Ahead(At(seenLow', seenHigh', 0, v), p, Unseen', faults' + Unseen' + t)
      /\ hasFirstData' /\ value' = "low" => v = "low"
  BY <1>1, <1>6
<1> QED BY <1>7 DEF InView

\* A packet with the counters as they are, or after one more change, follows.
LEMMA FollowsGrows ==
    ASSUME CounterSize > 2, TypeOK, NEW g, Follows(g),
           NEW p \in Points, p = Now \/ p = After(Now),
           up' = Append(up, StatePacket(p.low, p.high)), Now' = p,
           faults < CounterSize, faults' \in Nat, faults <= faults',
           UNCHANGED <<provider, hasFirstData, seenLow, seenHigh, value>>
    PROVE  \E f : Follows(f)'
<1>0. Len(up) \in Nat /\ DOMAIN up = 1 .. Len(up) /\ up \in Seq(Packets)
  BY LenProperties DEF TypeOK
<1>n. PICK n \in Nat : n = Len(up)
  BY <1>0
<1>1. n = Len(up) /\ n \in Nat /\ DOMAIN up = 1 .. n /\ up \in Seq(Packets)
  BY <1>0, <1>n
<1>2. p.low \in Counts /\ p.high \in Counts
  BY PointProperties
<1>3. StatePacket(p.low, p.high) \in Packets
  BY <1>2, PacketProperties
<1>4. /\ up' \in Seq(Packets) /\ Len(up') = n + 1
      /\ \A i \in 1 .. n : up'[i] = up[i]
      /\ up'[n + 1] = StatePacket(p.low, p.high)
  BY <1>1, <1>3, AppendProperties
<1>5. DOMAIN up' = 1 .. n + 1 /\ up' # <<>>
  BY <1>4, LenProperties, EmptySeq
<1>6. IsState(n + 1)' /\ \A i \in 1 .. n : IsState(i)' <=> IsState(i)
  BY <1>4 DEF IsState, StatePacket
<1>7. \A i \in 1 .. n + 1 : i \in 1 .. n \/ i = n + 1
  BY <1>1
<1>8. PICK m \in Points : m = Now
  BY PointProperties
<1>9. Step(m, p)
  BY <1>8 DEF Step
<1>17. faults + 1 <= faults' + 1
  <2>1. faults \in Nat /\ faults' \in Nat /\ faults <= faults'
    BY FaultsAssumption DEF TypeOK
  <2>2. \A x, y \in Nat : x <= y => x + 1 <= y + 1
    OBVIOUS
  <2> QED BY <2>1, <2>2, Zenon
<1> DEFINE f == [i \in 1 .. n + 1 |-> IF i = n + 1 THEN p ELSE g[i]]
<1>10. /\ f \in [1 .. n + 1 -> Points]
       /\ f[n + 1] = p /\ \A i \in 1 .. n : f[i] = g[i]
  <2>1. \A i \in 1 .. n : g[i] \in Points /\ i # n + 1
    BY <1>1 DEF Follows
  <2> QED BY <1>1, <1>7, <2>1
<1> HIDE DEF f
<1>11. \A i \in DOMAIN up' : IsState(i)' => up'[i].low = f[i].low /\ up'[i].high = f[i].high
  <2>1. \A i \in 1 .. n : IsState(i)' => up'[i].low = f[i].low /\ up'[i].high = f[i].high
    BY <1>1, <1>4, <1>6, <1>10 DEF Follows
  <2>2. up'[n + 1].low = f[n + 1].low /\ up'[n + 1].high = f[n + 1].high
    BY <1>4, <1>10 DEF StatePacket
  <2> QED BY <1>5, <1>7, <2>1, <2>2
<1>12. \A i \in DOMAIN up' : ~IsState(i)' => i = 1 /\ ~provider' /\ First(f[1])
  <2> SUFFICES ASSUME NEW i \in 1 .. n + 1, ~IsState(i)'
               PROVE  i = 1 /\ ~provider' /\ First(f[1])
    BY <1>5
  <2>1. i \in 1 .. n /\ ~IsState(i)
    BY <1>6, <1>7
  <2>2. i = 1 /\ ~provider /\ First(g[1])
    BY <1>1, <2>1 DEF Follows
  <2> QED BY <1>10, <2>1, <2>2
<1>13. \A i, j \in DOMAIN up' : j = i + 1 => Step(f[i], f[j])
  <2> SUFFICES ASSUME NEW i \in 1 .. n + 1, i + 1 \in 1 .. n + 1
               PROVE  Step(f[i], f[i + 1])
    BY <1>5
  <2>1. i \in 1 .. n
    BY <1>1
  <2>2. CASE i + 1 \in 1 .. n
    BY <1>1, <1>10, <2>1, <2>2 DEF Follows
  <2>3. CASE i + 1 = n + 1
    <3>1. i = n
      BY <1>1, <2>1, <2>3
    <3>2. g[n] = m
      BY <1>1, <1>8, <2>1, <3>1 DEF Follows
    <3> QED BY <1>9, <1>10, <2>1, <2>3, <3>1, <3>2
  <2> QED BY <1>7, <2>2, <2>3
<1>14. provider' => InView(f[1], 1)'
  <2> SUFFICES ASSUME provider PROVE InView(f[1], 1)'
    OBVIOUS
  <2>1. CASE up = <<>>
    <3>1. n = 0 /\ f[1] = p
      BY <1>1, <1>10, <2>1, EmptySeq
    <3>2. InView(m, 0)
      BY <1>8, <2>1 DEF Follows
    <3>3. faults + Unseen + 0 <= CounterSize
      BY FaultsAssumption, CounterAssumption DEF Unseen, TypeOK
    <3>4. InView(p, 0 + 1)
      BY <1>9, <3>2, <3>3, ViewLater
    <3>5. InView(p, 1)
      BY <3>4
    <3>6. faults + 1 <= faults' + 1
      BY <1>17
    <3> QED BY <3>1, <3>5, <3>6, ViewStays
  <2>2. CASE up # <<>>
    <3>1. 1 \in 1 .. n
      BY <1>1, <2>2, EmptySeq
    <3>2. g[1] \in Points /\ InView(g[1], 1) /\ f[1] = g[1]
      BY <1>1, <1>10, <2>2, <3>1 DEF Follows
    <3>3. faults + 1 <= faults' + 1
      BY <1>17
    <3>4. InView(g[1], 1)'
      BY <3>2, <3>3, ViewStays
    <3> QED BY <3>2, <3>4
  <2> QED BY <2>1, <2>2
<1>15. \A i \in DOMAIN up' : i = Len(up') => f[i] = Now'
  BY <1>4, <1>5, <1>10
<1>16. Follows(f)'
  BY <1>5, <1>10, <1>11, <1>12, <1>13, <1>14, <1>15 DEF Follows
<1> QED BY <1>16

\* and when the first is gone, the rest follow.
LEMMA FollowsWithoutFirst ==
    ASSUME TypeOK, NEW g, Follows(g), up # <<>>, up' = Tail(up),
           UNCHANGED <<low, high, made, stable>>,
           provider' => /\ InView(g[1], 0)'
                        /\ \A q \in Points : Step(g[1], q) => InView(q, 1)'
    PROVE  \E f : Follows(f)'
<1>0. Len(up) \in Nat /\ DOMAIN up = 1 .. Len(up) /\ up \in Seq(Packets)
  BY LenProperties DEF TypeOK
<1>n. PICK n \in Nat : n = Len(up)
  BY <1>0
<1>1. n = Len(up) /\ n \in Nat /\ DOMAIN up = 1 .. n /\ up \in Seq(Packets)
  BY <1>0, <1>n
<1>2. n # 0 /\ 1 \in 1 .. n
  BY <1>1, EmptySeq
<1>3. /\ up' \in Seq(Packets) /\ Len(up') = n - 1
      /\ \A i \in 1 .. n - 1 : up'[i] = up[i + 1]
  BY <1>1, HeadTailProperties
<1>4. DOMAIN up' = 1 .. n - 1
  BY <1>3, LenProperties
<1>5. \A i \in 1 .. n - 1 : i + 1 \in 1 .. n /\ i + 1 # 1
  BY <1>1
<1>6. \A i \in 1 .. n - 1 : IsState(i)' <=> IsState(i + 1)
  BY <1>3 DEF IsState
<1>7. Now' = Now
  BY DEF Now
<1> DEFINE f == [i \in 1 .. n - 1 |-> g[i + 1]]
<1>8. f \in [1 .. n - 1 -> Points] /\ \A i \in 1 .. n - 1 : f[i] = g[i + 1]
  BY <1>1, <1>5 DEF Follows
<1> HIDE DEF f
<1>9. \A i \in 1 .. n - 1 : IsState(i)' => up'[i].low = f[i].low /\ up'[i].high = f[i].high
  BY <1>1, <1>3, <1>5, <1>6, <1>8 DEF Follows
<1>10. \A i \in 1 .. n - 1 : IsState(i)'
  BY <1>1, <1>5, <1>6 DEF Follows
<1>11. \A i, j \in 1 .. n - 1 : j = i + 1 => Step(f[i], f[j])
  <2> SUFFICES ASSUME NEW i \in 1 .. n - 1, i + 1 \in 1 .. n - 1
               PROVE  Step(f[i], f[i + 1])
    OBVIOUS
  <2>1. i + 1 \in 1 .. n /\ (i + 1) + 1 \in 1 .. n
    BY <1>5
  <2> QED BY <1>1, <1>8, <2>1 DEF Follows
<1>12. \A i \in 1 .. n - 1 : i = Len(up') => f[i] = Now'
  <2> SUFFICES ASSUME n - 1 \in 1 .. n - 1
               PROVE  f[n - 1] = Now
    BY <1>3, <1>7
  <2>1. (n - 1) + 1 = n /\ n \in 1 .. n
    BY <1>1, <1>2
  <2> QED BY <1>1, <1>8, <2>1 DEF Follows
<1>13. provider' => IF up' = <<>> THEN InView(Now, 0)' ELSE InView(f[1], 1)'
  <2> SUFFICES ASSUME provider'
               PROVE  IF up' = <<>> THEN InView(Now, 0)' ELSE InView(f[1], 1)'
    OBVIOUS
  <2>1. CASE up' = <<>>
    <3>1. n = 1
      BY <1>1, <1>3, <2>1, EmptySeq
    <3>2. g[1] = Now
      BY <1>1, <1>2, <3>1 DEF Follows
    <3>3. InView(g[1], 0)'
      OBVIOUS
    <3> QED BY <1>7, <2>1, <3>2, <3>3 DEF InView
  <2>2. CASE up' # <<>>
    <3>1. 1 \in 1 .. n - 1
      BY <1>1, <1>3, <2>2, EmptySeq
    <3>2. f[1] = g[2] /\ 1 + 1 = 2 /\ 2 \in 1 .. n
      BY <1>5, <1>8, <3>1
    <3>3. g[2] \in Points /\ Step(g[1], g[2])
      BY <1>1, <1>2, <3>2 DEF Follows
    <3> QED BY <2>2, <3>2, <3>3
  <2> QED BY <2>1, <2>2
<1>14. Follows(f)'
  BY <1>4, <1>8, <1>9, <1>10, <1>11, <1>12, <1>13 DEF Follows
<1> QED BY <1>14

LEMMA FewLossesBegin ==
    ASSUME TypeOK, Idle, StartSession, pin = stable
    PROVE  FewLosses'
<1> USE DEF pins, endpoint, server
<1>1. /\ up' = <<RegisterPacket>> /\ late' = {} /\ ~provider' /\ made' = 0
      /\ ProvInputReset /\ stable' = pin
  BY DEF StartSession, Idle
<1>2. DOMAIN up' = {1} /\ up'[1] = RegisterPacket /\ Len(up') = 1
  BY <1>1
<1>3. ~IsState(1)'
  BY <1>2 DEF IsState, RegisterPacket
<1>4. PICK p : p = Now' /\ First(p) /\ p \in Points
  <2>1. pin = "high" \/ pin = "low"
    BY DEF TypeOK, Levels
  <2>2. Now' = At(low', high', 0, pin)
    BY <1>1 DEF Now
  <2>3. First(Now')
    BY <1>1, <2>1, <2>2 DEF ProvInputReset, First
  <2> QED BY <2>3, PointProperties
<1> DEFINE g == [i \in {1} |-> p]
<1>5. g \in [{1} -> Points] /\ g[1] = p
  BY <1>4
<1> HIDE DEF g
<1>6. Follows(g)'
  <2>1. g \in [DOMAIN up' -> Points]
    BY <1>2, <1>5
  <2>2. \A i \in DOMAIN up' : ~IsState(i)' /\ i = 1
    BY <1>2, <1>3
  <2>3. First(g[1]) /\ g[1] = Now'
    BY <1>4, <1>5
  <2>4. \A i, j \in DOMAIN up' : j # i + 1
    BY <1>2
  <2> QED BY <1>1, <2>1, <2>2, <2>3, <2>4 DEF Follows
<1> QED BY <1>1, <1>6 DEF FewLosses

\* A packet brings the server's view to the point it was sent at.
LEMMA ViewOfPacket ==
    ASSUME CounterSize > 2, TypeOK, NEW p \in Points, NEW m,
           m.low = p.low, m.high = p.high, NewState(m), InView(p, 1),
           faults' = faults
    PROVE  InView(p, 0)' /\ \A q \in Points : Step(p, q) => InView(q, 1)'
<1> DEFINE l == Behind(seenLow, p.low)
           h == Behind(seenHigh, p.high)
           calls == Callbacks(l, h)
<1>1. p.low \in Counts /\ p.high \in Counts /\ p.level \in Levels
  BY PointProperties
<1>2. l \in Nat /\ h \in Nat
  BY <1>1, Counting DEF TypeOK
<1>3. /\ seenLow' = p.low /\ seenHigh' = p.high /\ hasFirstData'
      /\ value' = IF calls = <<>> THEN value ELSE calls[Len(calls)]
  BY DEF NewState
<1>4. PICK v \in Levels :
          /\ Ahead(At(seenLow, seenHigh, 0, v), p, Unseen, faults + Unseen + 1)
          /\ hasFirstData /\ value = "low" => v = "low"
  BY DEF InView
<1>5. Unseen <= l + h /\ Rise(p.level) - Rise(v) = h - l
  BY <1>4 DEF Ahead, At
<1>6. value' = "low" => p.level = "low"
  <2> SUFFICES ASSUME value' = "low" PROVE p.level = "low"
    OBVIOUS
  <2>1. calls = <<>> <=> l + h = 0
    BY <1>2, CallsProperties
  <2>2. Len(calls) = l + h
    BY <1>2, CallsProperties
  <2>3. CASE l + h = 0
    <3>1. l = 0 /\ h = 0
      <4> HIDE DEF l, h
      <4> QED BY <1>2, <2>3
    <3>2. value = "low" /\ hasFirstData
      BY <1>3, <1>5, <2>1, <2>3 DEF Unseen
    <3>3. v = "low"
      BY <1>4, <3>2
    <3>4. Rise(p.level) - 0 = 0
      BY <1>5, <3>1, <3>3 DEF Rise
    <3> QED BY <1>1, <3>4 DEF Rise, Levels
  <2>4. CASE l + h # 0
    <3>1. calls[l + h] = "low"
      BY <1>3, <2>1, <2>2, <2>4
    <3>2. l > h
      BY <1>2, <2>4, <3>1, LastCall
    <3>3. p.level # "high"
      <4> HIDE DEF l, h
      <4> QED BY <1>2, <1>5, <3>2 DEF Rise
    <3> QED BY <1>1, <3>3 DEF Levels
  <2> QED BY <2>3, <2>4
<1> DEFINE s == At(p.low, p.high, 0, p.level)
<1>7. s.low = p.low /\ s.high = p.high /\ s.level = p.level
  BY DEF At
<1>8. Ahead(s, p, 0, 0)
  BY <1>1, <1>7, AheadItself
<1>9. faults \in Nat /\ Unseen' = 0
  BY <1>3, FaultsAssumption DEF TypeOK, Unseen
<1>10. ASSUME NEW q \in Points, NEW n \in {0, 1}, Ahead(s, q, 0, n)
       PROVE  InView(q, n)'
  <2>1. /\ 0 <= Behind(p.low, q.low) + Behind(p.high, q.high)
        /\ Behind(p.low, q.low) + Behind(p.high, q.high) <= n
        /\ Rise(q.level) - Rise(p.level) = Behind(p.high, q.high) - Behind(p.low, q.low)
    BY <1>7, <1>10 DEF Ahead
  <2>2. Behind(p.low, q.low) \in Nat /\ Behind(p.high, q.high) \in Nat
    BY <1>1, PointProperties, Counting
  <2>3. \A x, y, z \in Nat : x <= y => x <= z + 0 + y
    OBVIOUS
  <2>4. Behind(p.low, q.low) + Behind(p.high, q.high) \in Nat /\ n \in Nat
    BY <2>2
  <2>5. Behind(p.low, q.low) + Behind(p.high, q.high) <= faults + 0 + n
    BY <1>9, <2>1, <2>3, <2>4, Zenon
  <2>6. Ahead(s, q, 0, faults + 0 + n)
    BY <1>7, <2>1, <2>5 DEF Ahead
  <2> QED BY <1>1, <1>3, <1>6, <1>9, <2>6 DEF InView
<1>11. InView(p, 0)'
  BY <1>8, <1>10
<1>12. ASSUME NEW q \in Points, Step(p, q) PROVE InView(q, 1)'
  <2>1. CounterSize \in Nat /\ 0 <= CounterSize
    BY Counting
  <2>2. Ahead(s, q, 0, 0 + 1)
    <3> HIDE DEF s
    <3> QED BY <1>1, <1>7, <1>8, <1>12, <2>1, AheadLater
  <2>3. Ahead(s, q, 0, 1)
    BY <2>2
  <2> QED BY <1>10, <2>3
<1> QED BY <1>11, <1>12

\* A new provider starts one change before the first counters of the session.
LEMMA ViewOfNewProvider ==
    ASSUME CounterSize > 2, TypeOK, NEW p \in Points, First(p),
           ~provider, AddProvider, faults' = faults
    PROVE  InView(p, 0)' /\ \A q \in Points : Step(p, q) => InView(q, 1)'
<1>1. seenLow' = 0 /\ seenHigh' = 0 /\ ~hasFirstData'
  BY DEF AddProvider
<1>2. Unseen' = 1 /\ faults \in Nat
  BY <1>1, FaultsAssumption DEF Unseen, TypeOK
<1>3. p.low \in Counts /\ p.high \in Counts /\ p.level \in Levels
  BY PointProperties
<1>4. PICK v \in Levels : Ahead(At(0, 0, 0, v), p, 1, 1)
  <2>1. Behind(0, 0) = 0 /\ Behind(0, 1) = 1
    <3>1. Behind(0, 1) = IF 0 <= 1 THEN 1 - 0 ELSE (1 - 0) + CounterSize
      BY BehindValue, Counting
    <3> QED BY <3>1, Counting
  <2>2. CASE p = At(0, 1, 0, "high")
    <3>1. Ahead(At(0, 0, 0, "low"), p, 1, 1)
      BY <2>1, <2>2 DEF Ahead, At, Rise
    <3> QED BY <3>1 DEF Levels
  <2>3. CASE p = At(1, 0, 0, "low")
    <3>1. Ahead(At(0, 0, 0, "high"), p, 1, 1)
      BY <2>1, <2>3 DEF Ahead, At, Rise
    <3> QED BY <3>1 DEF Levels
  <2> QED BY <2>2, <2>3 DEF First
<1> DEFINE s == At(0, 0, 0, v)
<1>5. s.low = 0 /\ s.high = 0 /\ s.level = v
  BY DEF At
<1>6. ASSUME NEW q \in Points, NEW n \in {0, 1}, Ahead(s, q, 1, n + 1)
      PROVE  InView(q, n)'
  <2>1. /\ 1 <= Behind(0, q.low) + Behind(0, q.high)
        /\ Behind(0, q.low) + Behind(0, q.high) <= n + 1
        /\ Rise(q.level) - Rise(v) = Behind(0, q.high) - Behind(0, q.low)
    BY <1>5, <1>6 DEF Ahead
  <2>2. Behind(0, q.low) \in Nat /\ Behind(0, q.high) \in Nat
    BY PointProperties, Counting
  <2>3. \A x, y, z \in Nat : x <= y + 1 => x <= z + 1 + y
    OBVIOUS
  <2>4. Behind(0, q.low) + Behind(0, q.high) \in Nat /\ n \in Nat
    BY <2>2
  <2>5. Behind(0, q.low) + Behind(0, q.high) <= faults + 1 + n
    BY <1>2, <2>1, <2>3, <2>4, Zenon
  <2>6. Ahead(s, q, 1, faults + 1 + n)
    BY <1>5, <2>1, <2>5 DEF Ahead
  <2> QED BY <1>1, <1>2, <2>6 DEF InView
<1>7. InView(p, 0)'
  <2>1. Ahead(s, p, 1, 0 + 1)
    BY <1>4
  <2> QED BY <1>6, <2>1
<1>8. ASSUME NEW q \in Points, Step(p, q) PROVE InView(q, 1)'
  <2>1. 0 \in Counts /\ CounterSize \in Nat /\ 1 <= CounterSize
    BY Counting
  <2>2. Ahead(s, p, 1, 1)
    BY <1>4
  <2>3. Ahead(s, q, 1, 1 + 1)
    <3> HIDE DEF s
    <3> QED BY <1>5, <1>8, <2>1, <2>2, AheadLater
  <2> QED BY <1>6, <2>3
<1> QED BY <1>7, <1>8

LEMMA FewLossesAreKept ==
    ASSUME CounterSize > 2
    PROVE  TypeOK /\ Idle /\ FewLosses /\ [Next]_vars => FewLosses'
<1> SUFFICES ASSUME TypeOK, Idle, FewLosses, [Next]_vars, session',
                    met' \subseteq {"lose", "early"}, faults' < CounterSize
             PROVE  FewLosses'
  BY DEF FewLosses
<1> USE DEF pins, endpoint, server
<1>0. /\ faults \in Nat /\ faults' \in Nat /\ TypeOK'
  BY TypesAreKept, FaultsAssumption DEF TypeOK
<1>1. CASE StartSession
  <2>1. pin = stable
    BY <1>1 DEF StartSession
  <2> QED BY <1>1, <2>1, FewLossesBegin
<1>2. CASE session /\ met \subseteq met' /\ faults <= faults' /\ ~StartSession
  <2>0. faults < CounterSize /\ met \subseteq {"lose", "early"}
    <3>1. \A x, y, z \in Nat : x <= y /\ y < z => x < z
      OBVIOUS
    <3> QED BY <1>0, <1>2, <3>1, Counting
  <2>1. late = {}
    BY <1>2, <2>0 DEF FewLosses
  <2>2. PICK g : Follows(g)
    BY <1>2, <2>0 DEF FewLosses
  <2>4. CASE PinChanges \/ UNCHANGED vars
    <3>1. UNCHANGED <<up, late, low, high, made, stable, provider, seenLow,
                      seenHigh, hasFirstData, value, faults>>
      BY <2>4 DEF PinChanges, vars
    <3>2. Follows(g)'
      BY <2>2, <3>1 DEF Follows, IsState, Now, InView, Unseen
    <3> QED BY <2>1, <3>1, <3>2 DEF FewLosses
  <2>5. CASE Confirm \/ OtherInput \/ SendStateRequested
    <3>1. PICK p \in Points :
              /\ p = Now \/ p = After(Now)
              /\ Now' = p /\ up' = Append(up, StatePacket(p.low, p.high))
      <4>1. Now \in Points /\ After(Now) \in Points
        BY PointProperties
      <4>2. Now'.low = low' /\ Now'.high = high'
        BY DEF Now, At
      <4>3. CASE Confirm
        <5>1. /\ pin # stable /\ stable' = pin /\ ProvInputSetState(pin)
              /\ up' = Append(up, StatePacket(low', high')) /\ made' = made + 1
          BY <4>3 DEF Confirm
        <5>2. Now' = After(Now)
          BY <5>1, ConfirmIsAfter
        <5> QED BY <4>1, <4>2, <5>1, <5>2
      <4>4. CASE OtherInput \/ SendStateRequested
        <5>1. /\ up' = Append(up, StatePacket(low, high))
              /\ UNCHANGED <<low, high, made, stable>>
          BY <4>4 DEF OtherInput, SendStateRequested, SendState
        <5>2. Now' = Now
          BY <5>1 DEF Now
        <5> QED BY <4>1, <4>2, <5>1, <5>2
      <4> QED BY <2>5, <4>3, <4>4
    <3>2. UNCHANGED <<late, provider, seenLow, seenHigh, hasFirstData, value>>
      BY <2>5 DEF Confirm, OtherInput, SendStateRequested
    <3>3. \E f : Follows(f)'
      BY <1>0, <1>2, <2>0, <2>2, <3>1, <3>2, FollowsGrows
    <3> QED BY <2>1, <3>2, <3>3 DEF FewLosses
  <2>6. CASE Deliver
    <3>1. /\ up # <<>> /\ up' = Tail(up) /\ ProcessData(Head(up))
          /\ UNCHANGED <<late, low, high, made, stable, faults>>
      BY <2>6 DEF Deliver
    <3>2. up \in Seq(Packets)
      BY DEF TypeOK
    <3>3. Head(up) = up[1] /\ up[1] \in Packets /\ 1 \in DOMAIN up
      BY <3>1, <3>2, Taken, EmptySeq, LenProperties
    <3>4. g[1] \in Points
      BY <2>2, <3>3 DEF Follows
    <3>5. provider' => /\ InView(g[1], 0)'
                       /\ \A q \in Points : Step(g[1], q) => InView(q, 1)'
      <4>1. CASE up[1].kind = "register"
        <5>1. ~IsState(1)
          BY <4>1 DEF IsState
        <5>2. ~provider /\ First(g[1])
          BY <2>2, <3>3, <5>1 DEF Follows
        <5>3. AddProvider
          BY <3>1, <3>3, <4>1 DEF ProcessData
        <5> QED BY <3>1, <3>4, <5>2, <5>3, ViewOfNewProvider
      <4>2. CASE up[1].kind = "state" /\ provider /\ NewState(up[1])
        <5>1. up[1].low = g[1].low /\ up[1].high = g[1].high
          BY <2>2, <3>3, <4>2 DEF Follows, IsState
        <5>2. InView(g[1], 1)
          BY <2>2, <3>1, <4>2 DEF Follows
        <5> QED BY <3>1, <3>4, <4>2, <5>1, <5>2, ViewOfPacket
      <4>3. CASE ~provider /\ UNCHANGED server
        BY <4>3
      <4> QED BY <3>1, <3>3, <4>1, <4>2, <4>3, PacketProperties DEF ProcessData
    <3>6. \E f : Follows(f)'
      BY <2>2, <3>1, <3>5, FollowsWithoutFirst
    <3> QED BY <2>1, <3>1, <3>6 DEF FewLosses
  <2>7. CASE Lose
    <3>1. UNCHANGED <<late, low, high, made, stable, provider, seenLow, seenHigh,
                      hasFirstData, value>>
      BY <2>7 DEF Lose
    <3>2. faults' = faults + 1 /\ faults \in Nat
      BY <1>0, <2>7 DEF Lose, Disturb
    <3>n. PICK n \in Nat : n = faults
      BY <3>2
    <3>3. CASE up # <<>> /\ up' = Tail(up)
      <4>1. up \in Seq(Packets)
        BY DEF TypeOK
      <4>2. 1 \in DOMAIN up
        BY <3>3, <4>1, EmptySeq, LenProperties
      <4>3. g[1] \in Points
        BY <2>2, <4>2 DEF Follows
      <4>4. ASSUME provider
            PROVE  /\ InView(g[1], 0)'
                   /\ \A q \in Points : Step(g[1], q) => InView(q, 1)'
        <5>1. InView(g[1], 1)
          BY <2>2, <3>3, <4>4 DEF Follows
        <5>2. faults + 1 <= faults' + 0 /\ faults + 2 <= faults' + 1
          BY <3>2, <3>n
        <5>3. InView(g[1], 0)'
          BY <1>0, <3>1, <4>3, <5>1, <5>2, ViewStays
        <5>4. ASSUME NEW q \in Points, Step(g[1], q)
              PROVE  InView(q, 1)'
          <6>1. faults + Unseen + 1 <= CounterSize
            <7>1. n + 1 < CounterSize /\ CounterSize \in Nat
              BY <3>2, <3>n, Counting
            <7>2. n + 0 + 1 <= CounterSize /\ n + 1 + 1 <= CounterSize
              BY <7>1
            <7> QED BY <3>n, <7>2 DEF Unseen
          <6>2. InView(q, 1 + 1)
            BY <4>3, <5>1, <5>4, <6>1, ViewLater
          <6>3. InView(q, 2)
            BY <6>2
          <6> QED BY <1>0, <3>1, <5>2, <6>3, ViewStays
        <5> QED BY <5>3, <5>4
      <4>5. \E f : Follows(f)'
        BY <2>2, <3>1, <3>3, <4>4, FollowsWithoutFirst
      <4> QED BY <2>1, <3>1, <4>5 DEF FewLosses
    <3>4. CASE up' = up
      <4>1. Now \in Points /\ (up # <<>> => g[1] \in Points)
        <5>1. up # <<>> => 1 \in DOMAIN up
          BY EmptySeq, LenProperties DEF TypeOK
        <5> QED BY <2>2, <5>1, PointProperties DEF Follows
      <4>2. PICK m \in Points : m = Now
        BY <4>1
      <4>3. faults + 0 <= faults' + 0 /\ faults + 1 <= faults' + 1
        BY <3>2, <3>n
      <4>4. InView(m, 0) => InView(m, 0)'
        BY <1>0, <3>1, <4>3, ViewStays
      <4>5. up # <<>> => (InView(g[1], 1) => InView(g[1], 1)')
        BY <1>0, <3>1, <4>1, <4>3, ViewStays
      <4>6. Now' = m
        BY <3>1, <4>2 DEF Now
      <4>7. provider' => IF up' = <<>> THEN InView(Now, 0)' ELSE InView(g[1], 1)'
        <5>1. provider => IF up = <<>> THEN InView(m, 0) ELSE InView(g[1], 1)
          BY <2>2, <4>2 DEF Follows
        <5>2. InView(m, 0)' => InView(Now, 0)'
          BY <4>6 DEF InView
        <5> QED BY <3>1, <3>4, <4>4, <4>5, <5>1, <5>2
      <4>8. Follows(g)'
        BY <2>2, <3>1, <3>4, <4>2, <4>6, <4>7 DEF Follows, IsState
      <4> QED BY <2>1, <3>1, <4>8 DEF FewLosses
    <3> QED BY <2>7, <3>3, <3>4 DEF Lose
  <2>8. ~RegisterAgain /\ ~Delay /\ ~Duplicate
    <3>1. \A kind \in {"reregister", "delay", "duplicate"} : ~Disturb(kind)
      BY DEF Disturb
    <3> QED BY <3>1 DEF RegisterAgain, Delay, Duplicate
  <2>9. ~ConfirmUnheard /\ ~DeliverLate /\ ~EndSession
    BY <1>2, <2>1 DEF ConfirmUnheard, DeliverLate, EndSession
  <2> QED BY <1>2, <2>4, <2>5, <2>6, <2>7, <2>8, <2>9 DEF Next
<1>3. StartSession \/ (session /\ met \subseteq met' /\ faults <= faults')
  <2>1. \A kind : Disturb(kind) => met \subseteq met' /\ faults <= faults'
    BY <1>0 DEF Disturb
  <2>2. UNCHANGED <<faults, met>> => met \subseteq met' /\ faults <= faults'
    BY <1>0
  <2>3. CASE Confirm
    BY <2>1, <2>2, <2>3 DEF Confirm
  <2>4. CASE RegisterAgain \/ Lose \/ Delay \/ Duplicate
    BY <2>1, <2>4 DEF RegisterAgain, Lose, Delay, Duplicate
  <2>5. CASE PinChanges \/ ConfirmUnheard \/ OtherInput \/ SendStateRequested
    BY <2>2, <2>5 DEF PinChanges, ConfirmUnheard, OtherInput, SendStateRequested
  <2>6. CASE Deliver \/ DeliverLate
    BY <2>2, <2>6 DEF Deliver, DeliverLate
  <2>7. CASE UNCHANGED vars
    BY <2>2, <2>7 DEF vars
  <2>8. ~EndSession
    BY DEF EndSession
  <2>9. CASE StartSession
    BY <2>9
  <2> QED BY <2>3, <2>4, <2>5, <2>6, <2>7, <2>8, <2>9 DEF Next
<1> QED BY <1>1, <1>2, <1>3

\* An input that is shown as low by the latest counters is low, while fewer
\* packets are lost in a session than a counter has values: what is replayed
\* is then what was made, and it ends with the true level if that is low.
THEOREM ShownLowIsTrue ==
    ASSUME CounterSize > 2
    PROVE  Spec => []ShownLowIsLow
<1>1. TypeOK /\ Idle /\ FewLosses => ShownLowIsLow
  <2> SUFFICES ASSUME TypeOK, Idle, FewLosses, met \subseteq {"lose", "early"},
                      faults < CounterSize, UpToDate, value = "low"
               PROVE  stable = "low"
    BY DEF ShownLowIsLow
  <2>1. /\ provider /\ hasFirstData /\ up = <<>>
        /\ seenLow = low /\ seenHigh = high
    BY DEF UpToDate, Quiet
  <2>2. session
    BY <2>1 DEF Idle
  <2>3. InView(Now, 0)
    BY <2>1, <2>2 DEF FewLosses, Follows
  <2>4. Ahead(At(low, high, 0, "low"), Now, Unseen, faults + Unseen + 0)
    BY <2>1, <2>3 DEF InView
  <2>5. Behind(low, low) = 0 /\ Behind(high, high) = 0
    BY Counting DEF TypeOK
  <2>6. Rise(stable) - Rise("low") = 0 - 0
    BY <2>4, <2>5 DEF Ahead, At, Now
  <2> QED BY <2>6 DEF Rise, TypeOK, Levels
<1>2. Init => FewLosses
  BY DEF Init, FewLosses
<1> QED BY <1>1, <1>2, Invariants, FewLossesAreKept, PTL DEF Spec

=============================================================================
