--------------------------- MODULE Outputs_proofs ---------------------------
(***************************************************************************)
(* Theorems about Outputs, for every finite set of outputs, every refresh  *)
(* period and any number of disturbances.                                  *)
(***************************************************************************)
EXTENDS Outputs, FiniteSetTheorems, SequenceTheorems, TLAPS

-----------------------------------------------------------------------------
(* Sequences of packets                                                    *)

LEMMA NothingInFlight == <<>> \in Seq(Packets)
  OBVIOUS

LEMMA FirstAndRest ==
    ASSUME NEW S, NEW link \in Seq(S), link # <<>>
    PROVE  /\ Head(link) \in S /\ Tail(link) \in Seq(S)
           /\ Tail(link) = <<>> => link[Len(link)] = Head(link)
           /\ Tail(link) # <<>> => Tail(link)[Len(Tail(link))] = link[Len(link)]
<1>1. Head(link) \in S /\ Tail(link) \in Seq(S)
  OBVIOUS
<1>2. /\ Len(link) \in Nat \ {0} /\ Len(Tail(link)) = Len(link) - 1
      /\ Head(link) = link[1]
      /\ \A i \in 1 .. Len(link) - 1 : Tail(link)[i] = link[i + 1]
  OBVIOUS
<1>3. Len(Tail(link)) = 0 <=> Tail(link) = <<>>
  <2>1. Len(<<>>) = 0
    OBVIOUS
  <2>2. ASSUME Tail(link) = <<>>
        PROVE  Len(Tail(link)) = 0
    BY <2>1, <2>2, Zenon
  <2>3. \A t \in Seq(S) : Len(t) = 0 => t = <<>>
    OBVIOUS
  <2> QED BY <1>1, <2>2, <2>3
<1>4. CASE Len(link) = 1
  BY <1>1, <1>2, <1>3, <1>4
<1>5. CASE Len(link) # 1
  <2>1. Tail(link) # <<>>
    BY <1>2, <1>3, <1>5
  <2>2. Tail(link)[Len(link) - 1] = link[Len(link)]
    BY <1>2, <1>5
  <2> QED BY <1>1, <1>2, <1>5, <2>1, <2>2
<1> QED BY <1>4, <1>5

\* Joining a link and a burst: the last packet of the burst is the last one.
LEMMA BurstIsLast ==
    ASSUME NEW S, NEW link \in Seq(S), NEW burst \in Seq(S), burst # <<>>
    PROVE  /\ link \o burst \in Seq(S)
           /\ link \o burst # <<>>
           /\ (link \o burst)[Len(link \o burst)] = burst[Len(burst)]
<1>1. /\ Len(link \o burst) = Len(link) + Len(burst)
      /\ Len(link) \in Nat /\ Len(burst) \in Nat \ {0}
  OBVIOUS
<1>2. Len(<<>>) = 0
  OBVIOUS
<1>3. Len(link \o burst) # Len(<<>>)
  BY <1>1, <1>2
<1>4. link \o burst # <<>>
  BY <1>3, Zenon
<1> QED BY <1>4

LEMMA FunctionIsSeq ==
    ASSUME NEW S, NEW n \in Nat, NEW f \in [1 .. n -> S]
    PROVE  f \in Seq(S) /\ Len(f) = n
<1>1. f \in Seq(S)
  BY SeqDef
<1>2. 1 .. Len(f) = 1 .. n /\ Len(f) \in Nat
  BY <1>1, LenProperties
<1> QED BY <1>1, <1>2

\* Joining a link and nothing.
LEMMA Joined ==
    ASSUME NEW S, NEW link \in Seq(S), NEW burst \in Seq(S)
    PROVE  link \o burst \in Seq(S) /\ (burst = <<>> => link \o burst = link)
<1>1. link \o burst \in Seq(S)
  OBVIOUS
<1>2. link \o <<>> = link
  BY ConcatEmptySeq
<1> QED BY <1>1, <1>2, Zenon

\* ... and so is a single packet.
LEMMA AppendIsLast ==
    ASSUME NEW S, NEW link \in Seq(S), NEW e \in S
    PROVE  /\ Append(link, e) \in Seq(S)
           /\ Append(link, e) # <<>>
           /\ Append(link, e)[Len(Append(link, e))] = e
<1>1. Len(Append(link, e)) = Len(link) + 1 /\ Len(link) \in Nat
  OBVIOUS
<1>2. Len(<<>>) = 0
  OBVIOUS
<1>3. Len(Append(link, e)) # Len(<<>>)
  BY <1>1, <1>2
<1>4. Append(link, e) # <<>>
  BY <1>3, Zenon
<1> QED BY <1>4

-----------------------------------------------------------------------------
(* The loops over the outputs                                              *)

\* A loop over the changed outputs sends at least one packet, well formed, and
\* the last one of them is the target.
LEMMA LoopReachesTarget ==
    ASSUME bits \in Packets, NEW target \in Packets, Changes(target) # {},
           NEW s \in Orders(Changes(target))
    PROVE  /\ OneByOne(s, target) \in Seq(Packets)
           /\ OneByOne(s, target) # <<>>
           /\ OneByOne(s, target)[Len(OneByOne(s, target))] = target
<1> DEFINE C == Changes(target)
           n == Cardinality(C)
           w == OneByOne(s, target)
<1>1. IsFiniteSet(C)
  BY OutputsAssumption, FS_Subset DEF Changes
<1>2. n \in Nat /\ n # 0
  BY <1>1, FS_CardinalityType, FS_EmptySet
<1>3. s \in [1 .. n -> C] /\ \A o \in C : \E i \in 1 .. n : s[i] = o
  BY DEF Orders
<1>4. w = [m \in 1 .. n |-> [o \in Outputs |->
            IF \E i \in 1 .. m : s[i] = o THEN target[o] ELSE bits[o]]]
  BY <1>3 DEF OneByOne
<1>5. \A m \in 1 .. n : w[m] \in Packets
  BY <1>4 DEF Packets
<1>6. w \in Seq(Packets) /\ Len(w) = n
  <2>1. w \in [1 .. n -> Packets]
    BY <1>4, <1>5
  <2> QED BY <2>1, <1>2
<1>7. w # <<>>
  <2>1. Len(<<>>) = 0
    OBVIOUS
  <2>2. Len(w) # Len(<<>>)
    BY <2>1, <1>2, <1>6
  <2> QED BY <2>2, Zenon
<1>8. w[n] = target
  <2>1. w[n] = [o \in Outputs |->
            IF \E i \in 1 .. n : s[i] = o THEN target[o] ELSE bits[o]]
    BY <1>2, <1>4
  <2>2. \A o \in Outputs : w[n][o] = target[o]
    <3> TAKE o \in Outputs
    <3>1. CASE o \in C
      BY <2>1, <1>3, <3>1
    <3>2. CASE o \notin C
      BY <2>1, <3>2 DEF Changes
    <3> QED BY <3>1, <3>2
  <2> QED BY <2>1, <2>2 DEF Packets
<1> QED BY <1>6, <1>7, <1>8

\* What Drive does: with a provider the bits become the target, without one
\* nothing happens; and what the pins will end up with follows the bits, unless
\* other providers send as well.
LEMMA DriveEffect ==
    ASSUME TypeOK, NEW target \in Packets, NEW others \in Seq(Packets),
           Drive(target, others)
    PROVE  /\ bits' \in Packets
           /\ sinceUpdate' \in 0 .. REFRESH_PERIOD
           /\ down' \in Seq(Packets)
           /\ provider => bits' = target
           /\ ~provider \/ Changes(target) = {} => UNCHANGED <<bits, sinceUpdate>>
           /\ others = <<>> =>
                /\ ~provider \/ Changes(target) = {} => UNCHANGED down
                /\ provider /\ Changes(target) # {} =>
                        down' # <<>> /\ down'[Len(down')] = target
<1> USE DEF TypeOK
<1>1. CASE provider /\ Changes(target) # {}
  <2>1. bits' = target /\ sinceUpdate' = 0
    BY <1>1 DEF Drive
  <2>2. PICK s \in Orders(Changes(target)) :
            down' = down \o OneByOne(s, target) \o others
    BY <1>1 DEF Drive
  <2>3. /\ OneByOne(s, target) \in Seq(Packets)
        /\ OneByOne(s, target) # <<>>
        /\ OneByOne(s, target)[Len(OneByOne(s, target))] = target
    BY <1>1, LoopReachesTarget
  <2> DEFINE burst == down \o OneByOne(s, target)
  <2>4. /\ burst \in Seq(Packets)
        /\ burst # <<>> /\ burst[Len(burst)] = target
    BY <2>3, BurstIsLast
  <2>5. down' = burst \o others
    BY <2>2
  <2> HIDE DEF burst
  <2>6. burst \o others \in Seq(Packets) /\ (others = <<>> => burst \o others = burst)
    BY <2>4, Joined
  <2> QED BY <1>1, <2>1, <2>4, <2>5, <2>6, BoundsAssumption
<1>2. CASE ~(provider /\ Changes(target) # {})
  <2>1. down' = down \o others /\ UNCHANGED <<bits, sinceUpdate>>
    BY <1>2 DEF Drive
  <2>2. Changes(target) = {} => bits = target
    <3>1. Changes(target) = {} => \A o \in Outputs : target[o] = bits[o]
      BY DEF Changes
    <3> QED BY <3>1 DEF Packets
  <2>3. down' \in Seq(Packets) /\ (others = <<>> => down' = down)
    BY <2>1, Joined
  <2> QED BY <1>2, <2>1, <2>2, <2>3
<1> QED BY <1>1, <1>2

LEMMA Ranges ==
    /\ REFRESH_PERIOD \in 0 .. REFRESH_PERIOD /\ 0 \in 0 .. REFRESH_PERIOD
    /\ 0 \in 0 .. MaxFaults
  BY BoundsAssumption

LEMMA LevelsOfFunctions ==
    /\ AllOff \in Packets
    /\ NoneSet \in [Outputs -> Levels \cup {"unset"}]
    /\ \A l \in Levels \cup {"unset"} : Flip(l) \in Levels
  BY DEF AllOff, Packets, Levels, NoneSet, Flip

LEMMA TargetsArePackets ==
    ASSUME TypeOK
    PROVE  /\ InitialStates \in Packets /\ AskedFor \in Packets
           /\ \A o \in Outputs, v \in Levels : [bits EXCEPT ![o] = v] \in Packets
           /\ \A o \in Outputs : StoredLevel(o) \in Levels
  BY DEF TypeOK, InitialStates, AskedFor, Packets, Levels, StoredLevel

\* What the twins send is well formed, and nothing if there are none.
LEMMA TwinsEffect ==
    ASSUME TypeOK
    PROVE  /\ TwinPackets \in Seq(Packets)
           /\ twins = <<>> => TwinPackets = <<>> /\ DueTwins = {}
           /\ TwinsSend => twins' \in Seq(0 .. NewTwin)
           /\ TwinsSend /\ twins = <<>> => twins' = <<>>
<1>1. PICK n \in Nat : twins \in [1 .. n -> 0 .. NewTwin] /\ n = Len(twins)
  BY LenProperties DEF TypeOK
<1>2. DueTwins \subseteq 1 .. n /\ DOMAIN twins = 1 .. n
  BY <1>1 DEF DueTwins
<1>3. IsFiniteSet(1 .. n)
  BY FS_Interval
<1>4. Cardinality(DueTwins) \in Nat
  BY <1>2, <1>3, FS_Subset, FS_CardinalityType
<1>5. TwinPackets \in Seq(Packets) /\ Len(TwinPackets) = Cardinality(DueTwins)
  BY <1>4, LevelsOfFunctions DEF TwinPackets
<1>6. TwinsSend => twins' \in Seq(0 .. NewTwin) /\ Len(twins') = n
  <2>1. ASSUME TwinsSend
        PROVE  twins' \in [1 .. n -> 0 .. NewTwin]
    <3>1. twins' = [i \in 1 .. n |-> IF i \in DueTwins THEN 0 ELSE twins[i]]
      BY <1>2, <2>1 DEF TwinsSend
    <3>2. 0 \in 0 .. NewTwin
      BY BoundsAssumption DEF NewTwin
    <3> QED BY <1>1, <3>1, <3>2
  <2>2. \A f \in [1 .. n -> 0 .. NewTwin] : f \in Seq(0 .. NewTwin) /\ Len(f) = n
    BY FunctionIsSeq
  <2> QED BY <2>1, <2>2
<1>7. ASSUME twins = <<>>
      PROVE  n = 0
  BY <1>1, <1>7, EmptySeq
<1>8. ASSUME twins = <<>>
      PROVE  TwinPackets = <<>> /\ DueTwins = {}
  <2>1. DueTwins = {}
    BY <1>2, <1>7, <1>8
  <2>2. Cardinality(DueTwins) = 0
    BY <2>1, FS_EmptySet
  <2> QED BY <1>5, <2>1, <2>2, EmptySeq
<1>9. ASSUME TwinsSend, twins = <<>>
      PROVE  twins' = <<>>
  BY <1>6, <1>7, <1>9, EmptySeq
<1> QED BY <1>5, <1>6, <1>8, <1>9

\* The provider asks, or sends what it holds.
LEMMA ProcessEffect ==
    ASSUME TypeOK, Process
    PROVE  /\ bits' = AskedFor
           /\ sinceUpdate' \in 0 .. REFRESH_PERIOD
           /\ down' \in Seq(Packets)
           /\ provider /\ restored' /\ TwinsSend
           /\ UNCHANGED <<controller, provider, late, pins, faults>>
<1>1. provider /\ restored' /\ UNCHANGED <<controller, provider, late, pins, faults>>
  BY DEF Process
<1>2. TwinsSend
  BY DEF Process
<1>3. CASE Due /\ Changes(AskedFor) = {}
  <2>1. /\ down' = Append(down, bits) \o TwinPackets /\ sinceUpdate' = 0
        /\ UNCHANGED bits
    BY <1>3 DEF Process
  <2>2. Append(down, bits) \in Seq(Packets)
    BY AppendIsLast DEF TypeOK
  <2>3. down' \in Seq(Packets)
    BY <2>1, <2>2, Joined, TwinsEffect
  <2>4. bits = AskedFor
    <3>1. \A o \in Outputs : AskedFor[o] = bits[o]
      BY <1>3 DEF Changes
    <3> QED BY <3>1, TargetsArePackets DEF TypeOK, Packets
  <2> QED BY <1>1, <1>2, <2>1, <2>3, <2>4, Ranges
<1>4. CASE ~(Due /\ Changes(AskedFor) = {})
  <2>1. Drive(AskedFor, TwinPackets)
    BY <1>4 DEF Process
  <2> QED BY <1>1, <1>2, <2>1, DriveEffect, TargetsArePackets, TwinsEffect
<1> QED BY <1>3, <1>4

-----------------------------------------------------------------------------
(* The file                                                                *)

\* What a round of saves does to the storage, whether or not the last one of
\* them can open the file.
LEMMA SaveEffect ==
    ASSUME TypeOK, NEW S \in SUBSET Outputs,
           NEW level, \A o \in S : level[o] \in Levels,
           SavePersistentState(S, level)
    PROVE  /\ config' \in [Outputs -> Levels \cup {"unset"}]
           /\ last' \in [Outputs -> Levels \cup {"unset"}]
           /\ file' \in [Outputs -> Levels \cup {"unset"}]
           /\ fileState' \in {"absent", "whole", "torn"}
           /\ saved' \in BOOLEAN /\ UNCHANGED forgotten
           /\ faults' \in 0 .. MaxFaults
           /\ faults' = faults \/ faults' # 0
           /\ config' = With(S, level)
           /\ last' = [o \in Outputs |-> IF o \in S THEN level[o] ELSE last[o]]
           /\ saved' => file' = config'
           /\ fileState' = "torn" => fileState = "torn"
<1> USE DEF TypeOK
<1>1. \A D \in SUBSET S : With(D, level) \in [Outputs -> Levels \cup {"unset"}]
  BY DEF With
<1>2. /\ config' = With(S, level) /\ UNCHANGED forgotten
      /\ last' = [o \in Outputs |-> IF o \in S THEN level[o] ELSE last[o]]
  BY DEF SavePersistentState
<1>3. last' \in [Outputs -> Levels \cup {"unset"}]
  BY <1>2
<1>4. CASE /\ file' = With(S, level) /\ fileState' = "whole" /\ saved' = TRUE
           /\ UNCHANGED faults
  BY <1>1, <1>2, <1>3, <1>4
<1>5. CASE /\ Disturb("disk") /\ saved' = FALSE
           /\ \/ UNCHANGED disk
              \/ \E D \in SUBSET S \ {{}, S} :
                     file' = With(D, level) /\ fileState' = "whole"
  <2>1. faults' \in 0 .. MaxFaults /\ faults' # 0
    BY <1>5, BoundsAssumption DEF Disturb
  <2>2. /\ file' \in [Outputs -> Levels \cup {"unset"}]
        /\ fileState' \in {"absent", "whole", "torn"}
        /\ fileState' = "torn" => fileState = "torn"
    BY <1>1, <1>5 DEF disk
  <2> QED BY <1>1, <1>2, <1>3, <1>5, <2>1, <2>2
<1> QED BY <1>4, <1>5 DEF SavePersistentState

-----------------------------------------------------------------------------
(* Types                                                                   *)

LEMMA SetOutputEffect ==
    ASSUME TypeOK, NEW o \in Outputs, NEW v \in Levels, SetOutput(o, v)
    PROVE  /\ value' = [value EXCEPT ![o] = v] /\ value'[o] = v
           /\ SavePersistentState({o}, value')
           /\ {o} \in SUBSET Outputs /\ \A x \in {o} : value'[x] \in Levels
  BY DEF SetOutput, TypeOK

LEMMA SetOutputType ==
    ASSUME TypeOK, NEW o \in Outputs, NEW v \in Levels, SetOutput(o, v)
    PROVE  TypeOK'
<1>1. [bits EXCEPT ![o] = v] \in Packets
  BY TargetsArePackets
<1>2. /\ bits' \in Packets /\ sinceUpdate' \in 0 .. REFRESH_PERIOD
      /\ down' \in Seq(Packets)
  BY <1>1, DriveEffect, NothingInFlight DEF SetOutput
<1>3. /\ config' \in [Outputs -> Levels \cup {"unset"}]
      /\ last' \in [Outputs -> Levels \cup {"unset"}]
      /\ file' \in [Outputs -> Levels \cup {"unset"}]
      /\ fileState' \in {"absent", "whole", "torn"}
      /\ saved' \in BOOLEAN /\ UNCHANGED forgotten
      /\ faults' \in 0 .. MaxFaults
  BY SetOutputEffect, SaveEffect
<1>4. value' \in [Outputs -> Levels \cup {"unset"}]
  BY SetOutputEffect DEF TypeOK
<1>5. UNCHANGED <<persistent, provider, restored, twins, late, pins>>
  BY DEF SetOutput
<1> QED BY <1>2, <1>3, <1>4, <1>5 DEF TypeOK

LEMMA InitOkEffect ==
    ASSUME TypeOK, InitOk
    PROVE  /\ value' = [o \in Outputs |-> IF o \in ToInitialise THEN StoredLevel(o)
                                                               ELSE value[o]]
           /\ value' \in [Outputs -> Levels \cup {"unset"}]
           /\ SavePersistentState(ToInitialise, value')
           /\ ToInitialise \in SUBSET Outputs
           /\ \A x \in ToInitialise : value'[x] = StoredLevel(x) /\ value'[x] \in Levels
<1>1. ToInitialise \in SUBSET Outputs
  BY DEF ToInitialise, TypeOK
<1>2. \A o \in Outputs : StoredLevel(o) \in Levels
  BY TargetsArePackets
<1> QED BY <1>1, <1>2 DEF InitOk, TypeOK

\* What every new start leaves of the server: nothing.
LEMMA ReloadEffect ==
    ASSUME TypeOK, Reload
    PROVE  /\ value' = NoneSet /\ value' \in [Outputs -> Levels \cup {"unset"}]
           /\ persistent' \subseteq Outputs
           /\ provider' = FALSE /\ restored' = FALSE
           /\ bits' \in Packets /\ sinceUpdate' \in 0 .. REFRESH_PERIOD
           /\ twins' \in Seq(0 .. NewTwin)
<1>1. <<>> \in Seq(0 .. NewTwin)
  OBVIOUS
<1> QED BY <1>1, LevelsOfFunctions, Ranges DEF Reload, NoProvider

LEMMA InitOkTarget ==
    ASSUME TypeOK
    PROVE  [o \in Outputs |-> IF o \in ToInitialise THEN StoredLevel(o)
                                                    ELSE bits[o]] \in Packets
  BY TargetsArePackets DEF TypeOK, Packets

\* Every reachable state is well typed.
THEOREM TypeCorrect == Spec => []TypeOK
<1>1. Init => TypeOK
  <2>1. <<>> \in Seq(0 .. NewTwin)
    OBVIOUS
  <2> QED BY <2>1, NothingInFlight, LevelsOfFunctions, Ranges DEF Init, TypeOK
<1>2. TypeOK /\ [Next]_vars => TypeOK'
  <2> SUFFICES ASSUME TypeOK, [Next]_vars
               PROVE  TypeOK'
    OBVIOUS
  <2>1. CASE Set
    BY <2>1, SetOutputType DEF Set
  <2>2. CASE Toggle
    <3>1. PICK o \in Outputs : SetOutput(o, Flip(value[o]))
      BY <2>2 DEF Toggle
    <3>2. Flip(value[o]) \in Levels
      BY LevelsOfFunctions DEF TypeOK
    <3> QED BY <3>1, <3>2, SetOutputType
  <2>3. CASE SetOutputAsPersistent
    BY <2>3 DEF SetOutputAsPersistent, storage, disk, providerVars, TypeOK
  <2>4. CASE InitOk
    <3>1. /\ bits' \in Packets /\ sinceUpdate' \in 0 .. REFRESH_PERIOD
          /\ down' \in Seq(Packets)
      BY <2>4, InitOkTarget, DriveEffect, NothingInFlight DEF InitOk
    <3>2. /\ config' \in [Outputs -> Levels \cup {"unset"}]
          /\ last' \in [Outputs -> Levels \cup {"unset"}]
          /\ file' \in [Outputs -> Levels \cup {"unset"}]
          /\ fileState' \in {"absent", "whole", "torn"}
          /\ saved' \in BOOLEAN /\ UNCHANGED forgotten
          /\ faults' \in 0 .. MaxFaults
      BY <2>4, InitOkEffect, SaveEffect
    <3>3. value' \in [Outputs -> Levels \cup {"unset"}]
      BY <2>4, InitOkEffect
    <3>4. UNCHANGED <<persistent, provider, restored, twins, late, pins>>
      BY <2>4 DEF InitOk
    <3> QED BY <3>1, <3>2, <3>3, <3>4 DEF TypeOK
  <2>5. CASE Reset \/ Restart
    <3>1. Reload /\ UNCHANGED <<disk, last, down, late, pins, faults>>
      BY <2>5 DEF Reset, Restart, LoadFresh
    <3>2. config' \in {config, file} /\ saved' \in BOOLEAN /\ forgotten' \in BOOLEAN
      BY <2>5, <3>1 DEF Reset, Restart, LoadFresh, disk, TypeOK
    <3> QED BY <3>1, <3>2, ReloadEffect DEF disk, TypeOK
  <2>6. CASE CrashInSetOutput
    <3>1. PICK o \in Outputs, v \in Levels : down' = Append(down, [bits EXCEPT ![o] = v])
      BY <2>6 DEF CrashInSetOutput
    <3>2. down' \in Seq(Packets)
      BY <3>1, TargetsArePackets, AppendIsLast DEF TypeOK
    <3>3. Reload /\ UNCHANGED <<disk, last, late, pins, faults>>
      BY <2>6 DEF CrashInSetOutput, LoadFresh
    <3>4. config' \in {config, file} /\ saved' \in BOOLEAN /\ forgotten' \in BOOLEAN
      BY <2>6, <3>3 DEF CrashInSetOutput, LoadFresh, disk, TypeOK
    <3> QED BY <3>2, <3>3, <3>4, ReloadEffect DEF disk, TypeOK
  <2>18. CASE CrashInSave
    <3>1. PICK o \in Outputs, v \in Levels :
            /\ down' = IF provider /\ bits[o] # v
                       THEN Append(down, [bits EXCEPT ![o] = v]) ELSE down
            /\ \/ /\ fileState' = "torn" /\ file' = NoneSet
               \/ /\ fileState' = "whole"
                  /\ \E kept \in SUBSET Outputs :
                        file' = [x \in Outputs |-> IF x \notin kept THEN "unset"
                                                   ELSE IF x = o THEN v ELSE config[x]]
      BY <2>18 DEF CrashInSave
    <3>2. down' \in Seq(Packets)
      BY <3>1, TargetsArePackets, AppendIsLast DEF TypeOK
    <3>3. /\ file' \in [Outputs -> Levels \cup {"unset"}]
          /\ fileState' \in {"absent", "whole", "torn"}
      BY <3>1, LevelsOfFunctions DEF TypeOK
    <3>4. /\ Reload /\ config' = file' /\ saved' = TRUE /\ forgotten' = TRUE
          /\ UNCHANGED <<last, late, pins>>
      BY <2>18 DEF CrashInSave, LoadFresh
    <3>5. faults' \in 0 .. MaxFaults
      BY <2>18, BoundsAssumption DEF CrashInSave, Disturb, TypeOK
    <3> QED BY <3>2, <3>3, <3>4, <3>5, ReloadEffect DEF TypeOK
  <2>19. CASE Repair
    BY <2>19 DEF Repair, providerVars, TypeOK
  <2>7. CASE Connect
    BY <2>7, LevelsOfFunctions, Ranges DEF Connect, controller, storage, disk, TypeOK
  <2>20. CASE ConnectAgain
    <3>1. NewTwin \in 0 .. NewTwin
      BY BoundsAssumption DEF NewTwin
    <3>2. Append(twins, NewTwin) \in Seq(0 .. NewTwin)
      BY <3>1, AppendIsLast DEF TypeOK
    <3>3. faults' \in 0 .. MaxFaults
      BY <2>20, BoundsAssumption DEF ConnectAgain, Disturb, TypeOK
    <3> QED BY <2>20, <3>2, <3>3 DEF ConnectAgain, controller, storage, disk, TypeOK
  <2>8. CASE Disconnect
    <3>1. <<>> \in Seq(0 .. NewTwin)
      OBVIOUS
    <3> QED BY <2>8, <3>1, LevelsOfFunctions, Ranges
          DEF Disconnect, NoProvider, controller, storage, disk, TypeOK
  <2>9. CASE Process
    BY <2>9, ProcessEffect, TargetsArePackets, TwinsEffect
      DEF controller, storage, disk, TypeOK
  <2>10. CASE Deliver
    BY <2>10, FirstAndRest DEF Deliver, ProvOutputProcess, controller, storage, disk, providerVars, TypeOK
  <2>11. CASE DeliverLate
    BY <2>11 DEF DeliverLate, ProvOutputProcess, controller, storage, disk, providerVars, TypeOK
  <2>12. CASE Tick
    <3>1. PICK n \in Nat : twins \in [1 .. n -> 0 .. NewTwin] /\ DOMAIN twins = 1 .. n
      BY LenProperties DEF TypeOK
    <3>2. \A i \in 1 .. n : twins[i] + 1 \in 0 .. NewTwin
      <4>1. TAKE i \in 1 .. n
      <4>2. twins[i] \in 0 .. NewTwin /\ ~(twins[i] >= REFRESH_PERIOD)
        BY <2>12, <3>1 DEF Tick, DueTwins
      <4> QED BY <4>2, BoundsAssumption DEF NewTwin
    <3>3. twins' = [i \in 1 .. n |-> twins[i] + 1]
      BY <2>12, <3>1 DEF Tick
    <3>4. twins' \in [1 .. n -> 0 .. NewTwin]
      BY <3>2, <3>3
    <3>5. twins' \in Seq(0 .. NewTwin)
      BY <3>4, FunctionIsSeq
    <3> QED BY <2>12, <3>5, BoundsAssumption DEF Tick, Due, controller, storage, disk, TypeOK
  <2>13. CASE Lose
    BY <2>13, FirstAndRest, BoundsAssumption
      DEF Lose, Disturb, controller, storage, disk, providerVars, TypeOK
  <2>14. CASE Delay
    BY <2>14, FirstAndRest, BoundsAssumption
      DEF Delay, Disturb, controller, storage, disk, providerVars, TypeOK
  <2>15. CASE Duplicate
    BY <2>15, FirstAndRest, BoundsAssumption
      DEF Duplicate, Disturb, controller, storage, disk, providerVars, TypeOK
  <2>16. CASE Reboot
    BY <2>16, LevelsOfFunctions, BoundsAssumption
      DEF Reboot, Disturb, controller, storage, disk, providerVars, TypeOK
  <2>17. CASE UNCHANGED vars
    BY <2>17 DEF vars, controller, storage, disk, providerVars, TypeOK
  <2> QED BY <2>1, <2>2, <2>3, <2>4, <2>5, <2>6, <2>7, <2>8, <2>9, <2>10, <2>11,
             <2>12, <2>13, <2>14, <2>15, <2>16, <2>17, <2>18, <2>19, <2>20 DEF Next
<1> QED BY <1>1, <1>2, PTL DEF Spec

-----------------------------------------------------------------------------
(* The file and INIT-OK                                                    *)

LEMMA StorageKept ==
    ASSUME TypeOK, StorageAgrees, [Next]_vars
    PROVE  StorageAgrees'
<1>1. ASSUME NEW S \in SUBSET Outputs, SavePersistentState(S, value'),
             \A o \in S : value'[o] \in Levels,
             \A o \in Outputs \ S : value'[o] = value[o]
      PROVE  StorageAgrees'
  <2>1. config' = With(S, value') /\ (saved' => file' = config')
    BY <1>1, SaveEffect
  <2>2. \A o \in Outputs : value'[o] # "unset" => config'[o] = value'[o]
    BY <1>1, <2>1 DEF With, StorageAgrees
  <2> QED BY <2>1, <2>2 DEF StorageAgrees
<1>2. ASSUME NEW o \in Outputs, NEW v \in Levels, SetOutput(o, v)
      PROVE  StorageAgrees'
  <2>1. \A x \in Outputs \ {o} : value'[x] = value[x]
    BY <1>2, SetOutputEffect DEF TypeOK
  <2> QED BY <1>1, <1>2, <2>1, SetOutputEffect
<1>3. CASE Set
  BY <1>2, <1>3 DEF Set
<1>4. CASE Toggle
  <2>1. PICK o \in Outputs : SetOutput(o, Flip(value[o]))
    BY <1>4 DEF Toggle
  <2>2. Flip(value[o]) \in Levels
    BY LevelsOfFunctions DEF TypeOK
  <2> QED BY <1>2, <2>1, <2>2
<1>5. CASE InitOk
  <2>1. \A x \in Outputs \ ToInitialise : value'[x] = value[x]
    BY <1>5, InitOkEffect
  <2> QED BY <1>1, <1>5, <2>1, InitOkEffect
<1>6. CASE Reset \/ Restart \/ CrashInSetOutput \/ CrashInSave
  <2>1. value' = NoneSet
    BY <1>6 DEF Reset, Restart, CrashInSetOutput, CrashInSave, Reload
  <2>2. saved' => file' = config'
    BY <1>6 DEF Reset, Restart, CrashInSetOutput, CrashInSave, LoadFresh, disk,
                StorageAgrees
  <2> QED BY <2>1, <2>2 DEF NoneSet, StorageAgrees
<1>7. CASE UNCHANGED <<value, config, file, saved>>
  BY <1>7 DEF StorageAgrees
<1>8. CASE \/ SetOutputAsPersistent \/ Connect \/ ConnectAgain \/ Disconnect
         \/ Process \/ Repair
  BY <1>7, <1>8 DEF SetOutputAsPersistent, Connect, ConnectAgain, Disconnect, Process,
                    Repair, controller, storage, disk
<1>9. CASE Deliver \/ DeliverLate \/ Tick
  BY <1>7, <1>9 DEF Deliver, DeliverLate, Tick, controller, storage, disk
<1>10. CASE Lose \/ Delay \/ Duplicate \/ Reboot
  BY <1>7, <1>10 DEF Lose, Delay, Duplicate, Reboot, controller, storage, disk
<1>11. CASE UNCHANGED vars
  BY <1>7, <1>11 DEF vars, controller, storage, disk
<1> QED BY <1>3, <1>4, <1>5, <1>6, <1>8, <1>9, <1>10, <1>11 DEF Next

\* m_config always holds the value of every output that is set, and so does the
\* file after a save that succeeds, however many have failed before.
THEOREM StorageAlwaysAgrees == Spec => []StorageAgrees
<1>1. Init => StorageAgrees
  BY DEF Init, NoneSet, StorageAgrees
<1>2. TypeOK /\ StorageAgrees /\ [Next]_vars => StorageAgrees'
  BY StorageKept
<1> QED BY <1>1, <1>2, TypeCorrect, PTL DEF Spec

\* INIT-OK, sent late or more than once, changes no output that is set.
THEOREM InitOkNeverUndoesASet == Spec => InitOkKeepsOutputs
<1>1. ASSUME TypeOK, StorageAgrees, InitOk, NEW o \in Outputs, value[o] # "unset"
      PROVE  value'[o] = value[o]
  <2>1. config[o] = value[o]
    BY <1>1 DEF StorageAgrees
  <2>2. StoredLevel(o) = value[o]
    BY <1>1, <2>1 DEF StoredLevel
  <2>3. o \notin ToInitialise
    BY <2>2 DEF ToInitialise
  <2> QED BY <1>1, <2>3 DEF InitOk
<1>2. TypeOK /\ StorageAgrees =>
        [InitOk => \A o \in Outputs : value[o] # "unset" => value'[o] = value[o]]_vars
  BY <1>1
<1> QED BY <1>2, TypeCorrect, StorageAlwaysAgrees, PTL DEF InitOkKeepsOutputs

\* Inductive: until a value is forgotten, m_config holds what was set last, and
\* the file is not torn.
Remembers == ~forgotten => config = last /\ Running

LEMMA RemembersKept ==
    ASSUME TypeOK, StorageAgrees, Remembers, [Next]_vars
    PROVE  Remembers'
<1> SUFFICES ASSUME ~forgotten'
             PROVE  config' = last' /\ fileState' # "torn"
  BY DEF Remembers, Running
<1>1. ASSUME NEW S \in SUBSET Outputs, NEW level, \A o \in S : level[o] \in Levels,
             SavePersistentState(S, level)
      PROVE  config' = last' /\ fileState' # "torn"
  <2>1. config = last /\ fileState # "torn"
    BY <1>1, SaveEffect DEF Remembers, Running
  <2>2. /\ config' = With(S, level)
        /\ last' = [o \in Outputs |-> IF o \in S THEN level[o] ELSE last[o]]
        /\ fileState' = "torn" => fileState = "torn"
    BY <1>1, SaveEffect
  <2>3. config' = last'
    BY <2>1, <2>2 DEF With
  <2> QED BY <2>1, <2>2, <2>3
<1>2. CASE Set
  BY <1>1, <1>2, SetOutputEffect DEF Set
<1>3. CASE Toggle
  <2>1. PICK o \in Outputs : SetOutput(o, Flip(value[o]))
    BY <1>3 DEF Toggle
  <2>2. Flip(value[o]) \in Levels
    BY LevelsOfFunctions DEF TypeOK
  <2> QED BY <1>1, <2>1, <2>2, SetOutputEffect
<1>4. CASE InitOk
  BY <1>1, <1>4, InitOkEffect
<1>5. CASE Reset \/ Restart \/ CrashInSetOutput
  <2>1. Running /\ UNCHANGED <<file, fileState, last>> /\ ~forgotten
    BY <1>5 DEF Reset, Restart, CrashInSetOutput, LoadFresh, disk
  <2>2. \/ config' = config
        \/ config' = file /\ saved
    BY <1>5, <2>1 DEF Reset, Restart, CrashInSetOutput, LoadFresh, disk
  <2> QED BY <2>1, <2>2 DEF Remembers, Running, StorageAgrees
<1>6. CASE CrashInSave
  BY <1>6 DEF CrashInSave
<1>7. CASE Repair
  BY <1>7 DEF Repair, Remembers
<1>8. CASE UNCHANGED <<config, last, fileState, forgotten>>
  BY <1>8 DEF Remembers, Running
<1>9. CASE SetOutputAsPersistent \/ Connect \/ ConnectAgain \/ Disconnect \/ Process
  BY <1>8, <1>9 DEF SetOutputAsPersistent, Connect, ConnectAgain, Disconnect, Process,
                    controller, storage, disk
<1>10. CASE Deliver \/ DeliverLate \/ Tick
  BY <1>8, <1>10 DEF Deliver, DeliverLate, Tick, controller, storage, disk
<1>11. CASE Lose \/ Delay \/ Duplicate \/ Reboot
  BY <1>8, <1>11 DEF Lose, Delay, Duplicate, Reboot, controller, storage, disk
<1>12. CASE UNCHANGED vars
  BY <1>8, <1>12 DEF vars, controller, storage, disk
<1> QED BY <1>2, <1>3, <1>4, <1>5, <1>6, <1>7, <1>9, <1>10, <1>11, <1>12 DEF Next

\* Unless a save broke off, or failed and was never made up for, INIT-OK brings
\* back what was set last.
THEOREM LastIsRestored == Spec => RestoresLast
<1>1. Init => Remembers
  BY DEF Init, Remembers, Running
<1>2. TypeOK /\ StorageAgrees /\ Remembers /\ [Next]_vars => Remembers'
  BY RemembersKept
<1>3. ASSUME TypeOK, Remembers, InitOk, ~forgotten, NEW o \in persistent
      PROVE  value'[o] = IF last[o] = "unset" THEN "off" ELSE last[o]
  <2>1. o \in Outputs /\ config = last
    BY <1>3 DEF TypeOK, Remembers
  <2>2. StoredLevel(o) = IF last[o] = "unset" THEN "off" ELSE last[o]
    BY <2>1 DEF StoredLevel
  <2>3. value'[o] = IF o \in ToInitialise THEN StoredLevel(o) ELSE value[o]
    BY <1>3, <2>1, InitOkEffect
  <2> QED BY <2>2, <2>3 DEF ToInitialise
<1>4. TypeOK /\ Remembers =>
        [InitOk /\ ~forgotten =>
            \A o \in persistent :
                value'[o] = IF last[o] = "unset" THEN "off" ELSE last[o]]_vars
  BY <1>3
<1> QED BY <1>1, <1>2, <1>4, TypeCorrect, StorageAlwaysAgrees, PTL
      DEF Spec, RestoresLast

-----------------------------------------------------------------------------
(* The provider and the controller                                         *)

\* Both conjuncts of ProviderFollowsController for one output.
Follows(o) ==
    /\ provider /\ restored /\ value[o] # "unset" => bits[o] = value[o]
    /\ provider /\ bits[o] = "on" => value[o] = "on"

LEMMA SetOutputFollows ==
    ASSUME TypeOK, NEW x \in Outputs, Follows(x),
           NEW o \in Outputs, NEW v \in Levels, SetOutput(o, v)
    PROVE  Follows(x)'
<1>1. [bits EXCEPT ![o] = v] \in Packets
  BY TargetsArePackets
<1>2. provider => bits' = [bits EXCEPT ![o] = v]
  BY <1>1, DriveEffect, NothingInFlight DEF SetOutput
<1>3. UNCHANGED <<provider, restored>> /\ value' = [value EXCEPT ![o] = v]
  BY DEF SetOutput
<1> QED BY <1>2, <1>3 DEF Follows, TypeOK, Packets

LEMMA FollowsKept ==
    ASSUME TypeOK, ProviderFollowsController, [Next]_vars
    PROVE  ProviderFollowsController'
<1> SUFFICES ASSUME NEW x \in Outputs
             PROVE  Follows(x)'
  BY DEF ProviderFollowsController, Follows
<1>1. Follows(x)
  BY DEF ProviderFollowsController, Follows
<1>2. CASE Set
  BY <1>1, <1>2, SetOutputFollows DEF Set
<1>3. CASE Toggle
  <2>1. PICK o \in Outputs : SetOutput(o, Flip(value[o]))
    BY <1>3 DEF Toggle
  <2>2. Flip(value[o]) \in Levels
    BY LevelsOfFunctions DEF TypeOK
  <2> QED BY <1>1, <2>1, <2>2, SetOutputFollows
<1>4. CASE InitOk
  <2> DEFINE target == [o \in Outputs |-> IF o \in ToInitialise THEN StoredLevel(o)
                                                                ELSE bits[o]]
  <2>1. provider => bits' = target
    BY <1>4, InitOkTarget, DriveEffect, NothingInFlight DEF InitOk
  <2>2. value'[x] = IF x \in ToInitialise THEN StoredLevel(x) ELSE value[x]
    BY <1>4 DEF InitOk
  <2>3. UNCHANGED <<provider, restored>>
    BY <1>4 DEF InitOk
  <2>4. provider => bits'[x] = IF x \in ToInitialise THEN StoredLevel(x) ELSE bits[x]
    BY <2>1
  <2> QED BY <1>1, <2>2, <2>3, <2>4 DEF Follows
<1>5. CASE Reset \/ Restart \/ CrashInSetOutput \/ CrashInSave \/ Disconnect
  BY <1>5 DEF Reset, Restart, CrashInSetOutput, CrashInSave, Disconnect, Reload, NoProvider, Follows
<1>6. CASE Connect
  BY <1>6 DEF Connect, AllOff, Follows
<1>7. CASE Process
  <2>1. UNCHANGED <<value, provider>> /\ provider /\ bits' = AskedFor
    BY <1>7, ProcessEffect DEF controller
  <2>2. CASE Asked
    <3>1. bits'[x] = IF value[x] = "unset" THEN bits[x] ELSE value[x]
      BY <2>1, <2>2 DEF AskedFor, InitialStates
    <3> QED BY <1>1, <2>1, <3>1 DEF Follows
  <2>3. CASE ~Asked
    <3>1. UNCHANGED bits /\ restored
      BY <2>1, <2>3 DEF AskedFor, Asked
    <3> QED BY <1>1, <2>1, <3>1 DEF Follows
  <2> QED BY <2>2, <2>3
<1>8. CASE UNCHANGED <<value, provider, bits, restored>>
  BY <1>1, <1>8 DEF Follows
<1>9. CASE \/ SetOutputAsPersistent \/ Repair \/ ConnectAgain \/ Deliver
         \/ DeliverLate \/ Tick
  BY <1>8, <1>9 DEF SetOutputAsPersistent, Repair, ConnectAgain, Deliver, DeliverLate,
                    Tick, controller, providerVars
<1>10. CASE Lose \/ Delay \/ Duplicate \/ Reboot
  BY <1>8, <1>10 DEF Lose, Delay, Duplicate, Reboot, controller, providerVars
<1>11. CASE UNCHANGED vars
  BY <1>8, <1>11 DEF vars, controller, providerVars
<1> QED BY <1>2, <1>3, <1>4, <1>5, <1>6, <1>7, <1>9, <1>10, <1>11 DEF Next

\* The provider that commands reach agrees, once it has asked for its initial
\* states, with the controller on every output that is set, in whatever order
\* the endpoint connected and the scripts called, and however many further
\* providers copied registrations have made.
THEOREM ProviderAlwaysFollows == Spec => []ProviderFollowsController
<1>1. Init => ProviderFollowsController
  BY DEF Init, ProviderFollowsController
<1>2. TypeOK /\ ProviderFollowsController /\ [Next]_vars
        => ProviderFollowsController'
  BY FollowsKept
<1> QED BY <1>1, <1>2, TypeCorrect, PTL DEF Spec

-----------------------------------------------------------------------------
(* The last packet                                                         *)

\* Inductive form of LastPacketIsCurrent: nothing is late and nothing registered
\* twice without a disturbance, and the claim holds from the first packet of the provider on,
\* which may be sent by a SET before the initial states are restored.
Informed == provider /\ (restored \/ ~Due)
LastPacketInv ==
    faults = 0 => late = {} /\ twins = <<>> /\ (Informed => Outcome = bits)

\* Drive leaves the last packet equal to the bits, or everything as it was.
LEMMA DriveInforms ==
    ASSUME TypeOK, NEW target \in Packets, Drive(target, <<>>), provider,
           Changes(target) # {} \/ Outcome = bits, UNCHANGED pins
    PROVE  Outcome' = bits'
<1>1. CASE Changes(target) # {}
  <2>1. down' # <<>> /\ down'[Len(down')] = target /\ bits' = target
    BY <1>1, DriveEffect, NothingInFlight
  <2> QED BY <2>1 DEF Outcome
<1>2. CASE Changes(target) = {}
  <2>1. UNCHANGED <<bits, down>>
    BY <1>2, DriveEffect, NothingInFlight
  <2> QED BY <1>2, <2>1 DEF Outcome
<1> QED BY <1>1, <1>2

\* A command: the provider was informed before, or its bits have changed.
LEMMA CommandInforms ==
    ASSUME TypeOK, LastPacketInv, NEW target \in Packets, Drive(target, <<>>),
           UNCHANGED <<provider, restored, twins, late, pins>>,
           faults' = faults \/ faults' # 0
    PROVE  LastPacketInv'
<1> SUFFICES ASSUME faults' = 0, faults = 0
             PROVE  late = {} /\ twins = <<>> /\ (Informed' => Outcome' = bits')
  BY DEF LastPacketInv
<1>1. late = {} /\ twins = <<>> /\ (Informed => Outcome = bits)
  BY DEF LastPacketInv
<1>2. ASSUME Informed'
      PROVE  Outcome' = bits'
  <2>1. provider
    BY <1>2 DEF Informed
  <2>2. CASE Changes(target) # {}
    BY <2>1, <2>2, DriveInforms
  <2>3. CASE Changes(target) = {}
    <3>1. UNCHANGED <<bits, sinceUpdate, down>>
      BY <2>3, DriveEffect, NothingInFlight
    <3>2. Informed
      BY <1>2, <3>1 DEF Informed, Due
    <3> QED BY <1>1, <3>1, <3>2 DEF Outcome
  <2> QED BY <2>2, <2>3
<1> QED BY <1>1, <1>2

LEMMA LastPacketKept ==
    ASSUME TypeOK, LastPacketInv, [Next]_vars
    PROVE  LastPacketInv'
<1>1. ASSUME NEW o \in Outputs, NEW v, SetOutput(o, v), v \in Levels
      PROVE  LastPacketInv'
  <2>1. [bits EXCEPT ![o] = v] \in Packets
    BY <1>1, TargetsArePackets
  <2>2. faults' = faults \/ faults' # 0
    BY <1>1, SetOutputEffect, SaveEffect
  <2> QED BY <1>1, <2>1, <2>2, CommandInforms DEF SetOutput
<1>2. CASE Set
  BY <1>1, <1>2 DEF Set
<1>3. CASE Toggle
  <2>1. PICK o \in Outputs : SetOutput(o, Flip(value[o]))
    BY <1>3 DEF Toggle
  <2>2. Flip(value[o]) \in Levels
    BY LevelsOfFunctions DEF TypeOK
  <2> QED BY <1>1, <2>1, <2>2
<1>4. CASE InitOk
  <2>1. faults' = faults \/ faults' # 0
    BY <1>4, InitOkEffect, SaveEffect
  <2> QED BY <1>4, <2>1, InitOkTarget, CommandInforms DEF InitOk
<1>5. CASE Reset \/ Restart \/ CrashInSetOutput \/ Disconnect
  BY <1>5 DEF Reset, Restart, CrashInSetOutput, Disconnect, Reload, NoProvider,
              LastPacketInv, Informed
<1>6. CASE Connect
  <2>1. ~restored' /\ sinceUpdate' = REFRESH_PERIOD /\ UNCHANGED <<late, twins, faults>>
    BY <1>6 DEF Connect
  <2>2. ~Informed'
    BY <2>1, BoundsAssumption DEF Informed, Due
  <2> QED BY <2>1, <2>2 DEF LastPacketInv
<1>7. CASE Process
  <2> SUFFICES ASSUME faults' = 0
               PROVE  late' = {} /\ twins' = <<>> /\ (Informed' => Outcome' = bits')
    BY DEF LastPacketInv
  <2>1. UNCHANGED <<late, pins, faults>> /\ provider /\ TwinsSend
    BY <1>7, ProcessEffect
  <2>2. late = {} /\ twins = <<>> /\ (Informed => Outcome = bits)
    BY <2>1 DEF LastPacketInv
  <2>3. twins' = <<>> /\ TwinPackets = <<>> /\ DueTwins = {}
    BY <2>1, <2>2, TwinsEffect
  <2>4. CASE Due /\ Changes(AskedFor) = {}
    <3>1. down' = Append(down, bits) \o TwinPackets /\ UNCHANGED bits
      BY <1>7, <2>4 DEF Process
    <3>2. /\ Append(down, bits) \in Seq(Packets) /\ Append(down, bits) # <<>>
          /\ Append(down, bits)[Len(Append(down, bits))] = bits
      BY AppendIsLast DEF TypeOK
    <3>3. down' = Append(down, bits)
      BY <2>3, <3>1, <3>2, Joined, TwinsEffect
    <3> QED BY <2>1, <2>2, <2>3, <3>1, <3>2, <3>3 DEF Outcome
  <2>5. CASE ~(Due /\ Changes(AskedFor) = {})
    <3>1. Drive(AskedFor, <<>>)
      BY <1>7, <2>3, <2>5 DEF Process
    <3>2. Informed' => Changes(AskedFor) # {} \/ Outcome = bits
      BY <2>1, <2>2, <2>5 DEF Informed
    <3> QED BY <2>1, <2>2, <2>3, <3>1, <3>2, DriveInforms, TargetsArePackets
  <2> QED BY <2>4, <2>5
<1>8. CASE Deliver
  <2>1. /\ down # <<>> /\ pins' = Head(down) /\ down' = Tail(down)
        /\ UNCHANGED <<provider, restored, bits, sinceUpdate, twins, late, faults>>
    BY <1>8 DEF Deliver, ProvOutputProcess, providerVars
  <2>2. Outcome' = Outcome
    BY <2>1, FirstAndRest DEF Outcome, TypeOK
  <2> QED BY <2>1, <2>2 DEF LastPacketInv, Informed, Due
<1>9. CASE DeliverLate
  BY <1>9 DEF DeliverLate, LastPacketInv
<1>10. CASE Tick
  <2>1. /\ provider /\ restored
        /\ UNCHANGED <<provider, bits, restored, down, late, pins, faults>>
        /\ twins = <<>> => twins' = <<>>
    <3>1. ASSUME twins = <<>>
          PROVE  twins' = <<>>
      <4>1. /\ twins' = [i \in DOMAIN twins |-> twins[i] + 1]
            /\ DOMAIN twins = 1 .. 0
        BY <1>10, <3>1, EmptySeq DEF Tick
      <4>2. twins' \in Seq(Int) /\ Len(twins') = 0
        BY <4>1
      <4> QED BY <4>2, EmptySeq
    <3> QED BY <1>10, <3>1 DEF Tick
  <2> QED BY <2>1 DEF LastPacketInv, Informed, Outcome
<1>11. CASE \/ Lose \/ Delay \/ Duplicate \/ Reboot \/ CrashInSave
          \/ ConnectAgain
  <2>1. faults \in Nat /\ faults' = faults + 1
    BY <1>11, BoundsAssumption
      DEF Lose, Delay, Duplicate, Reboot, CrashInSave, ConnectAgain, Disturb, TypeOK
  <2>2. faults' # 0
    BY <2>1
  <2> QED BY <2>2 DEF LastPacketInv
<1>12. CASE SetOutputAsPersistent \/ Repair \/ UNCHANGED vars
  <2>1. UNCHANGED <<providerVars, down, late, pins, faults>>
    BY <1>12 DEF SetOutputAsPersistent, Repair, vars
  <2> QED BY <2>1 DEF providerVars, LastPacketInv, Informed, Due, Outcome
<1> QED BY <1>2, <1>3, <1>4, <1>5, <1>6, <1>7, <1>8, <1>9, <1>10, <1>11, <1>12 DEF Next

\* While the network loses, delays and duplicates nothing, the last packet on
\* its way (or the pins, if none is) is what the provider holds.
THEOREM LastPacketAlwaysCurrent == Spec => []LastPacketIsCurrent
<1>1. Init => LastPacketInv
  BY DEF Init, LastPacketInv, Informed
<1>2. TypeOK /\ LastPacketInv /\ [Next]_vars => LastPacketInv'
  BY LastPacketKept
<1>3. LastPacketInv => LastPacketIsCurrent
  BY DEF LastPacketInv, Informed, LastPacketIsCurrent
<1> QED BY <1>1, <1>2, <1>3, TypeCorrect, PTL DEF Spec

=============================================================================
