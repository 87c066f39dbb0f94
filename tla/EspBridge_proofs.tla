--------------------------- MODULE EspBridge_proofs ---------------------------
(***************************************************************************)
(* Proofs about EspBridge: as long as no poll has overtaken the answer to  *)
(* the one before it, at most one read and one poll are on their way, in   *)
(* this order, and the datagram they are about stays in its place.         *)
(***************************************************************************)
EXTENDS EspBridge, FiniteSetTheorems, SequenceTheorems, TLAPS

-----------------------------------------------------------------------------
(* Lists                                                                   *)

LEMMA TailProperties ==
    ASSUME NEW S, NEW s \in Seq(S), s # <<>>
    PROVE  /\ Head(s) \in S /\ Head(s) = s[1] /\ 1 \in DOMAIN s
           /\ Tail(s) \in Seq(S)
           /\ DOMAIN Tail(s) = 1 .. Len(s) - 1
           /\ \A i \in DOMAIN Tail(s) :
                 i + 1 \in DOMAIN s /\ Tail(s)[i] = s[i + 1]
<1>1. Len(s) \in Nat /\ Len(s) # 0 /\ DOMAIN s = 1 .. Len(s)
  BY EmptySeq, LenProperties
<1>2. /\ Head(s) \in S /\ Head(s) = s[1]
      /\ Tail(s) \in Seq(S) /\ Len(Tail(s)) = Len(s) - 1
      /\ \A i \in 1 .. Len(Tail(s)) : Tail(s)[i] = s[i + 1]
  BY HeadTailProperties
<1>3. DOMAIN Tail(s) = 1 .. Len(Tail(s))
  BY <1>2, LenProperties
<1> QED BY <1>1, <1>2, <1>3

LEMMA AppendedProperties ==
    ASSUME NEW S, NEW s \in Seq(S), NEW e \in S
    PROVE  /\ Append(s, e) \in Seq(S)
           /\ DOMAIN Append(s, e) = 1 .. Len(s) + 1
           /\ Len(s) \in Nat /\ DOMAIN s = 1 .. Len(s)
           /\ \A i \in DOMAIN s : Append(s, e)[i] = s[i]
           /\ Append(s, e)[Len(s) + 1] = e
<1>1. Len(s) \in Nat /\ DOMAIN s = 1 .. Len(s)
  BY LenProperties
<1>2. /\ Append(s, e) \in Seq(S) /\ Len(Append(s, e)) = Len(s) + 1
      /\ \A i \in 1 .. Len(s) : Append(s, e)[i] = s[i]
      /\ Append(s, e)[Len(s) + 1] = e
  BY AppendProperties
<1>3. DOMAIN Append(s, e) = 1 .. Len(Append(s, e))
  BY <1>2, LenProperties
<1> QED BY <1>1, <1>2, <1>3

\* What is left when the first n elements are lost.
LEMMA LaterProperties ==
    ASSUME NEW S, NEW s \in Seq(S), NEW n \in 1 .. Len(s)
    PROVE  LET r == SubSeq(s, n + 1, Len(s))
           IN  /\ r \in Seq(S)
               /\ DOMAIN r = 1 .. Len(s) - n
               /\ \A i \in DOMAIN r : n + i \in DOMAIN s /\ r[i] = s[n + i]
<1> DEFINE r == SubSeq(s, n + 1, Len(s))
<1>1. Len(s) \in Nat /\ DOMAIN s = 1 .. Len(s)
  BY LenProperties
<1>2. \A i \in n + 1 .. Len(s) : s[i] \in S
  BY <1>1, ElementOfSeq
<1>3. /\ r \in Seq(S)
      /\ Len(r) = IF n + 1 <= Len(s) THEN Len(s) - (n + 1) + 1 ELSE 0
      /\ \A i \in 1 .. Len(s) - (n + 1) + 1 : r[i] = s[(n + 1) + i - 1]
  BY <1>1, <1>2, SubSeqProperties
<1> HIDE DEF r
<1>4. DOMAIN r = 1 .. Len(r)
  BY <1>3, LenProperties
<1>5. Len(r) = Len(s) - n /\ Len(s) - (n + 1) + 1 = Len(s) - n
  <2>1. n \in Nat /\ n <= Len(s) /\ Len(s) \in Nat
    BY <1>1
  <2>2. Len(s) - (n + 1) + 1 = Len(s) - n
    BY <2>1
  <2>3. Len(r) = IF n + 1 <= Len(s) THEN Len(s) - (n + 1) + 1 ELSE 0
    BY <1>3
  <2> HIDE DEF r
  <2>4. CASE n + 1 <= Len(s)
    BY <2>2, <2>3, <2>4
  <2>5. CASE ~(n + 1 <= Len(s))
    <3>1. Len(s) - n = 0
      BY <2>1, <2>5
    <3>2. Len(r) = 0
      BY <2>3, <2>5
    <3> QED BY <2>2, <3>1, <3>2
  <2> QED BY <2>4, <2>5
<1>6. \A i \in 1 .. Len(s) - n : (n + 1) + i - 1 = n + i /\ n + i \in 1 .. Len(s)
  BY <1>1
<1>7. /\ r \in Seq(S)
      /\ DOMAIN r = 1 .. Len(s) - n
      /\ \A i \in DOMAIN r : n + i \in DOMAIN s /\ r[i] = s[n + i]
  BY <1>1, <1>3, <1>4, <1>5, <1>6
<1> QED BY <1>7 DEF r

-----------------------------------------------------------------------------
(* Types                                                                   *)

LEMMA ContentsProperties ==
    /\ Zeros \in Contents
    /\ Datagrams \subseteq Contents
    /\ Zeros \notin Datagrams
    /\ \A d \in Contents : d # Zeros => d \in Datagrams
    /\ \A d \in Datagrams : d.num \in 1 .. MaxDatagrams
    /\ \A n \in 1 .. MaxDatagrams, k \in Kinds : [num |-> n, kind |-> k] \in Datagrams
    /\ Zeros.num = 0 /\ Spoiled.num = 0
<1>1. Zeros.num = 0 /\ Spoiled.num = 0
  BY DEF Zeros, Spoiled
<1>2. \A d \in Datagrams : d.num \in 1 .. MaxDatagrams
  BY DEF Datagrams
<1>3. Zeros \notin Datagrams
  BY <1>1, <1>2, BridgeAssumption
<1>4. \A n \in 1 .. MaxDatagrams, k \in Kinds : [num |-> n, kind |-> k] \in Datagrams
  BY DEF Datagrams
<1> QED BY <1>1, <1>2, <1>3, <1>4 DEF Contents

\* What can be in the buffer has the number of a datagram, or 0.
LEMMA BufferIsNumbered ==
    \A d \in Contents \cup {Spoiled} : d.num \in 0 .. MaxDatagrams /\ d.num \in Nat
  BY ContentsProperties, BridgeAssumption

LEMMA FrameReply ==
    ASSUME NEW r \in Replies
    PROVE  /\ IsStatus(r) => r.avail \in BOOLEAN /\ r.tx \in BOOLEAN
           /\ ~IsStatus(r) => r.data \in Contents
<1>1. CASE r \in [cmd : {"status"}, avail : BOOLEAN, tx : BOOLEAN]
  BY <1>1 DEF IsStatus
<1>2. CASE r \in [cmd : {"frame"}, data : Contents]
  BY <1>2 DEF IsStatus
<1> QED BY <1>1, <1>2 DEF Replies

\* provProcess() changes the history only.
LEMMA ProvProcessTypes ==
    ASSUME TypeOK, NEW d \in Contents \cup {Spoiled}, ProvProcess(d)
    PROVE  /\ passed' \in 0 .. MaxDatagrams
           /\ repeated' \in BOOLEAN /\ phantom' \in BOOLEAN /\ broken' \in BOOLEAN
<1>1. passed' = IF d.num = 0 THEN passed ELSE d.num
  BY DEF ProvProcess
<1>2. passed \in 0 .. MaxDatagrams
  BY DEF TypeOK
<1>3. d.num \in 0 .. MaxDatagrams
  BY BufferIsNumbered
<1>4. passed' \in 0 .. MaxDatagrams
  BY <1>1, <1>2, <1>3, BridgeAssumption
<1>5. repeated' \in BOOLEAN /\ phantom' \in BOOLEAN /\ broken' \in BOOLEAN
  BY DEF ProvProcess, TypeOK
<1> QED BY <1>4, <1>5

\* A frame on the line holds a numbered datagram.
LEMMA FramesAreNumbered ==
    ASSUME TypeOK
    PROVE  /\ \A i \in Frames : /\ i \in DOMAIN toHost /\ i \in Nat
                                /\ toHost[i].data \in Datagrams
                                /\ toHost[i].data.num \in 1 .. MaxDatagrams
           /\ Len(toHost) \in Nat /\ DOMAIN toHost = 1 .. Len(toHost)
           /\ arrived \in Nat /\ passed \in Nat
<1>1. /\ toHost \in Seq(Replies) /\ Len(toHost) \in Nat
      /\ DOMAIN toHost = 1 .. Len(toHost)
  BY LenProperties DEF TypeOK
<1>2. arrived \in Nat /\ passed \in Nat
  BY BridgeAssumption DEF TypeOK
<1>3. ASSUME NEW i \in Frames
      PROVE  /\ i \in DOMAIN toHost /\ i \in Nat
             /\ toHost[i].data \in Datagrams
             /\ toHost[i].data.num \in 1 .. MaxDatagrams
  <2>1. i \in DOMAIN toHost /\ IsDatagram(toHost[i])
    BY DEF Frames
  <2>2. toHost[i] \in Replies
    BY <1>1, <2>1, ElementOfSeq
  <2>3. toHost[i].data \in Datagrams
    BY <2>1, <2>2, FrameReply, ContentsProperties DEF IsDatagram
  <2> QED BY <1>1, <2>1, <2>3, ContentsProperties
<1> QED BY <1>1, <1>2, <1>3

\* No step leaves the types.
LEMMA TypesAreKept == TypeOK /\ [Next]_vars => TypeOK'
<1> SUFFICES ASSUME TypeOK, [Next]_vars
             PROVE  TypeOK'
  OBVIOUS
<1> USE DEF wifi, history
<1>1. CASE UNCHANGED vars
  BY <1>1 DEF TypeOK, vars
<1>2. CASE AtTcpclientRecv
  <2>1. arrived' = arrived + 1 /\ arrived < MaxDatagrams /\ arrived \in 0 .. MaxDatagrams
    BY <1>2 DEF AtTcpclientRecv, TypeOK
  <2>2. arrived' \in 0 .. MaxDatagrams /\ arrived' \in 1 .. MaxDatagrams
    BY <2>1, BridgeAssumption
  <2>3. rxData' \in Contents /\ rxAvail' \in BOOLEAN
    <3>1. CASE rxAvail
      BY <1>2, <3>1 DEF AtTcpclientRecv, TypeOK
    <3>2. CASE ~rxAvail
      <4>1. /\ rxAvail' = TRUE
            /\ \E k \in Kinds : rxData' = [num |-> arrived', kind |-> k]
        BY <1>2, <3>2 DEF AtTcpclientRecv
      <4> QED BY <2>2, <4>1, ContentsProperties
    <3> QED BY <3>1, <3>2
  <2> QED BY <1>2, <2>2, <2>3 DEF AtTcpclientRecv, TypeOK
<1>3. CASE AtTcpclientSentCb
  BY <1>3 DEF AtTcpclientSentCb, TypeOK
<1>4. CASE CommProcessCommand
  <2>1. toBoard' \in Seq(Commands)
    BY <1>4, TailProperties DEF CommProcessCommand, TypeOK
  <2>2. CASE Head(toBoard) = "status" /\ WifiSendStatus
    <3>1. [cmd |-> "status", avail |-> rxAvail, tx |-> txAvail] \in Replies
      BY DEF TypeOK, Replies
    <3>2. toHost' \in Seq(Replies)
      BY <2>2, <3>1, AppendedProperties DEF WifiSendStatus, TypeOK
    <3> QED BY <1>4, <2>1, <2>2, <3>2 DEF CommProcessCommand, WifiSendStatus, TypeOK
  <2>3. CASE Head(toBoard) = "read" /\ WifiSendFrame
    <3>1. (IF rxAvail THEN rxData ELSE Zeros) \in Contents
      BY ContentsProperties DEF TypeOK
    <3>2. [cmd |-> "frame", data |-> IF rxAvail THEN rxData ELSE Zeros] \in Replies
      BY <3>1 DEF Replies
    <3>3. toHost' \in Seq(Replies)
      BY <2>3, <3>2, AppendedProperties DEF WifiSendFrame, TypeOK
    <3> QED BY <1>4, <2>1, <2>3, <3>3 DEF CommProcessCommand, WifiSendFrame, TypeOK
  <2>4. CASE Head(toBoard) = "send" /\ WifiTransmitFrame
    BY <1>4, <2>1, <2>4 DEF CommProcessCommand, WifiTransmitFrame, TypeOK
  <2> QED BY <1>4, <2>2, <2>3, <2>4 DEF CommProcessCommand
<1>5. CASE FrameSent
  BY <1>5 DEF FrameSent, TypeOK
<1>6. CASE EspProcess
  BY <1>6 DEF EspProcess, TypeOK
<1>7. CASE Poll
  <2>1. toBoard' \in Seq(Commands)
    BY <1>7, AppendedProperties DEF Poll, TypeOK, Commands
  <2>2. hasty' \in BOOLEAN
    BY <1>7 DEF Poll, TypeOK
  <2> QED BY <1>7, <2>1, <2>2 DEF Poll, TypeOK
<1>8. CASE ProcessChar
  <2>1. toHost' \in Seq(Replies) /\ Head(toHost) \in Replies
    BY <1>8, TailProperties DEF ProcessChar, TypeOK
  <2>2. CASE IsStatus(Head(toHost))
    <3>1. EspProcessStatus(Head(toHost))
      BY <1>8, <2>2 DEF ProcessChar
    <3>2. StatusHead(Head(toHost)) \in Heads
      BY DEF StatusHead, Heads
    <3>3. buffer' \in [head : Heads, body : Contents \cup {Spoiled}]
      BY <3>1, <3>2 DEF EspProcessStatus, TypeOK
    <3>4. toBoard' \in Seq(Commands)
      BY <3>1, AppendedProperties DEF EspProcessStatus, TypeOK, Commands
    <3> QED BY <1>8, <2>1, <3>1, <3>3, <3>4 DEF ProcessChar, EspProcessStatus, TypeOK
  <2>3. CASE ~IsStatus(Head(toHost))
    <3>1. EspProcessFrame(Head(toHost))
      BY <1>8, <2>3 DEF ProcessChar
    <3>2. Head(toHost).data \in Contents /\ buffer.body \in Contents \cup {Spoiled}
      BY <2>1, <2>3, FrameReply DEF TypeOK
    <3>3. buffer' \in [head : Heads, body : Contents \cup {Spoiled}]
      BY <3>1, <3>2 DEF EspProcessFrame, TypeOK, Heads
    <3>4. \/ ProvProcess(Head(toHost).data)
          \/ ProvProcess(buffer.body)
          \/ UNCHANGED history
      BY <3>1 DEF EspProcessFrame
    <3>5. /\ passed' \in 0 .. MaxDatagrams
          /\ repeated' \in BOOLEAN /\ phantom' \in BOOLEAN /\ broken' \in BOOLEAN
      <4>1. CASE UNCHANGED history
        BY <4>1 DEF TypeOK
      <4> QED BY <3>2, <3>4, <4>1, ProvProcessTypes
    <3> QED BY <1>8, <2>1, <3>1, <3>3, <3>5 DEF ProcessChar, EspProcessFrame, TypeOK
  <2> QED BY <2>2, <2>3
<1>9. CASE Drained
  BY <1>9 DEF Drained, TypeOK
<1>10. CASE ProvSendPacket
  <2>1. toBoard' \in Seq(Commands)
    BY <1>10, AppendedProperties DEF ProvSendPacket, TypeOK, Commands
  <2> QED BY <1>10, <2>1 DEF ProvSendPacket, TypeOK
<1>11. CASE Garble
  <2>1. faults' \in 0 .. MaxFaults
    BY <1>11, BridgeAssumption DEF Garble, Disturb, TypeOK
  <2>2. toBoard' \in Seq(Commands) /\ toHost' \in Seq(Replies)
    <3>1. toBoard \in Seq(Commands) /\ toHost \in Seq(Replies)
      BY DEF TypeOK
    <3>2. CASE \E n \in 1 .. Len(toBoard) :
                  /\ toBoard' = SubSeq(toBoard, n + 1, Len(toBoard))
                  /\ UNCHANGED <<toHost, buffer>>
      BY <3>1, <3>2, LaterProperties
    <3>3. CASE \E n \in 1 .. Len(toHost) :
                  /\ toHost' = SubSeq(toHost, n + 1, Len(toHost))
                  /\ SpoilBuffer(1 .. n)
                  /\ UNCHANGED toBoard
      BY <3>1, <3>3, LaterProperties
    <3> QED BY <1>11, <3>2, <3>3 DEF Garble
  <2>3. buffer' \in [head : Heads, body : Contents \cup {Spoiled}]
    <3>1. buffer \in [head : Heads, body : Contents \cup {Spoiled}]
      BY DEF TypeOK
    <3>2. \A i \in Frames : toHost[i].data \in Contents
      BY FramesAreNumbered, ContentsProperties
    <3>3. CASE UNCHANGED buffer
      BY <3>1, <3>3
    <3>4. CASE \E n \in 1 .. Len(toHost) : SpoilBuffer(1 .. n)
      <4>1. PICK n \in 1 .. Len(toHost) : SpoilBuffer(1 .. n)
        BY <3>4
      <4>2. PICK B : /\ buffer' \in [head : Heads, body : B]
                     /\ B = {buffer.body, Spoiled}
                            \cup {toHost[i].data : i \in Frames \cap 1 .. n}
        BY <4>1 DEF SpoilBuffer
      <4>3. B \subseteq Contents \cup {Spoiled}
        BY <3>1, <3>2, <4>2
      <4> QED BY <4>2, <4>3
    <3> QED BY <1>11, <3>3, <3>4 DEF Garble
  <2> QED BY <1>11, <2>1, <2>2, <2>3 DEF Garble, TypeOK
<1>12. CASE Restart
  <2>1. faults' \in 0 .. MaxFaults
    BY <1>12, BridgeAssumption DEF Restart, Disturb, TypeOK
  <2>2. toBoard' \in Seq(Commands) /\ rxData' \in Contents
    BY <1>12, ContentsProperties DEF Restart, WifiReset
  <2> QED BY <1>12, <2>1, <2>2 DEF Restart, WifiReset, TypeOK
<1>13. CASE EspInit
  <2>1. faults' \in 0 .. MaxFaults
    BY <1>13, BridgeAssumption DEF EspInit, Disturb, TypeOK
  <2>2. /\ toBoard' \in Seq(Commands) /\ toHost' \in Seq(Replies)
        /\ rxData' \in Contents
        /\ buffer' \in [head : Heads, body : Contents \cup {Spoiled}]
    BY <1>13, ContentsProperties DEF EspInit, WifiReset, Heads
  <2> QED BY <1>13, <2>1, <2>2 DEF EspInit, WifiReset, TypeOK
<1> QED BY <1>1, <1>2, <1>3, <1>4, <1>5, <1>6, <1>7, <1>8, <1>9, <1>10, <1>11,
           <1>12, <1>13 DEF Next

LEMMA InitTypes == Init => TypeOK
<1> SUFFICES ASSUME Init PROVE TypeOK
  OBVIOUS
<1>1. arrived \in 0 .. MaxDatagrams /\ passed \in 0 .. MaxDatagrams /\ faults \in 0 .. MaxFaults
  BY BridgeAssumption DEF Init
<1>2. toBoard \in Seq(Commands) /\ toHost \in Seq(Replies)
  <2>1. toBoard = <<>> /\ toHost = <<>>
    BY DEF Init
  <2> QED BY <2>1
<1>3. rxData \in Contents /\ buffer \in [head : Heads, body : Contents \cup {Spoiled}]
  BY ContentsProperties DEF Init, Heads
<1> QED BY <1>1, <1>2, <1>3 DEF Init, TypeOK

\* Both boards and the line between them keep their types, whatever is lost,
\* garbled or restarted.
THEOREM TypeCorrect == Spec => []TypeOK
<1> QED BY InitTypes, TypesAreKept, PTL DEF Spec

-----------------------------------------------------------------------------
(* The line without overlapping polls                                      *)

\* The commands and replies on their way are at most one read (or the frame
\* that answers it) and, after it, one poll (or its answer).
InLine ==
    ~hasty =>
        /\ \A i, j \in DOMAIN toBoard : i < j =>
              /\ toBoard[i] = "status" => toBoard[j] = "send"
              /\ toBoard[i] = "read" => toBoard[j] # "read"
        /\ \A i, j \in DOMAIN toHost : i < j =>
              ~IsStatus(toHost[i]) /\ IsStatus(toHost[j])
        /\ \A i \in DOMAIN toHost, j \in DOMAIN toBoard :
              /\ IsStatus(toHost[i]) => toBoard[j] = "send"
              /\ ~IsStatus(toHost[i]) => toBoard[j] # "read"
        /\ sending => /\ \A i \in DOMAIN toHost : ~IsStatus(toHost[i])
                      /\ \A j \in DOMAIN toBoard : toBoard[j] # "read"

\* Without a poll on its way there is none in either direction.
LEMMA NoPolls ==
    ASSUME TypeOK
    PROVE  /\ Polls \in Nat
           /\ ~(Polls > 0) =>
                 /\ \A i \in DOMAIN toBoard : toBoard[i] # "status"
                 /\ \A i \in DOMAIN toHost : ~IsStatus(toHost[i])
<1> DEFINE B == {i \in DOMAIN toBoard : toBoard[i] = "status"}
           H == {i \in DOMAIN toHost : IsStatus(toHost[i])}
<1>1. /\ Len(toBoard) \in Nat /\ DOMAIN toBoard = 1 .. Len(toBoard)
      /\ Len(toHost) \in Nat /\ DOMAIN toHost = 1 .. Len(toHost)
  BY LenProperties DEF TypeOK
<1>2. IsFiniteSet(1 .. Len(toBoard)) /\ IsFiniteSet(1 .. Len(toHost))
  BY <1>1, FS_Interval
<1>3. B \subseteq 1 .. Len(toBoard) /\ H \subseteq 1 .. Len(toHost)
  BY <1>1
<1> HIDE DEF B, H
<1>4. IsFiniteSet(B) /\ IsFiniteSet(H)
  BY <1>2, <1>3, FS_Subset
<1>5. Cardinality(B) \in Nat /\ Cardinality(H) \in Nat
  BY <1>4, FS_CardinalityType
<1>6. (Cardinality(B) = 0 => B = {}) /\ (Cardinality(H) = 0 => H = {})
  BY <1>4, FS_EmptySet
<1>7. Polls = Cardinality(B) + Cardinality(H)
  BY DEF Polls, B, H
<1>8. Polls \in Nat /\ (~(Polls > 0) => B = {} /\ H = {})
  BY <1>5, <1>6, <1>7
<1> QED BY <1>8 DEF B, H

\* The order on the line is kept.
LEMMA LineIsKept == TypeOK /\ InLine /\ [Next]_vars => InLine'
<1> SUFFICES ASSUME TypeOK, InLine, [Next]_vars, ~hasty'
             PROVE  InLine'
  BY DEF InLine
<1> USE DEF wifi, history
<1>0. /\ toBoard \in Seq(Commands) /\ toHost \in Seq(Replies)
      /\ Len(toBoard) \in Nat /\ DOMAIN toBoard = 1 .. Len(toBoard)
      /\ Len(toHost) \in Nat /\ DOMAIN toHost = 1 .. Len(toHost)
  BY LenProperties DEF TypeOK
<1>1. CASE UNCHANGED vars
  BY <1>1 DEF InLine, vars
<1>2. CASE AtTcpclientRecv
  BY <1>2 DEF AtTcpclientRecv, InLine
<1>3. CASE AtTcpclientSentCb
  BY <1>3 DEF AtTcpclientSentCb, InLine
<1>4. CASE CommProcessCommand
  <2>1. toBoard # <<>> /\ ~sending /\ toBoard' = Tail(toBoard) /\ UNCHANGED hasty
    BY <1>4 DEF CommProcessCommand
  <2>2. /\ Head(toBoard) = toBoard[1] /\ 1 \in DOMAIN toBoard
        /\ DOMAIN toBoard' = 1 .. Len(toBoard) - 1
        /\ \A i \in DOMAIN toBoard' :
              i + 1 \in DOMAIN toBoard /\ toBoard'[i] = toBoard[i + 1]
    BY <1>0, <2>1, TailProperties
  <2>3. CASE Head(toBoard) = "status" /\ WifiSendStatus
    <3> DEFINE r == [cmd |-> "status", avail |-> rxAvail, tx |-> txAvail]
    <3>1. r \in Replies /\ IsStatus(r)
      BY DEF TypeOK, Replies, IsStatus
    <3>2. toHost' = Append(toHost, r) /\ sending' = sending
      BY <2>3 DEF WifiSendStatus
    <3> HIDE DEF r
    <3>3. /\ DOMAIN toHost' = 1 .. Len(toHost) + 1
          /\ \A i \in DOMAIN toHost : toHost'[i] = toHost[i]
          /\ toHost'[Len(toHost) + 1] = r
      BY <1>0, <3>1, <3>2, AppendedProperties
    <3>4. \A i \in DOMAIN toHost : ~IsStatus(toHost[i])
      BY <2>1, <2>2, <2>3 DEF InLine
    <3>5. \A j \in DOMAIN toBoard' : toBoard'[j] = "send"
      BY <1>0, <2>1, <2>2, <2>3 DEF InLine
    <3>6. \A i, j \in DOMAIN toHost' : i < j => ~IsStatus(toHost'[i]) /\ IsStatus(toHost'[j])
      BY <1>0, <2>1, <3>1, <3>3, <3>4 DEF InLine
    <3> QED BY <2>1, <3>2, <3>5, <3>6 DEF InLine
  <2>4. CASE Head(toBoard) = "read" /\ WifiSendFrame
    <3> DEFINE r == [cmd |-> "frame", data |-> IF rxAvail THEN rxData ELSE Zeros]
    <3>1. r \in Replies /\ ~IsStatus(r)
      BY ContentsProperties DEF TypeOK, Replies, IsStatus
    <3>2. toHost' = Append(toHost, r)
      BY <2>4 DEF WifiSendFrame
    <3> HIDE DEF r
    <3>3. /\ DOMAIN toHost' = 1 .. Len(toHost) + 1
          /\ \A i \in DOMAIN toHost : toHost'[i] = toHost[i]
          /\ toHost'[Len(toHost) + 1] = r
      BY <1>0, <3>1, <3>2, AppendedProperties
    <3>4. \A i \in DOMAIN toHost : FALSE
      BY <2>1, <2>2, <2>4 DEF InLine
    <3>5. Len(toHost) = 0
      <4> SUFFICES ASSUME Len(toHost) # 0 PROVE FALSE
        OBVIOUS
      <4>1. 1 \in DOMAIN toHost
        BY <1>0
      <4> QED BY <3>4, <4>1
    <3>6. DOMAIN toHost' = {1} /\ ~IsStatus(toHost'[1])
      BY <3>1, <3>3, <3>5
    <3>7. \A j \in DOMAIN toBoard' : toBoard'[j] # "read"
      BY <1>0, <2>1, <2>2, <2>4 DEF InLine
    <3>8. \A i, j \in DOMAIN toBoard' : i < j =>
              /\ toBoard'[i] = "status" => toBoard'[j] = "send"
              /\ toBoard'[i] = "read" => toBoard'[j] # "read"
      BY <1>0, <2>1, <2>2 DEF InLine
    <3> QED BY <2>1, <3>6, <3>7, <3>8 DEF InLine
  <2>5. CASE Head(toBoard) = "send" /\ WifiTransmitFrame
    <3>1. UNCHANGED <<toHost, sending>>
      BY <2>5 DEF WifiTransmitFrame
    <3> QED BY <1>0, <2>1, <2>2, <3>1 DEF InLine
  <2> QED BY <1>4, <2>3, <2>4, <2>5 DEF CommProcessCommand
<1>5. CASE FrameSent
  BY <1>5 DEF FrameSent, InLine
<1>6. CASE EspProcess
  BY <1>6 DEF EspProcess, InLine
<1>7. CASE Poll
  <2>1. ~hasty /\ ~(Polls > 0) /\ toBoard' = Append(toBoard, "status") /\ UNCHANGED <<toHost, sending>>
    BY <1>7 DEF Poll
  <2>2. /\ DOMAIN toBoard' = 1 .. Len(toBoard) + 1
        /\ \A i \in DOMAIN toBoard : toBoard'[i] = toBoard[i]
        /\ toBoard'[Len(toBoard) + 1] = "status"
    BY <1>0, <2>1, AppendedProperties DEF Commands
  <2>3. /\ \A i \in DOMAIN toBoard : toBoard[i] # "status"
        /\ \A i \in DOMAIN toHost : ~IsStatus(toHost[i])
    BY <2>1, NoPolls
  <2> QED BY <1>0, <2>1, <2>2, <2>3 DEF InLine
<1>8. CASE ProcessChar
  <2>1. toHost # <<>> /\ toHost' = Tail(toHost) /\ UNCHANGED <<sending, hasty>>
    BY <1>8 DEF ProcessChar
  <2>2. /\ Head(toHost) = toHost[1] /\ 1 \in DOMAIN toHost
        /\ DOMAIN toHost' = 1 .. Len(toHost) - 1
        /\ \A i \in DOMAIN toHost' :
              i + 1 \in DOMAIN toHost /\ toHost'[i] = toHost[i + 1]
    BY <1>0, <2>1, TailProperties
  <2>3. CASE UNCHANGED toBoard
    BY <1>0, <2>1, <2>2, <2>3 DEF InLine
  <2>4. CASE IsStatus(Head(toHost)) /\ toBoard' = Append(toBoard, "read")
    <3>1. /\ DOMAIN toBoard' = 1 .. Len(toBoard) + 1
          /\ \A i \in DOMAIN toBoard : toBoard'[i] = toBoard[i]
          /\ toBoard'[Len(toBoard) + 1] = "read"
      BY <1>0, <2>4, AppendedProperties DEF Commands
    <3>2. \A j \in DOMAIN toBoard : toBoard[j] = "send"
      BY <2>1, <2>2, <2>4 DEF InLine
    <3>3. \A i \in DOMAIN toHost' : FALSE
      <4>1. \A j \in DOMAIN toHost : ~(1 < j)
        BY <2>1, <2>2, <2>4 DEF InLine
      <4> QED BY <1>0, <2>2, <4>1
    <3>4. ~sending'
      BY <2>1, <2>2, <2>4 DEF InLine
    <3> QED BY <1>0, <3>1, <3>2, <3>3, <3>4 DEF InLine
  <2> QED BY <1>8, <2>3, <2>4 DEF ProcessChar, EspProcessStatus, EspProcessFrame
<1>9. CASE Drained
  BY <1>9 DEF Drained, InLine
<1>10. CASE ProvSendPacket
  <2>1. toBoard' = Append(toBoard, "send") /\ UNCHANGED <<toHost, sending, hasty>>
    BY <1>10 DEF ProvSendPacket
  <2>2. /\ DOMAIN toBoard' = 1 .. Len(toBoard) + 1
        /\ \A i \in DOMAIN toBoard : toBoard'[i] = toBoard[i]
        /\ toBoard'[Len(toBoard) + 1] = "send"
    BY <1>0, <2>1, AppendedProperties DEF Commands
  <2> QED BY <1>0, <2>1, <2>2 DEF InLine
<1>11. CASE Garble
  <2>0. UNCHANGED <<sending, hasty>>
    BY <1>11 DEF Garble
  <2>1. CASE \E n \in 1 .. Len(toBoard) :
                /\ toBoard' = SubSeq(toBoard, n + 1, Len(toBoard))
                /\ UNCHANGED toHost
    <3>1. PICK n \in 1 .. Len(toBoard) :
             toBoard' = SubSeq(toBoard, n + 1, Len(toBoard)) /\ UNCHANGED toHost
      BY <2>1
    <3>2. /\ DOMAIN toBoard' = 1 .. Len(toBoard) - n
          /\ \A i \in DOMAIN toBoard' :
                n + i \in DOMAIN toBoard /\ toBoard'[i] = toBoard[n + i]
      BY <1>0, <3>1, LaterProperties
    <3>3. \A i, j \in DOMAIN toBoard' : i < j => n + i < n + j
      BY <1>0, <3>2
    <3>4. \A i, j \in DOMAIN toBoard' : i < j =>
              /\ toBoard'[i] = "status" => toBoard'[j] = "send"
              /\ toBoard'[i] = "read" => toBoard'[j] # "read"
      BY <2>0, <3>2, <3>3 DEF InLine
    <3> QED BY <2>0, <3>1, <3>2, <3>4 DEF InLine
  <2>2. CASE \E n \in 1 .. Len(toHost) :
                /\ toHost' = SubSeq(toHost, n + 1, Len(toHost))
                /\ UNCHANGED toBoard
    <3>1. PICK n \in 1 .. Len(toHost) :
             toHost' = SubSeq(toHost, n + 1, Len(toHost)) /\ UNCHANGED toBoard
      BY <2>2
    <3>2. /\ DOMAIN toHost' = 1 .. Len(toHost) - n
          /\ \A i \in DOMAIN toHost' :
                n + i \in DOMAIN toHost /\ toHost'[i] = toHost[n + i]
      BY <1>0, <3>1, LaterProperties
    <3>3. \A i, j \in DOMAIN toHost' : i < j => n + i < n + j
      BY <1>0, <3>2
    <3>4. \A i, j \in DOMAIN toHost' : i < j =>
              ~IsStatus(toHost'[i]) /\ IsStatus(toHost'[j])
      BY <2>0, <3>2, <3>3 DEF InLine
    <3> QED BY <2>0, <3>1, <3>2, <3>4 DEF InLine
  <2> QED BY <1>11, <2>1, <2>2 DEF Garble
<1>12. CASE Restart
  BY <1>12, EmptySeq DEF Restart, WifiReset, InLine
<1>13. CASE EspInit
  BY <1>13, EmptySeq DEF EspInit, WifiReset, InLine
<1> QED BY <1>1, <1>2, <1>3, <1>4, <1>5, <1>6, <1>7, <1>8, <1>9, <1>10, <1>11,
           <1>12, <1>13 DEF Next

-----------------------------------------------------------------------------
(* The datagram the line is about                                          *)

\* A read, and an answer that leads to one, finds a datagram in its place that
\* was not processed; so does a frame on its way.
InPlace ==
    ~hasty /\ ~broken =>
        /\ passed <= arrived
        /\ rxAvail => rxData \in Datagrams /\ rxData.num <= arrived
        /\ \A i \in DOMAIN toHost : ~IsStatus(toHost[i]) =>
              /\ toHost[i].data \in Datagrams
              /\ toHost[i].data.num > passed /\ toHost[i].data.num <= arrived
        /\ \A i \in DOMAIN toHost :
              IsStatus(toHost[i]) /\ toHost[i].avail => rxAvail
        /\ \A j \in DOMAIN toBoard : toBoard[j] = "read" => rxAvail
        /\ sending => rxAvail
        /\ rxAvail /\ ~sending =>
              /\ rxData.num > passed
              /\ \A i \in DOMAIN toHost :
                    ~IsStatus(toHost[i]) => rxData.num > toHost[i].data.num
        /\ ~repeated /\ ~phantom

\* No step puts another datagram in the place of one that is announced.
LEMMA PlaceIsKept == TypeOK /\ InLine /\ InPlace /\ [Next]_vars => InPlace'
<1> SUFFICES ASSUME TypeOK, InLine, InPlace, [Next]_vars, ~hasty', ~broken'
             PROVE  InPlace'
  BY DEF InPlace
<1> USE DEF wifi, history
<1>0. /\ toBoard \in Seq(Commands) /\ toHost \in Seq(Replies)
      /\ Len(toBoard) \in Nat /\ DOMAIN toBoard = 1 .. Len(toBoard)
      /\ Len(toHost) \in Nat /\ DOMAIN toHost = 1 .. Len(toHost)
      /\ arrived \in Nat /\ passed \in Nat
  BY LenProperties, BridgeAssumption DEF TypeOK
<1>1. CASE UNCHANGED vars
  BY <1>1 DEF InPlace, vars
<1>2. CASE AtTcpclientRecv
  <2>1. /\ arrived' = arrived + 1 /\ arrived < MaxDatagrams
        /\ UNCHANGED <<sending, toBoard, toHost, history, hasty>>
    BY <1>2 DEF AtTcpclientRecv
  <2>2. CASE rxAvail
    <3>1. UNCHANGED <<rxData, rxAvail>>
      BY <1>2, <2>2 DEF AtTcpclientRecv
    <3>2. rxData \in Datagrams /\ rxData.num \in Nat
      BY <2>1, <2>2, ContentsProperties, BridgeAssumption DEF InPlace
    <3>3. \A i \in DOMAIN toHost : ~IsStatus(toHost[i]) =>
             /\ toHost[i].data \in Datagrams
             /\ toHost[i].data.num > passed /\ toHost[i].data.num <= arrived'
      <4> SUFFICES ASSUME NEW i \in DOMAIN toHost, ~IsStatus(toHost[i])
                   PROVE  /\ toHost[i].data \in Datagrams
                          /\ toHost[i].data.num > passed
                          /\ toHost[i].data.num <= arrived'
        OBVIOUS
      <4>1. /\ toHost[i].data \in Datagrams
            /\ toHost[i].data.num > passed /\ toHost[i].data.num <= arrived
        BY <2>1 DEF InPlace
      <4>2. toHost[i].data.num \in Nat
        BY <4>1, ContentsProperties, BridgeAssumption
      <4> QED BY <1>0, <2>1, <4>1, <4>2
    <3> QED BY <1>0, <2>1, <2>2, <3>1, <3>2, <3>3 DEF InPlace
  <2>3. CASE ~rxAvail
    <3>1. /\ rxAvail' = TRUE
          /\ \E k \in Kinds : rxData' = [num |-> arrived', kind |-> k]
      BY <1>2, <2>3 DEF AtTcpclientRecv
    <3>2. rxData' \in Datagrams /\ rxData'.num = arrived + 1
      <4>1. arrived' \in 1 .. MaxDatagrams
        BY <1>0, <2>1, BridgeAssumption
      <4> QED BY <2>1, <3>1, <4>1, ContentsProperties
    <3>3. \A i \in DOMAIN toHost : ~IsStatus(toHost[i]) =>
             /\ toHost[i].data \in Datagrams
             /\ toHost[i].data.num > passed /\ toHost[i].data.num < arrived + 1
      <4> SUFFICES ASSUME NEW i \in DOMAIN toHost, ~IsStatus(toHost[i])
                   PROVE  /\ toHost[i].data \in Datagrams
                          /\ toHost[i].data.num > passed
                          /\ toHost[i].data.num < arrived + 1
        OBVIOUS
      <4>1. /\ toHost[i].data \in Datagrams
            /\ toHost[i].data.num > passed /\ toHost[i].data.num <= arrived
        BY <2>1 DEF InPlace
      <4>2. toHost[i].data.num \in Nat
        BY <4>1, ContentsProperties, BridgeAssumption
      <4> QED BY <1>0, <2>1, <4>1, <4>2
    <3>4. \A i \in DOMAIN toHost : ~IsStatus(toHost[i]) => toHost[i].data.num \in Nat
      BY <3>3, ContentsProperties, BridgeAssumption
    <3>5. ~sending /\ \A j \in DOMAIN toBoard : toBoard[j] # "read"
      BY <2>1, <2>3 DEF InPlace
    <3>6. passed <= arrived /\ ~repeated /\ ~phantom
      BY <2>1 DEF InPlace
    <3>7. \A i \in DOMAIN toHost : ~IsStatus(toHost[i]) =>
             toHost[i].data.num <= arrived' /\ rxData'.num > toHost[i].data.num
      BY <1>0, <2>1, <3>2, <3>3, <3>4
    <3>8. rxData'.num <= arrived' /\ rxData'.num > passed' /\ passed' <= arrived'
      BY <1>0, <2>1, <3>2, <3>6
    <3> QED BY <2>1, <3>1, <3>2, <3>3, <3>5, <3>6, <3>7, <3>8 DEF InPlace
  <2> QED BY <2>2, <2>3
<1>3. CASE AtTcpclientSentCb
  BY <1>3 DEF AtTcpclientSentCb, InPlace
<1>4. CASE CommProcessCommand
  <2>1. /\ toBoard # <<>> /\ ~sending /\ toBoard' = Tail(toBoard)
        /\ UNCHANGED <<arrived, history, hasty>>
    BY <1>4 DEF CommProcessCommand
  <2>2. /\ Head(toBoard) = toBoard[1] /\ 1 \in DOMAIN toBoard
        /\ \A i \in DOMAIN toBoard' :
              i + 1 \in DOMAIN toBoard /\ toBoard'[i] = toBoard[i + 1]
    BY <1>0, <2>1, TailProperties
  <2>3. CASE Head(toBoard) = "status" /\ WifiSendStatus
    <3> DEFINE r == [cmd |-> "status", avail |-> rxAvail, tx |-> txAvail]
    <3>1. r \in Replies /\ IsStatus(r) /\ r.avail = rxAvail
      BY DEF TypeOK, Replies, IsStatus
    <3>2. toHost' = Append(toHost, r) /\ UNCHANGED <<rxData, rxAvail, sending>>
      BY <2>3 DEF WifiSendStatus
    <3> HIDE DEF r
    <3>3. /\ DOMAIN toHost' = 1 .. Len(toHost) + 1
          /\ \A i \in DOMAIN toHost : toHost'[i] = toHost[i]
          /\ toHost'[Len(toHost) + 1] = r
      BY <1>0, <3>1, <3>2, AppendedProperties
    <3>4. \A i \in DOMAIN toHost' :
             \/ i \in DOMAIN toHost /\ toHost'[i] = toHost[i]
             \/ toHost'[i] = r
      BY <1>0, <3>3
    <3> QED BY <2>1, <2>2, <3>1, <3>2, <3>4 DEF InPlace
  <2>4. CASE Head(toBoard) = "read" /\ WifiSendFrame
    <3> DEFINE r == [cmd |-> "frame", data |-> IF rxAvail THEN rxData ELSE Zeros]
    <3>1. rxAvail
      BY <2>1, <2>2, <2>4 DEF InPlace
    <3>2. r \in Replies /\ ~IsStatus(r) /\ r.data = rxData
      BY <3>1, ContentsProperties DEF TypeOK, Replies, IsStatus
    <3>3. toHost' = Append(toHost, r) /\ sending' = TRUE /\ UNCHANGED <<rxData, rxAvail>>
      BY <2>4 DEF WifiSendFrame
    <3> HIDE DEF r
    <3>4. /\ DOMAIN toHost' = 1 .. Len(toHost) + 1
          /\ \A i \in DOMAIN toHost : toHost'[i] = toHost[i]
          /\ toHost'[Len(toHost) + 1] = r
      BY <1>0, <3>2, <3>3, AppendedProperties
    <3>5. \A i \in DOMAIN toHost' :
             \/ i \in DOMAIN toHost /\ toHost'[i] = toHost[i]
             \/ toHost'[i] = r
      BY <1>0, <3>4
    <3>6. rxData \in Datagrams /\ rxData.num <= arrived /\ rxData.num > passed
      BY <2>1, <3>1 DEF InPlace
    <3> QED BY <2>1, <2>2, <3>1, <3>2, <3>3, <3>5, <3>6 DEF InPlace
  <2>5. CASE Head(toBoard) = "send" /\ WifiTransmitFrame
    <3>1. UNCHANGED <<toHost, sending, rxData, rxAvail>>
      BY <2>5 DEF WifiTransmitFrame
    <3> QED BY <2>1, <2>2, <3>1 DEF InPlace
  <2> QED BY <1>4, <2>3, <2>4, <2>5 DEF CommProcessCommand
<1>5. CASE FrameSent
  <2>1. /\ sending /\ sending' = FALSE /\ rxAvail' = FALSE
        /\ UNCHANGED <<arrived, toBoard, toHost, history, hasty>>
    BY <1>5 DEF FrameSent
  <2>2. /\ \A i \in DOMAIN toHost : ~IsStatus(toHost[i])
        /\ \A j \in DOMAIN toBoard : toBoard[j] # "read"
    BY <2>1 DEF InLine
  <2> QED BY <2>1, <2>2 DEF InPlace
<1>6. CASE EspProcess
  BY <1>6 DEF EspProcess, InPlace
<1>7. CASE Poll
  <2>1. /\ ~hasty /\ toBoard' = Append(toBoard, "status")
        /\ UNCHANGED <<arrived, wifi, toHost, history>>
    BY <1>7 DEF Poll
  <2>2. /\ DOMAIN toBoard' = 1 .. Len(toBoard) + 1
        /\ \A i \in DOMAIN toBoard : toBoard'[i] = toBoard[i]
        /\ toBoard'[Len(toBoard) + 1] = "status"
    BY <1>0, <2>1, AppendedProperties DEF Commands
  <2>3. \A j \in DOMAIN toBoard' : toBoard'[j] = "read" =>
           j \in DOMAIN toBoard /\ toBoard[j] = "read"
    BY <1>0, <2>2
  <2> QED BY <2>1, <2>3 DEF InPlace
<1>8. CASE ProcessChar
  <2>1. /\ toHost # <<>> /\ toHost' = Tail(toHost)
        /\ UNCHANGED <<arrived, wifi, hasty>>
    BY <1>8 DEF ProcessChar
  <2>2. /\ Head(toHost) = toHost[1] /\ 1 \in DOMAIN toHost
        /\ DOMAIN toHost' = 1 .. Len(toHost) - 1
        /\ \A i \in DOMAIN toHost' :
              i + 1 \in DOMAIN toHost /\ toHost'[i] = toHost[i + 1]
    BY <1>0, <2>1, TailProperties
  <2>3. CASE IsStatus(Head(toHost))
    <3>1. EspProcessStatus(Head(toHost))
      BY <1>8, <2>3 DEF ProcessChar
    <3>2. UNCHANGED history
      BY <3>1 DEF EspProcessStatus
    <3>3. \A j \in DOMAIN toBoard' : toBoard'[j] = "read" => rxAvail
      <4>1. CASE ~Head(toHost).avail
        BY <2>1, <3>1, <3>2, <4>1 DEF EspProcessStatus, InPlace
      <4>2. CASE Head(toHost).avail
        BY <2>1, <2>2, <2>3, <3>2, <4>2 DEF InPlace
      <4> QED BY <4>1, <4>2
    <3> QED BY <2>1, <2>2, <3>2, <3>3 DEF InPlace
  <2>4. CASE ~IsStatus(Head(toHost))
    <3> DEFINE d == Head(toHost).data
    <3>1. EspProcessFrame(Head(toHost))
      BY <1>8, <2>4 DEF ProcessChar
    <3>2. ~broken
      BY <3>1 DEF EspProcessFrame, ProvProcess
    <3>3. d \in Datagrams /\ d.num > passed /\ d.num <= arrived
      BY <2>1, <2>2, <2>4, <3>2 DEF InPlace
    <3>4. d # Zeros
      BY <3>3, ContentsProperties
    <3>5. ProvProcess(d) /\ UNCHANGED toBoard
      BY <3>1, <3>4 DEF EspProcessFrame
    <3>6. d.num \in Nat
      BY <3>3, ContentsProperties, BridgeAssumption
    <3>7. rxAvail /\ ~sending => rxData.num > d.num
      BY <2>1, <2>2, <2>4, <3>2 DEF InPlace
    <3>8. ~repeated /\ ~phantom
      BY <2>1, <3>2 DEF InPlace
    <3> HIDE DEF d
    <3>9. passed' = d.num /\ ~repeated' /\ ~phantom'
      <4>1. d.num \notin 1 .. passed /\ d.num # 0
        BY <1>0, <3>3, <3>6
      <4>2. /\ passed' = IF d.num = 0 THEN passed ELSE d.num
            /\ repeated' = (repeated \/ d.num \in 1 .. passed)
            /\ phantom' = (phantom \/ d.num = 0)
        BY <3>5 DEF ProvProcess
      <4>3. passed' = d.num
        BY <4>1, <4>2
      <4>4. ~phantom'
        BY <4>1, <3>8, <4>2, Zenon
      <4>5. ~repeated'
        BY <3>8, <4>1, <4>2, Zenon
      <4> QED BY <4>3, <4>4, <4>5
    <3>10. \A i \in DOMAIN toHost' : IsStatus(toHost'[i])
      <4>1. \A j \in DOMAIN toHost : 1 < j => IsStatus(toHost[j])
        BY <2>1, <2>2 DEF InLine
      <4>2. \A i \in DOMAIN toHost' : 1 < i + 1
        BY <1>0, <2>2
      <4> QED BY <2>2, <4>1, <4>2
    <3> QED BY <2>1, <2>2, <3>2, <3>3, <3>5, <3>7, <3>9, <3>10 DEF InPlace
  <2> QED BY <2>3, <2>4
<1>9. CASE Drained
  BY <1>9 DEF Drained, InPlace
<1>10. CASE ProvSendPacket
  <2>1. /\ toBoard' = Append(toBoard, "send")
        /\ UNCHANGED <<arrived, wifi, toHost, history, hasty>>
    BY <1>10 DEF ProvSendPacket
  <2>2. /\ DOMAIN toBoard' = 1 .. Len(toBoard) + 1
        /\ \A i \in DOMAIN toBoard : toBoard'[i] = toBoard[i]
        /\ toBoard'[Len(toBoard) + 1] = "send"
    BY <1>0, <2>1, AppendedProperties DEF Commands
  <2>3. \A j \in DOMAIN toBoard' : toBoard'[j] = "read" =>
           j \in DOMAIN toBoard /\ toBoard[j] = "read"
    BY <1>0, <2>2
  <2> QED BY <2>1, <2>3 DEF InPlace
<1>11. CASE Garble
  <2>0. UNCHANGED <<arrived, wifi, history, hasty>>
    BY <1>11 DEF Garble
  <2>1. CASE \E n \in 1 .. Len(toBoard) :
                /\ toBoard' = SubSeq(toBoard, n + 1, Len(toBoard))
                /\ UNCHANGED toHost
    <3>1. PICK n \in 1 .. Len(toBoard) :
             toBoard' = SubSeq(toBoard, n + 1, Len(toBoard)) /\ UNCHANGED toHost
      BY <2>1
    <3>2. \A i \in DOMAIN toBoard' :
             n + i \in DOMAIN toBoard /\ toBoard'[i] = toBoard[n + i]
      BY <1>0, <3>1, LaterProperties
    <3> QED BY <2>0, <3>1, <3>2 DEF InPlace
  <2>2. CASE \E n \in 1 .. Len(toHost) :
                /\ toHost' = SubSeq(toHost, n + 1, Len(toHost))
                /\ UNCHANGED toBoard
    <3>1. PICK n \in 1 .. Len(toHost) :
             toHost' = SubSeq(toHost, n + 1, Len(toHost)) /\ UNCHANGED toBoard
      BY <2>2
    <3>2. \A i \in DOMAIN toHost' :
             n + i \in DOMAIN toHost /\ toHost'[i] = toHost[n + i]
      BY <1>0, <3>1, LaterProperties
    <3> QED BY <2>0, <3>1, <3>2 DEF InPlace
  <2> QED BY <1>11, <2>1, <2>2 DEF Garble
<1>12. CASE Restart
  BY <1>12 DEF Restart, WifiReset
<1>13. CASE EspInit
  BY <1>13 DEF EspInit, WifiReset
<1> QED BY <1>1, <1>2, <1>3, <1>4, <1>5, <1>6, <1>7, <1>8, <1>9, <1>10, <1>11,
           <1>12, <1>13 DEF Next

-----------------------------------------------------------------------------
LEMMA InitInvariants == Init => InLine /\ InPlace
<1> SUFFICES ASSUME Init PROVE InLine /\ InPlace
  OBVIOUS
<1>1. DOMAIN toBoard = {} /\ DOMAIN toHost = {}
  BY EmptySeq DEF Init
<1> QED BY <1>1 DEF Init, InLine, InPlace

LEMMA Invariants == Spec => [](TypeOK /\ InLine /\ InPlace)
<1>1. Init => TypeOK /\ InLine /\ InPlace
  BY InitTypes, InitInvariants
<1>2. TypeOK /\ InLine /\ InPlace /\ [Next]_vars => (TypeOK /\ InLine /\ InPlace)'
  BY TypesAreKept, LineIsKept, PlaceIsKept
<1> QED BY <1>1, <1>2, PTL DEF Spec

\* As long as no poll overtakes the answer to the one before it and no board
\* restarts, no datagram is processed twice and no unused buffer is.
THEOREM EachIsProcessedOnce == Spec => []OnceEach
<1>1. InPlace => OnceEach
  BY DEF InPlace, OnceEach
<1> QED BY <1>1, Invariants, PTL

\* ... and the receive buffer never has to hold more than two replies, so that
\* its missing test for being full does no harm.
THEOREM RingAlwaysHasRoom == Spec => []RingHasRoom
<1>1. TypeOK /\ InLine => RingHasRoom
  <2> SUFFICES ASSUME TypeOK, InLine, ~hasty, ~(Len(toHost) <= 2)
               PROVE  FALSE
    BY DEF RingHasRoom
  <2>1. Len(toHost) \in Nat /\ DOMAIN toHost = 1 .. Len(toHost)
    BY LenProperties DEF TypeOK
  <2>2. 1 \in DOMAIN toHost /\ 2 \in DOMAIN toHost /\ 3 \in DOMAIN toHost
    BY <2>1
  <2>3. IsStatus(toHost[2]) /\ ~IsStatus(toHost[2])
    BY <2>2 DEF InLine
  <2> QED BY <2>3
<1> QED BY <1>1, Invariants, PTL

-----------------------------------------------------------------------------
(* The relay                                                               *)

\* Under every disturbance the datagrams on the line, and behind them the one
\* in rxData, are in the order of their arrival and later than the one that was
\* passed on and the one in the frame buffer.
InOrder ==
    /\ passed <= arrived /\ buffer.body.num <= arrived
    /\ rxAvail => rxData \in Datagrams /\ rxData.num <= arrived
    /\ \A i \in Frames :
          /\ toHost[i].data.num > passed /\ toHost[i].data.num > buffer.body.num
          /\ toHost[i].data.num <= arrived
    /\ \A i, j \in Frames : i < j => toHost[i].data.num < toHost[j].data.num
    /\ rxAvail /\ ~sending =>
          /\ rxData.num > passed /\ rxData.num > buffer.body.num
          /\ \A i \in Frames : rxData.num > toHost[i].data.num

RelayVars == <<Underway, passed, buffer.body.num, phantom, faults>>

LEMMA BufferNumber ==
    ASSUME TypeOK
    PROVE  buffer.body \in Contents \cup {Spoiled} /\ buffer.body.num \in Nat
  BY BufferIsNumbered DEF TypeOK

\* Steps that touch neither the replies nor what the boards hold
LEMMA OtherSteps ==
    ASSUME TypeOK, InOrder,
           UNCHANGED <<arrived, rxData, rxAvail, sending, toHost, passed, phantom,
                       faults>>,
           buffer'.body = buffer.body
    PROVE  InOrder' /\ UNCHANGED RelayVars
<1>1. Frames' = Frames
  BY DEF Frames
<1> QED BY <1>1 DEF InOrder, Underway, RelayVars

\* A reply that holds no datagram is put on the line.
LEMMA EmptyReply ==
    ASSUME TypeOK, NEW r \in Replies, ~IsDatagram(r), toHost' = Append(toHost, r)
    PROVE  Frames' = Frames /\ \A i \in Frames : toHost'[i] = toHost[i]
<1>1. toHost \in Seq(Replies)
  BY DEF TypeOK
<1>2. /\ DOMAIN toHost' = 1 .. Len(toHost) + 1
      /\ Len(toHost) \in Nat /\ DOMAIN toHost = 1 .. Len(toHost)
      /\ \A i \in DOMAIN toHost : toHost'[i] = toHost[i]
      /\ toHost'[Len(toHost) + 1] = r
  BY <1>1, AppendedProperties
<1>3. \A i \in DOMAIN toHost' : i \in DOMAIN toHost \/ i = Len(toHost) + 1
  BY <1>2
<1>4. \A i \in DOMAIN toHost : i \in DOMAIN toHost'
  BY <1>2
<1>5. \A i : i \in Frames' <=> i \in Frames
  BY <1>2, <1>3, <1>4 DEF Frames
<1> QED BY <1>2, <1>5 DEF Frames

\* Some of the first replies are taken from the line, or lost.
LEMMA FirstReplies ==
    ASSUME TypeOK, InOrder, NEW n \in Nat, n > 0,
           \A i \in DOMAIN toHost' :
              i \in Nat /\ n + i \in DOMAIN toHost /\ toHost'[i] = toHost[n + i]
    PROVE  /\ \A i \in Frames' : n + i \in Frames /\ toHost'[i] = toHost[n + i]
           /\ {toHost'[i].data.num : i \in Frames'}
                 \subseteq {toHost[i].data.num : i \in Frames}
           /\ \A i, j \in Frames' : i < j => toHost'[i].data.num < toHost'[j].data.num
<1>1. \A i \in Frames' : i \in Nat /\ n + i \in Frames /\ toHost'[i] = toHost[n + i]
  BY DEF Frames
<1>2. \A i, j \in Frames' : i < j => n + i < n + j
  BY <1>1
<1>3. \A i, j \in Frames' : i < j => toHost'[i].data.num < toHost'[j].data.num
  BY <1>1, <1>2 DEF InOrder
<1> QED BY <1>1, <1>3

\* at_tcpclient_recv() puts a datagram behind all others, or drops it.
LEMMA RecvStep ==
    ASSUME TypeOK, InOrder, AtTcpclientRecv
    PROVE  InOrder' /\ [Abstract!Next]_RelayVars
<1>1. /\ arrived' = arrived + 1 /\ arrived < MaxDatagrams
      /\ UNCHANGED <<sending, toHost, passed, buffer, phantom, faults>>
  BY DEF AtTcpclientRecv, history
<1>2. /\ \A i \in Frames : toHost[i].data.num \in Nat
      /\ arrived \in Nat /\ passed \in Nat /\ buffer.body.num \in Nat
  BY FramesAreNumbered, BufferNumber
<1>3. Frames' = Frames
  BY <1>1 DEF Frames
<1>4. /\ passed <= arrived' /\ buffer.body.num <= arrived'
      /\ \A i \in Frames : toHost[i].data.num < arrived'
  BY <1>1, <1>2 DEF InOrder
<1>5. CASE rxAvail
  <2>1. UNCHANGED <<rxData, rxAvail>>
    BY <1>5 DEF AtTcpclientRecv
  <2>2. rxData \in Datagrams /\ rxData.num <= arrived'
    <3>1. rxData \in Datagrams /\ rxData.num <= arrived
      BY <1>5 DEF InOrder
    <3>2. rxData.num \in Nat
      BY <3>1, ContentsProperties
    <3> QED BY <1>1, <1>2, <3>1, <3>2
  <2>3. InOrder'
    BY <1>1, <1>2, <1>3, <1>4, <2>1, <2>2 DEF InOrder
  <2>4. UNCHANGED RelayVars
    BY <1>1, <1>3, <2>1 DEF RelayVars, Underway
  <2> QED BY <2>3, <2>4
<1>6. CASE ~rxAvail
  <2>1. /\ rxAvail' = TRUE
        /\ \E k \in Kinds : rxData' = [num |-> arrived', kind |-> k]
    BY <1>6 DEF AtTcpclientRecv
  <2>2. arrived' \in 1 .. MaxDatagrams
    BY <1>1, <1>2, BridgeAssumption
  <2>3. rxData' \in Datagrams /\ rxData'.num = arrived'
    BY <2>1, <2>2, ContentsProperties
  <2>4. passed < arrived' /\ buffer.body.num < arrived'
    BY <1>1, <1>2 DEF InOrder
  <2>5. InOrder'
    BY <1>1, <1>2, <1>3, <1>4, <2>1, <2>2, <2>3, <2>4 DEF InOrder
  <2>6. Underway = {toHost[i].data.num : i \in Frames}
    BY <1>6 DEF Underway
  <2>7. CASE sending
    <3>1. Underway' = Underway
      BY <1>1, <1>3, <2>6, <2>7 DEF Underway
    <3> QED BY <1>1, <2>5, <3>1 DEF RelayVars
  <2>8. CASE ~sending
    <3>1. Underway' = Underway \cup {arrived'}
      BY <1>1, <1>3, <2>1, <2>3, <2>6, <2>8 DEF Underway
    <3>2. \A w \in Underway : arrived' > w
      BY <1>2, <1>4, <2>2, <2>6
    <3>3. Abstract!Accept
      BY <1>1, <1>2, <2>2, <2>4, <3>1, <3>2 DEF Abstract!Accept
    <3> QED BY <2>5, <3>3 DEF Abstract!Next
  <2> QED BY <2>7, <2>8
<1> QED BY <1>5, <1>6

\* commProcessCommand() moves the datagram from its place to the line.
LEMMA CommandStep ==
    ASSUME TypeOK, InOrder, CommProcessCommand
    PROVE  InOrder' /\ [Abstract!Next]_RelayVars
<1>1. ~sending /\ UNCHANGED <<arrived, passed, buffer, phantom, faults>>
  BY DEF CommProcessCommand, history
<1>2. CASE WifiSendStatus
  <2> DEFINE r == [cmd |-> "status", avail |-> rxAvail, tx |-> txAvail]
  <2>1. r \in Replies /\ ~IsDatagram(r)
    BY DEF TypeOK, Replies, IsStatus, IsDatagram
  <2>2. toHost' = Append(toHost, r) /\ UNCHANGED <<rxData, rxAvail, sending>>
    BY <1>2 DEF WifiSendStatus, wifi
  <2> HIDE DEF r
  <2>3. Frames' = Frames /\ \A i \in Frames : toHost'[i] = toHost[i]
    BY <2>1, <2>2, EmptyReply
  <2> QED BY <1>1, <2>2, <2>3 DEF InOrder, RelayVars, Underway
<1>3. CASE WifiSendFrame /\ rxAvail
  <2> DEFINE r == [cmd |-> "frame", data |-> IF rxAvail THEN rxData ELSE Zeros]
             n == Len(toHost)
  <2>1. rxData \in Datagrams
    BY <1>3 DEF InOrder
  <2>2. r \in Replies /\ IsDatagram(r) /\ r.data = rxData
    BY <1>3, <2>1, ContentsProperties DEF Replies, IsStatus, IsDatagram
  <2>3. toHost' = Append(toHost, r) /\ sending' = TRUE /\ UNCHANGED <<rxData, rxAvail>>
    BY <1>3 DEF WifiSendFrame
  <2> HIDE DEF r
  <2>4. toHost \in Seq(Replies)
    BY DEF TypeOK
  <2>5. /\ DOMAIN toHost' = 1 .. n + 1 /\ n \in Nat /\ DOMAIN toHost = 1 .. n
        /\ \A i \in DOMAIN toHost : toHost'[i] = toHost[i]
        /\ toHost'[n + 1] = r
    BY <2>2, <2>3, <2>4, AppendedProperties
  <2> HIDE DEF n
  <2>6. \A i \in DOMAIN toHost' : i \in DOMAIN toHost \/ i = n + 1
    BY <2>5
  <2>7. n + 1 \in DOMAIN toHost' /\ \A i \in DOMAIN toHost : i \in DOMAIN toHost'
    BY <2>5
  <2>8. \A i : i \in Frames' <=> i \in Frames \/ i = n + 1
    BY <2>2, <2>5, <2>6, <2>7 DEF Frames
  <2>9. \A i \in Frames : /\ toHost'[i] = toHost[i] /\ i < n + 1
                          /\ i \in Nat /\ toHost[i].data.num \in Nat
    <3>1. \A i \in Frames : i \in DOMAIN toHost /\ toHost[i].data.num \in Nat
      BY FramesAreNumbered
    <3> QED BY <2>5, <3>1
  <2>10. /\ rxData.num \in Nat /\ rxData.num > passed /\ rxData.num <= arrived
         /\ rxData.num > buffer.body.num
    BY <1>1, <1>3, <2>1, ContentsProperties DEF InOrder
  <2>11. \A i \in Frames : toHost[i].data.num < rxData.num
    BY <1>1, <1>3, <2>9, <2>10 DEF InOrder
  <2>12. ASSUME NEW i \in Frames', NEW j \in Frames', i < j
         PROVE  toHost'[i].data.num < toHost'[j].data.num
    <3>1. CASE i \in Frames /\ j \in Frames
      BY <2>9, <2>12, <3>1 DEF InOrder
    <3>2. CASE i \in Frames /\ j = n + 1
      BY <2>2, <2>5, <2>9, <2>11, <3>2
    <3>3. i # n + 1
      BY <2>5, <2>8, <2>9, <2>12
    <3> QED BY <2>8, <3>1, <3>2, <3>3
  <2>13. InOrder'
    BY <1>1, <1>3, <2>1, <2>2, <2>3, <2>5, <2>8, <2>9, <2>10, <2>12 DEF InOrder
  <2>14. {toHost'[i].data.num : i \in Frames'}
            = {toHost[i].data.num : i \in Frames} \cup {rxData.num}
    BY <2>2, <2>5, <2>8, <2>9
  <2>15. Underway' = Underway
    BY <1>1, <1>3, <2>3, <2>14 DEF Underway
  <2> QED BY <1>1, <2>13, <2>15 DEF RelayVars
<1>4. CASE WifiSendFrame /\ ~rxAvail
  <2> DEFINE r == [cmd |-> "frame", data |-> IF rxAvail THEN rxData ELSE Zeros]
  <2>1. r \in Replies /\ ~IsDatagram(r)
    BY <1>4, ContentsProperties DEF Replies, IsDatagram
  <2>2. toHost' = Append(toHost, r) /\ UNCHANGED <<rxData, rxAvail>>
    BY <1>4 DEF WifiSendFrame
  <2> HIDE DEF r
  <2>3. Frames' = Frames /\ \A i \in Frames : toHost'[i] = toHost[i]
    BY <2>1, <2>2, EmptyReply
  <2> QED BY <1>1, <1>4, <2>2, <2>3 DEF InOrder, RelayVars, Underway
<1>5. CASE WifiTransmitFrame
  <2>1. UNCHANGED <<rxData, rxAvail, sending, toHost>>
    BY <1>5 DEF WifiTransmitFrame
  <2> QED BY <1>1, <2>1, OtherSteps
<1> QED BY <1>2, <1>3, <1>4, <1>5 DEF CommProcessCommand

\* processChar() passes the first datagram on the line on, or once more the one
\* that was passed on last.
LEMMA ProcessCharStep ==
    ASSUME TypeOK, InOrder, ProcessChar
    PROVE  InOrder' /\ [Abstract!Next]_RelayVars
<1> DEFINE r == Head(toHost)
<1>0. toHost \in Seq(Replies) /\ toHost # <<>>
  BY DEF ProcessChar, TypeOK
<1>1. /\ r \in Replies /\ r = toHost[1] /\ 1 \in DOMAIN toHost
      /\ toHost' = Tail(toHost)
      /\ UNCHANGED <<arrived, rxData, rxAvail, sending, faults>>
  BY <1>0, TailProperties DEF ProcessChar, wifi
<1>2. \A i \in DOMAIN toHost' :
         i \in Nat /\ 1 + i \in DOMAIN toHost /\ toHost'[i] = toHost[1 + i]
  <2>1. /\ DOMAIN toHost' = 1 .. Len(toHost) - 1
        /\ \A i \in DOMAIN toHost' :
              i + 1 \in DOMAIN toHost /\ toHost'[i] = toHost[i + 1]
    BY <1>0, <1>1, TailProperties
  <2>2. Len(toHost) \in Nat
    BY FramesAreNumbered
  <2>3. \A i \in DOMAIN toHost' : i \in Nat /\ i + 1 = 1 + i
    BY <2>1, <2>2
  <2> QED BY <2>1, <2>3
<1>3. /\ \A i \in Frames' : 1 + i \in Frames /\ toHost'[i] = toHost[1 + i]
      /\ \A i, j \in Frames' : i < j => toHost'[i].data.num < toHost'[j].data.num
  BY <1>2, FirstReplies
<1>4. ASSUME NEW j \in Frames, j # 1
      PROVE  \E i \in Frames' : 1 + i = j /\ toHost'[i] = toHost[j]
  <2>1. j \in 1 .. Len(toHost) /\ Len(toHost) \in Nat
    BY FramesAreNumbered
  <2>2. DOMAIN toHost' = 1 .. Len(toHost) - 1
    BY <1>0, <1>1, TailProperties
  <2>3. j - 1 \in DOMAIN toHost' /\ 1 + (j - 1) = j
    BY <1>4, <2>1, <2>2
  <2>4. toHost'[j - 1] = toHost[j]
    BY <1>2, <2>3
  <2>5. j - 1 \in Frames'
    BY <2>3, <2>4 DEF Frames
  <2> QED BY <2>3, <2>4, <2>5
<1>5. {toHost'[i].data.num : i \in Frames'}
         = {toHost[j].data.num : j \in Frames \ {1}}
  <2>1. \A i \in Frames' : 1 + i \in Frames \ {1} /\ toHost'[i] = toHost[1 + i]
    <3>1. \A i \in Frames' : i \in DOMAIN toHost'
      BY DEF Frames
    <3>2. \A i \in Frames' : i \in Nat /\ i # 0
      <4>1. DOMAIN toHost' = 1 .. Len(toHost) - 1 /\ Len(toHost) \in Nat
        BY <1>0, <1>1, TailProperties, FramesAreNumbered
      <4> QED BY <3>1, <4>1
    <3> QED BY <1>3, <3>2
  <2>2. \A j \in Frames \ {1} : \E i \in Frames' : toHost'[i] = toHost[j]
    BY <1>4
  <2> QED BY <2>1, <2>2
<1>6. 1 \in Frames <=> IsDatagram(r)
  BY <1>1 DEF Frames
<1> HIDE DEF r
<1>7. CASE ~IsDatagram(r)
  <2>1. /\ buffer'.body = buffer.body
        /\ \/ UNCHANGED <<passed, phantom>>
           \/ buffer.body.num = 0 /\ passed' = passed /\ phantom' = TRUE
           \/ buffer.body.num # 0 /\ passed' = buffer.body.num /\ phantom' = phantom
    <3>1. CASE IsStatus(r)
      <4>1. EspProcessStatus(r)
        BY <3>1 DEF ProcessChar, r
      <4>2. buffer' = [buffer EXCEPT !.head = StatusHead(r)] /\ UNCHANGED history
        BY <4>1 DEF EspProcessStatus
      <4>3. buffer \in [head : Heads, body : Contents \cup {Spoiled}]
        BY DEF TypeOK
      <4> QED BY <4>2, <4>3 DEF history
    <3>2. CASE ~IsStatus(r)
      <4>1. r.data = Zeros
        BY <1>7, <3>2 DEF IsDatagram
      <4>2. EspProcessFrame(r)
        BY <3>2 DEF ProcessChar, r
      <4>3. buffer' = buffer /\ (ProvProcess(buffer.body) \/ UNCHANGED history)
        BY <4>1, <4>2 DEF EspProcessFrame
      <4>4. CASE UNCHANGED history
        BY <4>3, <4>4 DEF history
      <4>5. CASE ProvProcess(buffer.body)
        <5>1. /\ passed' = IF buffer.body.num = 0 THEN passed ELSE buffer.body.num
              /\ phantom' = (phantom \/ buffer.body.num = 0)
          BY <4>5 DEF ProvProcess
        <5>2. phantom \in BOOLEAN
          BY DEF TypeOK
        <5>3. CASE buffer.body.num = 0
          <6>1. phantom' = TRUE
            BY <5>1, <5>3, Zenon
          <6> QED BY <4>3, <5>1, <5>3, <6>1
        <5>4. CASE buffer.body.num # 0
          <6>1. phantom' = phantom
            BY <5>1, <5>2, <5>4
          <6> QED BY <4>3, <5>1, <5>4, <6>1
        <5> QED BY <5>3, <5>4
      <4> QED BY <4>3, <4>4, <4>5
    <3> QED BY <3>1, <3>2
  <2>2. {toHost'[i].data.num : i \in Frames'} = {toHost[j].data.num : j \in Frames}
    BY <1>5, <1>6, <1>7
  <2>3. Underway' = Underway
    BY <1>1, <2>2 DEF Underway
  <2>4. passed' \in {passed, buffer.body.num}
    BY <2>1
  <2>5. InOrder'
    BY <1>1, <1>3, <2>1, <2>4 DEF InOrder
  <2>6. CASE UNCHANGED <<passed, phantom>>
    BY <1>1, <2>1, <2>3, <2>5, <2>6 DEF RelayVars
  <2>7. CASE buffer.body.num = 0 /\ passed' = passed /\ phantom' = TRUE
    <3>1. Abstract!PassKept
      BY <1>1, <2>1, <2>3, <2>7 DEF Abstract!PassKept
    <3> QED BY <2>5, <3>1 DEF Abstract!Next
  <2>8. CASE buffer.body.num # 0 /\ passed' = buffer.body.num /\ phantom' = phantom
    <3>1. Abstract!PassKept
      BY <1>1, <2>1, <2>3, <2>8 DEF Abstract!PassKept
    <3> QED BY <2>5, <3>1 DEF Abstract!Next
  <2> QED BY <2>1, <2>6, <2>7, <2>8
<1>8. CASE IsDatagram(r)
  <2> DEFINE d == r.data.num
  <2>1. 1 \in Frames /\ r = toHost[1] /\ r.data # Zeros /\ ~IsStatus(r)
    BY <1>1, <1>6, <1>8 DEF IsDatagram
  <2>2. EspProcessFrame(r)
    BY <2>1 DEF ProcessChar, r
  <2>3. /\ buffer' = [head |-> "frame", body |-> r.data]
        /\ ProvProcess(r.data)
    BY <2>1, <2>2 DEF EspProcessFrame
  <2>4. passed' = d /\ buffer'.body.num = d /\ phantom' = phantom
    <3>1. d # 0
      BY <2>1, FramesAreNumbered, BridgeAssumption
    <3>2. phantom \in BOOLEAN
      BY DEF TypeOK
    <3>3. phantom' = (phantom \/ d = 0)
      BY <2>3 DEF ProvProcess
    <3>4. phantom' = phantom
      BY <3>1, <3>2, <3>3
    <3> QED BY <2>1, <2>3, <3>1, <3>4 DEF ProvProcess
  <2>5. /\ d \in Nat /\ d <= arrived
        /\ \A i \in Frames : i \in Nat /\ toHost[i].data.num \in Nat
    BY <2>1, FramesAreNumbered DEF InOrder
  <2>6. d = toHost[1].data.num
    BY <2>1
  <2> HIDE DEF d
  <2>7. \A j \in Frames \ {1} : d < toHost[j].data.num
    <3>1. \A j \in Frames \ {1} : 1 < j
      <4>1. \A j \in Frames : j \in 1 .. Len(toHost) /\ Len(toHost) \in Nat
        BY FramesAreNumbered
      <4> QED BY <4>1
    <3> QED BY <2>1, <2>6, <3>1 DEF InOrder
  <2>8. rxAvail /\ ~sending => rxData.num \in Nat /\ rxData.num > d
    BY <2>1, <2>6, ContentsProperties DEF InOrder
  <2>9. \A i \in Frames' : 1 + i \in Frames \ {1} /\ toHost'[i] = toHost[1 + i]
    <3>1. \A i \in Frames' : toHost'[i].data.num \in {toHost[j].data.num : j \in Frames \ {1}}
      BY <1>5
    <3>2. \A j \in Frames \ {1} : toHost[j].data.num # d
      BY <2>5, <2>7
    <3>3. \A i \in Frames' : 1 + i # 1
      BY <1>3, <2>6, <3>1, <3>2
    <3> QED BY <1>3, <3>3
  <2>10. InOrder'
    BY <1>1, <1>3, <2>4, <2>5, <2>7, <2>8, <2>9 DEF InOrder
  <2>11. d \in Underway /\ \A w \in Underway : d <= w
    <3>1. \A i \in Frames : d <= toHost[i].data.num
      BY <2>5, <2>6, <2>7
    <3> QED BY <2>1, <2>5, <2>6, <2>8, <3>1 DEF Underway
  <2>12. Underway' = Underway \ {d}
    <3>1. {toHost[j].data.num : j \in Frames \ {1}}
             = {toHost[j].data.num : j \in Frames} \ {d}
      BY <2>5, <2>6, <2>7
    <3>2. rxAvail /\ ~sending => rxData.num # d
      BY <2>5, <2>8
    <3> QED BY <1>1, <1>5, <3>1, <3>2 DEF Underway
  <2>13. Abstract!PassOn
    BY <1>1, <2>4, <2>11, <2>12 DEF Abstract!PassOn
  <2> QED BY <2>10, <2>13 DEF Abstract!Next
<1> QED BY <1>7, <1>8

\* What is lost on the line, or when a board starts anew, leaves the rest in
\* its order.
LEMMA LosingStep ==
    ASSUME TypeOK, InOrder, Garble \/ Restart \/ EspInit
    PROVE  InOrder' /\ [Abstract!Next]_RelayVars
<1>1. CASE Garble
  <2>1. /\ UNCHANGED <<arrived, rxData, rxAvail, sending, passed, phantom>>
        /\ faults' = faults + 1
    BY <1>1 DEF Garble, Disturb, wifi, history
  <2>2. CASE UNCHANGED <<toHost, buffer>>
    <3>1. Frames' = Frames
      BY <2>2 DEF Frames
    <3>2. InOrder' /\ Underway' = Underway
      BY <2>1, <2>2, <3>1 DEF InOrder, Underway
    <3>3. Abstract!Damage
      BY <2>1, <2>2, <3>2 DEF Abstract!Damage
    <3> QED BY <3>2, <3>3 DEF Abstract!Next
  <2>3. CASE \E n \in 1 .. Len(toHost) :
                /\ toHost' = SubSeq(toHost, n + 1, Len(toHost))
                /\ SpoilBuffer(1 .. n)
    <3>1. PICK n \in 1 .. Len(toHost) :
             /\ toHost' = SubSeq(toHost, n + 1, Len(toHost))
             /\ SpoilBuffer(1 .. n)
      BY <2>3
    <3>2. toHost \in Seq(Replies) /\ Len(toHost) \in Nat
      BY FramesAreNumbered DEF TypeOK
    <3>3. n \in Nat /\ n > 0
      BY <3>2
    <3>4. /\ DOMAIN toHost' = 1 .. Len(toHost) - n
          /\ \A i \in DOMAIN toHost' : n + i \in DOMAIN toHost /\ toHost'[i] = toHost[n + i]
      BY <3>1, <3>2, LaterProperties
    <3>5. \A i \in DOMAIN toHost' :
             i \in Nat /\ i > 0 /\ n + i \in DOMAIN toHost /\ toHost'[i] = toHost[n + i]
      BY <3>2, <3>3, <3>4
    <3>6. /\ \A i \in Frames' : n + i \in Frames /\ toHost'[i] = toHost[n + i]
          /\ {toHost'[i].data.num : i \in Frames'}
                \subseteq {toHost[i].data.num : i \in Frames}
          /\ \A i, j \in Frames' : i < j => toHost'[i].data.num < toHost'[j].data.num
      BY <3>3, <3>5, FirstReplies
    <3>7. \/ buffer'.body.num \in {buffer.body.num, 0}
          \/ \E k \in Frames : k <= n /\ buffer'.body.num = toHost[k].data.num
      <4>1. \/ buffer'.body \in {buffer.body, Spoiled}
            \/ \E k \in Frames \cap 1 .. n : buffer'.body = toHost[k].data
        <5>1. PICK B : /\ buffer' \in [head : Heads, body : B]
                       /\ B = {buffer.body, Spoiled}
                              \cup {toHost[i].data : i \in Frames \cap 1 .. n}
          BY <3>1 DEF SpoilBuffer
        <5> QED BY <5>1
      <4>2. \A k \in Frames \cap 1 .. n : k <= n
        BY <3>3
      <4> QED BY <4>1, <4>2, ContentsProperties
    \* What the buffer holds is older than all that follows.
    <3>8. /\ buffer'.body.num <= arrived
          /\ \A i \in Frames' : toHost'[i].data.num > buffer'.body.num
          /\ rxAvail /\ ~sending => rxData.num > buffer'.body.num
      <4>1. CASE buffer'.body.num = buffer.body.num
        BY <3>6, <4>1 DEF InOrder
      <4>2. CASE buffer'.body.num = 0
        <5>1. \A i \in Frames' : toHost'[i].data.num > 0
          BY <3>6, FramesAreNumbered
        <5>2. rxAvail => rxData.num > 0
          BY ContentsProperties DEF InOrder
        <5>3. arrived >= 0
          BY FramesAreNumbered
        <5> QED BY <4>2, <5>1, <5>2, <5>3
      <4>3. CASE \E k \in Frames : k <= n /\ buffer'.body.num = toHost[k].data.num
        <5>1. PICK k \in Frames : k <= n /\ buffer'.body.num = toHost[k].data.num
          BY <4>3
        <5>2. \A i \in Frames' : k < n + i
          <6>1. \A i \in Frames' : i \in Nat /\ i > 0
            BY <3>5 DEF Frames
          <6>2. k \in Nat
            BY FramesAreNumbered
          <6> QED BY <3>3, <5>1, <6>1, <6>2
        <5>3. \A i \in Frames' : toHost'[i].data.num > toHost[k].data.num
          <6> SUFFICES ASSUME NEW i \in Frames'
                       PROVE  toHost'[i].data.num > toHost[k].data.num
            OBVIOUS
          <6>1. n + i \in Frames /\ k < n + i /\ toHost'[i] = toHost[n + i]
            BY <3>6, <5>2
          <6>2. toHost[k].data.num < toHost[n + i].data.num
            BY <6>1 DEF InOrder
          <6>3. toHost[k].data.num \in Nat /\ toHost[n + i].data.num \in Nat
            BY <6>1, FramesAreNumbered
          <6> QED BY <6>1, <6>2, <6>3
        <5>4. rxAvail /\ ~sending => rxData.num > toHost[k].data.num
          BY DEF InOrder
        <5>5. toHost[k].data.num <= arrived
          BY DEF InOrder
        <5> QED BY <5>1, <5>3, <5>4, <5>5
      <4> QED BY <3>7, <4>1, <4>2, <4>3
    <3>9. InOrder'
      BY <2>1, <3>6, <3>8 DEF InOrder
    <3>10. Underway' \in SUBSET Underway
      BY <2>1, <3>6 DEF Underway
    <3>11. \A w \in Underway' : w > buffer'.body.num
      BY <2>1, <3>8 DEF Underway
    <3>12. \/ buffer'.body.num \in {buffer.body.num, 0}
           \/ buffer'.body.num \in Underway
      BY <3>7 DEF Underway
    <3>13. \A w \in Underway' : w \in Nat
      <4>1. \A i \in Frames : toHost[i].data.num \in Nat
        BY FramesAreNumbered, BridgeAssumption
      <4>2. rxAvail => rxData.num \in Nat
        BY ContentsProperties, BridgeAssumption DEF InOrder
      <4>3. \A w \in Underway : w \in Nat
        BY <4>1, <4>2 DEF Underway
      <4> QED BY <3>10, <4>3
    <3>14. buffer'.body.num \in Nat
      BY <3>7, FramesAreNumbered, BufferNumber
    <3>15. \A w \in Underway' : buffer'.body.num < w
      BY <3>11, <3>13, <3>14
    <3>16. Abstract!Damage
      BY <2>1, <3>10, <3>12, <3>15 DEF Abstract!Damage
    <3> QED BY <3>9, <3>16 DEF Abstract!Next
  <2> QED BY <1>1, <2>2, <2>3 DEF Garble
<1>2. CASE Restart
  <2>1. /\ rxAvail' = FALSE /\ faults' = faults + 1
        /\ UNCHANGED <<arrived, passed, toHost, buffer, phantom>>
    BY <1>2 DEF Restart, WifiReset, Disturb
  <2>2. Frames' = Frames
    BY <2>1 DEF Frames
  <2>3. InOrder'
    BY <2>1, <2>2 DEF InOrder
  <2>4. Underway' \in SUBSET Underway
    BY <2>1, <2>2 DEF Underway
  <2>5. Abstract!Damage
    BY <2>1, <2>4 DEF Abstract!Damage
  <2> QED BY <2>3, <2>5 DEF Abstract!Next
<1>3. CASE EspInit
  <2>1. /\ rxAvail' = FALSE /\ toHost' = <<>> /\ buffer'.body.num = 0
        /\ faults' = faults + 1
        /\ UNCHANGED <<arrived, passed, phantom>>
    BY <1>3, ContentsProperties DEF EspInit, WifiReset, Disturb
  <2>2. Frames' = {}
    BY <2>1 DEF Frames
  <2>3. 0 <= arrived
    BY FramesAreNumbered
  <2>4. InOrder'
    BY <2>1, <2>2, <2>3 DEF InOrder
  <2>5. Underway' \in SUBSET Underway
    BY <2>1, <2>2 DEF Underway
  <2>6. Abstract!Damage
    BY <2>1, <2>5 DEF Abstract!Damage
  <2> QED BY <2>4, <2>6 DEF Abstract!Next
<1> QED BY <1>1, <1>2, <1>3

\* Every step of the bridge is one of the relay, or none.
LEMMA RelayStep ==
    ASSUME TypeOK, InOrder, [Next]_vars
    PROVE  InOrder' /\ [Abstract!Next]_RelayVars
<1>1. CASE FrameSent
  <2>1. /\ sending /\ rxAvail' = FALSE
        /\ UNCHANGED <<arrived, passed, toHost, buffer, phantom, faults>>
    BY <1>1 DEF FrameSent, history
  <2>2. Frames' = Frames
    BY <2>1 DEF Frames
  <2> QED BY <2>1, <2>2 DEF InOrder, RelayVars, Underway
<1>2. CASE \/ AtTcpclientSentCb \/ EspProcess \/ Poll \/ Drained
           \/ ProvSendPacket \/ UNCHANGED vars
  <2>1. UNCHANGED <<arrived, rxData, rxAvail, sending, toHost, passed, buffer,
                    phantom, faults>>
    BY <1>2 DEF AtTcpclientSentCb, EspProcess, Poll, Drained, ProvSendPacket,
                vars, wifi, history
  <2> QED BY <2>1, OtherSteps
<1> QED BY <1>1, <1>2, RecvStep, CommandStep, ProcessCharStep, LosingStep DEF Next

\* The bridge implements the relay, however many polls overlap: datagrams are
\* processed in the order of their arrival, none is lost without a damage, none
\* is processed a second time after a later one, and what is no datagram is
\* processed only between the start, or a damage, and the next intact frame.
THEOREM RelayImplemented == Spec => ImplementsRelay
<1>1. Init => InOrder /\ Abstract!Init
  <2> SUFFICES ASSUME Init PROVE InOrder /\ Abstract!Init
    OBVIOUS
  <2>1. /\ toHost = <<>> /\ ~rxAvail /\ passed = 0 /\ arrived = 0
        /\ buffer.body.num = 0 /\ phantom = FALSE /\ faults = 0
    BY ContentsProperties DEF Init
  <2>2. Frames = {}
    BY <2>1 DEF Frames
  <2>3. Underway = {}
    BY <2>1, <2>2 DEF Underway
  <2> QED BY <2>1, <2>2, <2>3 DEF InOrder, Abstract!Init
<1>2. TypeOK /\ InOrder /\ [Next]_vars => InOrder'
  BY RelayStep
<1>3. TypeOK /\ InOrder /\ [Next]_vars => [Abstract!Next]_(Abstract!vars)
  <2>1. Abstract!vars = RelayVars
    BY DEF Abstract!vars, RelayVars
  <2> QED BY <2>1, RelayStep DEF Abstract!vars, RelayVars
<1> QED BY <1>1, <1>2, <1>3, TypeCorrect, PTL
        DEF Spec, ImplementsRelay, Abstract!Spec

=============================================================================
