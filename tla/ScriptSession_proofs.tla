------------------------- MODULE ScriptSession_proofs --------------------------
(***************************************************************************)
(* Proofs about ScriptSession.                                             *)
(***************************************************************************)
EXTENDS ScriptSession, SequenceTheorems, WellFoundedInduction, TLAPS

-----------------------------------------------------------------------------
(* The requests of onInitEvent()                                           *)

Devices == {InitDevices[i] : i \in DOMAIN InitDevices}
N == Len(InitDevices)

\* What the handler has still to make after k requests
Rest(k) == SubSeq(InitRequests, k + 1, N + 3)

\* Three elements are a sequence.
LEMMA ThreeElements ==
    ASSUME NEW S, NEW x \in S, NEW y \in S, NEW z \in S
    PROVE  /\ <<x, y, z>> \in Seq(S) /\ Len(<<x, y, z>>) = 3
           /\ <<x, y, z>>[1] = x /\ <<x, y, z>>[2] = y /\ <<x, y, z>>[3] = z
  OBVIOUS

\* A sequence of n elements and one of 3 after it.
LEMMA ThreeMore ==
    ASSUME NEW S, NEW s \in Seq(S), NEW t \in Seq(S), NEW n \in Nat,
           Len(s) = n, Len(t) = 3
    PROVE  /\ s \o t \in Seq(S) /\ Len(s \o t) = n + 3
           /\ \A i \in 1 .. n : (s \o t)[i] = s[i]
           /\ (s \o t)[n + 1] = t[1] /\ (s \o t)[n + 2] = t[2]
           /\ (s \o t)[n + 3] = t[3]
<1>1. /\ s \o t \in Seq(S) /\ Len(s \o t) = Len(s) + Len(t)
      /\ \A i \in 1 .. Len(s) + Len(t) : (s \o t)[i] =
            IF i <= Len(s) THEN s[i] ELSE t[i - Len(s)]
  BY ConcatProperties
<1>2. /\ s \o t \in Seq(S) /\ Len(s \o t) = n + 3
      /\ \A i \in 1 .. n + 3 : (s \o t)[i] =
            IF i <= n THEN s[i] ELSE t[i - n]
  BY <1>1
<1>3. \A i \in 1 .. n : (s \o t)[i] = s[i]
  BY <1>2
<1>4. (s \o t)[n + 1] = t[1]
  <2>1. n + 1 \in 1 .. n + 3 /\ ~(n + 1 <= n) /\ (n + 1) - n = 1
    OBVIOUS
  <2> QED BY <1>2, <2>1
<1>5. (s \o t)[n + 2] = t[2]
  <2>1. n + 2 \in 1 .. n + 3 /\ ~(n + 2 <= n) /\ (n + 2) - n = 2
    OBVIOUS
  <2> QED BY <1>2, <2>1
<1>6. (s \o t)[n + 3] = t[3]
  <2>1. n + 3 \in 1 .. n + 3 /\ ~(n + 3 <= n) /\ (n + 3) - n = 3
    OBVIOUS
  <2> QED BY <1>2, <2>1
<1> QED BY <1>2, <1>3, <1>4, <1>5, <1>6

\* The handler registers N devices, names the output, makes it persistent and
\* says INIT-OK.
LEMMA InitRequestsProperties ==
    /\ N \in Nat /\ DOMAIN InitDevices = 1 .. N
    /\ InitRequests \in Seq(Requests) /\ Len(InitRequests) = N + 3
    /\ DOMAIN InitRequests = 1 .. N + 3
    /\ \A i \in 1 .. N : InitRequests[i] = Request("REGISTER", InitDevices[i])
    /\ InitRequests[N + 1] = Request("SET-NAME", OutputName)
    /\ InitRequests[N + 2] = Request("SET-PERSISTENT", OutputName)
    /\ InitRequests[N + 3] = Request("INIT-OK", "")
<1> DEFINE R == [cmd : {"REGISTER", "SET-NAME", "SET-PERSISTENT", "INIT-OK"},
                 arg : Devices \cup {OutputName, ""}]
           a == [i \in DOMAIN InitDevices |-> Request("REGISTER", InitDevices[i])]
           b == <<Request("SET-NAME", OutputName), Request("SET-PERSISTENT", OutputName),
                  Request("INIT-OK", "")>>
<1>1. N \in Nat /\ DOMAIN InitDevices = 1 .. N
  BY DevicesAssumption, LenProperties DEF N, Devices
<1>2. /\ a \in Seq(R) /\ Len(a) = N
      /\ \A i \in 1 .. N : a[i] = Request("REGISTER", InitDevices[i])
  <2>1. a \in [1 .. N -> R]
    <3>1. \A i \in DOMAIN InitDevices : Request("REGISTER", InitDevices[i]) \in R
      BY DEF Request, Devices
    <3> HIDE DEF R
    <3> QED BY <1>1, <3>1
  <2>2. \A i \in 1 .. N : a[i] = Request("REGISTER", InitDevices[i])
    BY <1>1
  <2> HIDE DEF a, R
  <2>3. a \in Seq(R)
    BY <1>1, <2>1
  <2>4. Len(a) = N
    BY <1>1, <2>1
  <2> QED BY <2>2, <2>3, <2>4
<1>3. /\ b \in Seq(R) /\ Len(b) = 3
      /\ b[1] = Request("SET-NAME", OutputName)
      /\ b[2] = Request("SET-PERSISTENT", OutputName)
      /\ b[3] = Request("INIT-OK", "")
  <2>1. /\ Request("SET-NAME", OutputName) \in R
        /\ Request("SET-PERSISTENT", OutputName) \in R
        /\ Request("INIT-OK", "") \in R
    BY DEF Request
  <2> HIDE DEF R
  <2> QED BY <2>1, ThreeElements
<1>4. InitRequests = a \o b
  BY DEF InitRequests
<1> HIDE DEF a, b, R
<1>5. /\ a \o b \in Seq(R) /\ Len(a \o b) = N + 3
      /\ \A i \in 1 .. N : (a \o b)[i] = a[i]
      /\ (a \o b)[N + 1] = b[1] /\ (a \o b)[N + 2] = b[2]
      /\ (a \o b)[N + 3] = b[3]
  <2>1. a \in Seq(R) /\ Len(a) = N /\ b \in Seq(R) /\ Len(b) = 3
    BY <1>2, <1>3
  <2> QED BY <1>1, <2>1, ThreeMore
<1>6. DOMAIN (a \o b) = 1 .. N + 3
  BY <1>5, LenProperties
<1>9. \A i \in 1 .. N + 3 : InitRequests[i] \in Requests
  BY <1>4, <1>6 DEF Requests
<1>10. InitRequests \in Seq(Requests)
  <2>1. a \o b \in [1 .. Len(a \o b) -> R]
    BY <1>5, LenProperties
  <2>2. InitRequests \in [1 .. N + 3 -> Requests]
    BY <1>4, <1>6, <1>9, <2>1
  <2> QED BY <1>1, <2>2
<1> QED BY <1>1, <1>2, <1>3, <1>4, <1>5, <1>6, <1>10

\* After k requests the next one is the k+1st, and then k+1 are made.
LEMMA RestProperties ==
    ASSUME NEW k \in 0 .. N + 2
    PROVE  /\ Rest(k) \in Seq(Requests) /\ Rest(k) # <<>>
           /\ Head(Rest(k)) = InitRequests[k + 1]
           /\ Tail(Rest(k)) = IF k = N + 2 THEN <<>> ELSE Rest(k + 1)
<1>1. N \in Nat /\ \A i \in 1 .. N + 3 : InitRequests[i] \in Requests
  BY InitRequestsProperties, ElementOfSeq
<1>2. ASSUME NEW j \in 0 .. N + 2
      PROVE  /\ Rest(j) \in Seq(Requests) /\ Len(Rest(j)) = N + 3 - j
             /\ \A i \in 1 .. N + 3 - j : Rest(j)[i] = InitRequests[j + i]
  <2>1. \A i \in j + 1 .. N + 3 : InitRequests[i] \in Requests
    BY <1>1
  <2>2. /\ Rest(j) \in Seq(Requests)
        /\ Len(Rest(j)) = IF j + 1 <= N + 3 THEN N + 3 - (j + 1) + 1 ELSE 0
        /\ \A i \in 1 .. N + 3 - (j + 1) + 1 :
              Rest(j)[i] = InitRequests[(j + 1) + i - 1]
    BY <1>1, <2>1, SubSeqProperties DEF Rest
  <2>3. \A i \in 1 .. N + 3 - j : (j + 1) + i - 1 = j + i
    BY <1>1
  <2> QED BY <1>1, <2>2, <2>3
<1>3. Rest(k) # <<>> /\ Head(Rest(k)) = InitRequests[k + 1]
  <2>1. Len(Rest(k)) # 0 /\ 1 \in 1 .. N + 3 - k
    BY <1>1, <1>2
  <2>2. Rest(k) # <<>> /\ Head(Rest(k)) = Rest(k)[1]
    BY <1>2, <2>1
  <2> QED BY <1>2, <2>1, <2>2
<1>4. /\ Tail(Rest(k)) \in Seq(Requests) /\ Len(Tail(Rest(k))) = N + 2 - k
      /\ \A i \in 1 .. N + 2 - k : Tail(Rest(k))[i] = InitRequests[k + 1 + i]
  <2>1. /\ Tail(Rest(k)) \in Seq(Requests)
        /\ Len(Tail(Rest(k))) = Len(Rest(k)) - 1
        /\ \A i \in 1 .. Len(Tail(Rest(k))) : Tail(Rest(k))[i] = Rest(k)[i + 1]
    BY <1>2, <1>3, HeadTailProperties
  <2>2. \A i \in 1 .. N + 2 - k : i + 1 \in 1 .. N + 3 - k /\ k + (i + 1) = k + 1 + i
    BY <1>1
  <2>3. Len(Tail(Rest(k))) = N + 2 - k
    BY <1>1, <1>2, <2>1
  <2>4. \A i \in 1 .. N + 2 - k : Tail(Rest(k))[i] = Rest(k)[i + 1]
    BY <2>1, <2>3
  <2>5. \A i \in 1 .. N + 2 - k : Rest(k)[i + 1] = InitRequests[k + 1 + i]
    <3>1. \A i \in 1 .. N + 2 - k : Rest(k)[i + 1] = InitRequests[k + (i + 1)]
      BY <1>2, <2>2
    <3> QED BY <2>2, <3>1
  <2> QED BY <2>1, <2>3, <2>4, <2>5
<1>5. CASE k = N + 2
  <2>1. N + 2 - k = 0
    BY <1>1, <1>5
  <2>2. Tail(Rest(k)) = <<>>
    <3> DEFINE t == Tail(Rest(k))
    <3>1. t \in Seq(Requests) /\ Len(t) = 0
      BY <1>4, <2>1
    <3> HIDE DEF t
    <3>2. t = <<>>
      BY <3>1, EmptySeq
    <3> QED BY <3>2 DEF t
  <2> QED BY <1>2, <1>3, <1>5, <2>2
<1>6. CASE k # N + 2
  <2>1. k + 1 \in 0 .. N + 2
    BY <1>1, <1>6
  <2>2. /\ Rest(k + 1) \in Seq(Requests) /\ Len(Rest(k + 1)) = N + 2 - k
        /\ \A i \in 1 .. N + 2 - k : Rest(k + 1)[i] = InitRequests[k + 1 + i]
    <3>1. N + 3 - (k + 1) = N + 2 - k
      BY <1>1
    <3>2. /\ Rest(k + 1) \in Seq(Requests) /\ Len(Rest(k + 1)) = N + 3 - (k + 1)
          /\ \A i \in 1 .. N + 3 - (k + 1) :
                Rest(k + 1)[i] = InitRequests[(k + 1) + i]
      BY <1>2, <2>1
    <3> QED BY <3>1, <3>2
  <2>3. Tail(Rest(k)) = Rest(k + 1)
    <3>1. Len(Tail(Rest(k))) = Len(Rest(k + 1))
      BY <1>4, <2>2
    <3>2. \A i \in 1 .. Len(Tail(Rest(k))) : Tail(Rest(k))[i] = Rest(k + 1)[i]
      BY <1>4, <2>2
    <3>3. Tail(Rest(k)) \in Seq(Requests) /\ Rest(k + 1) \in Seq(Requests)
      BY <1>4, <2>2
    <3> DEFINE t == Tail(Rest(k))
               u == Rest(k + 1)
    <3> HIDE DEF t, u
    <3>4. /\ t \in Seq(Requests) /\ u \in Seq(Requests) /\ Len(t) = Len(u)
          /\ \A i \in 1 .. Len(t) : t[i] = u[i]
      BY <3>1, <3>2, <3>3 DEF t, u
    <3>5. t = u
      BY <3>4, SeqEqual
    <3> QED BY <3>5 DEF t, u
  <2> QED BY <1>2, <1>3, <1>6, <2>3
<1> QED BY <1>5, <1>6

-----------------------------------------------------------------------------
(* The list of outputs                                                     *)

OutputEntries == [id : Texts, name : Texts]

\* Of the entries that match there is a first one.
LEMMA FirstMatches ==
    ASSUME NEW e \in Seq(OutputEntries), NEW t, Matching(e, t) # {}
    PROVE  First(e, t) \in Matching(e, t) /\ First(e, t) \in DOMAIN e
<1> DEFINE M == Matching(e, t)
<1>1. M \subseteq DOMAIN e /\ DOMAIN e \subseteq Nat
  BY LenProperties DEF Matching
<1>2. First(e, t) = CHOOSE i \in M : \A j \in M : i <= j
  BY DEF First
<1>3. M \subseteq Nat /\ M # {}
  BY <1>1
<1> HIDE DEF M
<1>4. PICK m \in M : \A j \in M : ~(<<j, m>> \in OpToRel(<, Nat))
  BY <1>3, WFMin, NatLessThanWellFounded
<1>5. \A j \in M : m <= j
  <2> SUFFICES ASSUME NEW j \in M PROVE m <= j
    OBVIOUS
  <2>1. j \in Nat /\ m \in Nat
    BY <1>3, <1>4
  <2>2. ~(j < m)
    BY <1>4, <2>1 DEF OpToRel
  <2> QED BY <2>1, <2>2
<1>6. First(e, t) \in M
  BY <1>2, <1>4, <1>5
<1> QED BY <1>1, <1>6 DEF M

\* findValue() adds an entry only for a text that nothing matches.
LEMMA WithEntryProperties ==
    ASSUME NEW e \in Seq(OutputEntries), NEW t \in Texts
    PROVE  /\ WithEntry(e, t) \in Seq(OutputEntries)
           /\ Matching(WithEntry(e, t), t) # {}
           /\ \A u \in Texts : Matching(e, u) # {} => Matching(WithEntry(e, t), u) # {}
           /\ \A i \in DOMAIN WithEntry(e, t) :
                 \/ \E j \in DOMAIN e : WithEntry(e, t)[i].id = e[j].id
                 \/ Matching(e, t) = {} /\ WithEntry(e, t)[i].id = t
           /\ Matching(e, t) # {} => WithEntry(e, t) = e
<1>1. CASE Matching(e, t) # {}
  <2>1. WithEntry(e, t) = e
    BY <1>1 DEF WithEntry
  <2> QED BY <1>1, <2>1
<1>2. CASE Matching(e, t) = {}
  <2> DEFINE x == [id |-> t, name |-> t]
             w == Append(e, x)
             n == Len(e)
  <2>1. WithEntry(e, t) = w
    BY <1>2 DEF WithEntry
  <2>2. x \in OutputEntries /\ x.id = t /\ Matches(x, t)
    BY DEF OutputEntries, Matches
  <2> HIDE DEF x
  <2>3. /\ w \in Seq(OutputEntries) /\ Len(w) = n + 1
        /\ \A i \in 1 .. n : w[i] = e[i]
        /\ w[n + 1] = x
    BY <2>2, AppendProperties
  <2>4. DOMAIN w = 1 .. n + 1 /\ DOMAIN e = 1 .. n /\ n \in Nat
    BY <2>3, LenProperties
  <2> HIDE DEF w, n
  <2>5. n + 1 \in DOMAIN w
    BY <2>4
  <2>6. Matching(w, t) # {}
    BY <2>2, <2>3, <2>5 DEF Matching
  <2>7. \A i \in DOMAIN e : i \in DOMAIN w /\ w[i] = e[i]
    BY <2>3, <2>4
  <2>8. \A u \in Texts : Matching(e, u) # {} => Matching(w, u) # {}
    BY <2>7 DEF Matching
  <2>9. \A i \in DOMAIN w : i \in DOMAIN e \/ i = n + 1
    BY <2>4
  <2>10. \A i \in DOMAIN w : (\E j \in DOMAIN e : w[i].id = e[j].id) \/ w[i].id = t
    BY <2>2, <2>3, <2>7, <2>9
  <2> QED BY <1>2, <2>1, <2>3, <2>6, <2>8, <2>10
<1> QED BY <1>1, <1>2

\* Giving an entry a name changes no id, and the name is then matched.
LEMMA NamedProperties ==
    ASSUME NEW e \in Seq(OutputEntries), NEW i \in DOMAIN e, NEW name \in Texts,
           NEW w, w = [e EXCEPT ![i].name = name]
    PROVE  /\ w \in Seq(OutputEntries)
           /\ DOMAIN w = DOMAIN e
           /\ \A j \in DOMAIN e : w[j].id = e[j].id
           /\ Matching(w, name) # {}
<1> DEFINE x == [e[i] EXCEPT !.name = name]
<1>1. i \in 1 .. Len(e) /\ DOMAIN e = 1 .. Len(e)
  BY LenProperties
<1>2. e[i] \in OutputEntries
  BY <1>1, ElementOfSeq
<1>3. x \in OutputEntries /\ x.id = e[i].id /\ x.name = name
  BY <1>2 DEF OutputEntries
<1>4. w = [e EXCEPT ![i] = x]
  OBVIOUS
<1> HIDE DEF x
<1>5. /\ w \in Seq(OutputEntries) /\ Len(w) = Len(e)
      /\ \A j \in 1 .. Len(e) : w[j] = IF j = i THEN x ELSE e[j]
  BY <1>1, <1>3, <1>4, ExceptSeq
<1>6. DOMAIN w = DOMAIN e
  BY <1>1, <1>5, LenProperties
<1>7. i \in Matching(w, name)
  BY <1>1, <1>3, <1>5, <1>6 DEF Matching, Matches
<1> QED BY <1>1, <1>3, <1>5, <1>6, <1>7

-----------------------------------------------------------------------------
(* Requests                                                                *)

\* What the first k requests of onInitEvent() have done
Done(k) ==
    /\ \A i \in 1 .. N : i <= k => Registered(InitDevices[i])
    /\ k >= N + 1 => Matching(outputs, OutputName) # {}
    /\ k >= N + 2 => persistent # {}

ServerTypes ==
    /\ sessKey \in SessKeys /\ initialized \in BOOLEAN
    /\ devices \in Seq(Devices)
    /\ outputs \in Seq(OutputEntries)
    /\ persistent \in SUBSET Texts /\ usedEarly \in BOOLEAN

\* Unless a name was used early, only the output it belongs to is known.
OnlyTheOutput ==
    ~usedEarly => /\ \A i \in DOMAIN outputs : outputs[i].id = OutputId
                  /\ persistent \subseteq {OutputId}

\* A reload leaves nothing.
LEMMA ReloadClears ==
    ServerTypes /\ Reload =>
        /\ ServerTypes' /\ OnlyTheOutput' /\ ~initialized' /\ sessKey' = sessKey + 1
<1> SUFFICES ASSUME ServerTypes, Reload
             PROVE  /\ ServerTypes' /\ OnlyTheOutput'
                    /\ ~initialized' /\ sessKey' = sessKey + 1
  OBVIOUS
<1>1. sessKey' = sessKey + 1 /\ sessKey' \in SessKeys
  BY DEF Reload, NewSessKey, ServerTypes, SessKeys
<1>2. devices' = <<>> /\ outputs' = <<>>
  BY DEF Reload
<1>3. persistent' = {} /\ usedEarly' = FALSE /\ initialized' = FALSE
  BY DEF Reload
<1>4. devices' \in Seq(Devices)
  BY <1>2, EmptySeq
<1>5. outputs' \in Seq(OutputEntries)
  BY <1>2, EmptySeq
<1>6. DOMAIN outputs' = {}
  BY <1>2
<1> QED BY <1>1, <1>3, <1>4, <1>5, <1>6 DEF ServerTypes, OnlyTheOutput

\* A device stays registered when another one is.
LEMMA RegisterAdds ==
    ASSUME ServerTypes, NEW d \in Devices, RegisterEthernetDevice(d)
    PROVE  /\ ServerTypes' /\ Registered(d)'
           /\ \A c : Registered(c) => Registered(c)'
<1> DEFINE n == Len(devices)
<1>1. devices' = Append(devices, d) /\ devices \in Seq(Devices)
  BY DEF RegisterEthernetDevice, ServerTypes
<1>2. /\ devices' \in Seq(Devices) /\ Len(devices') = n + 1
      /\ \A i \in 1 .. n : devices'[i] = devices[i]
      /\ devices'[n + 1] = d
  BY <1>1, AppendProperties
<1>3. n \in Nat /\ DOMAIN devices = 1 .. n /\ DOMAIN devices' = 1 .. n + 1
  BY <1>1, <1>2, LenProperties
<1> HIDE DEF n
<1>4. n + 1 \in DOMAIN devices' /\ \A i \in DOMAIN devices : i \in DOMAIN devices'
  BY <1>3
<1>5. \A i \in DOMAIN devices : devices'[i] = devices[i]
  BY <1>2, <1>3
<1>6. Registered(d)' /\ \A c : Registered(c) => Registered(c)'
  BY <1>2, <1>4, <1>5 DEF Registered
<1>7. ServerTypes'
  BY <1>2 DEF ServerTypes, RegisterEthernetDevice
<1> QED BY <1>6, <1>7

\* Looking a text up may only add an entry for it.
LEMMA OutputsGrow ==
    ASSUME ServerTypes, OnlyTheOutput, NEW t \in Texts, outputs' = WithEntry(outputs, t)
    PROVE  /\ outputs' \in Seq(OutputEntries)
           /\ \A u \in Texts : Matching(outputs, u) # {} => Matching(outputs', u) # {}
           /\ ~usedEarly => \A i \in DOMAIN outputs' :
                 outputs'[i].id = OutputId \/ Matching(outputs, t) = {}
<1>1. outputs \in Seq(OutputEntries)
  BY DEF ServerTypes
<1> DEFINE w == WithEntry(outputs, t)
<1>2. /\ w \in Seq(OutputEntries)
      /\ \A u \in Texts : Matching(outputs, u) # {} => Matching(w, u) # {}
      /\ \A i \in DOMAIN w :
            \/ \E j \in DOMAIN outputs : w[i].id = outputs[j].id
            \/ Matching(outputs, t) = {} /\ w[i].id = t
  BY <1>1, WithEntryProperties
<1>3. outputs' = w
  OBVIOUS
<1> HIDE DEF w
<1>4. ASSUME ~usedEarly, NEW i \in DOMAIN w
      PROVE  w[i].id = OutputId \/ Matching(outputs, t) = {}
  BY <1>2, <1>4 DEF OnlyTheOutput
<1> QED BY <1>2, <1>3, <1>4

\* Naming: the first entry of the id, which is there by then, gets the name.
LEMMA SetNameNames ==
    ASSUME ServerTypes, OnlyTheOutput, SetName(OutputId, OutputName)
    PROVE  ServerTypes' /\ OnlyTheOutput' /\ Matching(outputs', OutputName) # {}
<1> DEFINE e == WithEntry(outputs, OutputId)
           i == First(e, OutputId)
           w == [e EXCEPT ![i].name = OutputName]
<1>1. outputs \in Seq(OutputEntries) /\ OutputId \in Texts /\ OutputName \in Texts
  BY DEF ServerTypes, Texts
<1>2. /\ e \in Seq(OutputEntries) /\ Matching(e, OutputId) # {}
      /\ \A j \in DOMAIN e :
            \/ \E k \in DOMAIN outputs : e[j].id = outputs[k].id
            \/ Matching(outputs, OutputId) = {} /\ e[j].id = OutputId
  BY <1>1, WithEntryProperties
<1>3. outputs' = w
  BY DEF SetName
<1> HIDE DEF e
<1>4. i \in DOMAIN e
  BY <1>2, FirstMatches
<1> HIDE DEF i
<1>5. /\ w \in Seq(OutputEntries) /\ DOMAIN w = DOMAIN e
      /\ \A j \in DOMAIN e : w[j].id = e[j].id
      /\ Matching(w, OutputName) # {}
  BY <1>1, <1>2, <1>4, NamedProperties
<1> HIDE DEF w
<1>6. ServerTypes'
  BY <1>3, <1>5 DEF ServerTypes, SetName
<1>7. OnlyTheOutput'
  <2> SUFFICES ASSUME ~usedEarly'
               PROVE  /\ \A j \in DOMAIN outputs' : outputs'[j].id = OutputId
                      /\ persistent' \subseteq {OutputId}
    BY DEF OnlyTheOutput
  <2>1. ~usedEarly /\ persistent' = persistent
    BY DEF SetName
  <2>2. \A j \in DOMAIN e : e[j].id = OutputId
    BY <1>2, <2>1 DEF OnlyTheOutput
  <2>3. persistent' \subseteq {OutputId}
    BY <2>1 DEF OnlyTheOutput
  <2> QED BY <1>3, <1>5, <2>2, <2>3
<1> QED BY <1>3, <1>5, <1>6, <1>7

\* A name that leads somewhere leads, unless it was used early, to the output.
LEMMA LookupFinds ==
    ASSUME ServerTypes, OnlyTheOutput, Matching(outputs, OutputName) # {}
    PROVE  /\ Lookup(OutputName) \in Texts
           /\ ~usedEarly => Lookup(OutputName) = OutputId
<1> DEFINE i == First(outputs, OutputName)
<1>1. WithEntry(outputs, OutputName) = outputs
  BY DEF WithEntry
<1>2. Lookup(OutputName) = outputs[i].id
  BY <1>1 DEF Lookup
<1>3. i \in DOMAIN outputs /\ outputs \in Seq(OutputEntries)
  BY FirstMatches DEF ServerTypes
<1> HIDE DEF i
<1>4. outputs[i] \in OutputEntries
  BY <1>3, LenProperties, ElementOfSeq
<1> QED BY <1>2, <1>3, <1>4 DEF OutputEntries, OnlyTheOutput

\* SET-PERSISTENT of a name that leads somewhere.
LEMMA SetPersistentAdds ==
    ASSUME ServerTypes, OnlyTheOutput, SetPersistent(OutputName),
           Matching(outputs, OutputName) # {}
    PROVE  /\ ServerTypes' /\ OnlyTheOutput' /\ outputs' = outputs
           /\ persistent' # {}
<1>1. outputs' = outputs
  BY DEF SetPersistent, WithEntry
<1>2. persistent' = persistent \cup {Lookup(OutputName)}
  BY DEF SetPersistent
<1>3. usedEarly' = usedEarly
  BY DEF SetPersistent
<1>4. ServerTypes'
  BY <1>1, <1>2, LookupFinds DEF ServerTypes, SetPersistent
<1> QED BY <1>1, <1>2, <1>3, <1>4, LookupFinds DEF OnlyTheOutput

\* Using the name early is what usedEarly remembers.
LEMMA UseNameUses ==
    ASSUME ServerTypes, OnlyTheOutput, UseName(OutputName)
    PROVE  ServerTypes' /\ OnlyTheOutput'
           /\ (Matching(outputs, OutputName) # {} => Matching(outputs', OutputName) # {})
<1>1. outputs' = WithEntry(outputs, OutputName) /\ OutputName \in Texts
  BY DEF UseName, Texts
<1>2. /\ outputs' \in Seq(OutputEntries)
      /\ \A u \in Texts : Matching(outputs, u) # {} => Matching(outputs', u) # {}
      /\ ~usedEarly => \A i \in DOMAIN outputs' :
            outputs'[i].id = OutputId \/ Matching(outputs, OutputName) = {}
  BY <1>1, OutputsGrow
<1>3. usedEarly' = (usedEarly \/ Matching(outputs, OutputName) = {})
  BY DEF UseName
<1>4. ServerTypes'
  BY <1>2, <1>3 DEF ServerTypes, UseName
<1>5. OnlyTheOutput'
  <2> SUFFICES ASSUME ~usedEarly'
               PROVE  /\ \A j \in DOMAIN outputs' : outputs'[j].id = OutputId
                      /\ persistent' \subseteq {OutputId}
    BY DEF OnlyTheOutput
  <2>1. ~usedEarly /\ Matching(outputs, OutputName) # {}
    BY <1>3
  <2>2. persistent' = persistent
    BY DEF UseName
  <2> QED BY <1>2, <2>1, <2>2 DEF OnlyTheOutput
<1> QED BY <1>1, <1>2, <1>4, <1>5

\* The requests there are, with what they say.
LEMMA RequestKinds ==
    ASSUME NEW r \in Requests
    PROVE  \/ r.cmd = "REGISTER" /\ r.arg \in Devices
           \/ r.cmd \in {"SET-NAME", "SET-PERSISTENT", "GET"} /\ r.arg = OutputName
           \/ r.cmd \in {"INIT-OK", "RESET"}
<1>1. N \in Nat /\ DOMAIN InitDevices = 1 .. N /\ DOMAIN InitRequests = 1 .. N + 3
  BY InitRequestsProperties
<1>2. ASSUME NEW i \in DOMAIN InitRequests, r = InitRequests[i]
      PROVE  \/ r.cmd = "REGISTER" /\ r.arg \in Devices
             \/ r.cmd \in {"SET-NAME", "SET-PERSISTENT"} /\ r.arg = OutputName
             \/ r.cmd = "INIT-OK"
  <2>1. i \in 1 .. N \/ i = N + 1 \/ i = N + 2 \/ i = N + 3
    BY <1>1
  <2>2. CASE i \in 1 .. N
    <3>1. r = Request("REGISTER", InitDevices[i])
      BY <1>2, <2>2, InitRequestsProperties
    <3> QED BY <1>1, <2>2, <3>1 DEF Request, Devices
  <2>3. CASE i = N + 1
    <3>1. r = Request("SET-NAME", OutputName)
      BY <1>2, <2>3, InitRequestsProperties
    <3> QED BY <3>1 DEF Request
  <2>4. CASE i = N + 2
    <3>1. r = Request("SET-PERSISTENT", OutputName)
      BY <1>2, <2>4, InitRequestsProperties
    <3> QED BY <3>1 DEF Request
  <2>5. CASE i = N + 3
    <3>1. r = Request("INIT-OK", "")
      BY <1>2, <2>5, InitRequestsProperties
    <3> QED BY <3>1 DEF Request
  <2> QED BY <2>1, <2>2, <2>3, <2>4, <2>5
<1>3. CASE r = Request("GET", OutputName)
  BY <1>3 DEF Request
<1>4. CASE r = Request("RESET", "")
  BY <1>4 DEF Request
<1>5. \/ \E i \in DOMAIN InitRequests : r = InitRequests[i]
      \/ r = Request("GET", OutputName) \/ r = Request("RESET", "")
  BY DEF Requests
<1> QED BY <1>2, <1>3, <1>4, <1>5

\* A request other than RESET undoes nothing of what was done, and only INIT-OK
\* makes the server initialized.
LEMMA ServeKeeps ==
    ASSUME ServerTypes, OnlyTheOutput, NEW r \in Requests, Serve(r), r.cmd # "RESET",
           r.cmd = "SET-PERSISTENT" => Matching(outputs, OutputName) # {}
    PROVE  /\ ServerTypes' /\ OnlyTheOutput' /\ sessKey' = sessKey
           /\ \A k \in 0 .. N + 3 : Done(k) => Done(k)'
           /\ initialized' => initialized \/ r.cmd = "INIT-OK"
<1> DEFINE Keeps ==
              /\ \A c : Registered(c) => Registered(c)'
              /\ Matching(outputs, OutputName) # {} => Matching(outputs', OutputName) # {}
              /\ persistent # {} => persistent' # {}
<1>1. ASSUME Keeps PROVE \A k \in 0 .. N + 3 : Done(k) => Done(k)'
  BY <1>1 DEF Done
<1>2. CASE r.cmd = "REGISTER" /\ RegisterEthernetDevice(r.arg)
  <2>1. r.arg \in Devices
    BY <1>2, RequestKinds
  <2>2. ServerTypes' /\ \A c : Registered(c) => Registered(c)'
    BY <1>2, <2>1, RegisterAdds
  <2>3. /\ outputs' = outputs /\ persistent' = persistent /\ usedEarly' = usedEarly
        /\ sessKey' = sessKey /\ initialized' = initialized
    BY <1>2 DEF RegisterEthernetDevice
  <2>4. OnlyTheOutput'
    BY <2>3 DEF OnlyTheOutput
  <2>5. Keeps
    BY <2>2, <2>3
  <2> HIDE DEF Keeps
  <2> QED BY <1>1, <2>2, <2>3, <2>4, <2>5
<1>3. CASE r.cmd = "SET-NAME" /\ SetName(OutputId, r.arg)
  <2>1. r.arg = OutputName
    BY <1>3, RequestKinds
  <2>2. ServerTypes' /\ OnlyTheOutput' /\ Matching(outputs', OutputName) # {}
    BY <1>3, <2>1, SetNameNames
  <2>3. /\ devices' = devices /\ persistent' = persistent
        /\ sessKey' = sessKey /\ initialized' = initialized
    BY <1>3 DEF SetName
  <2>4. Keeps
    BY <2>2, <2>3 DEF Registered
  <2> HIDE DEF Keeps
  <2> QED BY <1>1, <2>2, <2>3, <2>4
<1>4. CASE r.cmd = "SET-PERSISTENT" /\ SetPersistent(r.arg)
  <2>1. r.arg = OutputName
    BY <1>4, RequestKinds
  <2>2. ServerTypes' /\ OnlyTheOutput' /\ outputs' = outputs /\ persistent' # {}
    BY <1>4, <2>1, SetPersistentAdds
  <2>3. devices' = devices /\ sessKey' = sessKey /\ initialized' = initialized
    BY <1>4 DEF SetPersistent
  <2>4. Keeps
    BY <2>2, <2>3 DEF Registered
  <2> HIDE DEF Keeps
  <2> QED BY <1>1, <2>2, <2>3, <2>4
<1>5. CASE r.cmd = "GET" /\ UseName(r.arg)
  <2>1. r.arg = OutputName
    BY <1>5, RequestKinds
  <2>2. /\ ServerTypes' /\ OnlyTheOutput'
        /\ Matching(outputs, OutputName) # {} => Matching(outputs', OutputName) # {}
    BY <1>5, <2>1, UseNameUses
  <2>3. /\ devices' = devices /\ persistent' = persistent
        /\ sessKey' = sessKey /\ initialized' = initialized
    BY <1>5 DEF UseName
  <2>4. Keeps
    BY <2>2, <2>3 DEF Registered
  <2> HIDE DEF Keeps
  <2> QED BY <1>1, <2>2, <2>3, <2>4
<1>6. CASE r.cmd = "INIT-OK" /\ InitOk
  <2>1. /\ devices' = devices /\ persistent' = persistent /\ outputs' = outputs
        /\ sessKey' = sessKey /\ usedEarly' = usedEarly /\ initialized' = TRUE
    BY <1>6 DEF InitOk
  <2>2. Keeps
    BY <2>1 DEF Registered
  <2>3. ServerTypes' /\ OnlyTheOutput'
    BY <2>1 DEF ServerTypes, OnlyTheOutput
  <2> HIDE DEF Keeps
  <2> QED BY <1>1, <1>6, <2>1, <2>2, <2>3
<1> QED BY <1>2, <1>3, <1>4, <1>5, <1>6 DEF Serve

\* The k+1st request of onInitEvent() does its part.
LEMMA ServeDoes ==
    ASSUME ServerTypes, OnlyTheOutput, NEW k \in 0 .. N + 2,
           Serve(InitRequests[k + 1]), Done(k)
    PROVE  /\ ServerTypes' /\ OnlyTheOutput' /\ sessKey' = sessKey
           /\ Done(k + 1)' /\ \A j \in 0 .. N + 3 : Done(j) => Done(j)'
           /\ initialized' => initialized \/ k = N + 2
<1> DEFINE r == InitRequests[k + 1]
<1>1. r \in Requests /\ N \in Nat /\ k + 1 \in 1 .. N + 3
  <2>1. N \in Nat /\ Len(InitRequests) = N + 3 /\ InitRequests \in Seq(Requests)
    BY InitRequestsProperties
  <2>2. k + 1 \in 1 .. N + 3
    BY <2>1
  <2>3. k + 1 \in 1 .. Len(InitRequests)
    BY <2>1, <2>2
  <2> QED BY <2>1, <2>2, <2>3, ElementOfSeq
<1>2. \/ k + 1 \in 1 .. N /\ r = Request("REGISTER", InitDevices[k + 1])
      \/ k = N /\ r = Request("SET-NAME", OutputName)
      \/ k = N + 1 /\ r = Request("SET-PERSISTENT", OutputName)
      \/ k = N + 2 /\ r = Request("INIT-OK", "")
  <2>1. k + 1 \in 1 .. N \/ k = N \/ k = N + 1 \/ k = N + 2
    BY <1>1
  <2>2. CASE k + 1 \in 1 .. N
    BY <2>2, InitRequestsProperties
  <2>3. CASE k = N
    BY <2>3, InitRequestsProperties
  <2>4. CASE k = N + 1
    <3>1. k + 1 = N + 2
      BY <1>1, <2>4
    <3> QED BY <2>4, <3>1, InitRequestsProperties
  <2>5. CASE k = N + 2
    <3>1. k + 1 = N + 3
      BY <1>1, <2>5
    <3> QED BY <2>5, <3>1, InitRequestsProperties
  <2> QED BY <2>1, <2>2, <2>3, <2>4, <2>5
<1>3. Serve(r)
  OBVIOUS
<1> HIDE DEF r
<1>3a. \/ r.cmd = "REGISTER" \/ r.cmd = "SET-NAME"
       \/ k = N + 1 /\ r.cmd = "SET-PERSISTENT"
       \/ k = N + 2 /\ r.cmd = "INIT-OK"
  <2>1. ASSUME NEW c, NEW a, r = Request(c, a) PROVE r.cmd = c
    BY <2>1 DEF Request
  <2> QED BY <1>2, <2>1
<1>4. r.cmd # "RESET" /\ (r.cmd = "INIT-OK" => k = N + 2)
  BY <1>3a
<1>5. r.cmd = "SET-PERSISTENT" => Matching(outputs, OutputName) # {}
  <2>1. r.cmd = "SET-PERSISTENT" => k = N + 1
    BY <1>3a
  <2> QED BY <1>1, <2>1 DEF Done
<1>6. /\ ServerTypes' /\ OnlyTheOutput' /\ sessKey' = sessKey
      /\ \A j \in 0 .. N + 3 : Done(j) => Done(j)'
      /\ initialized' => initialized \/ r.cmd = "INIT-OK"
  BY <1>1, <1>3, <1>4, <1>5, ServeKeeps
<1>7. Done(k)'
  BY <1>1, <1>6
<1>8. Done(k + 1)'
  <2>1. CASE k + 1 \in 1 .. N /\ r = Request("REGISTER", InitDevices[k + 1])
    <3>1. InitDevices[k + 1] \in Devices
      BY <2>1, InitRequestsProperties DEF Devices
    <3>2. RegisterEthernetDevice(InitDevices[k + 1])
      BY <1>3, <2>1 DEF Serve, Request
    <3>3. Registered(InitDevices[k + 1])'
      BY <3>1, <3>2, RegisterAdds
    <3> QED BY <1>1, <1>7, <2>1, <3>3 DEF Done
  <2>2. CASE k = N /\ r = Request("SET-NAME", OutputName)
    <3>1. SetName(OutputId, OutputName)
      BY <1>3, <2>2 DEF Serve, Request
    <3>2. Matching(outputs', OutputName) # {}
      BY <3>1, SetNameNames
    <3> QED BY <1>1, <1>7, <2>2, <3>2 DEF Done
  <2>3. CASE k = N + 1 /\ r = Request("SET-PERSISTENT", OutputName)
    <3>1. SetPersistent(OutputName)
      BY <1>3, <2>3 DEF Serve, Request
    <3>2. persistent' # {}
      BY <1>5, <2>3, <3>1, SetPersistentAdds DEF Request
    <3> QED BY <1>1, <1>7, <2>3, <3>2 DEF Done
  <2>4. CASE k = N + 2
    BY <1>1, <1>7, <2>4 DEF Done
  <2> QED BY <1>2, <2>1, <2>2, <2>3, <2>4
<1> QED BY <1>4, <1>6, <1>8

-----------------------------------------------------------------------------
(* The scripts                                                             *)

Messages == [cmd : {"INIT", "EVENT"}, key : SessKeys]
Lines == {"idle", "sent", "answered", "refused", "lost"}

ScriptTypes ==
    /\ up \in SUBSET Scripts
    /\ key \in [Scripts -> SessKeys \cup {0}]
    /\ inbox \in [Scripts -> Seq(Messages)]
    /\ todo \in [Scripts -> Seq(Requests)]
    /\ line \in [Scripts -> Lines]
    /\ faults \in 0 .. MaxFaults

\* Nobody knows a key of the future; a script with requests to make has a key,
\* and one that is refused has an old one.
KeysAreOld ==
    \A s \in Scripts :
        /\ key[s] <= sessKey
        /\ \A i \in DOMAIN inbox[s] : inbox[s][i].key <= sessKey
        /\ todo[s] # <<>> => key[s] # 0
        /\ line[s] \in {"sent", "answered", "refused"} => todo[s] # <<>>
        /\ line[s] = "refused" => key[s] # sessKey

\* What the configuring script has done when k requests are behind it
Made(k) ==
    key[Configurer] = sessKey =>
        /\ line[Configurer] \in {"idle", "sent"} => Done(k)
        /\ line[Configurer] = "answered" => Done(k + 1)

Short == {<<>>, <<Request("GET", OutputName)>>, <<Request("RESET", "")>>}

\* A script makes one request of its own, or the configuring one goes through
\* those of onInitEvent().
Making ==
    \A s \in Scripts :
        \/ todo[s] \in Short
        \/ s = Configurer /\ \E k \in 0 .. N + 2 : todo[s] = Rest(k) /\ Made(k)

Configured == initialized => Done(N + 3)

Inv ==
    /\ ServerTypes /\ OnlyTheOutput /\ Configured
    /\ ScriptTypes /\ KeysAreOld /\ Making

\* The types are those of TypeOK.
LEMMA TypesAgree == TypeOK <=> ServerTypes /\ ScriptTypes
  BY DEF TypeOK, ServerTypes, ScriptTypes, Devices, OutputEntries, Messages, Lines

\* The short lists of requests, and what is left of them after the first.
LEMMA ShortProperties ==
    ASSUME NEW t \in Short
    PROVE  /\ t \in Seq(Requests)
           /\ t # <<>> => /\ Tail(t) = <<>>
                          /\ \/ Head(t) = Request("GET", OutputName)
                             \/ Head(t) = Request("RESET", "")
<1>1. Request("GET", OutputName) \in Requests /\ Request("RESET", "") \in Requests
  BY DEF Requests
<1>2. ASSUME NEW r \in Requests, t = <<r>>
      PROVE  t \in Seq(Requests) /\ Tail(t) = <<>> /\ Head(t) = r
  BY <1>2
<1>3. CASE t = <<>>
  <2>1. <<>> \in Seq(Requests)
    BY EmptySeq
  <2> QED BY <1>3, <2>1
<1> QED BY <1>1, <1>2, <1>3 DEF Short

\* Everything starts empty.
LEMMA InitInv == Init => Inv
<1> SUFFICES ASSUME Init PROVE Inv
  OBVIOUS
<1>1. \A S : <<>> \in Seq(S)
  BY EmptySeq
<1>2. ServerTypes
  <2>1. devices = <<>> /\ outputs = <<>>
    BY DEF Init
  <2>2. devices \in Seq(Devices) /\ outputs \in Seq(OutputEntries)
    BY <1>1, <2>1
  <2>3. sessKey = 1 /\ initialized = FALSE /\ persistent = {} /\ usedEarly = FALSE
    BY DEF Init
  <2>4. sessKey \in SessKeys
    BY <2>3 DEF SessKeys
  <2> QED BY <2>2, <2>3, <2>4 DEF ServerTypes
<1>3. OnlyTheOutput
  <2>1. outputs = <<>> /\ persistent = {}
    BY DEF Init
  <2>2. DOMAIN outputs = {}
    BY <2>1
  <2> QED BY <2>1, <2>2 DEF OnlyTheOutput
<1>4. Configured
  BY DEF Init, Configured
<1>5. ScriptTypes
  <2>1. \A s \in Scripts : inbox[s] = <<>> /\ todo[s] = <<>>
    BY DEF Init
  <2>2. inbox \in [Scripts -> Seq(Messages)]
    BY <1>1 DEF Init
  <2>3. todo \in [Scripts -> Seq(Requests)]
    BY <1>1 DEF Init
  <2> QED BY <2>2, <2>3, FaultsAssumption DEF Init, ScriptTypes, Lines
<1>6. KeysAreOld
  <2> SUFFICES ASSUME NEW s \in Scripts
               PROVE  /\ key[s] <= sessKey
                      /\ \A i \in DOMAIN inbox[s] : inbox[s][i].key <= sessKey
                      /\ todo[s] # <<>> => key[s] # 0
                      /\ line[s] \in {"sent", "answered", "refused"} => todo[s] # <<>>
                      /\ line[s] = "refused" => key[s] # sessKey
    BY DEF KeysAreOld
  <2>1. key[s] = 0 /\ sessKey = 1 /\ inbox[s] = <<>> /\ todo[s] = <<>> /\ line[s] = "idle"
    BY DEF Init
  <2>2. DOMAIN inbox[s] = {}
    BY <2>1
  <2> QED BY <2>1, <2>2
<1>7. Making
  BY DEF Init, Making, Short
<1> QED BY <1>2, <1>3, <1>4, <1>5, <1>6, <1>7 DEF Inv

\* A step that leaves the server alone, and the configuring script's requests
\* where they are, keeps what was made.
LEMMA ServerKeptInv ==
    ASSUME Inv, UNCHANGED server
    PROVE  /\ ServerTypes' /\ OnlyTheOutput' /\ Configured'
           /\ \A k : Done(k)' <=> Done(k)
<1>1. /\ sessKey' = sessKey /\ initialized' = initialized /\ devices' = devices
      /\ outputs' = outputs /\ persistent' = persistent /\ usedEarly' = usedEarly
  BY DEF server
<1>2. \A k : Done(k)' <=> Done(k)
  BY <1>1 DEF Done, Registered
<1> QED BY <1>1, <1>2 DEF Inv, ServerTypes, OnlyTheOutput, Configured

\* Publishing puts a message with the key of the session into some queues.
LEMMA PublishStep ==
    ASSUME Inv, NEW m \in Messages, m.key = sessKey, NEW free, Publish(m, free),
           UNCHANGED <<server, up, key, todo, line, faults>>
    PROVE  Inv'
<1>1. UNCHANGED server
  OBVIOUS
<1>2. ASSUME NEW s \in Scripts
      PROVE  /\ inbox'[s] \in Seq(Messages)
             /\ \A i \in DOMAIN inbox'[s] : inbox'[s][i].key <= sessKey
  <2>1. /\ inbox[s] \in Seq(Messages) /\ sessKey \in Nat
        /\ \A i \in DOMAIN inbox[s] : inbox[s][i].key <= sessKey
    BY DEF Inv, ScriptTypes, ServerTypes, SessKeys, KeysAreOld
  <2>2. inbox'[s] = inbox[s] \/ inbox'[s] = Append(inbox[s], m)
    BY DEF Publish
  <2>3. CASE inbox'[s] = Append(inbox[s], m)
    <3> DEFINE q == inbox[s]
               n == Len(q)
    <3>1. /\ Append(q, m) \in Seq(Messages) /\ Len(Append(q, m)) = n + 1
          /\ \A i \in 1 .. n : Append(q, m)[i] = q[i]
          /\ Append(q, m)[n + 1] = m
      BY <2>1, AppendProperties
    <3>2. n \in Nat /\ DOMAIN q = 1 .. n /\ DOMAIN Append(q, m) = 1 .. n + 1
      BY <2>1, <3>1, LenProperties
    <3>3. \A i \in DOMAIN q : q[i].key <= sessKey
      BY <2>1
    <3> HIDE DEF q, n
    <3>4. ASSUME NEW i \in DOMAIN Append(q, m) PROVE Append(q, m)[i].key <= sessKey
      <4>1. i \in 1 .. n \/ i = n + 1
        BY <3>2
      <4>2. CASE i \in 1 .. n
        BY <3>1, <3>2, <3>3, <4>2
      <4>3. CASE i = n + 1
        BY <2>1, <3>1, <4>3
      <4> QED BY <4>1, <4>2, <4>3
    <3> QED BY <2>3, <3>1, <3>4 DEF q
  <2> QED BY <2>1, <2>2, <2>3
<1>3. /\ up' = up /\ key' = key /\ todo' = todo /\ line' = line
      /\ faults' = faults /\ sessKey' = sessKey
  BY DEF server
<1>4. ScriptTypes'
  <2>1. inbox' \in [Scripts -> Seq(Messages)]
    BY <1>2 DEF Publish
  <2> QED BY <1>3, <2>1 DEF Inv, ScriptTypes
<1>5. KeysAreOld'
  BY <1>2, <1>3 DEF Inv, KeysAreOld
<1>6. Making'
  <2>1. \A k : Made(k)' <=> Made(k)
    BY <1>1, <1>3, ServerKeptInv DEF Made
  <2> QED BY <1>3, <2>1 DEF Inv, Making
<1> QED BY <1>1, <1>4, <1>5, <1>6, ServerKeptInv DEF Inv

\* After a reload nobody has the key.
LEMMA ReloadForgets ==
    ASSUME Inv, Reload, UNCHANGED <<up, key, inbox, todo>>,
           line' \in [Scripts -> Lines], faults' \in 0 .. MaxFaults,
           \A s \in Scripts : line'[s] = "refused" => line[s] = "refused",
           \A s \in Scripts : line'[s] \in {"sent", "answered", "refused"} => todo[s] # <<>>
    PROVE  Inv'
<1>1. /\ ServerTypes' /\ OnlyTheOutput' /\ ~initialized' /\ sessKey' = sessKey + 1
  BY ReloadClears DEF Inv
<1>2. Configured'
  BY <1>1 DEF Configured
<1>3. ScriptTypes'
  BY DEF Inv, ScriptTypes
<1>4. ASSUME NEW s \in Scripts
      PROVE  /\ key[s] <= sessKey' /\ key[s] # sessKey'
             /\ \A i \in DOMAIN inbox[s] : inbox[s][i].key <= sessKey'
  <2>1. key[s] \in Nat /\ key[s] <= sessKey /\ sessKey \in Nat
    BY DEF Inv, ScriptTypes, ServerTypes, SessKeys, KeysAreOld
  <2>2. key[s] <= sessKey' /\ key[s] # sessKey'
    BY <1>1, <2>1
  <2>3. ASSUME NEW i \in DOMAIN inbox[s] PROVE inbox[s][i].key <= sessKey'
    <3>1. inbox[s] \in Seq(Messages) /\ inbox[s][i].key <= sessKey
      BY DEF Inv, ScriptTypes, KeysAreOld
    <3>2. inbox[s][i] \in Messages
      BY <3>1, LenProperties, ElementOfSeq
    <3> QED BY <1>1, <2>1, <3>1, <3>2 DEF Messages, SessKeys
  <2> QED BY <2>2, <2>3
<1>5. KeysAreOld'
  BY <1>4 DEF Inv, KeysAreOld
<1>6. Making'
  <2>1. \A k : Made(k)'
    BY <1>4, ScriptsAssumption DEF Made
  <2> QED BY <2>1 DEF Inv, Making
<1> QED BY <1>1, <1>2, <1>3, <1>5, <1>6 DEF Inv

\* A request is served, or refused.
LEMMA ProcessREQStep ==
    ASSUME Inv, NEW s \in Scripts, ProcessREQ(s)
    PROVE  Inv'
<1>1. /\ line[s] = "sent" /\ line \in [Scripts -> Lines]
      /\ up' = up /\ key' = key /\ inbox' = inbox /\ todo' = todo /\ faults' = faults
  BY DEF ProcessREQ, Inv, ScriptTypes
<1>2. todo[s] # <<>> /\ key[s] # 0 /\ key[s] <= sessKey
  BY <1>1 DEF Inv, KeysAreOld
<1>3. todo[s] \in Seq(Requests) /\ Head(todo[s]) \in Requests
  <2>1. todo[s] \in Seq(Requests)
    BY DEF Inv, ScriptTypes
  <2> QED BY <1>2, <2>1, HeadTailProperties
<1>4. CASE ~Accepts(key[s]) /\ line' = [line EXCEPT ![s] = "refused"] /\ UNCHANGED server
  <2>1. key[s] # sessKey /\ sessKey' = sessKey
    BY <1>4 DEF Accepts, server
  <2>2. ScriptTypes'
    BY <1>1, <1>4 DEF Inv, ScriptTypes, Lines
  <2>3. KeysAreOld'
    BY <1>1, <1>2, <1>4, <2>1 DEF Inv, KeysAreOld
  <2>4. Making'
    <3>1. \A k : Done(k)' <=> Done(k)
      BY <1>4, ServerKeptInv
    <3>2. ASSUME NEW k, Made(k) PROVE Made(k)'
      BY <1>1, <1>4, <2>1, <3>1, <3>2 DEF Made
    <3> QED BY <1>1, <3>2 DEF Inv, Making
  <2> QED BY <1>4, <2>2, <2>3, <2>4, ServerKeptInv DEF Inv
<1>5. CASE /\ Accepts(key[s]) /\ Serve(Head(todo[s]))
           /\ line' = [line EXCEPT ![s] = "answered"]
  <2> DEFINE r == Head(todo[s])
  <2>1. key[s] = sessKey
    BY <1>2, <1>5 DEF Accepts
  <2>2. line' \in [Scripts -> Lines] /\ line'[s] = "answered"
    BY <1>1, <1>5 DEF Lines
  <2>3. \A x \in Scripts : x # s => line'[x] = line[x]
    BY <1>1, <1>5
  <2>4. ScriptTypes'
    BY <1>1, <2>2 DEF Inv, ScriptTypes
  <2>5. CASE r.cmd = "RESET"
    <3>1. Reload
      BY <1>5, <2>5 DEF Serve
    <3>2. \A x \in Scripts : line'[x] = "refused" => line[x] = "refused"
      BY <2>2, <2>3
    <3>3. \A x \in Scripts :
             line'[x] \in {"sent", "answered", "refused"} => todo[x] # <<>>
      BY <1>2, <2>2, <2>3 DEF Inv, KeysAreOld
    <3>4. faults' \in 0 .. MaxFaults
      BY <1>1 DEF Inv, ScriptTypes
    <3> QED BY <1>1, <2>2, <3>1, <3>2, <3>3, <3>4, ReloadForgets
  <2>6. ASSUME r.cmd # "RESET", sessKey' = sessKey PROVE KeysAreOld'
    BY <1>1, <1>2, <1>5, <2>2, <2>3, <2>6 DEF Inv, KeysAreOld
  <2>7. CASE r.cmd # "RESET" /\ todo[s] \in Short
    <3>1. r.cmd = "GET"
      <4>1. r = Request("GET", OutputName) \/ r = Request("RESET", "")
        BY <1>2, <2>7, ShortProperties
      <4>2. Request("GET", OutputName).cmd = "GET" /\ Request("RESET", "").cmd = "RESET"
        BY DEF Request
      <4> HIDE DEF r
      <4> QED BY <2>7, <4>1, <4>2
    <3> HIDE DEF r
    <3>2. /\ ServerTypes' /\ OnlyTheOutput' /\ sessKey' = sessKey
          /\ \A k \in 0 .. N + 3 : Done(k) => Done(k)'
          /\ initialized' => initialized
      <4>1. r \in Requests /\ Serve(r)
        BY <1>3, <1>5 DEF r
      <4> QED BY <3>1, <4>1, ServeKeeps DEF Inv
    <3>3. N \in Nat
      BY InitRequestsProperties
    <3>4. Configured'
      <4>1. N + 3 \in 0 .. N + 3
        BY <3>3
      <4> QED BY <3>2, <4>1 DEF Inv, Configured
    <3>5. Making'
      <4> SUFFICES ASSUME NEW x \in Scripts
                   PROVE  \/ todo[x] \in Short
                          \/ x = Configurer /\ \E k \in 0 .. N + 2 :
                                                  todo[x] = Rest(k) /\ Made(k)'
        BY <1>1 DEF Making
      <4>1. CASE todo[x] \in Short
        BY <4>1
      <4>2. CASE todo[x] \notin Short
        <5>1. x # s
          BY <2>7, <4>2
        <5>2. PICK k \in 0 .. N + 2 : x = Configurer /\ todo[x] = Rest(k) /\ Made(k)
          BY <4>2 DEF Inv, Making
        <5>3. k \in 0 .. N + 3 /\ k + 1 \in 0 .. N + 3
          BY <3>3
        <5>4. key'[Configurer] = key[Configurer] /\ line'[Configurer] = line[Configurer]
          BY <1>1, <2>3, <5>1, <5>2
        <5>5. Made(k)'
          BY <3>2, <5>2, <5>3, <5>4 DEF Made
        <5> QED BY <5>2, <5>5
      <4> QED BY <4>1, <4>2
    <3> QED BY <2>4, <2>6, <2>7, <3>1, <3>2, <3>4, <3>5 DEF Inv
  <2>8. CASE r.cmd # "RESET" /\ todo[s] \notin Short
    <3>1. PICK k \in 0 .. N + 2 : s = Configurer /\ todo[s] = Rest(k) /\ Made(k)
      BY <2>8 DEF Inv, Making
    <3>2. Done(k)
      BY <1>1, <2>1, <3>1 DEF Made
    <3>3. Serve(InitRequests[k + 1])
      BY <1>5, <3>1, RestProperties
    <3>4. /\ ServerTypes' /\ OnlyTheOutput' /\ sessKey' = sessKey
          /\ Done(k + 1)' /\ \A j \in 0 .. N + 3 : Done(j) => Done(j)'
          /\ initialized' => initialized \/ k = N + 2
      BY <3>2, <3>3, ServeDoes DEF Inv
    <3>5. N \in Nat /\ InitRequests[k + 1] \in Requests
      BY <1>3, <3>1, RestProperties, InitRequestsProperties
    <3>6. Configured'
      <4>1. CASE k = N + 2
        <5>1. k + 1 = N + 3
          BY <3>5, <4>1
        <5> QED BY <3>4, <5>1 DEF Configured
      <4>2. CASE k # N + 2
        <5>1. initialized' => Done(N + 3)
          BY <3>4, <4>2 DEF Inv, Configured
        <5>2. N + 3 \in 0 .. N + 3
          BY <3>5
        <5>3. Done(N + 3) => Done(N + 3)'
          BY <3>4, <5>2
        <5> QED BY <5>1, <5>3 DEF Configured
      <4> QED BY <4>1, <4>2
    <3>7. Making'
      <4>1. Made(k)'
        BY <2>2, <3>1, <3>4 DEF Made
      <4>2. \A x \in Scripts : x # s => todo[x] \in Short
        BY <3>1 DEF Inv, Making
      <4> QED BY <1>1, <3>1, <4>1, <4>2 DEF Making
    <3> QED BY <2>4, <2>6, <2>8, <3>4, <3>6, <3>7 DEF Inv
  <2> QED BY <2>5, <2>7, <2>8
<1> QED BY <1>4, <1>5 DEF ProcessREQ

\* The server dies: requests and replies are lost with the session.
LEMMA CrashStep == ASSUME Inv, Crash PROVE Inv'
<1>1. \A s \in Scripts : line'[s] \in {"idle", "lost"}
  BY DEF Crash
<1>2. line' \in [Scripts -> Lines]
  BY DEF Crash, Lines
<1>3. faults' \in 0 .. MaxFaults
  BY FaultsAssumption DEF Crash, Disturb, Inv, ScriptTypes
<1>4. \A s \in Scripts : line'[s] \notin {"sent", "answered", "refused"}
  BY <1>1
<1> QED BY <1>2, <1>3, <1>4, ReloadForgets DEF Crash

\* All requests of onInitEvent() are to be made.
LEMMA RestOfAll == Rest(0) = InitRequests
<1>1. /\ N \in Nat /\ InitRequests \in Seq(Requests)
      /\ Len(InitRequests) = N + 3
  BY InitRequestsProperties
<1>2. \A i \in 1 .. N + 3 : InitRequests[i] \in Requests
  BY <1>1, ElementOfSeq
<1>3. /\ Rest(0) \in Seq(Requests)
      /\ Len(Rest(0)) = IF 1 <= N + 3 THEN N + 3 - 1 + 1 ELSE 0
      /\ \A i \in 1 .. N + 3 - 1 + 1 : Rest(0)[i] = InitRequests[1 + i - 1]
  BY <1>1, <1>2, SubSeqProperties DEF Rest
<1>4. /\ Rest(0) \in Seq(Requests) /\ Len(Rest(0)) = N + 3
      /\ \A i \in 1 .. N + 3 : Rest(0)[i] = InitRequests[i]
  BY <1>1, <1>3
<1> QED BY <1>1, <1>4, SeqEqual

\* A message is read: its key is adopted, and the handler knows what to do.
LEMMA ReceiveStep ==
    ASSUME Inv, NEW s \in Scripts, Receive(s)
    PROVE  Inv'
<1> DEFINE m == Head(inbox[s])
<1>1. /\ line[s] = "idle" /\ todo[s] = <<>> /\ inbox[s] # <<>>
      /\ key' = [key EXCEPT ![s] = m.key] /\ inbox' = [inbox EXCEPT ![s] = Tail(@)]
      /\ UNCHANGED server /\ up' = up /\ line' = line
  BY DEF Receive
<1>2. /\ inbox[s] \in Seq(Messages) /\ todo \in [Scripts -> Seq(Requests)]
      /\ key \in [Scripts -> SessKeys \cup {0}] /\ inbox \in [Scripts -> Seq(Messages)]
      /\ \A i \in DOMAIN inbox[s] : inbox[s][i].key <= sessKey
  BY DEF Inv, ScriptTypes, KeysAreOld
<1>3. /\ m \in Messages /\ m.key <= sessKey /\ Tail(inbox[s]) \in Seq(Messages)
      /\ \A i \in DOMAIN Tail(inbox[s]) : Tail(inbox[s])[i].key <= sessKey
  <2> DEFINE q == inbox[s]
             t == Tail(q)
  <2>1. /\ Head(q) \in Messages /\ t \in Seq(Messages) /\ Len(t) = Len(q) - 1
        /\ \A i \in 1 .. Len(t) : t[i] = q[i + 1]
    BY <1>1, <1>2, HeadTailProperties
  <2>2. Len(q) \in Nat /\ DOMAIN q = 1 .. Len(q) /\ DOMAIN t = 1 .. Len(t) /\ Len(q) # 0
    BY <1>1, <1>2, <2>1, LenProperties, EmptySeq
  <2>3. Head(q) = q[1] /\ 1 \in DOMAIN q
    BY <1>1, <1>2, <2>2
  <2>4. \A i \in DOMAIN q : q[i].key <= sessKey
    BY <1>2
  <2>5. ASSUME NEW i \in DOMAIN t PROVE t[i].key <= sessKey
    <3>1. i + 1 \in DOMAIN q /\ t[i] = q[i + 1]
      BY <2>1, <2>2
    <3> QED BY <2>4, <3>1
  <2> QED BY <2>1, <2>3, <2>4, <2>5
<1> HIDE DEF m
<1>4. m.key \in SessKeys /\ m.key # 0
  BY <1>3 DEF Messages, SessKeys
<1>5. \E t :
         /\ todo' = [todo EXCEPT ![s] = t]
         /\ t \in Short \/ (s = Configurer /\ t = InitRequests)
         /\ faults' \in 0 .. MaxFaults
  <2>1. faults \in 0 .. MaxFaults
    BY DEF Inv, ScriptTypes
  <2>2. CASE s = Configurer /\ todo' = [todo EXCEPT ![s] = InitRequests] /\ UNCHANGED faults
    BY <2>1, <2>2
  <2>3. CASE /\ \E use \in Uses : todo' = [todo EXCEPT ![s] = use]
             /\ UNCHANGED faults
    <3>1. PICK use \in Uses : todo' = [todo EXCEPT ![s] = use]
      BY <2>3
    <3>2. use \in Short
      BY <3>1 DEF Uses, Short
    <3>3. faults' \in 0 .. MaxFaults
      BY <2>1, <2>3
    <3> QED BY <3>1, <3>2, <3>3
  <2>4. CASE /\ todo' = [todo EXCEPT ![s] = <<Request("RESET", "")>>]
             /\ Disturb("reset")
    <3>1. faults' \in 0 .. MaxFaults
      <4>1. faults' = faults + 1 /\ faults < MaxFaults
        BY <2>4 DEF Disturb
      <4> QED BY <2>1, <4>1, FaultsAssumption
    <3>2. <<Request("RESET", "")>> \in Short
      BY DEF Short
    <3>3. todo' = [todo EXCEPT ![s] = <<Request("RESET", "")>>]
      BY <2>4
    <3> QED BY <3>1, <3>2, <3>3
  <2> QED BY <2>2, <2>3, <2>4 DEF Receive
<1>6. PICK t :
         /\ todo' = [todo EXCEPT ![s] = t]
         /\ t \in Short \/ (s = Configurer /\ t = InitRequests)
         /\ faults' \in 0 .. MaxFaults
  BY <1>5
<1>7. ScriptTypes'
  <2>1. t \in Seq(Requests)
    <3>1. t \in Short => t \in Seq(Requests)
      BY ShortProperties
    <3>2. InitRequests \in Seq(Requests)
      BY InitRequestsProperties
    <3> QED BY <1>6, <3>1, <3>2
  <2>2. todo' \in [Scripts -> Seq(Requests)]
    BY <1>2, <1>6, <2>1
  <2>3. key' \in [Scripts -> SessKeys \cup {0}]
    BY <1>1, <1>2, <1>4
  <2>4. inbox' \in [Scripts -> Seq(Messages)]
    BY <1>1, <1>2, <1>3
  <2> QED BY <1>1, <1>6, <2>2, <2>3, <2>4 DEF Inv, ScriptTypes
<1>8. sessKey' = sessKey /\ \A x \in Scripts \ {s} :
         key'[x] = key[x] /\ inbox'[x] = inbox[x] /\ todo'[x] = todo[x]
  <2>1. sessKey' = sessKey
    BY <1>1 DEF server
  <2>2. todo' = [todo EXCEPT ![s] = t]
    BY <1>6
  <2>3. \A x \in Scripts \ {s} : todo'[x] = todo[x]
    BY <1>2, <2>2
  <2>4. \A x \in Scripts \ {s} : key'[x] = key[x] /\ inbox'[x] = inbox[x]
    BY <1>1, <1>2
  <2> QED BY <2>1, <2>3, <2>4
<1>8a. todo'[s] = t
  <2>1. todo' = [todo EXCEPT ![s] = t]
    BY <1>6
  <2> QED BY <1>2, <2>1
<1>9. KeysAreOld'
  <2> SUFFICES ASSUME NEW x \in Scripts
               PROVE  /\ key'[x] <= sessKey
                      /\ \A i \in DOMAIN inbox'[x] : inbox'[x][i].key <= sessKey
                      /\ todo'[x] # <<>> => key'[x] # 0
                      /\ line[x] \in {"sent", "answered", "refused"} => todo'[x] # <<>>
                      /\ line[x] = "refused" => key'[x] # sessKey
    BY <1>1, <1>8 DEF KeysAreOld
  <2>1. CASE x = s
    <3>1. key'[x] = m.key /\ inbox'[x] = Tail(inbox[s])
      BY <1>1, <1>2, <2>1
    <3> QED BY <1>1, <1>3, <1>4, <2>1, <3>1
  <2>2. CASE x # s
    BY <1>8, <2>2 DEF Inv, KeysAreOld
  <2> QED BY <2>1, <2>2
<1>10. Making'
  <2> SUFFICES ASSUME NEW x \in Scripts
               PROVE  \/ todo'[x] \in Short
                      \/ x = Configurer /\ \E k \in 0 .. N + 2 :
                                              todo'[x] = Rest(k) /\ Made(k)'
    BY DEF Making
  <2>1. CASE x = s /\ t \in Short
    BY <1>8a, <2>1
  <2>2. CASE x = s /\ s = Configurer /\ t = InitRequests
    <3>1. todo'[x] = Rest(0)
      BY <1>8a, <2>2, RestOfAll
    <3>2. N \in Nat
      BY InitRequestsProperties
    <3>3. Done(0)'
      BY <3>2 DEF Done
    <3>4. line'[Configurer] = "idle"
      BY <1>1, <2>2
    <3>5. Made(0)'
      BY <3>3, <3>4 DEF Made
    <3>6. 0 \in 0 .. N + 2
      BY <3>2
    <3> QED BY <2>2, <3>1, <3>5, <3>6
  <2>3. CASE x # s
    <3>1. \A k : Done(k)' <=> Done(k)
      BY <1>1, ServerKeptInv
    <3>2. ASSUME NEW k, x = Configurer, Made(k) PROVE Made(k)'
      BY <1>1, <1>8, <2>3, <3>1, <3>2 DEF Made
    <3>3. todo'[x] = todo[x]
      BY <1>8, <2>3
    <3> QED BY <3>2, <3>3 DEF Inv, Making
  <2> QED BY <1>6, <2>1, <2>2, <2>3
<1> QED BY <1>1, <1>7, <1>9, <1>10, ServerKeptInv DEF Inv

\* A request is sent.
LEMMA SendStep ==
    ASSUME Inv, NEW s \in Scripts, Send(s)
    PROVE  Inv'
<1>1. /\ line[s] = "idle" /\ todo[s] # <<>> /\ line' = [line EXCEPT ![s] = "sent"]
      /\ UNCHANGED server /\ up' = up /\ key' = key /\ inbox' = inbox
      /\ todo' = todo /\ faults' = faults /\ sessKey' = sessKey
  BY DEF Send, server
<1>2. line \in [Scripts -> Lines]
  BY DEF Inv, ScriptTypes
<1>3. ScriptTypes'
  BY <1>1, <1>2 DEF Inv, ScriptTypes, Lines
<1>4. KeysAreOld'
  BY <1>1, <1>2 DEF Inv, KeysAreOld
<1>5. Making'
  <2>1. \A k : Done(k)' <=> Done(k)
    BY <1>1, ServerKeptInv
  <2>2. ASSUME NEW k, Made(k) PROVE Made(k)'
    BY <1>1, <1>2, <2>1, <2>2 DEF Made
  <2> QED BY <1>1, <2>2 DEF Inv, Making
<1> QED BY <1>1, <1>3, <1>4, <1>5, ServerKeptInv DEF Inv

\* A reply is read, and the next request is to be made.
LEMMA ReturnStep ==
    ASSUME Inv, NEW s \in Scripts, Return(s)
    PROVE  Inv'
<1>1. /\ line[s] \in {"answered", "refused"} /\ line' = [line EXCEPT ![s] = "idle"]
      /\ UNCHANGED server /\ key' = key /\ inbox' = inbox /\ faults' = faults
      /\ sessKey' = sessKey
  BY DEF Return, server
<1>2. /\ line \in [Scripts -> Lines] /\ todo \in [Scripts -> Seq(Requests)]
      /\ todo[s] # <<>> /\ todo[s] \in Seq(Requests)
  BY <1>1 DEF Inv, ScriptTypes, KeysAreOld
<1>3. /\ up' \in SUBSET Scripts
      /\ todo' = todo \/ todo' = [todo EXCEPT ![s] = Tail(todo[s])]
      /\ todo' = todo => line[s] = "refused" \/ todo' = [todo EXCEPT ![s] = Tail(todo[s])]
  BY DEF Return, Inv, ScriptTypes
<1>4. Tail(todo[s]) \in Seq(Requests)
  BY <1>2, HeadTailProperties
<1>5. todo' \in [Scripts -> Seq(Requests)] /\ line' \in [Scripts -> Lines]
  <2>1. line' \in [Scripts -> Lines]
    BY <1>1, <1>2 DEF Lines
  <2>2. todo' \in [Scripts -> Seq(Requests)]
    BY <1>2, <1>3, <1>4
  <2> QED BY <2>1, <2>2
<1>6. ScriptTypes'
  BY <1>1, <1>3, <1>5 DEF Inv, ScriptTypes
<1>7. /\ line'[s] = "idle"
      /\ \A x \in Scripts \ {s} : line'[x] = line[x] /\ todo'[x] = todo[x]
  BY <1>1, <1>2, <1>3
<1>8. (todo'[s] = todo[s] /\ line[s] = "refused") \/ todo'[s] = Tail(todo[s])
  BY <1>2, <1>3
<1>9. KeysAreOld'
  BY <1>1, <1>2, <1>7 DEF Inv, KeysAreOld
<1>10. Making'
  <2> SUFFICES ASSUME NEW x \in Scripts
               PROVE  \/ todo'[x] \in Short
                      \/ x = Configurer /\ \E k \in 0 .. N + 2 :
                                              todo'[x] = Rest(k) /\ Made(k)'
    BY DEF Making
  <2>1. \A k : Done(k)' <=> Done(k)
    BY <1>1, ServerKeptInv
  <2>2. CASE x # s
    <3>1. ASSUME NEW k, x = Configurer, Made(k) PROVE Made(k)'
      BY <1>1, <1>7, <2>1, <2>2, <3>1 DEF Made
    <3>2. todo'[x] = todo[x]
      BY <1>7, <2>2
    <3> QED BY <3>1, <3>2 DEF Inv, Making
  <2>3. CASE x = s /\ todo[s] \in Short
    <3>1. Tail(todo[s]) = <<>>
      BY <1>2, <2>3, ShortProperties
    <3>2. <<>> \in Short
      BY DEF Short
    <3> QED BY <1>8, <2>3, <3>1, <3>2
  <2>4. CASE x = s /\ todo[s] \notin Short
    <3>1. PICK k \in 0 .. N + 2 : s = Configurer /\ todo[s] = Rest(k) /\ Made(k)
      BY <2>4 DEF Inv, Making
    <3>2. CASE line[s] = "refused"
      <4>1. key'[Configurer] # sessKey'
        BY <1>1, <3>1, <3>2 DEF Inv, KeysAreOld
      <4>2. \A j : Made(j)'
        BY <4>1 DEF Made
      <4>3. CASE todo'[s] = todo[s]
        BY <2>4, <3>1, <4>2, <4>3
      <4>4. CASE todo'[s] = Tail(todo[s])
        <5>1. CASE k = N + 2
          <6>1. todo'[s] = <<>>
            BY <3>1, <4>4, <5>1, RestProperties
          <6> QED BY <2>4, <6>1 DEF Short
        <5>2. CASE k # N + 2
          <6>1. todo'[s] = Rest(k + 1)
            BY <3>1, <4>4, <5>2, RestProperties
          <6>2. k + 1 \in 0 .. N + 2
            <7>1. N \in Nat
              BY InitRequestsProperties
            <7> QED BY <5>2, <7>1
          <6> QED BY <2>4, <3>1, <4>2, <6>1, <6>2
        <5> QED BY <5>1, <5>2
      <4> QED BY <1>8, <4>3, <4>4
    <3>3. CASE line[s] = "answered"
      <4>1. todo'[s] = Tail(Rest(k))
        BY <1>8, <3>1, <3>3
      <4>2. CASE k = N + 2
        <5>1. todo'[s] = <<>>
          BY <4>1, <4>2, RestProperties
        <5> QED BY <2>4, <5>1 DEF Short
      <4>3. CASE k # N + 2
        <5>1. todo'[s] = Rest(k + 1)
          BY <4>1, <4>3, RestProperties
        <5>2. k + 1 \in 0 .. N + 2
          <6>1. N \in Nat
            BY InitRequestsProperties
          <6> QED BY <4>3, <6>1
        <5>3. key[Configurer] = sessKey => Done(k + 1)
          BY <3>1, <3>3 DEF Made
        <5>4. Made(k + 1)'
          BY <1>1, <1>7, <2>1, <3>1, <5>3 DEF Made
        <5> QED BY <2>4, <3>1, <5>1, <5>2, <5>4
      <4> QED BY <4>2, <4>3
    <3> QED BY <1>1, <3>2, <3>3
  <2> QED BY <2>2, <2>3, <2>4
<1> QED BY <1>1, <1>6, <1>9, <1>10, ServerKeptInv DEF Inv

\* A script that starts knows nothing and waits for nothing.
LEMMA StartStep ==
    ASSUME Inv, NEW s \in Scripts, Start(s)
    PROVE  Inv'
<1>1. /\ key' = [key EXCEPT ![s] = 0] /\ inbox' = [inbox EXCEPT ![s] = <<>>]
      /\ todo' = [todo EXCEPT ![s] = <<>>] /\ line' = [line EXCEPT ![s] = "idle"]
      /\ up' = up \cup {s} /\ UNCHANGED server /\ faults' = faults
      /\ sessKey' = sessKey
  BY DEF Start, server
<1>2. ScriptTypes /\ sessKey \in SessKeys
  BY DEF Inv, ServerTypes
<1>3. /\ key'[s] = 0 /\ inbox'[s] = <<>> /\ todo'[s] = <<>> /\ line'[s] = "idle"
      /\ \A x \in Scripts \ {s} : /\ key'[x] = key[x] /\ inbox'[x] = inbox[x]
                                   /\ todo'[x] = todo[x] /\ line'[x] = line[x]
  BY <1>1, <1>2 DEF ScriptTypes
<1>4. ScriptTypes'
  <2>1. inbox' \in [Scripts -> Seq(Messages)]
    <3>1. <<>> \in Seq(Messages)
      BY EmptySeq
    <3> QED BY <1>1, <1>2, <3>1 DEF ScriptTypes
  <2>2. todo' \in [Scripts -> Seq(Requests)]
    <3>1. <<>> \in Seq(Requests)
      BY EmptySeq
    <3> QED BY <1>1, <1>2, <3>1 DEF ScriptTypes
  <2>3. key' \in [Scripts -> SessKeys \cup {0}] /\ line' \in [Scripts -> Lines]
    BY <1>1, <1>2 DEF ScriptTypes, Lines
  <2>4. up' \in SUBSET Scripts
    BY <1>1, <1>2 DEF ScriptTypes
  <2> QED BY <1>1, <1>2, <2>1, <2>2, <2>3, <2>4 DEF ScriptTypes
<1>5. KeysAreOld'
  <2>1. 0 <= sessKey /\ 0 # sessKey
    BY <1>2 DEF SessKeys
  <2>2. DOMAIN inbox'[s] = {}
    BY <1>3
  <2> QED BY <1>1, <1>3, <2>1, <2>2 DEF Inv, KeysAreOld
<1>6. Making'
  <2> SUFFICES ASSUME NEW x \in Scripts
               PROVE  \/ todo'[x] \in Short
                      \/ x = Configurer /\ \E k \in 0 .. N + 2 :
                                              todo'[x] = Rest(k) /\ Made(k)'
    BY DEF Making
  <2>1. CASE x = s
    BY <1>3, <2>1 DEF Short
  <2>2. CASE x # s
    <3>1. \A k : Done(k)' <=> Done(k)
      BY <1>1, ServerKeptInv
    <3>2. ASSUME NEW k, x = Configurer, Made(k) PROVE Made(k)'
      BY <1>1, <1>3, <2>2, <3>1, <3>2 DEF Made
    <3>3. todo'[x] = todo[x]
      BY <1>3, <2>2
    <3> QED BY <3>2, <3>3 DEF Inv, Making
  <2> QED BY <2>1, <2>2
<1> QED BY <1>1, <1>4, <1>5, <1>6, ServerKeptInv DEF Inv

\* A script stops.
LEMMA StopStep ==
    ASSUME Inv, NEW s \in Scripts, Stop(s)
    PROVE  Inv'
<1>1. /\ UNCHANGED server /\ key' = key /\ inbox' = inbox /\ todo' = todo
      /\ line' = line /\ up' = up \ {s} /\ sessKey' = sessKey
  BY DEF Stop, server
<1>2. faults' \in 0 .. MaxFaults
  <2>1. faults' = faults + 1 /\ faults < MaxFaults /\ faults \in 0 .. MaxFaults
    BY DEF Stop, Disturb, Inv, ScriptTypes
  <2> QED BY <2>1, FaultsAssumption
<1>3. ScriptTypes'
  BY <1>1, <1>2 DEF Inv, ScriptTypes
<1>4. KeysAreOld'
  BY <1>1 DEF Inv, KeysAreOld
<1>5. Making'
  <2>1. \A k : Made(k)' <=> Made(k)
    BY <1>1, ServerKeptInv DEF Made
  <2> QED BY <1>1, <2>1 DEF Inv, Making
<1> QED BY <1>1, <1>3, <1>4, <1>5, ServerKeptInv DEF Inv

\* A message is missed.
LEMMA MissStep ==
    ASSUME Inv, NEW s \in Scripts, Miss(s)
    PROVE  Inv'
<1>1. /\ UNCHANGED server /\ key' = key /\ todo' = todo /\ line' = line /\ up' = up
      /\ sessKey' = sessKey /\ inbox[s] # <<>>
      /\ inbox' = [inbox EXCEPT ![s] = Tail(inbox[s])]
  BY DEF Miss, server
<1>2. faults' \in 0 .. MaxFaults
  <2>1. faults' = faults + 1 /\ faults < MaxFaults /\ faults \in 0 .. MaxFaults
    BY DEF Miss, Disturb, Inv, ScriptTypes
  <2> QED BY <2>1, FaultsAssumption
<1>3. inbox \in [Scripts -> Seq(Messages)]
  BY DEF Inv, ScriptTypes
<1>4. /\ Tail(inbox[s]) \in Seq(Messages)
      /\ \A i \in DOMAIN Tail(inbox[s]) : Tail(inbox[s])[i].key <= sessKey
  <2> DEFINE q == inbox[s]
             t == Tail(q)
  <2>1. /\ t \in Seq(Messages) /\ Len(t) = Len(q) - 1
        /\ \A i \in 1 .. Len(t) : t[i] = q[i + 1]
    BY <1>1, <1>3, HeadTailProperties
  <2>2. Len(q) \in Nat /\ DOMAIN q = 1 .. Len(q) /\ DOMAIN t = 1 .. Len(t)
    BY <1>3, <2>1, LenProperties
  <2>3. \A i \in DOMAIN q : q[i].key <= sessKey
    BY DEF Inv, KeysAreOld
  <2>4. ASSUME NEW i \in DOMAIN t PROVE t[i].key <= sessKey
    <3>1. i + 1 \in DOMAIN q /\ t[i] = q[i + 1]
      BY <2>1, <2>2
    <3> QED BY <2>3, <3>1
  <2> QED BY <2>1, <2>4
<1>5. ScriptTypes'
  <2>1. inbox' \in [Scripts -> Seq(Messages)]
    BY <1>1, <1>3, <1>4
  <2> QED BY <1>1, <1>2, <2>1 DEF Inv, ScriptTypes
<1>6. KeysAreOld'
  BY <1>1, <1>3, <1>4 DEF Inv, KeysAreOld
<1>7. Making'
  <2>1. \A k : Made(k)' <=> Made(k)
    BY <1>1, ServerKeptInv DEF Made
  <2> QED BY <1>1, <2>1 DEF Inv, Making
<1> QED BY <1>1, <1>5, <1>6, <1>7, ServerKeptInv DEF Inv

\* Every step keeps the invariant.
LEMMA InvStep == Inv /\ [Next]_vars => Inv'
<1> SUFFICES ASSUME Inv, [Next]_vars PROVE Inv'
  OBVIOUS
<1>1. CASE PublishInit
  <2>1. Message("INIT") \in Messages /\ Message("INIT").key = sessKey
    BY DEF Message, Messages, Inv, ServerTypes
  <2> QED BY <1>1, <2>1, PublishStep DEF PublishInit
<1>2. CASE PublishEvent
  <2>1. Message("EVENT") \in Messages /\ Message("EVENT").key = sessKey
    BY DEF Message, Messages, Inv, ServerTypes
  <2> QED BY <1>2, <2>1, PublishStep DEF PublishEvent
<1>3. CASE UNCHANGED vars
  <2>1. UNCHANGED server /\ UNCHANGED script /\ faults' = faults
    BY <1>3 DEF vars
  <2>2. /\ up' = up /\ key' = key /\ inbox' = inbox /\ todo' = todo /\ line' = line
        /\ sessKey' = sessKey
    BY <2>1 DEF script, server
  <2>3. \A k : Made(k)' <=> Made(k)
    BY <2>1, <2>2, ServerKeptInv DEF Made
  <2>4. ScriptTypes' /\ KeysAreOld' /\ Making'
    BY <2>1, <2>2, <2>3 DEF Inv, ScriptTypes, KeysAreOld, Making
  <2> QED BY <2>1, <2>4, ServerKeptInv DEF Inv
<1> QED BY <1>1, <1>2, <1>3, CrashStep, ProcessREQStep, ReceiveStep, SendStep,
           ReturnStep, StartStep, StopStep, MissStep DEF Next, ScriptStep

\* The invariant holds.
LEMMA InvAlways == Spec => []Inv
  BY InitInv, InvStep, PTL DEF Spec

-----------------------------------------------------------------------------
(* The configuration is kept                                               *)

\* Looking a text up leaves the entries there are, and adds one behind them
\* only if none of them matches.
LEMMA EntriesStay ==
    ASSUME NEW e \in Seq(OutputEntries), NEW t \in Texts, NEW w, w = WithEntry(e, t)
    PROVE  /\ w \in Seq(OutputEntries) /\ 1 \in DOMAIN w
           /\ Matching(w, t) # {}
           /\ \A i \in DOMAIN e : i \in DOMAIN w /\ w[i] = e[i]
           /\ \A i \in DOMAIN w \ DOMAIN e :
                 /\ Matching(e, t) = {} /\ i = Len(e) + 1
                 /\ w[i] = [id |-> t, name |-> t]
<1>1. /\ w \in Seq(OutputEntries) /\ Matching(w, t) # {}
  BY WithEntryProperties
<1>2. 1 \in DOMAIN w
  <2>1. DOMAIN w # {} /\ DOMAIN w = 1 .. Len(w) /\ Len(w) \in Nat
    BY <1>1, LenProperties DEF Matching
  <2> QED BY <2>1
<1>3. CASE Matching(e, t) # {}
  <2>1. w = e
    BY <1>3 DEF WithEntry
  <2> QED BY <1>1, <1>2, <2>1
<1>4. CASE Matching(e, t) = {}
  <2> DEFINE x == [id |-> t, name |-> t]
             n == Len(e)
  <2>1. w = Append(e, x)
    BY <1>4 DEF WithEntry
  <2>2. x \in OutputEntries
    BY DEF OutputEntries
  <2> HIDE DEF x
  <2>3. Len(w) = n + 1 /\ (\A i \in 1 .. n : w[i] = e[i]) /\ w[n + 1] = x
    BY <2>1, <2>2, AppendProperties
  <2>4. DOMAIN w = 1 .. n + 1 /\ DOMAIN e = 1 .. n /\ n \in Nat
    BY <1>1, <2>3, LenProperties
  <2> HIDE DEF n
  <2>5. \A i \in DOMAIN e : i \in DOMAIN w /\ w[i] = e[i]
    BY <2>3, <2>4
  <2>6. \A i \in DOMAIN w \ DOMAIN e : i = n + 1
    BY <2>4
  <2>7. \A i \in DOMAIN w \ DOMAIN e : i = n + 1 /\ w[i] = x
    BY <2>3, <2>6
  <2> QED BY <1>1, <1>2, <1>4, <2>5, <2>7 DEF x, n
<1> QED BY <1>3, <1>4

\* Every entry bears the name, so that the first one is what the name leads to,
\* and nothing but that is persistent.
Chosen ==
    /\ \A i \in DOMAIN outputs : outputs[i].name = OutputName
    /\ persistent # {} => 1 \in DOMAIN outputs /\ persistent = {outputs[1].id}

\* The first entry keeps its id, and the others bear the name.
SameFirst ==
    /\ \A i \in DOMAIN outputs' : outputs'[i].name = OutputName
    /\ 1 \in DOMAIN outputs => 1 \in DOMAIN outputs' /\ outputs'[1].id = outputs[1].id

\* A request for the name finds the first entry.
LEMMA NameFindsFirst ==
    ASSUME ServerTypes, Chosen, NEW w, w = WithEntry(outputs, OutputName)
    PROVE  /\ 1 \in DOMAIN w /\ First(w, OutputName) = 1
           /\ \A i \in DOMAIN w : w[i].name = OutputName
           /\ 1 \in DOMAIN outputs => w[1].id = outputs[1].id
<1>1. outputs \in Seq(OutputEntries) /\ OutputName \in Texts
  BY DEF ServerTypes, Texts
<1>2. /\ w \in Seq(OutputEntries) /\ 1 \in DOMAIN w
      /\ \A i \in DOMAIN outputs : i \in DOMAIN w /\ w[i] = outputs[i]
      /\ \A i \in DOMAIN w \ DOMAIN outputs :
            w[i] = [id |-> OutputName, name |-> OutputName]
  BY <1>1, EntriesStay
<1>3. \A i \in DOMAIN w : w[i].name = OutputName
  BY <1>2 DEF Chosen
<1>4. Matching(w, OutputName) = DOMAIN w
  BY <1>3 DEF Matching, Matches
<1>5. DOMAIN w = 1 .. Len(w) /\ Len(w) \in Nat
  BY <1>2, LenProperties
<1>6. \A i \in DOMAIN w : i \in Nat /\ 1 <= i
  BY <1>5
<1>7. First(w, OutputName) = 1
  <2>1. First(w, OutputName) = CHOOSE i \in DOMAIN w : \A j \in DOMAIN w : i <= j
    BY <1>4 DEF First
  <2>2. PICK m \in DOMAIN w : m = First(w, OutputName) /\ \A j \in DOMAIN w : m <= j
    BY <1>2, <1>6, <2>1
  <2> QED BY <1>2, <1>6, <2>2
<1> QED BY <1>2, <1>3, <1>7

\* Naming the output again changes nothing that was chosen.
LEMMA NamingKeepsFirst ==
    ASSUME ServerTypes, Chosen, SetName(OutputId, OutputName)
    PROVE  SameFirst
<1> DEFINE e == WithEntry(outputs, OutputId)
           i == First(e, OutputId)
           w == [e EXCEPT ![i].name = OutputName]
<1>1. /\ e \in Seq(OutputEntries) /\ Matching(e, OutputId) # {}
      /\ \A j \in DOMAIN outputs : j \in DOMAIN e /\ e[j] = outputs[j]
      /\ \A j \in DOMAIN e \ DOMAIN outputs :
            Matching(outputs, OutputId) = {} /\ j = Len(outputs) + 1
  <2>1. outputs \in Seq(OutputEntries) /\ OutputId \in Texts
    BY DEF ServerTypes, Texts
  <2> HIDE DEF e, i
  <2>2. e = WithEntry(outputs, OutputId)
    BY DEF e
  <2> QED BY <2>1, <2>2, EntriesStay
<1>2. outputs' = w
  BY DEF SetName
<1> HIDE DEF e
<1>3. i \in Matching(e, OutputId) /\ i \in DOMAIN e
  BY <1>1, FirstMatches
<1>4. \A j \in DOMAIN e \ DOMAIN outputs : j = i
  <2> SUFFICES ASSUME NEW j \in DOMAIN e \ DOMAIN outputs PROVE j = i
    OBVIOUS
  <2>1. Matching(outputs, OutputId) = {} /\ j = Len(outputs) + 1
    BY <1>1
  <2>2. i \notin DOMAIN outputs
    BY <1>1, <1>3, <2>1 DEF Matching
  <2> QED BY <1>1, <1>3, <2>1, <2>2
<1> HIDE DEF i
<1>5. /\ DOMAIN w = DOMAIN e /\ \A j \in DOMAIN e : w[j].id = e[j].id
  BY <1>1, <1>3, NamedProperties DEF Texts
<1>6. \A j \in DOMAIN e : j # i => w[j] = e[j]
  OBVIOUS
<1>7. w[i].name = OutputName
  <2>1. w[i] = [e[i] EXCEPT !.name = OutputName]
    BY <1>3
  <2>2. e[i] \in OutputEntries
    BY <1>1, <1>3, LenProperties, ElementOfSeq
  <2> QED BY <2>1, <2>2 DEF OutputEntries
<1> HIDE DEF w
<1>8. \A j \in DOMAIN e : w[j].name = OutputName
  <2> SUFFICES ASSUME NEW j \in DOMAIN e, j # i PROVE w[j].name = OutputName
    BY <1>7
  <2>1. j \in DOMAIN outputs
    BY <1>4
  <2> QED BY <1>1, <1>6, <2>1 DEF Chosen
<1> QED BY <1>1, <1>2, <1>5, <1>8 DEF SameFirst

\* No request but RESET changes what is persistent, or takes the server's
\* word back.
LEMMA ServeKeepsChosen ==
    ASSUME ServerTypes, Chosen, NEW r \in Requests, Serve(r), r.cmd # "RESET"
    PROVE  /\ Chosen'
           /\ persistent # {} => persistent' = persistent
           /\ initialized => initialized'
<1>1. CASE SameFirst /\ persistent' = persistent /\ (initialized => initialized')
  BY <1>1 DEF Chosen, SameFirst
<1>2. CASE r.cmd = "REGISTER" /\ RegisterEthernetDevice(r.arg)
  <2>1. /\ outputs' = outputs /\ persistent' = persistent
        /\ initialized' = initialized
    BY <1>2 DEF RegisterEthernetDevice
  <2> QED BY <1>1, <2>1 DEF SameFirst, Chosen
<1>3. CASE r.cmd = "SET-NAME" /\ SetName(OutputId, r.arg)
  <2>1. r.arg = OutputName
    BY <1>3, RequestKinds
  <2>2. SameFirst
    BY <1>3, <2>1, NamingKeepsFirst
  <2>3. persistent' = persistent /\ initialized' = initialized
    BY <1>3 DEF SetName
  <2> QED BY <1>1, <2>2, <2>3
<1>4. CASE r.cmd = "SET-PERSISTENT" /\ SetPersistent(r.arg)
  <2>1. r.arg = OutputName
    BY <1>4, RequestKinds
  <2> DEFINE w == WithEntry(outputs, OutputName)
  <2>2. /\ 1 \in DOMAIN w /\ First(w, OutputName) = 1
        /\ \A i \in DOMAIN w : w[i].name = OutputName
        /\ 1 \in DOMAIN outputs => w[1].id = outputs[1].id
    BY NameFindsFirst
  <2>3. Lookup(OutputName) = w[First(w, OutputName)].id
    BY DEF Lookup
  <2>4. /\ outputs' = w /\ persistent' = persistent \cup {Lookup(OutputName)}
        /\ initialized' = initialized
    BY <1>4, <2>1 DEF SetPersistent
  <2> HIDE DEF w
  <2>5. Lookup(OutputName) = w[1].id
    BY <2>2, <2>3
  <2>6. persistent' = {w[1].id}
    BY <2>2, <2>4, <2>5 DEF Chosen
  <2>7. persistent # {} => persistent' = persistent
    BY <2>2, <2>6 DEF Chosen
  <2> QED BY <2>2, <2>4, <2>6, <2>7 DEF Chosen
<1>5. CASE r.cmd = "GET" /\ UseName(r.arg)
  <2>1. r.arg = OutputName
    BY <1>5, RequestKinds
  <2>2. /\ outputs' = WithEntry(outputs, OutputName)
        /\ persistent' = persistent /\ initialized' = initialized
    BY <1>5, <2>1 DEF UseName
  <2>3. SameFirst
    BY <2>2, NameFindsFirst DEF SameFirst
  <2> QED BY <1>1, <2>2, <2>3
<1>6. CASE r.cmd = "INIT-OK" /\ InitOk
  <2>1. outputs' = outputs /\ persistent' = persistent /\ initialized'
    BY <1>6 DEF InitOk
  <2> QED BY <1>1, <2>1 DEF SameFirst, Chosen
<1> QED BY <1>2, <1>3, <1>4, <1>5, <1>6 DEF Serve

\* A reload chooses nothing.
LEMMA ReloadChoosesNothing ==
    ASSUME ServerTypes, Reload
    PROVE  Chosen' /\ sessKey' # sessKey
<1>1. outputs' = <<>> /\ persistent' = {} /\ sessKey' = sessKey + 1
  BY DEF Reload, NewSessKey
<1>2. sessKey \in Nat
  BY DEF ServerTypes, SessKeys
<1> QED BY <1>1, <1>2 DEF Chosen

\* What a step does to the configuration
LEMMA ConfigurationStep ==
    ASSUME Inv, Chosen, [Next]_vars
    PROVE  /\ Chosen'
           /\ sessKey' = sessKey =>
                 /\ persistent # {} => persistent' = persistent
                 /\ initialized => initialized'
<1>1. CASE UNCHANGED server
  <2>1. /\ outputs' = outputs /\ persistent' = persistent
        /\ initialized' = initialized
    BY <1>1 DEF server
  <2> QED BY <2>1 DEF Chosen
<1>2. CASE Crash
  <2>1. Reload
    BY <1>2 DEF Crash
  <2> QED BY <2>1, ReloadChoosesNothing DEF Inv
<1>3. ASSUME NEW s \in Scripts, line[s] = "sent", Serve(Head(todo[s]))
      PROVE  /\ Chosen'
             /\ sessKey' = sessKey =>
                   /\ persistent # {} => persistent' = persistent
                   /\ initialized => initialized'
  <2>1. todo[s] \in Seq(Requests) /\ todo[s] # <<>>
    BY <1>3 DEF Inv, ScriptTypes, KeysAreOld
  <2> DEFINE r == Head(todo[s])
  <2>2. r \in Requests
    BY <2>1
  <2>3. Serve(r)
    BY <1>3
  <2> HIDE DEF r
  <2>4. CASE r.cmd = "RESET"
    <3>1. Reload
      BY <2>3, <2>4 DEF Serve
    <3> QED BY <3>1, ReloadChoosesNothing DEF Inv
  <2>5. CASE r.cmd # "RESET"
    BY <2>2, <2>3, <2>5, ServeKeepsChosen DEF Inv
  <2> QED BY <2>4, <2>5
<1>4. ASSUME NEW s \in Scripts, ProcessREQ(s)
      PROVE  UNCHANGED server \/ (line[s] = "sent" /\ Serve(Head(todo[s])))
  BY <1>4 DEF ProcessREQ
<1>5. ASSUME NEW s \in Scripts, ScriptStep(s) PROVE UNCHANGED server
  BY <1>5 DEF ScriptStep, Receive, Send, Return, Start, Stop, Miss
<1>6. PublishInit \/ PublishEvent \/ UNCHANGED vars => UNCHANGED server
  BY DEF PublishInit, PublishEvent, vars
<1> QED BY <1>1, <1>2, <1>3, <1>4, <1>5, <1>6 DEF Next

LEMMA ChosenAlways == Spec => []Chosen
<1>1. Init => Chosen
  <2> SUFFICES ASSUME Init PROVE Chosen
    OBVIOUS
  <2>1. outputs = <<>> /\ persistent = {}
    BY DEF Init
  <2> QED BY <2>1 DEF Chosen
<1>2. Inv /\ Chosen /\ [Next]_vars => Chosen'
  BY ConfigurationStep
<1> QED BY <1>1, <1>2, InvAlways, PTL DEF Spec

-----------------------------------------------------------------------------
(* Theorems                                                                *)

\* Every variable keeps its type: keys are never 0, queues hold messages and
\* handlers only requests that there are.
THEOREM TypeCorrect == Spec => []TypeOK
<1>1. Inv => TypeOK
  BY TypesAgree DEF Inv
<1> QED BY <1>1, InvAlways, PTL

\* A server that believes to be initialized has the whole configuration of this
\* session, whoever reset it or died in the middle of it.
THEOREM InitializedIsConfigured == Spec => []ConfiguredWhenInitialized
<1>1. Inv => ConfiguredWhenInitialized
  <2> SUFFICES ASSUME Inv, initialized
               PROVE  /\ \A i \in DOMAIN InitDevices : Registered(InitDevices[i])
                      /\ Matching(outputs, OutputName) # {} /\ persistent # {}
    BY DEF ConfiguredWhenInitialized
  <2>1. Done(N + 3) /\ N \in Nat /\ DOMAIN InitDevices = 1 .. N
    BY InitRequestsProperties DEF Inv, Configured
  <2> QED BY <2>1 DEF Done
<1> QED BY <1>1, InvAlways, PTL

\* While the server is initialized the name leads to its output, and that is
\* kept, unless the name was used before it was given.
THEOREM NameAlwaysLeads == Spec => []NameLeadsToOutput
<1>1. Inv => NameLeadsToOutput
  <2> SUFFICES ASSUME Inv, initialized, ~usedEarly
               PROVE  Lookup(OutputName) = OutputId /\ persistent = {OutputId}
    BY DEF NameLeadsToOutput
  <2>1. Done(N + 3) /\ N \in Nat
    BY InitRequestsProperties DEF Inv, Configured
  <2>2. Matching(outputs, OutputName) # {} /\ persistent # {}
    BY <2>1 DEF Done
  <2>3. persistent \subseteq {OutputId}
    BY DEF Inv, OnlyTheOutput
  <2> QED BY <2>2, <2>3, LookupFinds DEF Inv
<1> QED BY <1>1, InvAlways, PTL

\* The configuration of an initialized server is lost only with its session,
\* however often an INIT that was published before INIT-OK makes the script
\* send it again, and whoever else uses the name meanwhile.
THEOREM ConfigurationIsKept == Spec => KeepsConfiguration
<1>1. Inv /\ Chosen /\ [Next]_vars
        => (initialized /\ sessKey' = sessKey
              => initialized' /\ persistent' = persistent)
  <2> SUFFICES ASSUME Inv, Chosen, [Next]_vars, initialized, sessKey' = sessKey
               PROVE  initialized' /\ persistent' = persistent
    OBVIOUS
  <2>1. Done(N + 3) /\ N \in Nat
    BY InitRequestsProperties DEF Inv, Configured
  <2>2. persistent # {}
    BY <2>1 DEF Done
  <2> QED BY <2>2, ConfigurationStep
<1> QED BY <1>1, InvAlways, ChosenAlways, PTL DEF Spec, KeepsConfiguration

=============================================================================
