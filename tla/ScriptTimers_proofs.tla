-------------------------- MODULE ScriptTimers_proofs --------------------------
(***************************************************************************)
(* Proofs about ScriptTimers.                                              *)
(***************************************************************************)
EXTENDS ScriptTimers, SequenceTheorems, WellFoundedInduction, TLAPS

-----------------------------------------------------------------------------
(* Lists                                                                   *)

\* Removing one element moves the later ones one place down.
LEMMA RemoveAtProperties ==
    ASSUME NEW S, NEW s \in Seq(S), NEW k \in DOMAIN s
    PROVE  /\ RemoveAt(s, k) \in Seq(S)
           /\ DOMAIN RemoveAt(s, k) = 1 .. Len(s) - 1
           /\ \A j \in 1 .. Len(s) - 1 :
                 RemoveAt(s, k)[j] = IF j < k THEN s[j] ELSE s[j + 1]
<1> DEFINE before == SubSeq(s, 1, k - 1)
           after == SubSeq(s, k + 1, Len(s))
<1>1. Len(s) \in Nat /\ DOMAIN s = 1 .. Len(s) /\ k \in 1 .. Len(s)
  BY LenProperties
<1>2. \A i \in 1 .. Len(s) : s[i] \in S
  BY ElementOfSeq
<1>3. /\ before \in Seq(S) /\ Len(before) = k - 1
      /\ \A i \in 1 .. k - 1 : before[i] = s[i]
  <2>1. \A i \in 1 .. k - 1 : s[i] \in S
    BY <1>1, <1>2
  <2>2. /\ before \in Seq(S)
        /\ Len(before) = IF 1 <= k - 1 THEN (k - 1) - 1 + 1 ELSE 0
        /\ \A i \in 1 .. (k - 1) - 1 + 1 : before[i] = s[1 + i - 1]
    BY <1>1, <2>1, SubSeqProperties
  <2> QED BY <1>1, <2>2
<1>4. /\ after \in Seq(S) /\ Len(after) = Len(s) - k
      /\ \A i \in 1 .. Len(s) - k : after[i] = s[k + i]
  <2>1. \A i \in k + 1 .. Len(s) : s[i] \in S
    BY <1>1, <1>2
  <2>2. /\ after \in Seq(S)
        /\ Len(after) = IF k + 1 <= Len(s) THEN Len(s) - (k + 1) + 1 ELSE 0
        /\ \A i \in 1 .. Len(s) - (k + 1) + 1 : after[i] = s[(k + 1) + i - 1]
    BY <1>1, <2>1, SubSeqProperties
  <2> QED BY <1>1, <2>2
<1>5. RemoveAt(s, k) = before \o after
  BY DEF RemoveAt
<1> HIDE DEF before, after
<1>6. /\ before \o after \in Seq(S)
      /\ Len(before \o after) = Len(s) - 1
      /\ \A i \in 1 .. Len(s) - 1 :
            (before \o after)[i] = IF i <= k - 1 THEN before[i]
                                   ELSE after[i - (k - 1)]
  <2>1. /\ before \o after \in Seq(S)
        /\ Len(before \o after) = Len(before) + Len(after)
        /\ \A i \in 1 .. Len(before) + Len(after) :
              (before \o after)[i] = IF i <= Len(before) THEN before[i]
                                     ELSE after[i - Len(before)]
    BY <1>3, <1>4, ConcatProperties
  <2>2. Len(before) + Len(after) = Len(s) - 1
    BY <1>1, <1>3, <1>4
  <2> QED BY <1>3, <2>1, <2>2
<1>7. DOMAIN (before \o after) = 1 .. Len(s) - 1
  BY <1>6, LenProperties
<1>8. ASSUME NEW j \in 1 .. Len(s) - 1
      PROVE  (before \o after)[j] = IF j < k THEN s[j] ELSE s[j + 1]
  <2>1. CASE j < k
    BY <1>1, <1>3, <1>6, <2>1
  <2>2. CASE ~(j < k)
    <3>1. j - (k - 1) \in 1 .. Len(s) - k /\ k + (j - (k - 1)) = j + 1
      BY <1>1, <2>2
    <3>2. (before \o after)[j] = after[j - (k - 1)]
      BY <1>1, <1>6, <2>2
    <3> QED BY <1>4, <2>2, <3>1, <3>2
  <2> QED BY <2>1, <2>2
<1> QED BY <1>5, <1>6, <1>7, <1>8

\* A list that is not empty has an earliest entry.
LEMMA EarliestProperties ==
    ASSUME NEW s \in Seq(Entries), s # <<>>
    PROVE  /\ \E i \in DOMAIN s : s[i].left = Earliest(s)
           /\ \A i \in DOMAIN s : Earliest(s) <= s[i].left
           /\ Earliest(s) \in 0 .. Longest
<1> DEFINE T == {s[i].left : i \in DOMAIN s}
<1>1. \A i \in DOMAIN s : s[i].left \in 0 .. Longest
  <2> SUFFICES ASSUME NEW i \in DOMAIN s PROVE s[i].left \in 0 .. Longest
    OBVIOUS
  <2>1. i \in 1 .. Len(s)
    BY LenProperties
  <2>2. s[i] \in Entries
    BY <2>1, ElementOfSeq
  <2> QED BY <2>2 DEF Entries
<1>2. T \subseteq Nat /\ T # {}
  <2>1. 1 \in DOMAIN s
    BY LenProperties, EmptySeq
  <2> QED BY <1>1, <2>1, LongestAssumption
<1>3. PICK t \in T : \A y \in T : ~(<<y, t>> \in OpToRel(<, Nat))
  <2> HIDE DEF T
  <2> QED BY <1>2, WFMin, NatLessThanWellFounded
<1>4. \A i \in DOMAIN s : t <= s[i].left
  <2> SUFFICES ASSUME NEW i \in DOMAIN s PROVE t <= s[i].left
    OBVIOUS
  <2>1. s[i].left \in Nat /\ t \in Nat
    BY <1>1, <1>2, <1>3, LongestAssumption
  <2>2. ~(<<s[i].left, t>> \in OpToRel(<, Nat))
    BY <1>3
  <2>3. ~(s[i].left < t)
    BY <2>1, <2>2 DEF OpToRel
  <2> QED BY <2>1, <2>3
<1>5. Earliest(s) \in T /\ \A i \in DOMAIN s : Earliest(s) <= s[i].left
  <2> HIDE DEF T
  <2>1. Earliest(s) = CHOOSE u \in T : \A i \in DOMAIN s : u <= s[i].left
    BY DEF Earliest, T
  <2> QED BY <1>3, <1>4, <2>1
<1> QED BY <1>1, <1>5

\* Without(x): one entry of the id x goes, the others stay.
LEMMA WithoutProperties ==
    ASSUME TypeOK, NEW x \in Listed
    PROVE  /\ Without(x) \in Seq(Entries)
           /\ \A j \in DOMAIN Without(x) : \E k \in DOMAIN intervals :
                 Without(x)[j] = intervals[k]
           /\ \A k \in DOMAIN intervals : intervals[k].id # x =>
                 \E j \in DOMAIN Without(x) : Without(x)[j] = intervals[k]
           /\ OneEntryPerId =>
                 \A i, j \in DOMAIN Without(x) :
                    Without(x)[i].id = Without(x)[j].id => i = j
<1> DEFINE c == CHOOSE i \in DOMAIN intervals : intervals[i].id = x
           n == Len(intervals)
<1>1. c \in DOMAIN intervals /\ intervals[c].id = x
  BY DEF Listed
<1>2. intervals \in Seq(Entries)
  BY DEF TypeOK
<1>3. n \in Nat /\ DOMAIN intervals = 1 .. n
  BY <1>2, LenProperties
<1>4. Without(x) = RemoveAt(intervals, c)
  BY DEF Without
<1> HIDE DEF c
<1>5. /\ Without(x) \in Seq(Entries)
      /\ DOMAIN Without(x) = 1 .. n - 1
      /\ \A j \in 1 .. n - 1 :
            Without(x)[j] = IF j < c THEN intervals[j] ELSE intervals[j + 1]
  BY <1>1, <1>2, <1>4, RemoveAtProperties
<1> HIDE DEF n
<1>6. ASSUME NEW j \in DOMAIN Without(x)
      PROVE  \E k \in DOMAIN intervals : Without(x)[j] = intervals[k]
  <2>1. j \in DOMAIN intervals /\ j + 1 \in DOMAIN intervals
    BY <1>3, <1>5
  <2> QED BY <1>5, <2>1
<1>7. ASSUME NEW k \in DOMAIN intervals, intervals[k].id # x
      PROVE  \E j \in DOMAIN Without(x) : Without(x)[j] = intervals[k]
  <2>1. k # c
    BY <1>1, <1>7
  <2>2. CASE k < c
    <3>1. k \in 1 .. n - 1
      BY <1>1, <1>3, <2>2
    <3> QED BY <1>5, <2>2, <3>1
  <2>3. CASE ~(k < c)
    <3>1. k - 1 \in 1 .. n - 1 /\ ~(k - 1 < c) /\ (k - 1) + 1 = k
      BY <1>1, <1>3, <2>1, <2>3
    <3> QED BY <1>5, <3>1
  <2> QED BY <2>2, <2>3
<1>8. ASSUME OneEntryPerId, NEW i \in DOMAIN Without(x), NEW j \in DOMAIN Without(x),
             Without(x)[i].id = Without(x)[j].id
      PROVE  i = j
  <2> DEFINE p(q) == IF q < c THEN q ELSE q + 1
  <2>1. p(i) \in DOMAIN intervals /\ p(j) \in DOMAIN intervals
    BY <1>3, <1>5
  <2>2. Without(x)[i] = intervals[p(i)] /\ Without(x)[j] = intervals[p(j)]
    BY <1>5
  <2>3. p(i) = p(j)
    <3> HIDE DEF p
    <3> QED BY <1>8, <2>1, <2>2 DEF OneEntryPerId
  <2> QED BY <1>1, <1>3, <1>5, <2>3
<1> QED BY <1>5, <1>6, <1>7, <1>8

\* ListedAs(e): the entry e is there, and the others stay.
LEMMA ListedAsProperties ==
    ASSUME TypeOK, NEW e \in Entries
    PROVE  /\ ListedAs(e) \in Seq(Entries)
           /\ ListedAs(e) # <<>>
           /\ \A j \in DOMAIN ListedAs(e) :
                 \/ ListedAs(e)[j] = e
                 \/ \E k \in DOMAIN intervals : ListedAs(e)[j] = intervals[k]
           /\ \A k \in DOMAIN intervals : \E j \in DOMAIN ListedAs(e) :
                 ListedAs(e)[j].id = intervals[k].id
           /\ \E j \in DOMAIN ListedAs(e) : ListedAs(e)[j].id = e.id
           /\ OneEntryPerId =>
                 \A i, j \in DOMAIN ListedAs(e) :
                    ListedAs(e)[i].id = ListedAs(e)[j].id => i = j
<1>1. intervals \in Seq(Entries)
  BY DEF TypeOK
<1>2. Len(intervals) \in Nat /\ DOMAIN intervals = 1 .. Len(intervals)
  BY <1>1, LenProperties
<1>3. CASE e.id \in Listed
  <2> DEFINE l == [i \in DOMAIN intervals |->
                      IF intervals[i].id = e.id THEN e ELSE intervals[i]]
  <2>1. ListedAs(e) = l
    BY <1>3 DEF ListedAs
  <2>2. \A i \in DOMAIN intervals : intervals[i] \in Entries
    BY <1>1, <1>2, ElementOfSeq
  <2>3. l \in Seq(Entries)
    <3>1. l \in [1 .. Len(intervals) -> Entries]
      BY <1>2, <2>2
    <3> HIDE DEF l
    <3> QED BY <1>2, <3>1
  <2>4. PICK m \in DOMAIN intervals : intervals[m].id = e.id
    BY <1>3 DEF Listed
  <2>5. DOMAIN l = DOMAIN intervals /\ l # <<>>
    BY <1>2, <2>4
  <2>6. \A i \in DOMAIN intervals : l[i].id = intervals[i].id
    OBVIOUS
  <2>7. \A i \in DOMAIN intervals : l[i] = e \/ l[i] = intervals[i]
    OBVIOUS
  <2> HIDE DEF l
  <2> QED BY <2>1, <2>3, <2>4, <2>5, <2>6, <2>7 DEF OneEntryPerId
<1>4. CASE e.id \notin Listed
  <2> DEFINE l == Append(intervals, e)
             n == Len(intervals)
  <2>1. ListedAs(e) = l
    BY <1>4 DEF ListedAs
  <2>2. /\ l \in Seq(Entries) /\ l # <<>> /\ Len(l) = n + 1
        /\ \A i \in 1 .. n : l[i] = intervals[i]
        /\ l[n + 1] = e
    BY <1>1, AppendProperties
  <2>3. DOMAIN l = 1 .. n + 1
    BY <2>2, LenProperties
  <2>4. \A k \in DOMAIN intervals : intervals[k].id # e.id
    BY <1>4 DEF Listed
  <2> HIDE DEF l, n
  <2>5. n \in Nat /\ DOMAIN intervals = 1 .. n
    BY <1>2 DEF n
  <2>6. \A j \in DOMAIN l : j \in DOMAIN intervals \/ j = n + 1
    BY <2>3, <2>5
  <2>7. \A k \in DOMAIN intervals : k \in DOMAIN l /\ l[k] = intervals[k]
    BY <2>2, <2>3, <2>5
  <2>8. n + 1 \in DOMAIN l
    BY <2>3, <2>5
  <2>9. OneEntryPerId => \A i, j \in DOMAIN l : l[i].id = l[j].id => i = j
    BY <2>2, <2>4, <2>6, <2>7 DEF OneEntryPerId
  <2> QED BY <2>1, <2>2, <2>6, <2>7, <2>8, <2>9
<1> QED BY <1>3, <1>4

-----------------------------------------------------------------------------
(* Types                                                                   *)

\* SetupTimer() leaves a possible time.
LEMMA SetupTimerType ==
    ASSUME TypeOK, NEW s \in Seq(Entries), SetupTimer(s)
    PROVE  timer' \in Off .. Longest /\ stale' \in BOOLEAN
<1>1. CASE s = <<>>
  <2>1. timer' = timer /\ stale' = stale
    BY <1>1 DEF SetupTimer
  <2> QED BY <2>1 DEF TypeOK
<1>2. CASE s # <<>>
  <2>1. timer' = Earliest(s) /\ stale' = FALSE
    BY <1>2 DEF SetupTimer
  <2>2. Earliest(s) \in 0 .. Longest
    BY <1>2, EarliestProperties
  <2>3. timer' \in Off .. Longest
    BY <2>1, <2>2, LongestAssumption DEF Off
  <2> QED BY <2>1, <2>3
<1> QED BY <1>1, <1>2

\* SetInterval(x) puts one entry of the id x into the list.
LEMMA SetIntervalEntry ==
    ASSUME TypeOK, NEW x \in Ids, SetInterval(x)
    PROVE  \E e \in Entries :
              /\ e.id = x /\ intervals' = ListedAs(e)
              /\ running' = IF running.id = x /\ ~detached
                            THEN [running EXCEPT !.repeating = e.repeating]
                            ELSE running
<1>1. PICK t \in 1 .. Longest, r \in BOOLEAN :
         LET e == [id |-> x, left |-> t, length |-> t, repeating |-> r] IN
              /\ intervals' = ListedAs(e)
              /\ running' = IF running.id = x /\ ~detached
                            THEN [running EXCEPT !.repeating = r] ELSE running
  BY DEF SetInterval
<1> DEFINE e == [id |-> x, left |-> t, length |-> t, repeating |-> r]
<1>2. e \in Entries /\ e.id = x /\ e.repeating = r
  BY LongestAssumption DEF Entries
<1>3. /\ intervals' = ListedAs(e)
      /\ running' = IF running.id = x /\ ~detached
                    THEN [running EXCEPT !.repeating = r] ELSE running
  BY <1>1
<1> HIDE DEF e
<1> QED BY <1>2, <1>3

\* Every entry of the list is one.
LEMMA EntryType ==
    ASSUME TypeOK, NEW i \in DOMAIN intervals
    PROVE  /\ intervals[i] \in Entries
           /\ intervals[i].id \in Ids /\ intervals[i].left \in 0 .. Longest
           /\ intervals[i].length \in 1 .. Longest
           /\ intervals[i].repeating \in BOOLEAN
<1>1. intervals \in Seq(Entries)
  BY DEF TypeOK
<1>2. intervals[i] \in Entries
  BY <1>1, LenProperties, ElementOfSeq
<1> QED BY <1>2 DEF Entries

\* The list as Call leaves it: the same entries, one with a later time.
LEMMA CallList ==
    ASSUME TypeOK, Call
    PROVE  /\ at \in DOMAIN intervals
           /\ intervals' \in Seq(Entries)
           /\ DOMAIN intervals' = DOMAIN intervals
           /\ \A i \in DOMAIN intervals :
                 /\ intervals'[i].id = intervals[i].id
                 /\ intervals'[i].left >= intervals[i].left
<1>1. intervals \in Seq(Entries) /\ at \in Nat /\ at > 0
  BY DEF TypeOK, Call
<1>2. at \in 1 .. Len(intervals) /\ DOMAIN intervals = 1 .. Len(intervals)
  BY <1>1, LenProperties DEF Call
<1>3. intervals[at].left = 0
  BY DEF Call
<1> DEFINE e == [intervals[at] EXCEPT !.left = intervals[at].length]
<1>4. e \in Entries /\ e.id = intervals[at].id /\ e.left \in 1 .. Longest
  BY <1>2, EntryType, LongestAssumption DEF Entries
<1>5. CASE intervals[at].repeating
  <2>1. intervals' = [intervals EXCEPT ![at] = e]
    BY <1>5 DEF Call
  <2> HIDE DEF e
  <2>2. /\ intervals' \in Seq(Entries) /\ Len(intervals') = Len(intervals)
        /\ \A j \in 1 .. Len(intervals) :
              intervals'[j] = IF j = at THEN e ELSE intervals[j]
    BY <1>1, <1>2, <1>4, <2>1, ExceptSeq
  <2>3. DOMAIN intervals' = DOMAIN intervals
    BY <1>2, <2>2, LenProperties
  <2> QED BY <1>2, <1>3, <1>4, <2>2, <2>3, EntryType
<1>6. CASE ~intervals[at].repeating
  <2>1. intervals' = intervals
    BY <1>6 DEF Call
  <2> QED BY <1>1, <1>2, <2>1, EntryType
<1> QED BY <1>5, <1>6

\* The list as Tick leaves it: what is left goes down by 1, but not below 0.
LEMMA TickList ==
    ASSUME TypeOK, Tick
    PROVE  /\ intervals' \in Seq(Entries)
           /\ DOMAIN intervals' = DOMAIN intervals
           /\ \A i \in DOMAIN intervals :
                 /\ intervals'[i].id = intervals[i].id
                 /\ intervals'[i].left = IF intervals[i].left = 0 THEN 0
                                         ELSE intervals[i].left - 1
<1>1. Len(intervals) \in Nat /\ DOMAIN intervals = 1 .. Len(intervals)
  BY LenProperties DEF TypeOK
<1> DEFINE e(i) == [intervals[i] EXCEPT !.left = IF @ = 0 THEN 0 ELSE @ - 1]
           l == [i \in DOMAIN intervals |-> e(i)]
<1>2. intervals' = l
  BY DEF Tick
<1>3. ASSUME NEW i \in DOMAIN intervals
      PROVE  /\ e(i) \in Entries /\ e(i).id = intervals[i].id
             /\ e(i).left = IF intervals[i].left = 0 THEN 0
                            ELSE intervals[i].left - 1
  BY EntryType, LongestAssumption DEF Entries
<1> HIDE DEF e
<1>4. l \in [1 .. Len(intervals) -> Entries]
  BY <1>1, <1>3
<1>5. l \in Seq(Entries)
  <2> HIDE DEF l
  <2> QED BY <1>1, <1>4
<1> QED BY <1>2, <1>3, <1>5

\* The entry whose callback runs is in the list, or was taken out.
CalledIsListed == phase = "callback" /\ ~detached => running.id \in Listed

\* Steps that keep the ids of the list keep them listed.
LEMMA ListedKept ==
    ASSUME DOMAIN intervals' = DOMAIN intervals,
           \A i \in DOMAIN intervals : intervals'[i].id = intervals[i].id
    PROVE  Listed' = Listed
  BY DEF Listed

\* SetInterval(x) lists x beside what was listed.
LEMMA SetIntervalListed ==
    ASSUME TypeOK, NEW x \in Ids, SetInterval(x)
    PROVE  Listed \subseteq Listed' /\ x \in Listed'
<1>1. PICK e \in Entries : e.id = x /\ intervals' = ListedAs(e)
  BY SetIntervalEntry
<1>2. intervals' = ListedAs(e)
  BY <1>1
<1>3. \A k \in DOMAIN intervals : \E j \in DOMAIN intervals' :
         intervals'[j].id = intervals[k].id
  <2>1. \A k \in DOMAIN intervals : \E j \in DOMAIN ListedAs(e) :
           ListedAs(e)[j].id = intervals[k].id
    BY ListedAsProperties
  <2> QED BY <1>2, <2>1
<1>4. \E j \in DOMAIN intervals' : intervals'[j].id = x
  BY <1>1, <1>2, ListedAsProperties
<1> QED BY <1>3, <1>4 DEF Listed

\* RemoveInterval(x) takes nothing but x from the list.
LEMMA RemoveIntervalListed ==
    ASSUME TypeOK, NEW x, RemoveInterval(x)
    PROVE  Listed \ {x} \subseteq Listed'
<1>1. x \in Listed /\ intervals' = Without(x)
  BY DEF RemoveInterval
<1>2. \A k \in DOMAIN intervals : intervals[k].id # x =>
         \E j \in DOMAIN intervals' : intervals'[j] = intervals[k]
  BY <1>1, WithoutProperties
<1>3. ASSUME NEW y \in Listed \ {x} PROVE y \in Listed'
  <2>1. PICK k \in DOMAIN intervals : intervals[k].id = y
    BY DEF Listed
  <2>2. PICK j \in DOMAIN intervals' : intervals'[j] = intervals[k]
    BY <1>2, <2>1
  <2> QED BY <2>1, <2>2 DEF Listed
<1> QED BY <1>3

\* The list as Return leaves it.
LEMMA ReturnList ==
    ASSUME TypeOK, CalledIsListed, Return
    PROVE  /\ intervals' \in Seq(Entries)
           /\ running.repeating => intervals' = intervals /\ running.id \in Ids
           /\ ~running.repeating =>
                 /\ ~detached /\ running.id \in Listed
                 /\ intervals' = Without(running.id)
<1>1. CASE running.repeating
  <2>1. intervals' = intervals
    BY <1>1 DEF Return
  <2>2. running \in [id : Ids, repeating : BOOLEAN]
    BY <1>1 DEF TypeOK, Free
  <2> QED BY <1>1, <2>1, <2>2 DEF TypeOK
<1>2. CASE ~running.repeating
  <2>1. ~detached /\ running.id \in Listed /\ intervals' = Without(running.id)
    BY <1>2 DEF Return, CalledIsListed
  <2> QED BY <1>2, <2>1, WithoutProperties
<1> QED BY <1>1, <1>2

\* Every variable keeps its type, since list.remove() finds the entry that was
\* called.
LEMMA TypeStep == TypeOK /\ CalledIsListed /\ [Next]_vars => TypeOK'
<1> SUFFICES ASSUME TypeOK, CalledIsListed, [Next]_vars PROVE TypeOK'
  OBVIOUS
<1>1. ASSUME NEW x \in Ids, SetInterval(x) PROVE TypeOK'
  <2>1. PICK e \in Entries :
           /\ e.id = x /\ intervals' = ListedAs(e)
           /\ running' = IF running.id = x /\ ~detached
                         THEN [running EXCEPT !.repeating = e.repeating]
                         ELSE running
    BY <1>1, SetIntervalEntry
  <2>2. intervals' \in Seq(Entries)
    BY <2>1, ListedAsProperties
  <2>3. timer' \in Off .. Longest /\ stale' \in BOOLEAN
    BY <1>1, <2>2, SetupTimerType DEF SetInterval
  <2>4. running' \in [id : Ids, repeating : BOOLEAN] \cup {Free}
    <3>1. e.repeating \in BOOLEAN
      BY DEF Entries
    <3>2. \/ running' = running
          \/ running' = [id |-> x, repeating |-> e.repeating]
      BY <2>1 DEF TypeOK, Free
    <3> QED BY <3>1, <3>2 DEF TypeOK
  <2>5. phase' = phase /\ at' = at /\ detached' = detached
    BY <1>1 DEF SetInterval, Calls
  <2>6. calls' \in 0 .. MaxCalls
    BY <1>1, CallsAssumption DEF SetInterval, Calls, TypeOK
  <2>7. owed' \in SUBSET Ids /\ rearmed' \in SUBSET Ids
    BY <1>1 DEF SetInterval, TypeOK
  <2> QED BY <2>2, <2>3, <2>4, <2>5, <2>6, <2>7 DEF TypeOK
<1>2. ASSUME NEW x \in Ids, RemoveInterval(x) PROVE TypeOK'
  <2>1. intervals' \in Seq(Entries)
    BY <1>2, WithoutProperties DEF RemoveInterval
  <2>2. phase' = phase /\ at' = at /\ running' = running /\ timer' = timer
    BY <1>2 DEF RemoveInterval, Calls
  <2>3. calls' \in 0 .. MaxCalls
    BY <1>2, CallsAssumption DEF RemoveInterval, Calls, TypeOK
  <2>4. stale' \in BOOLEAN /\ detached' \in BOOLEAN
    BY <1>2 DEF RemoveInterval, TypeOK
  <2>5. owed' \in SUBSET Ids /\ rearmed' \in SUBSET Ids
    BY <1>2 DEF RemoveInterval, TypeOK
  <2> QED BY <2>1, <2>2, <2>3, <2>4, <2>5 DEF TypeOK
<1>3. CASE StartLoop
  BY <1>3, LongestAssumption DEF StartLoop, TypeOK, history, Off
<1>4. CASE Pass
  BY <1>4 DEF Pass, TypeOK, list, history
<1>5. CASE Call
  <2>1. intervals' \in Seq(Entries) /\ at \in DOMAIN intervals
    BY <1>5, CallList
  <2>2. running' \in [id : Ids, repeating : BOOLEAN]
    BY <1>5, <2>1, EntryType DEF Call
  <2>3. owed' \in SUBSET Ids /\ rearmed' \in SUBSET Ids
    BY <1>5 DEF Call, TypeOK
  <2> QED BY <1>5, <2>1, <2>2, <2>3 DEF Call, TypeOK
<1>6. CASE Return
  <2>1. intervals' \in Seq(Entries)
    BY <1>6, ReturnList
  <2>2. timer' \in Off .. Longest /\ stale' \in BOOLEAN
    BY <1>6, <2>1, SetupTimerType DEF Return
  <2>3. owed' \in SUBSET Ids
    <3>1. CASE running.repeating
      BY <1>6, <3>1, ReturnList DEF Return, TypeOK
    <3>2. CASE ~running.repeating
      BY <1>6, <3>2 DEF Return, TypeOK
    <3> QED BY <3>1, <3>2
  <2>4. at' \in Nat /\ at' > 0 /\ phase' = "loop"
    BY <1>6 DEF Return, TypeOK
  <2>5. running' = Free /\ detached' = FALSE /\ rearmed' = rearmed /\ calls' = calls
    BY <1>6 DEF Return
  <2> QED BY <2>1, <2>2, <2>3, <2>4, <2>5 DEF TypeOK
<1>7. CASE Die
  BY <1>7 DEF Die, TypeOK, list, history
<1>8. CASE Handle
  BY <1>8 DEF Handle, TypeOK, list, history
<1>9. CASE Poll
  BY <1>9 DEF Poll, TypeOK, list, history
<1>10. CASE Tick
  <2>1. intervals' \in Seq(Entries)
    BY <1>10, TickList
  <2>2. timer' \in Off .. Longest
    BY <1>10, LongestAssumption DEF Tick, TypeOK, Off
  <2> QED BY <1>10, <2>1, <2>2 DEF Tick, TypeOK, loop, history
<1>11. CASE Start
  <2>1. intervals' \in Seq(Entries)
    <3>1. intervals' = <<>>
      BY <1>11 DEF Start
    <3> QED BY <3>1, EmptySeq
  <2>2. timer' \in Off .. Longest
    BY <1>11, LongestAssumption DEF Start, Off
  <2> QED BY <1>11, <2>1, <2>2 DEF Start, TypeOK
<1>12. CASE UNCHANGED vars
  BY <1>12 DEF TypeOK, vars, list, loop, history
<1> QED BY <1>1, <1>2, <1>3, <1>4, <1>5, <1>6, <1>7, <1>8, <1>9, <1>10, <1>11,
           <1>12 DEF Next, Expire, Message

\* Only a removal takes the entry that was called from the list.
LEMMA CalledStep == TypeOK /\ CalledIsListed /\ [Next]_vars => CalledIsListed'
<1> SUFFICES ASSUME TypeOK, CalledIsListed, [Next]_vars,
                    phase' = "callback", ~detached'
             PROVE  (running.id \in Listed)'
  BY DEF CalledIsListed
<1>1. ASSUME NEW x \in Ids, SetInterval(x) PROVE (running.id \in Listed)'
  <2>1. phase = "callback" /\ ~detached
    BY <1>1 DEF SetInterval, Calls
  <2>2. running'.id = running.id
    BY <1>1, SetIntervalEntry DEF TypeOK, Free
  <2> QED BY <1>1, <2>1, <2>2, SetIntervalListed DEF CalledIsListed
<1>2. ASSUME NEW x \in Ids, RemoveInterval(x) PROVE (running.id \in Listed)'
  <2>1. phase = "callback" /\ ~detached /\ running.id # x /\ running' = running
    BY <1>2 DEF RemoveInterval, Calls
  <2> QED BY <1>2, <2>1, RemoveIntervalListed DEF CalledIsListed
<1>3. CASE Call
  <2>1. at \in DOMAIN intervals /\ Listed' = Listed
    BY <1>3, CallList, ListedKept
  <2>2. running'.id = intervals[at].id
    BY <1>3 DEF Call
  <2> QED BY <2>1, <2>2 DEF Listed
<1>4. CASE UNCHANGED vars
  BY <1>4 DEF CalledIsListed, Listed, vars, list, loop
<1>5. ~StartLoop /\ ~Pass /\ ~Return /\ ~Die /\ ~Handle /\ ~Poll /\ ~Start
  BY DEF StartLoop, Pass, Return, Die, Handle, Poll, Start
<1>6. ~Tick
  BY DEF Tick, loop
<1> QED BY <1>1, <1>2, <1>3, <1>4, <1>5, <1>6 DEF Next, Expire, Message

\* A script starts with nothing set.
LEMMA InitTypes == Init => TypeOK /\ CalledIsListed
<1> SUFFICES ASSUME Init PROVE TypeOK /\ CalledIsListed
  OBVIOUS
<1>1. intervals \in Seq(Entries)
  <2>1. intervals = <<>>
    BY DEF Init
  <2> QED BY <2>1, EmptySeq
<1>2. timer \in Off .. Longest /\ calls \in 0 .. MaxCalls
  BY LongestAssumption, CallsAssumption DEF Init, Off
<1> QED BY <1>1, <1>2 DEF Init, TypeOK, CalledIsListed

\* Every variable keeps its type: no time leaves its range, and no walk of the
\* list calls what is not there.
THEOREM TypeCorrect == Spec => [](TypeOK /\ CalledIsListed)
  BY InitTypes, TypeStep, CalledStep, PTL DEF Spec

-----------------------------------------------------------------------------
(* One entry of an id                                                      *)

\* Returning takes away at most the entry that was called.
LEMMA ReturnListed ==
    ASSUME TypeOK, CalledIsListed, Return
    PROVE  /\ Listed \ {running.id} \subseteq Listed'
           /\ running.repeating => Listed' = Listed
<1>1. CASE running.repeating
  BY <1>1, ReturnList DEF Listed
<1>2. CASE ~running.repeating
  <2>1. running.id \in Listed /\ intervals' = Without(running.id)
    BY <1>2, ReturnList
  <2>2. \A k \in DOMAIN intervals : intervals[k].id # running.id =>
           \E j \in DOMAIN intervals' : intervals'[j] = intervals[k]
    BY <2>1, WithoutProperties
  <2> QED BY <1>2, <2>2 DEF Listed
<1> QED BY <1>1, <1>2

\* No step lists an id twice.
LEMMA OneEntryStep ==
    TypeOK /\ CalledIsListed /\ OneEntryPerId /\ [Next]_vars => OneEntryPerId'
<1> SUFFICES ASSUME TypeOK, CalledIsListed, OneEntryPerId, [Next]_vars
             PROVE  OneEntryPerId'
  OBVIOUS
<1>1. ASSUME NEW x \in Ids, SetInterval(x) PROVE OneEntryPerId'
  <2>1. PICK e \in Entries : e.id = x /\ intervals' = ListedAs(e)
    BY <1>1, SetIntervalEntry
  <2>2. \A i, j \in DOMAIN ListedAs(e) :
           ListedAs(e)[i].id = ListedAs(e)[j].id => i = j
    BY ListedAsProperties
  <2> QED BY <2>1, <2>2 DEF OneEntryPerId
<1>2. ASSUME NEW x \in Listed, intervals' = Without(x) PROVE OneEntryPerId'
  <2>1. \A i, j \in DOMAIN Without(x) :
           Without(x)[i].id = Without(x)[j].id => i = j
    BY WithoutProperties
  <2> QED BY <1>2, <2>1 DEF OneEntryPerId
<1>3. ASSUME NEW x \in Ids, RemoveInterval(x) PROVE OneEntryPerId'
  BY <1>2, <1>3 DEF RemoveInterval
<1>4. CASE Return
  <2>1. CASE running.repeating
    <3>1. intervals' = intervals
      BY <1>4, <2>1, ReturnList
    <3> QED BY <3>1 DEF OneEntryPerId
  <2>2. CASE ~running.repeating
    BY <1>2, <1>4, <2>2, ReturnList
  <2> QED BY <2>1, <2>2
<1>5. ASSUME DOMAIN intervals' = DOMAIN intervals,
             \A i \in DOMAIN intervals : intervals'[i].id = intervals[i].id
      PROVE  OneEntryPerId'
  BY <1>5 DEF OneEntryPerId
<1>6. CASE Call
  BY <1>5, <1>6, CallList
<1>7. CASE Tick
  BY <1>5, <1>7, TickList
<1>8. CASE StartLoop \/ Pass \/ Die \/ Handle \/ Poll \/ UNCHANGED vars
  <2>1. intervals' = intervals
    BY <1>8 DEF StartLoop, Pass, Die, Handle, Poll, vars, list
  <2> QED BY <2>1 DEF OneEntryPerId
<1>9. CASE Start
  <2>1. intervals' = <<>>
    BY <1>9 DEF Start
  <2>2. DOMAIN intervals' = {}
    BY <2>1
  <2> QED BY <2>2 DEF OneEntryPerId
<1> QED BY <1>1, <1>3, <1>4, <1>6, <1>7, <1>8, <1>9 DEF Next, Expire, Message

\* No id is ever in the list twice.
THEOREM OneEntryAlways == Spec => []OneEntryPerId
<1>1. Init => OneEntryPerId
  <2> SUFFICES ASSUME Init PROVE OneEntryPerId
    OBVIOUS
  <2>1. intervals = <<>>
    BY DEF Init
  <2>2. DOMAIN intervals = {}
    BY <2>1
  <2> QED BY <2>2 DEF OneEntryPerId
<1> QED BY <1>1, OneEntryStep, TypeCorrect, PTL DEF Spec

-----------------------------------------------------------------------------
(* Nothing is forgotten                                                    *)

\* What the callback that runs has set under its own id is known to be lost.
CalledIsRearmed ==
    phase = "callback" /\ running.id \in owed => running.id \in rearmed

\* What is owed is listed, or was set by its own callback.
LEMMA NothingForgottenStep ==
    /\ TypeOK /\ CalledIsListed /\ NothingForgotten /\ CalledIsRearmed
    /\ [Next]_vars
    => NothingForgotten' /\ CalledIsRearmed'
<1> SUFFICES ASSUME TypeOK, CalledIsListed, NothingForgotten, CalledIsRearmed,
                    [Next]_vars
             PROVE  NothingForgotten' /\ CalledIsRearmed'
  OBVIOUS
<1>1. ASSUME NEW x \in Ids, SetInterval(x)
      PROVE  NothingForgotten' /\ CalledIsRearmed'
  <2>1. Listed \subseteq Listed' /\ x \in Listed'
    BY <1>1, SetIntervalListed
  <2>2. /\ owed' = owed \cup {x} /\ phase' = phase
        /\ rearmed' = IF running.id = x THEN rearmed \cup {x} ELSE rearmed \ {x}
    BY <1>1 DEF SetInterval, Calls
  <2>3. running'.id = running.id
    BY <1>1, SetIntervalEntry DEF TypeOK, Free
  <2>4. NothingForgotten'
    BY <2>1, <2>2 DEF NothingForgotten
  <2>5. CalledIsRearmed'
    BY <2>2, <2>3 DEF CalledIsRearmed
  <2> QED BY <2>4, <2>5
<1>2. ASSUME NEW x \in Ids, RemoveInterval(x)
      PROVE  NothingForgotten' /\ CalledIsRearmed'
  <2>1. Listed \ {x} \subseteq Listed'
    BY <1>2, RemoveIntervalListed
  <2>2. /\ owed' = owed \ {x} /\ rearmed' = rearmed \ {x}
        /\ phase' = phase /\ running' = running
    BY <1>2 DEF RemoveInterval, Calls
  <2> QED BY <2>1, <2>2 DEF NothingForgotten, CalledIsRearmed
<1>3. CASE Call
  <2>1. Listed' = Listed
    BY <1>3, CallList, ListedKept
  <2>2. /\ owed' = owed \ {running'.id} /\ rearmed' = rearmed \ {running'.id}
    BY <1>3 DEF Call
  <2> QED BY <2>1, <2>2 DEF NothingForgotten, CalledIsRearmed
<1>4. CASE Return
  <2>1. rearmed' = rearmed /\ phase' = "loop" /\ phase = "callback"
    BY <1>4 DEF Return
  <2>2. CASE running.repeating
    <3>1. Listed' = Listed
      BY <1>4, <2>2, ReturnListed
    <3>2. \/ owed' = owed
          \/ owed' = owed \cup {running.id} /\ running.id \in Listed
      BY <1>4, <2>1 DEF Return, CalledIsListed
    <3> QED BY <2>1, <3>1, <3>2 DEF NothingForgotten, CalledIsRearmed
  <2>3. CASE ~running.repeating
    <3>1. owed' = owed /\ Listed \ {running.id} \subseteq Listed'
      BY <1>4, <2>3, ReturnListed DEF Return
    <3> QED BY <2>1, <3>1 DEF NothingForgotten, CalledIsRearmed
  <2> QED BY <2>2, <2>3
<1>5. CASE StartLoop \/ Pass \/ Die \/ Handle \/ Poll
  <2>1. intervals' = intervals /\ owed' = owed /\ rearmed' = rearmed
    BY <1>5 DEF StartLoop, Pass, Die, Handle, Poll, list, history
  <2>2. phase' # "callback"
    BY <1>5 DEF StartLoop, Pass, Die, Handle, Poll
  <2> QED BY <2>1, <2>2 DEF NothingForgotten, CalledIsRearmed, Listed
<1>6. CASE Tick
  <2>1. Listed' = Listed
    BY <1>6, TickList, ListedKept
  <2>2. /\ owed' = owed /\ rearmed' = rearmed
        /\ phase' = phase /\ running' = running
    BY <1>6 DEF Tick, loop, history
  <2> QED BY <2>1, <2>2 DEF NothingForgotten, CalledIsRearmed
<1>7. CASE Start
  BY <1>7 DEF Start, NothingForgotten, CalledIsRearmed
<1>8. CASE UNCHANGED vars
  BY <1>8 DEF NothingForgotten, CalledIsRearmed, Listed, vars, list, loop, history
<1> QED BY <1>1, <1>2, <1>3, <1>4, <1>5, <1>6, <1>7, <1>8 DEF Next, Expire, Message

\* A timeout that is set stays in the list until it is called or removed, but
\* for one that its own callback sets.
THEOREM NothingIsForgotten == Spec => []NothingForgotten
<1>1. Init => NothingForgotten /\ CalledIsRearmed
  BY DEF Init, NothingForgotten, CalledIsRearmed
<1>2. Spec => [](NothingForgotten /\ CalledIsRearmed)
  BY <1>1, NothingForgottenStep, TypeCorrect, PTL DEF Spec
<1> QED BY <1>2, PTL

-----------------------------------------------------------------------------
(* The timerfd                                                             *)

\* A timerfd that is set is set for no later time than any entry's.
TimerIsEarly == timer # Off => \A i \in DOMAIN intervals : timer <= intervals[i].left

\* It is off for a reason: an entry was removed, or one is due in this walk.
OffHasReason ==
    timer = Off /\ intervals # <<>> /\ phase # "dead" =>
        \/ stale \/ phase = "callback"
        \/ phase = "loop" /\ \E i \in DOMAIN intervals :
                                i >= at /\ intervals[i].left = 0

\* It is set for an entry of the list, unless one was removed since.
OnIsExact ==
    timer # Off /\ intervals # <<>> /\ ~stale /\ phase \notin {"callback", "dead"} =>
        \E i \in DOMAIN intervals : intervals[i].left = timer

TimerInv == TimerIsEarly /\ OffHasReason /\ OnIsExact

\* SetupTimer() makes the timerfd right, whatever it was.
LEMMA SetupTimerMakesRight ==
    ASSUME intervals' \in Seq(Entries), SetupTimer(intervals')
    PROVE  intervals' = <<>> \/
              /\ timer' # Off
              /\ \A i \in DOMAIN intervals' : timer' <= intervals'[i].left
              /\ \E i \in DOMAIN intervals' : intervals'[i].left = timer'
<1> SUFFICES ASSUME intervals' # <<>>
             PROVE  /\ timer' # Off
                    /\ \A i \in DOMAIN intervals' : timer' <= intervals'[i].left
                    /\ \E i \in DOMAIN intervals' : intervals'[i].left = timer'
  OBVIOUS
<1>1. timer' = Earliest(intervals')
  BY DEF SetupTimer
<1>2. /\ \E i \in DOMAIN intervals' : intervals'[i].left = Earliest(intervals')
      /\ \A i \in DOMAIN intervals' : Earliest(intervals') <= intervals'[i].left
      /\ Earliest(intervals') \in 0 .. Longest
  BY EarliestProperties
<1>3. Earliest(intervals') # Off
  BY <1>2, LongestAssumption DEF Off
<1> QED BY <1>1, <1>2, <1>3

\* An empty list needs no timerfd.
LEMMA NothingToTime == intervals' = <<>> => TimerInv'
<1> SUFFICES ASSUME intervals' = <<>> PROVE TimerInv'
  OBVIOUS
<1>1. DOMAIN intervals' = {}
  OBVIOUS
<1> QED BY <1>1 DEF TimerInv, TimerIsEarly, OffHasReason, OnIsExact

\* After SetupTimer() the timerfd is right.
LEMMA SetupTimerInv ==
    intervals' \in Seq(Entries) /\ SetupTimer(intervals') => TimerInv'
  BY SetupTimerMakesRight, NothingToTime
     DEF TimerInv, TimerIsEarly, OffHasReason, OnIsExact

\* Every step keeps the timerfd right or has a reason not to.
LEMMA TimerStep ==
    TypeOK /\ TypeOK' /\ CalledIsListed /\ TimerInv /\ [Next]_vars => TimerInv'
<1> SUFFICES ASSUME TypeOK, TypeOK', CalledIsListed, TimerInv, [Next]_vars
             PROVE  TimerInv'
  OBVIOUS
<1>1. intervals' \in Seq(Entries)
  BY DEF TypeOK
<1>2. ASSUME NEW x \in Ids, SetInterval(x) PROVE TimerInv'
  BY <1>1, <1>2, SetupTimerInv DEF SetInterval
<1>3. CASE Return
  BY <1>1, <1>3, SetupTimerInv DEF Return
<1>4. ASSUME NEW x \in Ids, RemoveInterval(x) PROVE TimerInv'
  <2>1. stale' = TRUE /\ timer' = timer
    BY <1>4 DEF RemoveInterval
  <2>2. x \in Listed /\ intervals' = Without(x)
    BY <1>4 DEF RemoveInterval
  <2>3. \A j \in DOMAIN Without(x) : \E k \in DOMAIN intervals :
           Without(x)[j] = intervals[k]
    BY <2>2, WithoutProperties
  <2>4. TimerIsEarly'
    <3>1. \A j \in DOMAIN intervals' : \E k \in DOMAIN intervals :
             intervals'[j] = intervals[k]
      BY <2>2, <2>3
    <3> QED BY <2>1, <3>1 DEF TimerInv, TimerIsEarly
  <2> QED BY <2>1, <2>4 DEF TimerInv, OffHasReason, OnIsExact
<1>5. CASE StartLoop
  <2>1. /\ phase = "poll" /\ phase' = "loop" /\ at' = 1
        /\ intervals' = intervals /\ stale' = stale
        /\ timer' = IF timer = 0 THEN Off ELSE timer
    BY <1>5 DEF StartLoop
  <2>2. TimerIsEarly'
    BY <2>1 DEF TimerInv, TimerIsEarly
  <2>3. OnIsExact'
    BY <2>1 DEF TimerInv, OnIsExact
  <2>4. OffHasReason'
    <3> SUFFICES ASSUME timer' = Off, intervals # <<>>, ~stale
                 PROVE  \E i \in DOMAIN intervals :
                           i >= 1 /\ intervals[i].left = 0
      BY <2>1 DEF OffHasReason
    <3>1. timer = 0
      BY <2>1 DEF TimerInv, OffHasReason
    <3>2. \E i \in DOMAIN intervals : intervals[i].left = 0
      BY <2>1, <3>1 DEF TimerInv, OnIsExact, Off
    <3>3. DOMAIN intervals = 1 .. Len(intervals) /\ Len(intervals) \in Nat
      BY LenProperties DEF TypeOK
    <3> QED BY <3>2, <3>3
  <2> QED BY <2>2, <2>3, <2>4 DEF TimerInv
<1>6. CASE Pass
  <2>1. /\ phase = "loop" /\ phase' = "loop" /\ at' = at + 1
        /\ intervals[at].left > 0
        /\ intervals' = intervals /\ stale' = stale /\ timer' = timer
    BY <1>6 DEF Pass, list
  <2>2. TimerIsEarly' /\ OnIsExact'
    BY <2>1 DEF TimerInv, TimerIsEarly, OnIsExact
  <2>3. OffHasReason'
    <3> SUFFICES ASSUME timer = Off, intervals # <<>>, ~stale
                 PROVE  \E i \in DOMAIN intervals :
                           i >= at + 1 /\ intervals[i].left = 0
      BY <2>1 DEF OffHasReason
    <3>1. PICK i \in DOMAIN intervals : i >= at /\ intervals[i].left = 0
      BY <2>1 DEF TimerInv, OffHasReason
    <3>2. i # at
      BY <2>1, <3>1
    <3>3. i \in Nat /\ at \in Nat
      BY LenProperties DEF TypeOK
    <3> QED BY <3>1, <3>2, <3>3
  <2> QED BY <2>2, <2>3 DEF TimerInv
<1>7. CASE Call
  <2>1. phase' = "callback" /\ timer' = timer
    BY <1>7 DEF Call
  <2>2. /\ DOMAIN intervals' = DOMAIN intervals
        /\ \A i \in DOMAIN intervals : intervals'[i].left >= intervals[i].left
    BY <1>7, CallList
  <2>3. ASSUME timer # Off, NEW i \in DOMAIN intervals
        PROVE  timer <= intervals'[i].left
    <3>1. timer <= intervals[i].left
      BY <2>3 DEF TimerInv, TimerIsEarly
    <3>2. timer \in Int /\ intervals[i].left \in Int
      BY EntryType, LongestAssumption DEF TypeOK, Off
    <3>3. intervals'[i].left \in Int
      <4>1. i \in 1 .. Len(intervals') /\ intervals' \in Seq(Entries)
        BY <1>1, <2>2, LenProperties
      <4>2. intervals'[i] \in Entries
        BY <4>1, ElementOfSeq
      <4> QED BY <4>2, LongestAssumption DEF Entries
    <3> QED BY <2>2, <3>1, <3>2, <3>3
  <2> QED BY <2>1, <2>2, <2>3 DEF TimerInv, TimerIsEarly, OffHasReason, OnIsExact
<1>8. CASE Die
  <2>1. phase' = "dead" /\ intervals' = intervals /\ timer' = timer
    BY <1>8 DEF Die, list
  <2> QED BY <2>1 DEF TimerInv, TimerIsEarly, OffHasReason, OnIsExact
<1>9. CASE Handle
  <2>1. /\ phase = "loop" /\ phase' = "event" /\ at > Len(intervals)
        /\ intervals' = intervals /\ stale' = stale /\ timer' = timer
    BY <1>9 DEF Handle, list
  <2>2. \A i \in DOMAIN intervals : ~(i >= at)
    <3>1. DOMAIN intervals = 1 .. Len(intervals) /\ Len(intervals) \in Nat
      BY LenProperties DEF TypeOK
    <3> QED BY <2>1, <3>1 DEF TypeOK
  <2> QED BY <2>1, <2>2 DEF TimerInv, TimerIsEarly, OffHasReason, OnIsExact
<1>10. CASE Poll
  <2>1. /\ phase = "event" /\ phase' = "poll"
        /\ intervals' = intervals /\ stale' = stale /\ timer' = timer
    BY <1>10 DEF Poll, list
  <2> QED BY <2>1 DEF TimerInv, TimerIsEarly, OffHasReason, OnIsExact
<1>11. CASE Tick
  <2>1. /\ phase = "poll" /\ phase' = phase /\ stale' = stale /\ timer # 0
        /\ timer' = IF timer = Off THEN Off ELSE timer - 1
    BY <1>11 DEF Tick, loop
  <2>2. /\ DOMAIN intervals' = DOMAIN intervals
        /\ \A i \in DOMAIN intervals :
              intervals'[i].left = IF intervals[i].left = 0 THEN 0
                                  ELSE intervals[i].left - 1
    BY <1>11, TickList
  <2>3. timer \in Int /\ \A i \in DOMAIN intervals : intervals[i].left \in Nat
    BY EntryType, LongestAssumption DEF TypeOK, Off
  <2>4. timer' # Off => timer # Off /\ timer > 0 /\ timer' = timer - 1
    BY <2>1, LongestAssumption DEF TypeOK, Off
  <2>5. timer' = Off => timer = Off
    BY <2>1, LongestAssumption DEF TypeOK, Off
  <2>6. intervals' # <<>> => intervals # <<>>
    <3> SUFFICES ASSUME intervals = <<>> PROVE intervals' = <<>>
      OBVIOUS
    <3>1. Len(intervals') = 0
      <4>1. DOMAIN intervals' = 1 .. 0
        BY <2>2
      <4> QED BY <1>1, <4>1, LenProperties
    <3> QED BY <1>1, <3>1, EmptySeq
  <2>7. TimerIsEarly'
    <3> SUFFICES ASSUME timer' # Off, NEW i \in DOMAIN intervals
                 PROVE  timer' <= intervals'[i].left
      BY <2>2 DEF TimerIsEarly
    <3>1. timer <= intervals[i].left
      BY <2>4 DEF TimerInv, TimerIsEarly
    <3> QED BY <2>2, <2>3, <2>4, <3>1
  <2>8. OnIsExact'
    <3> SUFFICES ASSUME timer' # Off, intervals # <<>>, ~stale
                 PROVE  \E i \in DOMAIN intervals : intervals'[i].left = timer'
      BY <2>1, <2>2, <2>6 DEF OnIsExact
    <3>1. PICK i \in DOMAIN intervals : intervals[i].left = timer
      BY <2>1, <2>4 DEF TimerInv, OnIsExact
    <3>2. intervals'[i].left = timer'
      BY <2>2, <2>3, <2>4, <3>1
    <3> QED BY <3>2
  <2>9. OffHasReason'
    BY <2>1, <2>5, <2>6 DEF TimerInv, OffHasReason
  <2> QED BY <2>7, <2>8, <2>9 DEF TimerInv
<1>12. CASE Start
  BY <1>12, NothingToTime DEF Start
<1>13. CASE UNCHANGED vars
  <2>1. /\ intervals' = intervals /\ timer' = timer /\ stale' = stale
        /\ phase' = phase /\ at' = at
    BY <1>13 DEF vars, list, loop
  <2> QED BY <2>1 DEF TimerInv, TimerIsEarly, OffHasReason, OnIsExact
<1> QED BY <1>2, <1>3, <1>4, <1>5, <1>6, <1>7, <1>8, <1>9, <1>10, <1>11, <1>12,
           <1>13 DEF Next, Expire, Message

\* When the script goes to sleep, the timerfd wakes it for its earliest entry,
\* unless a removal has left it off.
THEOREM TimerAlwaysLeads == Spec => []TimerLeads
<1>1. Init => TimerInv
  <2> SUFFICES ASSUME Init PROVE TimerInv
    OBVIOUS
  <2>1. intervals = <<>>
    BY DEF Init
  <2>2. DOMAIN intervals = {}
    BY <2>1
  <2> QED BY <2>1, <2>2 DEF TimerInv, TimerIsEarly, OffHasReason, OnIsExact
<1>2. TypeOK /\ TimerInv => TimerLeads
  <2> SUFFICES ASSUME TypeOK, TimerInv, phase = "poll", intervals # <<>>
               PROVE  IF timer = Off THEN stale ELSE timer <= Earliest(intervals)
    BY DEF TimerLeads
  <2>1. \E i \in DOMAIN intervals : intervals[i].left = Earliest(intervals)
    BY EarliestProperties DEF TypeOK
  <2> QED BY <2>1 DEF TimerInv, TimerIsEarly, OffHasReason
<1> QED BY <1>1, <1>2, TimerStep, TypeCorrect, PTL DEF Spec

=============================================================================
