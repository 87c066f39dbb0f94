----------------------------- MODULE ScriptTimers -----------------------------
(***************************************************************************)
(* The timeouts and intervals of a script (server/scripts/kdhome.py): one  *)
(* list of entries, and one timerfd that is to wake the script for the     *)
(* earliest of them.  process() walks the list with a plain for loop while *)
(* the callbacks it calls add to the list and remove from it, so an entry  *)
(* may be passed over; and only setupTimer() sets the timerfd, which a     *)
(* removal does not call.                                                  *)
(*                                                                         *)
(* Times are left to run, in ticks.  All a script does between two polls   *)
(* takes no time.                                                          *)
(***************************************************************************)
EXTENDS Integers, SequencesExt

CONSTANTS
    Ids,      \* the ids of the script's timeouts and intervals
    Longest,  \* bound on their length
    MaxCalls  \* bound on the calls of setTimeout, setInterval, removeTimeout

ASSUME LongestAssumption == Longest \in Nat \ {0}
ASSUME CallsAssumption == MaxCalls \in Nat

Off == -1
Free == [id |-> Off, repeating |-> FALSE]

VARIABLES
    intervals,  \* self.intervals
    timer,      \* what is left for the timerfd; 0 if it is readable, or Off
    phase,      \* "poll", "loop", "callback", "event", or "dead"
    at,         \* the position of the for loop
    running,    \* the entry whose callback is called, or Free
    detached,   \* that entry is not in the list any more
    owed,       \* ids set and since then neither called back nor removed
    rearmed,    \* of these, the ones that their own callback has set
    stale,      \* an entry was removed after the timerfd was set
    calls       \* number of calls so far

list == <<intervals, timer, stale>>
loop == <<phase, at, running, detached>>
history == <<owed, rearmed, calls>>
vars == <<list, loop, history>>

Entries == [id : Ids, left : 0 .. Longest, length : 1 .. Longest,
            repeating : BOOLEAN]

Listed == {intervals[i].id : i \in DOMAIN intervals}

-----------------------------------------------------------------------------
(* The list and the timerfd                                                *)

Earliest(s) ==
    CHOOSE t \in {s[i].left : i \in DOMAIN s} :
        \A i \in DOMAIN s : t <= s[i].left

\* Mutant: the timerfd is set for the newest entry.
SetupTimerNewest(s) ==
    IF s = <<>>
    THEN UNCHANGED <<timer, stale>>
    ELSE timer' = s[Len(s)].left /\ stale' = FALSE

\* setupTimer(), for the list s.  A delay of 0 becomes 1 ms.
SetupTimer(s) ==
    IF s = <<>>
    THEN UNCHANGED <<timer, stale>>
    ELSE timer' = Earliest(s) /\ stale' = FALSE

\* self.intervals.remove(), for the entry of the id x
Without(x) ==
    RemoveAt(intervals, CHOOSE i \in DOMAIN intervals : intervals[i].id = x)

\* The script calls something: from a callback, or from an event handler.
Calls ==
    /\ phase \in {"callback", "event"}
    /\ calls < MaxCalls /\ calls' = calls + 1
    /\ UNCHANGED <<phase, at, running>>

\* Mutant: an entry that is listed is appended again.
ListedAsTwice(e) == Append(intervals, e)

\* The list with the entry e: in the place of the one of its id, or at the end.
ListedAs(e) ==
    IF e.id \in Listed
    THEN [i \in DOMAIN intervals |->
             IF intervals[i].id = e.id THEN e ELSE intervals[i]]
    ELSE Append(intervals, e)

\* setTimeout() and setInterval()
SetInterval(x) ==
    /\ Calls
    /\ \E t \in 1 .. Longest, r \in BOOLEAN :
          LET e == [id |-> x, left |-> t, length |-> t, repeating |-> r] IN
              /\ intervals' = ListedAs(e)
              /\ running' = IF running.id = x /\ ~detached
                            THEN [running EXCEPT !.repeating = r] ELSE running
    /\ SetupTimer(intervals')
    /\ owed' = owed \cup {x}
    /\ rearmed' = IF running.id = x THEN rearmed \cup {x}
                ELSE rearmed \ {x}
    /\ UNCHANGED detached

\* removeTimeout() and removeInterval()
RemoveInterval(x) ==
    /\ Calls
    /\ x \in Listed /\ intervals' = Without(x)
    /\ stale' = TRUE
    /\ detached' = (detached \/ running.id = x)
    /\ owed' = owed \ {x} /\ rearmed' = rearmed \ {x}
    /\ UNCHANGED timer

-----------------------------------------------------------------------------
(* poll() and process()                                                    *)

StartLoop ==
    /\ phase = "poll"
    /\ phase' = "loop" /\ at' = 1
    /\ timer' = IF timer = 0 THEN Off ELSE timer
    /\ UNCHANGED <<intervals, stale, running, detached, history>>

\* poll() returns because the timerfd is readable, and reads it,
Expire == timer = 0 /\ StartLoop

\* or because there is a message of the server.
Message == StartLoop

\* The for loop, for an entry whose time has not come,
Pass ==
    /\ phase = "loop" /\ at <= Len(intervals)
    /\ intervals[at].left > 0
    /\ at' = at + 1
    /\ UNCHANGED <<list, phase, running, detached, history>>

\* and for one whose time has come.
Call ==
    /\ phase = "loop" /\ at <= Len(intervals)
    /\ intervals[at].left = 0
    /\ LET v == intervals[at] IN
          /\ intervals' = IF v.repeating
                          THEN [intervals EXCEPT ![at].left = v.length]
                          ELSE intervals
          /\ running' = [id |-> v.id, repeating |-> v.repeating]
          /\ owed' = owed \ {v.id} /\ rearmed' = rearmed \ {v.id}
    /\ detached' = FALSE
    /\ phase' = "callback"
    /\ UNCHANGED <<timer, stale, at, calls>>

\* Mutant: the loop ends with the callback, without setupTimer().
ReturnQuietly ==
    /\ phase = "callback"
    /\ intervals' = IF running.repeating \/ detached
                    THEN intervals
                    ELSE Without(running.id)
    /\ owed' = IF running.repeating /\ ~detached
               THEN owed \cup {running.id} ELSE owed
    /\ phase' = "loop" /\ at' = at + 1
    /\ running' = Free /\ detached' = FALSE
    /\ UNCHANGED <<timer, stale, rearmed, calls>>

\* Mutant: not the entry that was called is removed, but the one in its place.
ReturnPop ==
    /\ phase = "callback"
    /\ intervals' = IF running.repeating \/ at > Len(intervals)
                    THEN intervals ELSE RemoveAt(intervals, at)
    /\ owed' = IF running.repeating /\ ~detached
               THEN owed \cup {running.id} ELSE owed
    /\ SetupTimer(intervals')
    /\ phase' = "loop" /\ at' = at + 1
    /\ running' = Free /\ detached' = FALSE
    /\ UNCHANGED <<rearmed, calls>>

\* The callback returns.  Its entry is removed if it does not repeat, so what
\* the callback has set under its own id goes too; list.remove() of an entry
\* that the callback has removed raises a ValueError that nobody catches.
Return ==
    /\ phase = "callback"
    /\ ~(detached /\ ~running.repeating)
    /\ intervals' = IF running.repeating
                    THEN intervals
                    ELSE Without(running.id)
    /\ owed' = IF running.repeating /\ ~detached
               THEN owed \cup {running.id} ELSE owed
    /\ SetupTimer(intervals')
    /\ phase' = "loop" /\ at' = at + 1
    /\ running' = Free /\ detached' = FALSE
    /\ UNCHANGED <<rearmed, calls>>

Die ==
    /\ phase = "callback"
    /\ detached /\ ~running.repeating
    /\ phase' = "dead" /\ running' = Free
    /\ UNCHANGED <<list, at, detached, history>>

\* The loop ends, and the message, if there is one, is handled.
Handle ==
    /\ phase = "loop" /\ at > Len(intervals)
    /\ phase' = "event" /\ at' = 0
    /\ UNCHANGED <<list, running, detached, history>>

Poll ==
    /\ phase = "event"
    /\ phase' = "poll"
    /\ UNCHANGED <<list, at, running, detached, history>>

Tick ==
    /\ phase = "poll" /\ timer # 0
    /\ intervals' = [i \in DOMAIN intervals |->
                        [intervals[i] EXCEPT !.left = IF @ = 0 THEN 0
                                                      ELSE @ - 1]]
    /\ timer' = IF timer = Off THEN Off ELSE timer - 1
    /\ UNCHANGED <<stale, loop, history>>

\* A script that has died is started again.
Start ==
    /\ phase = "dead"
    /\ intervals' = <<>> /\ timer' = Off /\ stale' = FALSE
    /\ phase' = "event" /\ at' = 0 /\ detached' = FALSE
    /\ owed' = {} /\ rearmed' = {}
    /\ UNCHANGED <<running, calls>>

Init ==
    /\ intervals = <<>> /\ timer = Off /\ stale = FALSE
    /\ phase = "event" /\ at = 0
    /\ running = Free /\ detached = FALSE
    /\ owed = {} /\ rearmed = {} /\ calls = 0

Next ==
    \/ \E x \in Ids : SetInterval(x) \/ RemoveInterval(x)
    \/ Expire \/ Message
    \/ Pass \/ Call \/ Return \/ Die \/ Handle \/ Poll
    \/ Tick \/ Start

Spec == Init /\ [][Next]_vars

\* Time passes however many messages come, the script gets to run, and its
\* callbacks return.
Fairness ==
    /\ SF_vars(Tick) /\ WF_vars(Expire)
    /\ WF_vars(Pass) /\ WF_vars(Call) /\ WF_vars(Return) /\ WF_vars(Die)
    /\ WF_vars(Handle) /\ WF_vars(Poll)

FairSpec == Spec /\ Fairness

-----------------------------------------------------------------------------
(* Properties                                                              *)

TypeOK ==
    /\ intervals \in Seq(Entries)
    /\ timer \in Off .. Longest
    /\ phase \in {"poll", "loop", "callback", "event", "dead"}
    /\ at \in Nat /\ (phase = "loop" => at > 0)
    /\ running \in [id : Ids, repeating : BOOLEAN] \cup {Free}
    /\ detached \in BOOLEAN
    /\ owed \in SUBSET Ids /\ rearmed \in SUBSET Ids
    /\ stale \in BOOLEAN
    /\ calls \in 0 .. MaxCalls

\* No id is in the list twice: a removal or a new length concerns the one
\* entry there is.
OneEntryPerId ==
    \A i, j \in DOMAIN intervals :
        intervals[i].id = intervals[j].id => i = j

\* When the script goes to sleep, the timerfd wakes it for its earliest entry;
\* it may be off only if an entry was removed since it was set.
TimerLeads ==
    phase = "poll" /\ intervals # <<>> =>
        IF timer = Off THEN stale ELSE timer <= Earliest(intervals)

\* A timeout that is set stays in the list until it is called or removed, in
\* whatever order callbacks change the list while it is walked; the exception
\* is one that its own callback sets.
NothingForgotten == owed \subseteq Listed \cup rearmed

\* What is set is called, or removed, in the end: entries the loop passes over
\* are met again.  A script that has removed an entry may sleep for ever.
GetsCalled ==
    \A x \in Ids :
        x \in owed ~> x \notin owed \/ x \in rearmed \/ stale \/ phase = "dead"

=============================================================================
