------------------------------ MODULE Debounce -------------------------------
(***************************************************************************)
(* The debouncer of one input of the expander16 firmware                   *)
(* (expander16/kdulibs/advinputmanager.c), called by every round of the    *)
(* main loop with the 16 bit millisecond counter (expander16/io.c).        *)
(*                                                                         *)
(* The four states HIGH, HIGH_TO_LOW_TODEBOUNCE, LOW and                   *)
(* LOW_TO_HIGH_TODEBOUNCE are the pairs of a confirmed level and a flag:   *)
(* "the line has left it".  UNDETERMINED lasts until ioInit() has called   *)
(* advimProcess() once, before anybody else can look.  Pattern recording   *)
(* is not compiled in.                                                     *)
(***************************************************************************)
EXTENDS Integers

CONSTANTS
    TickSize,     \* number of values of the uint16_t tick counter
    DebounceTime  \* ADVIM_INPUTx_DEBOUNCETIME

ASSUME TicksAssumption ==
    /\ TickSize \in Nat \ {0}
    /\ DebounceTime \in Nat \ {0}
    /\ DebounceTime < TickSize

VARIABLES
    pin,         \* io_getInp() of the input, as read in the last round
    stable,      \* the confirmed level
    debouncing,  \* the line has left it, state xxx_TO_xxx_TODEBOUNCE
    changeTime,  \* TInputData::changeTime
    ticks,       \* the tick counter, as far as advimProcess() sees it
    polled,      \* the main loop has come round since the last tick
    age          \* ticks since changeTime was set, DebounceTime at most

debounceVars == <<pin, stable, debouncing, changeTime, ticks, polled, age>>

Levels == {"low", "high"}
Ticks == 0 .. TickSize - 1

-----------------------------------------------------------------------------
\* ticks - input->changeTime: both are promoted to int, nothing wraps.
Elapsed == ticks - changeTime

\* The line is back at the confirmed level, or never left it.
AtRest(level) ==
    /\ level = stable
    /\ debouncing' = FALSE
    /\ UNCHANGED <<stable, changeTime, age>>

\* The first round that sees the line at the other level.
Leave(level) ==
    /\ level # stable /\ ~debouncing
    /\ debouncing' = TRUE
    /\ changeTime' = ticks
    /\ age' = 0
    /\ UNCHANGED stable

Wait(level) ==
    /\ level # stable /\ debouncing
    /\ Elapsed < DebounceTime
    /\ UNCHANGED <<stable, debouncing, changeTime, age>>

\* Mutant: the line is not debounced when it goes up.
ConfirmHighAtOnce(level) ==
    /\ level # stable /\ debouncing
    /\ Elapsed >= DebounceTime \/ level = "high"
    /\ stable' = level
    /\ debouncing' = FALSE
    /\ UNCHANGED <<changeTime, age>>

\* Mutant: the time is tested before the level.
ConfirmUnseen(level) ==
    /\ debouncing
    /\ Elapsed >= DebounceTime
    /\ stable' \in Levels \ {stable}
    /\ debouncing' = FALSE
    /\ UNCHANGED <<changeTime, age>>

\* onInputHigh() or onInputLow().
Confirm(level) ==
    /\ level # stable /\ debouncing
    /\ Elapsed >= DebounceTime
    /\ stable' = level
    /\ debouncing' = FALSE
    /\ UNCHANGED <<changeTime, age>>

\* Mutant: strictly more than the debounce time.
AdvimProcessLate(level) ==
    \/ AtRest(level) \/ Leave(level)
    \/ Wait(level) \/ (Elapsed > DebounceTime /\ Confirm(level))
    \/ /\ level # stable /\ debouncing /\ Elapsed = DebounceTime
       /\ UNCHANGED <<stable, debouncing, changeTime, age>>

AdvimProcess(level) ==
    AtRest(level) \/ Leave(level) \/ Wait(level) \/ Confirm(level)

\* One round of the main loop: read the line, then advimProcess().
IoProcess ==
    /\ \E level \in Levels : pin' = level /\ AdvimProcess(level)
    /\ polled' = TRUE
    /\ UNCHANGED ticks

\* A millisecond passes.  A round takes less than that.
Tick ==
    /\ polled
    /\ ticks' = (ticks + 1) % TickSize
    /\ polled' = FALSE
    /\ age' = IF age < DebounceTime THEN age + 1 ELSE age
    /\ UNCHANGED <<pin, stable, debouncing, changeTime>>

DebounceInit ==
    /\ pin \in Levels /\ stable = pin
    /\ debouncing = FALSE
    /\ changeTime = 0
    /\ ticks \in Ticks
    /\ polled = TRUE
    /\ age = DebounceTime

DebounceNext == IoProcess \/ Tick

DebounceSpec == DebounceInit /\ [][DebounceNext]_debounceVars

DebounceFairSpec == DebounceSpec /\ WF_debounceVars(Tick) /\ WF_debounceVars(IoProcess)

-----------------------------------------------------------------------------
(* Properties                                                              *)

DebounceTypeOK ==
    /\ pin \in Levels /\ stable \in Levels
    /\ debouncing \in BOOLEAN
    /\ changeTime \in Ticks /\ ticks \in Ticks
    /\ polled \in BOOLEAN
    /\ age \in 0 .. DebounceTime

\* No edge is told before the line has kept its new level, in every round, for
\* the debounce time, wherever in its range the tick counter is.
HeldLongEnough == [][stable' # stable => debouncing /\ age = DebounceTime]_debounceVars

\* The counter wraps within the debounce time: no later value of it is
\* DebounceTime or more above changeTime.
DeafEdge == changeTime + DebounceTime >= TickSize

\* Every other edge is told by the round in which its time is up; an edge shortly
\* before the wrap may never be told, however long the line is held.
ToldInTime == polled /\ debouncing /\ age = DebounceTime => DeafEdge

\* The debouncer implements the abstract line.
Line == INSTANCE InputLine WITH Levels <- Levels, pin <- pin, stable <- stable
ImplementsLine == Line!Spec

=============================================================================
