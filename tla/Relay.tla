-------------------------------- MODULE Relay --------------------------------
(***************************************************************************)
(* What the Wi-Fi board of an expander8 and the main board promise for the *)
(* datagrams the former takes from the network: they reach the endpoint    *)
(* library in the order of their arrival, and none is lost but to a damage *)
(* (a frame garbled on the line, a board that starts anew).                *)
(*                                                                         *)
(* There is a place that keeps what was received last, and what it keeps   *)
(* may be handed on at any time: the latest datagram once more, one whose  *)
(* frame was damaged for the first time, or noise.  It keeps noise before  *)
(* the first datagram and after a damage only.  As datagrams are numbered  *)
(* in the order of their arrival, a queue of them is the set of their      *)
(* numbers.                                                                *)
(***************************************************************************)
EXTENDS Integers

CONSTANT Numbers  \* the numbers of the datagrams, from 1

VARIABLES
    waiting,  \* numbers of the datagrams that are taken and not passed on
    passed,   \* number of the latest one passed on
    kept,     \* number of the one in the place, 0: nothing but noise
    noise,    \* something that is no datagram was passed on
    damages   \* how many there have been

vars == <<waiting, passed, kept, noise, damages>>

\* A later datagram than all before it.
Accept ==
    /\ \E d \in Numbers :
        /\ d > passed /\ d > kept /\ \A w \in waiting : d > w
        /\ waiting' = waiting \cup {d}
    /\ UNCHANGED <<passed, kept, noise, damages>>

\* The oldest one.
PassOn ==
    /\ \E d \in waiting :
        /\ \A w \in waiting : d <= w
        /\ waiting' = waiting \ {d}
        /\ passed' = d /\ kept' = d
    /\ UNCHANGED <<noise, damages>>

\* What is kept, whatever it is.
PassKept ==
    /\ IF kept = 0
       THEN noise' = TRUE /\ UNCHANGED passed
       ELSE passed' = kept /\ UNCHANGED noise
    /\ UNCHANGED <<waiting, kept, damages>>

\* Some of the oldest are lost, and one of them may be kept; or all are.
Damage ==
    /\ damages' = damages + 1
    /\ waiting' \in SUBSET waiting
    /\ kept' \in {kept, 0} \cup {d \in waiting : \A w \in waiting' : d < w}
    /\ UNCHANGED <<passed, noise>>

Init == waiting = {} /\ passed = 0 /\ kept = 0 /\ noise = FALSE /\ damages = 0

Next == Accept \/ PassOn \/ PassKept \/ Damage

Spec == Init /\ [][Next]_vars

=============================================================================
