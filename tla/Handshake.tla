------------------------------ MODULE Handshake ------------------------------
(***************************************************************************)
(* What a session promises to the rest of the server: the server offers a  *)
(* key, the endpoint is told it, and only an endpoint that was told the    *)
(* key in force opens the session and registers providers in it.  A new    *)
(* offer or the end of the session removes them all.                       *)
(***************************************************************************)
EXTENDS Sequences

CONSTANTS
    Keys,      \* the keys the server may offer, none of them 0
    Types,     \* the types of providers
    FreshKeys  \* a key that is offered was told to nobody before

VARIABLES
    offered,    \* the key in force, 0 for none
    told,       \* the endpoint was told it, and has not forgotten it unheard
    open,       \* the server has heard that key from the endpoint
    registered  \* the types of the providers it has registered since

vars == <<offered, told, open, registered>>

Init ==
    /\ offered = 0 /\ registered = <<>>
    /\ told = FALSE /\ open = FALSE

\* A new key takes the place of the old one, with or without an open session.
\* An endpoint that was told the same key before cannot be told apart.
Offer ==
    /\ offered' \in Keys
    /\ told' \in BOOLEAN /\ (FreshKeys => ~told')
    /\ open' = FALSE
    /\ registered' = <<>>

Tell ==
    /\ offered # 0
    /\ told' = TRUE
    /\ UNCHANGED <<offered, open, registered>>

\* The endpoint forgets the key, or takes an older one, before it was heard.
Forget ==
    /\ ~open
    /\ told' = FALSE
    /\ UNCHANGED <<offered, open, registered>>

\* The key is heard, for the first time or again, perhaps with a registration.
Accept ==
    /\ offered # 0 /\ told
    /\ open' = TRUE
    /\ \/ UNCHANGED registered
       \/ \E t \in Types : registered' = Append(registered, t)
    /\ UNCHANGED <<offered, told>>

End ==
    /\ offered' = 0 /\ registered' = <<>>
    /\ told' = FALSE /\ open' = FALSE

Next == Offer \/ Tell \/ Forget \/ Accept \/ End

Spec == Init /\ [][Next]_vars

=============================================================================
