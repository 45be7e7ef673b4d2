---------------------------- MODULE ReplyChannel ----------------------------
(***************************************************************************)
(* What an instrument promises a host that asks it something: the units of *)
(* the answer to the host's latest query are sent in order, each once, and *)
(* the last of them, and no other, ends the transfer. An answer may be     *)
(* lost, and the host has to ask again.                                    *)
(*                                                                         *)
(* The channel is not private. Another host may ask something as well, and *)
(* the answer to that is written into what is to be sent here, which the   *)
(* host cannot see. The promise is what remains then: nothing else changes *)
(* an answer; what was sent stands; an answer that has not begun stays     *)
(* whole and comes first; one that has begun keeps its length, and what is *)
(* strange in it is part of an answer to the other.                        *)
(***************************************************************************)
EXTENDS Naturals, Sequences

CONSTANTS
    Query,    \* what a host may ask
    Answer    \* Answer[q]: the units of the answer to q

VARIABLES
    owed,     \* the query whose answer the host has coming, or "none"
    text,     \* the units that are sent as the answer
    sent,     \* how many of them were sent
    ended,    \* the last of them was sent, and ends the transfer
    mixed     \* another host was answered since the query

cvars == <<owed, text, sent, ended, mixed>>

Init ==
    /\ owed = "none"
    /\ text = <<>>
    /\ sent = 0
    /\ ended = FALSE
    /\ mixed = FALSE

\* The host asks, before the answer to an earlier query has begun.
Ask(q) ==
    /\ sent = 0
    /\ owed' = q
    /\ text' = Answer[q]
    /\ mixed' = FALSE
    /\ UNCHANGED <<sent, ended>>

\* The units of a, written over the text from position n + 1 on where it is not
\* sent yet.
Overlaid(a, n) ==
    [i \in 1..Len(text) |-> IF i > sent /\ i - n \in 1..Len(a) THEN a[i - n] ELSE text[i]]

\* Another host is answered: behind what waits here, unless there is no room; over
\* what is being sent.
Interfere(q) ==
    /\ owed # "none"
    /\ IF sent = 0 THEN text' \in {text, text \o Answer[q]}
       ELSE \E n \in 0..Len(text) : text' = Overlaid(Answer[q], n)
    /\ mixed' = TRUE
    /\ UNCHANGED <<owed, sent, ended>>

\* The next unit is sent.
Send ==
    /\ owed # "none" /\ ~ended
    /\ sent' = sent + 1
    /\ ended' = (sent + 1 = Len(text))
    /\ UNCHANGED <<owed, text, mixed>>

\* The host has taken all of it, or the rest is lost.
Forget ==
    /\ owed # "none"
    /\ owed' = "none"
    /\ text' = <<>>
    /\ sent' = 0
    /\ ended' = FALSE
    /\ mixed' = FALSE

Next == Send \/ Forget \/ \E q \in Query : Ask(q) \/ Interfere(q)

Spec == Init /\ [][Next]_cvars
=============================================================================
