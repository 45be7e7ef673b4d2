------------------------------ MODULE NvStore ------------------------------
(***************************************************************************)
(* What a storage backend promises the rest of the firmware: a load finds  *)
(* the value of the last acknowledged save or, if a save was begun since   *)
(* and not finished, perhaps the value of that one; until the medium has   *)
(* met more trouble than the backend is built to survive, and again after  *)
(* the next acknowledged save.                                             *)
(*                                                                         *)
(* The FRAM and the flash backends differ in what spoils a record: a       *)
(* second fault (NvFram), or a single cut or failed write (NvFlash).       *)
(***************************************************************************)
CONSTANTS
    Record,    \* the records a backend stores
    Value,     \* Value[r]: contents of record r
    Default    \* Default[r]: its content on a new board, and in RAM before a load

VARIABLES
    on,        \* the instrument is powered
    inuse,     \* inuse[r]: the value the firmware works with
    commanded, \* a command has changed a value since the last load
    found,     \* found[r]: the values a load may find
    spoilt     \* spoilt[r]: a load may find anything

svars == <<on, inuse, commanded, found, spoilt>>

Init ==
    /\ on = FALSE
    /\ inuse = Default
    /\ commanded = FALSE
    /\ found = [r \in Record |-> {Default[r]}]
    /\ spoilt = [r \in Record |-> FALSE]

\* The records rs are loaded, at power-up or later. A read may be what spoils a record.
Load(rs) ==
    /\ on' = TRUE
    /\ commanded' = FALSE
    /\ \A r \in Record \ rs : inuse'[r] = inuse[r] /\ spoilt'[r] = spoilt[r]
    /\ \A r \in rs : spoilt[r] => spoilt'[r]
    /\ \A r \in rs : inuse'[r] \in found[r] \/ spoilt'[r]
    /\ UNCHANGED found

\* A command changes a value in RAM; nothing is stored.
Set(r) ==
    /\ on
    /\ commanded' = TRUE
    /\ \A s \in Record \ {r} : inuse'[s] = inuse[s]
    /\ inuse'[r] \in Value[r]
    /\ UNCHANGED <<on, found, spoilt>>

\* A save begins: from now on its value may be found.
Begin(rs) ==
    /\ on
    /\ UNCHANGED <<on, inuse, commanded, spoilt>>
    /\ found' = [r \in Record |-> IF r \in rs THEN found[r] \cup {inuse[r]} ELSE found[r]]

\* A write is complete: its value, one that was to be saved or that was loaded,
\* is now the only one a load can find.
Commit(r) ==
    /\ on
    /\ UNCHANGED <<on, inuse, commanded>>
    /\ spoilt' = [spoilt EXCEPT ![r] = FALSE]
    /\ inuse[r] \in found[r] \/ spoilt[r]
    /\ found' = [found EXCEPT ![r] = {inuse[r]}]

\* The medium of at most one record meets more trouble than it survives.
Spoils ==
    \/ UNCHANGED <<found, spoilt>>
    \/ \E r \in Record :
          /\ spoilt' = [spoilt EXCEPT ![r] = TRUE]
          /\ found'[r] \subseteq found[r]
          /\ \A s \in Record \ {r} : found'[s] = found[s]

\* A write fails.
Fail == on /\ UNCHANGED <<on, inuse, commanded>> /\ Spoils

\* The power fails, perhaps in the middle of a write.
PowerCut ==
    /\ on
    /\ on' = FALSE
    /\ inuse' = Default
    /\ commanded' = FALSE
    /\ Spoils

Next ==
    \/ Fail \/ PowerCut
    \/ \E r \in Record : Set(r) \/ Commit(r)
    \/ \E rs \in SUBSET Record : Load(rs) \/ Begin(rs)

Spec == Init /\ [][Next]_svars
=============================================================================
