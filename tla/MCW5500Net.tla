----------------------------- MODULE MCW5500Net -----------------------------
(* W5500Net with one static and two leased addresses (a lease may change)    *)
(* and one restart, which may come in any state.                             *)
EXTENDS W5500Net
=============================================================================
