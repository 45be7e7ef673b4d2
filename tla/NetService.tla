----------------------------- MODULE NetService -----------------------------
(***************************************************************************)
(* What the Ethernet side promises to VXI-11 clients and to mDNS: the      *)
(* instrument is unreachable, or reachable under one address. The address  *)
(* is one the user configured, or one a DHCP server offered since the      *)
(* instrument was last reachable, and it stays the same until the          *)
(* instrument becomes unreachable again.                                   *)
(***************************************************************************)
CONSTANTS
    Down,   \* the value of service while the instrument is unreachable
    IP      \* addresses

VARIABLES
    service,      \* Down or [lease, ip]
    configured,   \* addresses the user configured
    offered       \* addresses offered since the instrument was last reachable

svars == <<service, configured, offered>>

Init == service = Down /\ configured \in SUBSET IP /\ offered = {}

Configure(a) == configured' = configured \cup {a} /\ UNCHANGED <<service, offered>>

Offer(a) == offered' = offered \cup {a} /\ UNCHANGED <<service, configured>>

Start(lease, a) ==
    /\ service = Down
    /\ a \in IF lease THEN offered ELSE configured
    /\ service' = [lease |-> lease, ip |-> a]
    /\ UNCHANGED <<configured, offered>>

\* Also a restart that begins while the instrument is unreachable.
Stop == service' = Down /\ offered' = {} /\ UNCHANGED configured

Next ==
    \/ \E a \in IP : Configure(a) \/ Offer(a)
    \/ \E lease \in BOOLEAN, a \in IP : Start(lease, a)
    \/ Stop

Spec == Init /\ [][Next]_svars
=============================================================================
