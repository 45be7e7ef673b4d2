--------------------------- MODULE W5500NetProofs ---------------------------
(***************************************************************************)
(* Proofs about W5500Net, for every set of addresses and any number of     *)
(* restarts: its types, the state of the server sockets, the agreement on  *)
(* one address, and that it implements NetService. Fairness is not used.   *)
(***************************************************************************)
EXTENDS W5500Net, TLAPS

-----------------------------------------------------------------------------
(* The DHCP client.                                                        *)

\* A tick keeps the DHCP client's state in its type and changes only `late`.
LEMMA TickedType ==
    ASSUME NEW e \in DhcpState, NEW d \in Ticked(e)
    PROVE  /\ d \in DhcpState
           /\ d.state = e.state /\ d.allocated = e.allocated /\ d.old = e.old
BY DEF Ticked, DhcpState

\* Resetting the timeout keeps the DHCP client's state in its type.
LEMMA ResetType ==
    ASSUME NEW d \in DhcpState
    PROVE  reset_DHCP_timeout(d) \in DhcpState
<1>0. /\ d.state \in {"INIT", "DISCOVER", "REQUEST", "LEASED", "REREQUEST"}
      /\ d.allocated \in IP /\ d.old \in IP /\ d.retry \in 0..2 /\ d.late \in BOOLEAN
      /\ d = [state |-> d.state, allocated |-> d.allocated, old |-> d.old,
              retry |-> d.retry, late |-> d.late]
  BY DEF DhcpState, MAX_DHCP_RETRY
<1>1. reset_DHCP_timeout(d) = [state |-> d.state, allocated |-> d.allocated, old |-> d.old,
                               retry |-> 0, late |-> FALSE]
  <2> DEFINE f == [d EXCEPT !.retry = 0]
  <2>1. f = [state |-> d.state, allocated |-> d.allocated, old |-> d.old,
             retry |-> 0, late |-> d.late]
    BY <1>0
  <2>2. reset_DHCP_timeout(d) = [f EXCEPT !.late = FALSE]
    BY DEF reset_DHCP_timeout
  <2> HIDE DEF f
  <2> QED
    BY <2>1, <2>2
<1> QED
  BY <1>0, <1>1 DEF DhcpState, MAX_DHCP_RETRY

\* DHCP_run keeps the DHCP client's state in its type.
LEMMA DhcpRunType ==
    ASSUME NEW d \in DhcpState, NEW type \in Replies, NEW ip \in LeaseIP
    PROVE  DHCP_run(d, type, ip) \in DhcpState
<1>0. /\ d.state \in {"INIT", "DISCOVER", "REQUEST", "LEASED", "REREQUEST"}
      /\ d.allocated \in IP /\ d.old \in IP /\ d.retry \in 0..2 /\ d.late \in BOOLEAN
      /\ d = [state |-> d.state, allocated |-> d.allocated, old |-> d.old,
              retry |-> d.retry, late |-> d.late]
  BY DEF DhcpState, MAX_DHCP_RETRY
<1>1. reset_DHCP_timeout(d) \in DhcpState
  BY ResetType
<1>2. check_DHCP_timeout(d) \in DhcpState
  <2>1. CASE d.retry < 2 /\ d.late
    <3>1. check_DHCP_timeout(d) =
             [state |-> d.state, allocated |-> d.allocated, old |-> d.old,
              retry |-> d.retry + 1, late |-> FALSE]
      BY <1>0, <2>1 DEF check_DHCP_timeout, MAX_DHCP_RETRY
    <3> QED
      BY <1>0, <2>1, <3>1 DEF DhcpState, MAX_DHCP_RETRY
  <2>2. CASE d.retry < 2 /\ ~d.late
    BY <2>2 DEF check_DHCP_timeout, MAX_DHCP_RETRY
  <2>3. CASE ~(d.retry < 2)
    BY <1>1, <2>3 DEF check_DHCP_timeout, DhcpState, MAX_DHCP_RETRY
  <2> QED
    BY <2>1, <2>2, <2>3
<1>3. ip \in IP /\ ZERO \in IP
  BY DEF IP
<1> QED
  BY <1>1, <1>2, <1>3 DEF DHCP_run, DhcpState

\* What DHCP_run does to the parts of its state the address depends on.
LEMMA DhcpRunAddress ==
    ASSUME NEW d \in DhcpState, NEW type \in Replies, NEW ip \in LeaseIP,
           d.state = "REREQUEST" => d.old = d.allocated
    PROVE  LET e == DHCP_run(d, type, ip)
           IN  /\ e.state = "REREQUEST" => e.old = e.allocated
               /\ Assigned(d, type) => e.allocated = d.allocated
               /\ e.state = "REQUEST" =>
                     \/ d.state = "REQUEST" /\ e.allocated = d.allocated
                     \/ e.allocated \in Taken(d, type, ip)
<1> DEFINE e == DHCP_run(d, type, ip)
<1>1. CASE d.state = "INIT"
  BY <1>1 DEF DHCP_run, DhcpState, Assigned
<1>2. CASE d.state = "DISCOVER"
  BY <1>2 DEF DHCP_run, DhcpState, Assigned, Taken, check_DHCP_timeout, reset_DHCP_timeout
<1>3. CASE d.state = "REQUEST"
  BY <1>3 DEF DHCP_run, DhcpState, Assigned, Taken, check_DHCP_timeout, reset_DHCP_timeout
<1>4. CASE d.state = "LEASED"
  BY <1>4 DEF DHCP_run, DhcpState, Assigned, reset_DHCP_timeout
<1>5. CASE d.state = "REREQUEST"
  BY <1>5 DEF DHCP_run, DhcpState, Assigned, check_DHCP_timeout, reset_DHCP_timeout
<1> QED
  BY <1>1, <1>2, <1>3, <1>4, <1>5 DEF DhcpState

-----------------------------------------------------------------------------
(* Types.                                                                  *)

\* The variables the DHCP client changes keep their types.
LEMMA RunDhcpType ==
    ASSUME TypeOK, NEW d \in Ticked(dhcp), NEW type \in Replies, NEW ip \in LeaseIP,
           NEW inuse \in BOOLEAN, RunDhcp(d, type, ip, inuse)
    PROVE  dhcp' \in DhcpState /\ dhcp_done' \in BOOLEAN /\ spinning' \in BOOLEAN
<1>1. d \in DhcpState
  BY TickedType DEF TypeOK
<1>2. DHCP_run(d, type, ip) \in DhcpState
  BY <1>1, DhcpRunType
<1>3. Assigned(d, type) \in BOOLEAN /\ Updated(d, type) \in BOOLEAN
  BY DEF Assigned, Updated
<1> QED
  BY <1>1, <1>2, <1>3 DEF RunDhcp, TypeOK

\* An offer the client takes up is a lease address.
LEMMA TakenType ==
    ASSUME NEW d, NEW type, NEW ip \in LeaseIP
    PROVE  Taken(d, type, ip) \in SUBSET LeaseIP
BY DEF Taken

\* Every step keeps the variables in their types.
LEMMA TypeStep == TypeOK /\ [Next]_vars => TypeOK'
<1> SUFFICES ASSUME TypeOK, [Next]_vars PROVE TypeOK'
  OBVIOUS
<1>t. /\ "RESET_ASSERT" \in States /\ "RESET_DEASSERT" \in States /\ "BOOT_WAIT" \in States
      /\ "CHECK_CHIP" \in States /\ "CHIP_INIT" \in States /\ "WAIT_LINK" \in States
      /\ "LINK_SETTLE" \in States /\ "DHCP_START" \in States /\ "DHCP_RUN" \in States
      /\ "APPLY_IP" \in States /\ "OPEN_SOCKETS" \in States /\ "RUNNING" \in States
      /\ "LINK_DOWN" \in States /\ "ERROR" \in States
  BY DEF States
<1>i. /\ ZERO \in IP /\ cfg.ip \in IP /\ dhcp.allocated \in IP
      /\ ZERO \in ChipIP
      /\ \A ip \in IP : ip \in ChipIP /\ Transferred(ip) \in ChipIP
      /\ Transferred(sipr) \in ChipIP
  BY DEF TypeOK, IP, ChipIP, DhcpState, Transferred
<1>1. CASE RESET_ASSERT
  BY <1>1, <1>t, <1>i DEF RESET_ASSERT, TypeOK, enter_state, unmoved, dhcpvars, servervars, env
<1>2. CASE RESET_DEASSERT
  <2>1. state' \in States /\ due' \in BOOLEAN
    BY <1>2, <1>t DEF RESET_DEASSERT, enter_state
  <2> QED
    BY <1>2, <2>1 DEF RESET_DEASSERT, TypeOK, unmoved, dhcpvars, servervars, env
<1>3. CASE CHECK_CHIP
  BY <1>3, <1>t DEF CHECK_CHIP, TypeOK, enter_state, unmoved, dhcpvars, servervars, env
<1>4. CASE CHIP_INIT
  BY <1>4, <1>t, <1>i DEF CHIP_INIT, TypeOK, enter_state, unmoved, dhcpvars, servervars, env
<1>5. CASE WAIT_LINK
  BY <1>5, <1>t DEF WAIT_LINK, TypeOK, enter_state, unmoved, dhcpvars, servervars, env
<1>6. CASE LINK_SETTLE
  BY <1>6, <1>t DEF LINK_SETTLE, TypeOK, enter_state, unmoved, servervars, env
<1>7. CASE DHCP_START
  <2>1. DHCP_init(dhcp) \in DhcpState
    BY ResetType DEF DHCP_init, DhcpState, TypeOK
  <2> QED
    BY <1>7, <2>1, <1>t, <1>i DEF DHCP_START, TypeOK, enter_state, unmoved, servervars, env
<1>8. CASE DHCP_RUN
  <2>1. PICK polled \in BOOLEAN : Acquire(polled)
    BY <1>8 DEF DHCP_RUN
  <2>2. PICK d \in Ticked(dhcp) :
           IF polled
           THEN \E type \in Replies, ip \in LeaseIP, inuse \in BOOLEAN :
                   /\ RunDhcp(d, type, ip, inuse)
                   /\ offered' = offered \cup Taken(d, type, ip)
           ELSE dhcp' = d /\ UNCHANGED <<dhcp_done, spinning, offered>>
    BY <2>1 DEF Acquire
  <2>3. /\ dhcp' \in DhcpState /\ dhcp_done' \in BOOLEAN /\ spinning' \in BOOLEAN
        /\ offered' \in SUBSET LeaseIP
    <3>1. CASE polled
      <4>1. PICK type \in Replies, ip \in LeaseIP, inuse \in BOOLEAN :
               /\ RunDhcp(d, type, ip, inuse)
               /\ offered' = offered \cup Taken(d, type, ip)
        BY <3>1, <2>2
      <4>2. offered' \in SUBSET LeaseIP
        BY <4>1, TakenType DEF TypeOK
      <4> QED
        BY <4>1, <4>2, RunDhcpType
    <3>2. CASE ~polled
      BY <3>2, <2>2, TickedType DEF TypeOK
    <3> QED
      BY <3>1, <3>2
  <2>4. /\ UNCHANGED <<unmoved, chk_due, link_miss, net_ip, sipr, dhcp_acquired, servervars>>
        /\ state' \in States /\ due' \in BOOLEAN
    BY <1>8, <2>1, <1>t DEF Acquire, DHCP_RUN, enter_state, TypeOK
  <2> QED
    BY <2>3, <2>4 DEF TypeOK, unmoved, servervars, env
<1>9. CASE APPLY_IP
  BY <1>9, <1>t, <1>i DEF APPLY_IP, TypeOK, enter_state, unmoved, servervars, env
<1>10. CASE OPEN_SOCKETS
  BY <1>10, <1>t, <1>i DEF OPEN_SOCKETS, vxi11_server_init, TypeOK, enter_state, unmoved, dhcpvars, env
<1>11. CASE RUNNING
  <2>1. PICK d \in Ticked(dhcp), type \in Replies, ip \in LeaseIP, inuse \in BOOLEAN :
           /\ Renew(d, type, ip, inuse)
           /\ IF spinning' THEN UNCHANGED <<state, due, chk_due, link_miss, servervars>>
                           ELSE \E on \in LinkSeen : CheckLink(on)
           /\ offered' = IF state' = "LINK_DOWN" THEN {}
                         ELSE IF dhcp_acquired THEN offered \cup Taken(d, type, ip) ELSE offered
    BY <1>11 DEF RUNNING
  <2>2. /\ dhcp' \in DhcpState /\ dhcp_done' \in BOOLEAN /\ spinning' \in BOOLEAN
        /\ net_ip' \in IP /\ sipr' \in ChipIP
    <3>1. CASE dhcp_acquired
      <4>1. dhcp' \in DhcpState /\ dhcp_done' \in BOOLEAN /\ spinning' \in BOOLEAN
        BY <3>1, <2>1, RunDhcpType DEF Renew
      <4>2. dhcp'.allocated \in IP
        BY <4>1 DEF DhcpState
      <4> QED
        BY <3>1, <2>1, <4>1, <4>2, <1>i DEF Renew, TypeOK
    <3>2. CASE ~dhcp_acquired
      BY <3>2, <2>1 DEF Renew, TypeOK
    <3> QED
      BY <3>1, <3>2
  <2>3. offered' \in SUBSET LeaseIP
    BY <2>1, TakenType DEF TypeOK
  <2>4. /\ state' \in States /\ due' \in BOOLEAN /\ chk_due' \in BOOLEAN /\ link_miss' \in 0..2
        /\ servers' \in BOOLEAN /\ mdns_ip' \in ChipIP
    <3>1. CASE UNCHANGED <<state, due, chk_due, link_miss, servervars>>
      BY <3>1 DEF servervars, TypeOK
    <3>2. CASE \E on \in LinkSeen : CheckLink(on)
      <4>0. PICK on \in LinkSeen : CheckLink(on)
        BY <3>2
      <4>1. link_miss' \in 0..2
        BY <4>0, SMT DEF CheckLink, TypeOK
      <4>2. /\ state' \in States /\ due' \in BOOLEAN /\ chk_due' \in BOOLEAN
            /\ servers' \in BOOLEAN /\ mdns_ip' \in ChipIP
        BY <4>0, <1>t, <1>i, Zenon DEF CheckLink, vxi11_server_close, enter_state, servervars, TypeOK
      <4> QED
        BY <4>1, <4>2
    <3> QED
      BY <2>1, <3>1, <3>2
  <2> QED
    BY <1>11, <2>2, <2>3, <2>4 DEF RUNNING, TypeOK, unmoved, env
<1>12. CASE ERROR
  BY <1>12, <1>t DEF ERROR, TypeOK, enter_state, unmoved, dhcpvars, servervars, env
<1>13. CASE w5500_net_restart
  <2>1. restarts' \in 0..MaxRestarts
    BY <1>13, MaxRestartsAssumption, SMT DEF w5500_net_restart, TypeOK
  <2> QED
    BY <1>13, <2>1, <1>t, <1>i DEF w5500_net_restart, vxi11_server_close, TypeOK, enter_state, env
<1>14. CASE \E c \in [ip : StaticIP, use_dhcp : BOOLEAN] : NetSet(c)
  BY <1>14 DEF NetSet, TypeOK, env, timing, servervars
<1>15. CASE Environment
  <2>1. link' \in BOOLEAN /\ chip' \in BOOLEAN
    BY <1>15, Zenon DEF Environment, TypeOK
  <2> QED
    BY <1>15, <2>1 DEF Environment, TypeOK, timing, dhcpvars, servervars
<1>16. CASE elapsed
  BY <1>16 DEF elapsed, TypeOK, env, dhcpvars, servervars
<1>17. CASE chk_elapsed
  BY <1>17 DEF chk_elapsed, TypeOK, env, dhcpvars, servervars
<1>18. CASE UNCHANGED vars
  BY <1>18 DEF vars, TypeOK, env, timing, history
<1>19. CASE Hang
  BY <1>19 DEF Hang, TypeOK, env, timing, dhcpvars, servervars
<1> QED
  BY <1>1, <1>2, <1>3, <1>4, <1>5, <1>6, <1>7, <1>8, <1>9, <1>10, <1>11, <1>12, <1>13,
     <1>14, <1>15, <1>16, <1>17, <1>18, <1>19 DEF Next, w5500_net_task

\* Type correctness of the Ethernet state machine with its DHCP client.
THEOREM TypeCorrect == Spec => []TypeOK
<1>1. Init => TypeOK
  <2> SUFFICES ASSUME Init PROVE TypeOK
    OBVIOUS
  <2>1. ZERO \in IP /\ ZERO \in ChipIP /\ net_ip \in IP /\ cfg.ip \in StaticIP
    BY DEF Init, IP, ChipIP
  <2>2. dhcp \in DhcpState
    BY <2>1 DEF Init, DhcpState, MAX_DHCP_RETRY
  <2>3. restarts \in 0..MaxRestarts /\ link_miss \in 0..2
    BY MaxRestartsAssumption, SMT DEF Init
  <2> QED
    BY <2>1, <2>2, <2>3 DEF Init, TypeOK, States
<1> QED
  BY <1>1, TypeStep, PTL DEF Spec

-----------------------------------------------------------------------------
(* The server sockets.                                                     *)

\* No step opens or closes the sockets without entering or leaving RUNNING.
LEMMA ServersStep == TypeOK /\ ServersWhileRunning /\ [Next]_vars => ServersWhileRunning'
<1> SUFFICES ASSUME TypeOK, ServersWhileRunning, [Next]_vars PROVE ServersWhileRunning'
  OBVIOUS
<1> USE DEF ServersWhileRunning
<1>1. CASE RESET_ASSERT \/ RESET_DEASSERT \/ CHECK_CHIP \/ CHIP_INIT \/ WAIT_LINK \/ ERROR
  BY <1>1 DEF RESET_ASSERT, RESET_DEASSERT, CHECK_CHIP, CHIP_INIT, WAIT_LINK, ERROR, Case,
              enter_state, servervars
<1>2. CASE LINK_SETTLE \/ DHCP_START \/ APPLY_IP
  BY <1>2 DEF LINK_SETTLE, DHCP_START, APPLY_IP, Case, enter_state, servervars
<1>3. CASE DHCP_RUN
  BY <1>3 DEF DHCP_RUN, Acquire, Case, enter_state, servervars
<1>4. CASE OPEN_SOCKETS \/ w5500_net_restart
  BY <1>4 DEF OPEN_SOCKETS, w5500_net_restart, vxi11_server_init, vxi11_server_close, enter_state
<1>5. CASE RUNNING
  <2>1. \/ UNCHANGED <<state, due, chk_due, link_miss, servervars>>
        \/ \E on \in LinkSeen : CheckLink(on)
    BY <1>5 DEF RUNNING
  <2> QED
    BY <1>5, <2>1 DEF RUNNING, Case, CheckLink, vxi11_server_close, enter_state, servervars
<1>6. CASE \E c \in [ip : StaticIP, use_dhcp : BOOLEAN] : NetSet(c)
  BY <1>6 DEF NetSet, servervars
<1>7. CASE Hang \/ Environment \/ elapsed \/ chk_elapsed
  BY <1>7 DEF Hang, Environment, elapsed, chk_elapsed, servervars
<1>8. CASE UNCHANGED vars
  BY <1>8 DEF vars
<1> QED
  BY <1>1, <1>2, <1>3, <1>4, <1>5, <1>6, <1>7, <1>8 DEF Next, w5500_net_task

\* The VXI-11 and mDNS sockets are open exactly in the state RUNNING.
THEOREM ServersCorrect == Spec => []ServersWhileRunning
<1>1. Init => ServersWhileRunning
  BY DEF Init, ServersWhileRunning
<1> QED
  BY <1>1, ServersStep, TypeCorrect, PTL DEF Spec

-----------------------------------------------------------------------------
(* One address.                                                            *)

\* A call of the DHCP client never reports a changed address, and what it
\* requests or is assigned has been offered.
LEMMA RunDhcpAddress ==
    ASSUME TypeOK, AddressInv, NEW d \in Ticked(dhcp), NEW type \in Replies,
           NEW ip \in LeaseIP, NEW inuse \in BOOLEAN, RunDhcp(d, type, ip, inuse)
    PROVE  /\ ~NewAddress(d, type)
           /\ dhcp'.state = "REREQUEST" => dhcp'.old = dhcp'.allocated
           /\ dhcp'.state = "REQUEST" =>
                 \/ dhcp.state = "REQUEST" /\ dhcp'.allocated = dhcp.allocated
                 \/ dhcp'.allocated \in Taken(d, type, ip)
           /\ dhcp_done' /\ ~dhcp_done =>
                 dhcp.state = "REQUEST" /\ dhcp'.allocated = dhcp.allocated
<1>1. /\ d \in DhcpState
      /\ d.state = dhcp.state /\ d.allocated = dhcp.allocated /\ d.old = dhcp.old
  BY TickedType DEF TypeOK
<1>2. d.state = "REREQUEST" => d.old = d.allocated
  BY <1>1 DEF AddressInv
<1>3. ~NewAddress(d, type) /\ ~Updated(d, type)
  BY <1>2 DEF NewAddress, Updated
<1>4. CASE Assigned(d, type) /\ inuse
  BY <1>1, <1>2, <1>3, <1>4 DEF RunDhcp, Assigned
<1>5. CASE ~(Assigned(d, type) /\ inuse)
  <2>1. /\ dhcp' = DHCP_run(d, type, ip)
        /\ dhcp_done' = (dhcp_done \/ Assigned(d, type))
    BY <1>3, <1>5 DEF RunDhcp
  <2>2. Assigned(d, type) => d.state = "REQUEST"
    BY DEF Assigned
  <2> QED
    BY <1>1, <1>2, <1>3, <2>1, <2>2, DhcpRunAddress
<1> QED
  BY <1>4, <1>5

\* Every step keeps the address invariant.
LEMMA AddressStep == TypeOK /\ AddressInv /\ [Next]_vars => AddressInv'
<1> SUFFICES ASSUME TypeOK, AddressInv, [Next]_vars PROVE AddressInv'
  OBVIOUS
<1>z. /\ \A a \in configured : a # ZERO
      /\ \A a \in offered : a # ZERO
  BY AddressAssumption DEF TypeOK
<1> USE DEF AddressInv, OneAddress
<1>1. CASE RESET_ASSERT \/ RESET_DEASSERT \/ CHECK_CHIP \/ CHIP_INIT \/ WAIT_LINK \/ ERROR
  BY <1>1 DEF RESET_ASSERT, RESET_DEASSERT, CHECK_CHIP, CHIP_INIT, WAIT_LINK, ERROR, Case,
              enter_state, unmoved, dhcpvars
<1>2. CASE LINK_SETTLE
  BY <1>2 DEF LINK_SETTLE, Case, enter_state, unmoved
<1>3. CASE DHCP_START
  <2>1. dhcp'.state = "INIT"
    BY <1>3, ResetType DEF DHCP_START, DHCP_init, TypeOK, DhcpState
  <2> QED
    BY <1>3, <2>1 DEF DHCP_START, Case, enter_state, unmoved
<1>4. CASE DHCP_RUN
  <2>1. PICK polled \in BOOLEAN : Acquire(polled)
    BY <1>4 DEF DHCP_RUN
  <2>2. PICK d \in Ticked(dhcp) :
           IF polled
           THEN \E type \in Replies, ip \in LeaseIP, inuse \in BOOLEAN :
                   /\ RunDhcp(d, type, ip, inuse)
                   /\ offered' = offered \cup Taken(d, type, ip)
           ELSE dhcp' = d /\ UNCHANGED <<dhcp_done, spinning, offered>>
    BY <2>1 DEF Acquire
  <2>3. /\ dhcp'.state = "REREQUEST" => dhcp'.old = dhcp'.allocated
        /\ dhcp'.state = "REQUEST" => dhcp'.allocated \in offered'
        /\ dhcp_done' => dhcp'.allocated \in offered'
    <3>1. state = "DHCP_RUN" /\ ~dhcp_done
      BY <1>4 DEF DHCP_RUN, Case
    <3>2. CASE polled
      <4>1. PICK type \in Replies, ip \in LeaseIP, inuse \in BOOLEAN :
               /\ RunDhcp(d, type, ip, inuse)
               /\ offered' = offered \cup Taken(d, type, ip)
        BY <3>2, <2>2
      <4> QED
        BY <3>1, <4>1, RunDhcpAddress
    <3>3. CASE ~polled
      BY <3>1, <3>3, <2>2, TickedType DEF TypeOK
    <3> QED
      BY <3>2, <3>3
  <2>4. /\ cfg' = cfg /\ configured' = configured
        /\ \/ state' = "APPLY_IP"
           \/ state' = "DHCP_RUN" /\ ~dhcp_done'
    <3>1. cfg' = cfg /\ configured' = configured
      BY <2>1 DEF Acquire, unmoved
    <3>2. CASE ~spinning' /\ (dhcp_done' \/ due)
      BY <3>1, <3>2, <1>4 DEF DHCP_RUN, enter_state
    <3>3. CASE ~(~spinning' /\ (dhcp_done' \/ due))
      <4>1. state' = "DHCP_RUN"
        BY <1>4, <3>3 DEF DHCP_RUN, Case
      <4>2. ~dhcp_done /\ ~spinning
        BY <1>4 DEF DHCP_RUN, Case, Turning
      <4>3. spinning' => dhcp_done' = dhcp_done
        BY <2>2, <4>2 DEF RunDhcp
      <4> QED
        BY <3>1, <3>3, <4>1, <4>2, <4>3
    <3> QED
      BY <3>2, <3>3
  <2> QED
    BY <2>3, <2>4
<1>5. CASE APPLY_IP
  BY <1>5 DEF APPLY_IP, Transferred, Case, enter_state, unmoved
<1>6. CASE OPEN_SOCKETS
  BY <1>6, <1>z DEF OPEN_SOCKETS, vxi11_server_init, Transferred, Case, enter_state, unmoved, dhcpvars
<1>7. CASE RUNNING
  <2>1. PICK d \in Ticked(dhcp), type \in Replies, ip \in LeaseIP, inuse \in BOOLEAN :
           /\ Renew(d, type, ip, inuse)
           /\ IF spinning' THEN UNCHANGED <<state, due, chk_due, link_miss, servervars>>
                           ELSE \E on \in LinkSeen : CheckLink(on)
    BY <1>7 DEF RUNNING
  <2>2. net_ip' = net_ip /\ sipr' = sipr
    BY <2>1, RunDhcpAddress DEF Renew
  <2>3. dhcp'.state = "REREQUEST" => dhcp'.old = dhcp'.allocated
    BY <2>1, RunDhcpAddress DEF Renew
  <2>4. \/ state' = "LINK_DOWN"
        \/ state' = "RUNNING" /\ mdns_ip' = mdns_ip
    BY <1>7, <2>1 DEF RUNNING, Case, CheckLink, enter_state, servervars
  <2> QED
    BY <1>7, <2>2, <2>3, <2>4 DEF RUNNING, Case, unmoved
<1>8. CASE w5500_net_restart
  BY <1>8 DEF w5500_net_restart, enter_state
<1>9. CASE \E c \in [ip : StaticIP, use_dhcp : BOOLEAN] : NetSet(c)
  BY <1>9 DEF NetSet, servervars
<1>10. CASE Hang \/ Environment \/ elapsed \/ chk_elapsed
  BY <1>10 DEF Hang, Environment, elapsed, chk_elapsed, dhcpvars, servervars
<1>11. CASE UNCHANGED vars
  BY <1>11 DEF vars, history
<1> QED
  BY <1>1, <1>2, <1>3, <1>4, <1>5, <1>6, <1>7, <1>8, <1>9, <1>10, <1>11 DEF Next, w5500_net_task

\* The address invariant holds for every set of addresses.
THEOREM AddressInvariant == Spec => []AddressInv
<1>1. Init => AddressInv
  BY DEF Init, AddressInv, OneAddress
<1> QED
  BY <1>1, AddressStep, TypeCorrect, PTL DEF Spec

\* While the servers run, chip, net_info and mDNS agree on one nonzero address.
THEOREM AddressAgreed == Spec => []OneAddress
<1>1. AddressInv => OneAddress
  BY DEF AddressInv
<1> QED
  BY <1>1, AddressInvariant, PTL

-----------------------------------------------------------------------------
(* The abstract service.                                                   *)

\* Every step of the state machine is a step of NetService or changes nothing
\* that NetService speaks of.
LEMMA ServiceStep ==
    TypeOK /\ AddressInv /\ [Next]_vars => [Service!Next]_(Service!svars)
<1> SUFFICES ASSUME TypeOK, AddressInv, [Next]_vars
             PROVE  Service!Next \/ UNCHANGED <<service, configured, offered>>
  BY DEF Service!svars
<1>a. LeaseIP \subseteq IP /\ StaticIP \subseteq IP
  BY DEF IP
<1>1. CASE RESET_ASSERT \/ RESET_DEASSERT \/ CHECK_CHIP \/ CHIP_INIT \/ WAIT_LINK \/ ERROR
  BY <1>1 DEF RESET_ASSERT, RESET_DEASSERT, CHECK_CHIP, CHIP_INIT, WAIT_LINK, ERROR, Case,
              enter_state, unmoved, dhcpvars, service
<1>2. CASE LINK_SETTLE \/ DHCP_START \/ APPLY_IP
  BY <1>2 DEF LINK_SETTLE, DHCP_START, APPLY_IP, Case, enter_state, unmoved, service
<1>3. CASE DHCP_RUN
  <2>1. PICK polled \in BOOLEAN : Acquire(polled)
    BY <1>3 DEF DHCP_RUN
  <2>2. state # "RUNNING" /\ state' # "RUNNING" /\ configured' = configured
    BY <1>3, <2>1 DEF DHCP_RUN, Case, Acquire, enter_state, unmoved
  <2>3. \/ offered' = offered
        \/ \E a \in LeaseIP : offered' = offered \cup {a}
    BY <2>1 DEF Acquire, Taken
  <2> QED
    BY <2>2, <2>3, <1>a DEF service, Service!Next, Service!Offer
<1>4. CASE OPEN_SOCKETS
  <2>1. /\ service = Down
        /\ service' = [lease |-> dhcp_acquired, ip |-> net_ip]
        /\ configured' = configured /\ offered' = offered
    BY <1>4 DEF OPEN_SOCKETS, Case, enter_state, unmoved, dhcpvars, service
  <2>2. net_ip \in (IF dhcp_acquired THEN offered ELSE configured)
    BY <1>4 DEF OPEN_SOCKETS, Case, AddressInv
  <2>3. Service!Start(dhcp_acquired, net_ip)
    BY <2>1, <2>2 DEF Service!Start
  <2> QED
    BY <2>3 DEF Service!Next, TypeOK
<1>5. CASE RUNNING
  <2>1. PICK d \in Ticked(dhcp), type \in Replies, ip \in LeaseIP, inuse \in BOOLEAN :
           /\ Renew(d, type, ip, inuse)
           /\ IF spinning' THEN UNCHANGED <<state, due, chk_due, link_miss, servervars>>
                           ELSE \E on \in LinkSeen : CheckLink(on)
           /\ offered' = IF state' = "LINK_DOWN" THEN {}
                         ELSE IF dhcp_acquired THEN offered \cup Taken(d, type, ip) ELSE offered
    BY <1>5 DEF RUNNING
  <2>2. net_ip' = net_ip
    BY <2>1, RunDhcpAddress DEF Renew
  <2>3. /\ state = "RUNNING" /\ state' \in {"RUNNING", "LINK_DOWN"}
        /\ dhcp_acquired' = dhcp_acquired /\ configured' = configured
    BY <1>5, <2>1 DEF RUNNING, Case, CheckLink, enter_state, unmoved
  <2>4. CASE state' = "LINK_DOWN"
    <3>1. Service!Stop
      BY <2>1, <2>3, <2>4 DEF service, Service!Stop
    <3> QED
      BY <3>1 DEF Service!Next
  <2>5. CASE state' = "RUNNING"
    <3>1. service' = service
      BY <2>2, <2>3, <2>5 DEF service
    <3>2. \/ offered' = offered
          \/ \E a \in LeaseIP : offered' = offered \cup {a}
      BY <2>1, <2>5 DEF Taken
    <3> QED
      BY <3>1, <3>2, <2>3, <1>a DEF Service!Next, Service!Offer
  <2> QED
    BY <2>3, <2>4, <2>5
<1>6. CASE w5500_net_restart
  <2>1. Service!Stop
    BY <1>6 DEF w5500_net_restart, enter_state, service, Service!Stop
  <2> QED
    BY <2>1 DEF Service!Next
<1>7. CASE \E c \in [ip : StaticIP, use_dhcp : BOOLEAN] : NetSet(c)
  <2>1. PICK c \in [ip : StaticIP, use_dhcp : BOOLEAN] : NetSet(c)
    BY <1>7
  <2>2. c.ip \in IP /\ Service!Configure(c.ip)
    BY <2>1, <1>a DEF NetSet, service, Service!Configure
  <2> QED
    BY <2>2 DEF Service!Next
<1>8. CASE Hang \/ Environment \/ elapsed \/ chk_elapsed
  BY <1>8 DEF Hang, Environment, elapsed, chk_elapsed, dhcpvars, service
<1>9. CASE UNCHANGED vars
  BY <1>9 DEF vars, history, service
<1> QED
  BY <1>1, <1>2, <1>3, <1>4, <1>5, <1>6, <1>7, <1>8, <1>9 DEF Next, w5500_net_task

\* The state machine implements NetService: an instrument that is reachable keeps
\* one address, configured or freshly offered, until it becomes unreachable.
THEOREM Refinement == Spec => ImplementsService
<1>1. Init => Service!Init
  <2> SUFFICES ASSUME Init PROVE Service!Init
    OBVIOUS
  <2>1. cfg.ip \in StaticIP
    BY DEF Init
  <2> QED
    BY <2>1 DEF Init, Service!Init, service, IP
<1> QED
  BY <1>1, ServiceStep, TypeCorrect, AddressInvariant, PTL
     DEF Spec, ImplementsService, Service!Spec
=============================================================================
