------------------------------ MODULE W5500Net ------------------------------
(***************************************************************************)
(* The Ethernet state machine App/w5500_net.c with the parts of the DHCP   *)
(* client (App/wiznet/Internet/DHCP/dhcp.c) and of the VXI-11 and mDNS     *)
(* servers that it drives.                                                 *)
(*                                                                         *)
(* w5500_net_task runs once per iteration of the main loop; one call is    *)
(* one step, with an action for each case of its switch. Time is kept only *)
(* as far as the code looks at it: `due` says that the waiting time of the *)
(* current state is over, `chk_due` that 500 ms have passed since the last *)
(* look at the link, `dhcp.late` that dhcp_tick_1s has passed the limit    *)
(* the DHCP client compares it with in its present state.                  *)
(*                                                                         *)
(* The network is arbitrary: any reply, or none, may be waiting whenever   *)
(* DHCP_run looks (replies are not matched to requests, dhcp.c compares no *)
(* transaction id), and any offered address may turn out to be in use.     *)
(*                                                                         *)
(* The chip may stop answering over SPI at any time. What is read from it  *)
(* then is arbitrary, what a write left in it is Unknown, and socket() and *)
(* close(), which wait for it without a limit, may never return: `hung`.   *)
(* It does not forget what it holds; only RST clears it.                   *)
(*                                                                         *)
(* A definition named X_bug is X with a plausible fault (see RelayCtrl).   *)
(***************************************************************************)
EXTENDS Naturals

CONSTANTS
    StaticIP,     \* addresses the user may configure
    LeaseIP,      \* addresses DHCP servers may offer
    ZERO,         \* 0.0.0.0
    Unknown,      \* an address written to or read from a silent chip
    Down,         \* "unreachable", see NetService
    MaxRestarts   \* bound on the NET:APPLy commands of a behaviour

ASSUME AddressAssumption == ZERO \notin StaticIP \cup LeaseIP
ASSUME UnknownAssumption == Unknown \notin StaticIP \cup LeaseIP \cup {ZERO}
ASSUME DownAssumption == Down \notin [lease : BOOLEAN, ip : StaticIP \cup LeaseIP \cup {ZERO}]
ASSUME MaxRestartsAssumption == MaxRestarts \in Nat

IP == StaticIP \cup LeaseIP \cup {ZERO}
ChipIP == IP \cup {Unknown}

States == {"RESET_ASSERT", "RESET_DEASSERT", "BOOT_WAIT", "CHECK_CHIP", "CHIP_INIT",
           "WAIT_LINK", "LINK_SETTLE", "DHCP_START", "DHCP_RUN", "APPLY_IP",
           "OPEN_SOCKETS", "RUNNING", "LINK_DOWN", "ERROR"}

MAX_DHCP_RETRY == 2

VARIABLES
    \* the environment: PHY link, and whether the chip answers over SPI
    link, chip,
    \* w5500_net.c
    state, due, chk_due, link_miss, dhcp_done, dhcp_acquired,
    net_ip,        \* net_info.ip
    cfg,           \* net_config_get(): [ip, use_dhcp]
    sipr,          \* the chip's source address register
    dhcp,          \* dhcp.c: [state, allocated, old, retry, late]
    spinning,      \* the main loop is inside the wait of check_DHCP_leasedIP
    hung,          \* the main loop is inside a wait of socket() or close(), for ever
    servers,       \* the VXI-11 and mDNS sockets were opened and not closed since
    mdns_ip,       \* g_device_ip of mdns.c, ZERO while mDNS is closed
    \* bound and history (see NetService)
    restarts, configured, offered

env     == <<link, chip>>
timing  == <<due, chk_due>>
history == <<configured, offered>>
vars    == <<env, state, timing, link_miss, dhcp_done, dhcp_acquired, net_ip, cfg,
             sipr, dhcp, spinning, hung, servers, mdns_ip, restarts, history>>

-----------------------------------------------------------------------------
(* The DHCP client.                                                        *)

DhcpState == [state : {"INIT", "DISCOVER", "REQUEST", "LEASED", "REREQUEST"},
              allocated : IP, old : IP, retry : 0..MAX_DHCP_RETRY, late : BOOLEAN]

\* What parseDHCPMSG may find; a silent chip delivers nothing.
Replies == IF chip THEN {"none", "OFFER", "ACK", "NAK"} ELSE {"none"}

reset_DHCP_timeout(d) == [d EXCEPT !.retry = 0, !.late = FALSE]

DHCP_init(d) == [reset_DHCP_timeout(d) EXCEPT !.state = "INIT"]

check_DHCP_timeout_bug(d) ==
    IF d.retry <= MAX_DHCP_RETRY
    THEN IF d.late THEN [d EXCEPT !.late = FALSE, !.retry = @ + 1] ELSE d
    ELSE [reset_DHCP_timeout(d) EXCEPT !.state = IF @ = "DISCOVER" THEN "INIT" ELSE "DISCOVER"]

\* No usable reply: repeat the last request when it is late, at most
\* MAX_DHCP_RETRY times, then start over.
check_DHCP_timeout(d) ==
    IF d.retry < MAX_DHCP_RETRY
    THEN IF d.late THEN [d EXCEPT !.late = FALSE, !.retry = @ + 1] ELSE d
    ELSE [reset_DHCP_timeout(d) EXCEPT !.state = IF @ = "DISCOVER" THEN "INIT" ELSE "DISCOVER"]

\* The state DHCP_run leaves, with reply `type` (an OFFER offers ip).
DHCP_run(d, type, ip) ==
    CASE d.state = "INIT" -> [d EXCEPT !.state = "DISCOVER", !.allocated = ZERO]
      [] d.state = "DISCOVER" ->
            IF type = "OFFER" THEN [d EXCEPT !.state = "REQUEST", !.allocated = ip]
            ELSE check_DHCP_timeout(d)
      [] d.state = "REQUEST" ->
            IF type = "ACK" THEN [reset_DHCP_timeout(d) EXCEPT !.state = "LEASED"]
            ELSE IF type = "NAK" THEN [reset_DHCP_timeout(d) EXCEPT !.state = "DISCOVER"]
            ELSE check_DHCP_timeout(d)
      [] d.state = "LEASED" ->
            IF d.late THEN [reset_DHCP_timeout(d) EXCEPT !.state = "REREQUEST",
                                                         !.old = d.allocated]
            ELSE d
      [] d.state = "REREQUEST" ->
            IF type = "ACK" THEN [reset_DHCP_timeout(d) EXCEPT !.state = "LEASED"]
            ELSE IF type = "NAK" THEN [reset_DHCP_timeout(d) EXCEPT !.state = "DISCOVER"]
            ELSE check_DHCP_timeout(d)

\* The calls of dhcp_ip_assign and dhcp_ip_update, both dhcp_ip_assigned here.
Assigned(d, type) == d.state = "REQUEST" /\ type = "ACK"
Updated(d, type)  == d.state = "REREQUEST" /\ type = "ACK" /\ d.old # d.allocated

NewAddress_bug(d, type) == Assigned(d, type) \/ Updated(d, type)

\* DHCP_run answers DHCP_IP_ASSIGN or DHCP_IP_CHANGED.
NewAddress(d, type) == Updated(d, type)

\* One call of DHCP_run, perhaps after a DHCP_time_handler that made it late.
\* inuse: check_DHCP_leasedIP gets an ARP answer. It then waits for two more
\* calls of DHCP_time_handler, which only this main loop makes.
RunDhcp(d, type, ip, inuse) ==
    IF Assigned(d, type) /\ inuse
    THEN spinning' = TRUE /\ dhcp' = d /\ UNCHANGED dhcp_done
    ELSE /\ dhcp' = DHCP_run(d, type, ip)
         /\ dhcp_done' = (dhcp_done \/ Assigned(d, type) \/ Updated(d, type))
         /\ UNCHANGED spinning

Taken(d, type, ip) == IF d.state = "DISCOVER" /\ type = "OFFER" THEN {ip} ELSE {}

Ticked(d) == {d, [d EXCEPT !.late = TRUE]}

-----------------------------------------------------------------------------
(* Helpers of w5500_net.c and the servers.                                 *)

enter_state(s) == state' = s /\ due' = FALSE

\* An address after it went to the chip, or came from it, over SPI.
Transferred(ip) == IF chip THEN ip ELSE Unknown

\* What a look at the link may show.
LinkSeen == IF chip THEN {link} ELSE BOOLEAN

\* mDNS announces the address it reads back from the chip.
vxi11_server_init == servers' = TRUE /\ mdns_ip' = Transferred(sipr)

vxi11_server_close == servers' = FALSE /\ mdns_ip' = ZERO

\* The main loop turns.
Turning == ~spinning /\ ~hung

\* w5500_net_task is called in state s.
Case(s) == Turning /\ state = s

-----------------------------------------------------------------------------

\* Power-up. The static configuration may hold anything.
Init ==
    /\ link \in BOOLEAN /\ chip \in BOOLEAN
    /\ state = "RESET_ASSERT"
    /\ due = FALSE /\ chk_due = FALSE
    /\ link_miss = 0
    /\ dhcp_done = FALSE /\ dhcp_acquired = FALSE
    /\ cfg \in [ip : StaticIP, use_dhcp : BOOLEAN]
    /\ net_ip \in StaticIP
    /\ sipr = ZERO
    /\ dhcp = [state |-> "INIT", allocated |-> ZERO, old |-> ZERO, retry |-> 0, late |-> FALSE]
    /\ spinning = FALSE /\ hung = FALSE
    /\ servers = FALSE /\ mdns_ip = ZERO
    /\ restarts = 0
    /\ configured = {cfg.ip} /\ offered = {}

unmoved == <<env, cfg, restarts, configured, hung>>   \* no case of the task changes these
dhcpvars == <<dhcp, dhcp_done, dhcp_acquired, spinning, offered>>
servervars == <<servers, mdns_ip>>

\* RST low clears the chip's registers; the socket reset goes unnoticed.
RESET_ASSERT ==
    /\ Case("RESET_ASSERT")
    /\ sipr' = ZERO
    /\ enter_state("RESET_DEASSERT")
    /\ UNCHANGED <<unmoved, chk_due, link_miss, net_ip, dhcpvars, servervars>>

\* RST high after 10 ms, then 50 ms for the chip to boot.
RESET_DEASSERT ==
    /\ \/ Case("RESET_DEASSERT") /\ due /\ enter_state("BOOT_WAIT")
       \/ Case("BOOT_WAIT") /\ due /\ enter_state("CHECK_CHIP")
    /\ UNCHANGED <<unmoved, chk_due, link_miss, net_ip, sipr, dhcpvars, servervars>>

CHECK_CHIP ==
    /\ Case("CHECK_CHIP")
    /\ enter_state(IF chip THEN "CHIP_INIT" ELSE "ERROR")
    /\ UNCHANGED <<unmoved, chk_due, link_miss, net_ip, sipr, dhcpvars, servervars>>

CHIP_INIT ==
    /\ Case("CHIP_INIT")
    /\ net_ip' = cfg.ip
    /\ sipr' = Transferred(cfg.ip)
    /\ enter_state("WAIT_LINK")
    /\ UNCHANGED <<unmoved, chk_due, link_miss, dhcpvars, servervars>>

\* WAIT_LINK and, after a cable was pulled, LINK_DOWN.
WAIT_LINK ==
    /\ Case("WAIT_LINK") \/ Case("LINK_DOWN")
    /\ TRUE \in LinkSeen
    /\ enter_state("LINK_SETTLE")
    /\ UNCHANGED <<unmoved, chk_due, link_miss, net_ip, sipr, dhcpvars, servervars>>

LINK_SETTLE_bug ==
    /\ Case("LINK_SETTLE")
    /\ \/ ~due /\ FALSE \in LinkSeen /\ enter_state("WAIT_LINK")
       \/ due /\ cfg.use_dhcp /\ enter_state("DHCP_START")
       \/ due /\ ~cfg.use_dhcp /\ enter_state("APPLY_IP")
    /\ UNCHANGED <<unmoved, chk_due, link_miss, net_ip, sipr, dhcpvars, servervars>>

\* 1500 ms of settling; the link is watched, but not when they are over.
LINK_SETTLE ==
    /\ Case("LINK_SETTLE")
    /\ \/ /\ ~due /\ FALSE \in LinkSeen
          /\ enter_state("WAIT_LINK") /\ UNCHANGED dhcp_done
       \/ due /\ cfg.use_dhcp /\ enter_state("DHCP_START") /\ UNCHANGED dhcp_done
       \/ due /\ ~cfg.use_dhcp /\ enter_state("APPLY_IP") /\ dhcp_done' = FALSE
    /\ UNCHANGED <<unmoved, chk_due, link_miss, net_ip, sipr,
                   dhcp, dhcp_acquired, spinning, offered, servervars>>

DHCP_START ==
    /\ Case("DHCP_START")
    /\ sipr' = Transferred(ZERO)
    /\ dhcp_done' = FALSE
    /\ dhcp' = DHCP_init(dhcp)
    /\ enter_state("DHCP_RUN")
    /\ UNCHANGED <<unmoved, chk_due, link_miss, net_ip, dhcp_acquired, spinning, offered,
                   servervars>>

\* A call that runs the DHCP client (every 50 ms), or a call that does not.
Acquire(polled) ==
    /\ \E d \in Ticked(dhcp) :
          IF polled
          THEN \E type \in Replies, ip \in LeaseIP, inuse \in BOOLEAN :
                  /\ RunDhcp(d, type, ip, inuse)
                  /\ offered' = offered \cup Taken(d, type, ip)
          ELSE dhcp' = d /\ UNCHANGED <<dhcp_done, spinning, offered>>
    /\ UNCHANGED <<unmoved, chk_due, link_miss, net_ip, sipr, dhcp_acquired, servervars>>

DHCP_RUN_bug ==
    /\ Case("DHCP_RUN")
    /\ \E polled \in BOOLEAN : (polled => ~dhcp_done) /\ Acquire(polled)
    /\ IF ~spinning' /\ dhcp_done' THEN enter_state("APPLY_IP") ELSE UNCHANGED <<state, due>>

\* The state ends when an address was assigned or 12 s are over.
DHCP_RUN ==
    /\ Case("DHCP_RUN")
    /\ \E polled \in BOOLEAN : (polled => ~dhcp_done) /\ Acquire(polled)
    /\ IF ~spinning' /\ (dhcp_done' \/ due) THEN enter_state("APPLY_IP")
                                            ELSE UNCHANGED <<state, due>>

APPLY_IP ==
    /\ Case("APPLY_IP")
    /\ net_ip' = IF dhcp_done THEN dhcp.allocated ELSE cfg.ip
    /\ sipr' = Transferred(net_ip')
    /\ dhcp_acquired' = dhcp_done
    /\ enter_state("OPEN_SOCKETS")
    /\ UNCHANGED <<unmoved, chk_due, link_miss, dhcp, dhcp_done, spinning, offered, servervars>>

OPEN_SOCKETS ==
    /\ Case("OPEN_SOCKETS")
    /\ vxi11_server_init
    /\ enter_state("RUNNING")
    /\ UNCHANGED <<unmoved, chk_due, link_miss, net_ip, sipr, dhcpvars>>

\* The DHCP half of RUNNING: renewal, if the address is leased.
Renew(d, type, ip, inuse) ==
    IF dhcp_acquired
    THEN /\ RunDhcp(d, type, ip, inuse)
         /\ IF NewAddress(d, type)
            THEN net_ip' = dhcp'.allocated /\ sipr' = Transferred(net_ip')
            ELSE UNCHANGED <<net_ip, sipr>>
    ELSE UNCHANGED <<dhcp, dhcp_done, spinning, net_ip, sipr>>

CheckLink_bug(on) ==
    \/ ~chk_due /\ UNCHANGED <<state, due, chk_due, link_miss, servervars>>
    \/ /\ chk_due /\ (on \/ link_miss + 1 < 3)
       /\ chk_due' = FALSE
       /\ link_miss' = IF on THEN 0 ELSE link_miss + 1
       /\ UNCHANGED <<state, due, servervars>>
    \/ /\ chk_due /\ ~on /\ link_miss + 1 >= 3
       /\ UNCHANGED <<chk_due, link_miss, state, due, servervars>>

\* The other half: every 500 ms; three failed looks in a row close everything.
\* on: what the look shows.
CheckLink(on) ==
    \/ ~chk_due /\ UNCHANGED <<state, due, chk_due, link_miss, servervars>>
    \/ /\ chk_due /\ (on \/ link_miss + 1 < 3)
       /\ chk_due' = FALSE
       /\ link_miss' = IF on THEN 0 ELSE link_miss + 1
       /\ UNCHANGED <<state, due, servervars>>
    \/ /\ chk_due /\ ~on /\ link_miss + 1 >= 3
       /\ chk_due' = FALSE
       /\ link_miss' = 0
       /\ vxi11_server_close
       /\ enter_state("LINK_DOWN")

\* vxi11_server_task ends the call. It works on the open sockets and may run
\* NET:APPLy, which is then the next step.
RUNNING ==
    /\ Case("RUNNING")
    /\ \E d \in Ticked(dhcp), type \in Replies, ip \in LeaseIP, inuse \in BOOLEAN :
          /\ Renew(d, type, ip, inuse)
          /\ IF spinning' THEN UNCHANGED <<state, due, chk_due, link_miss, servervars>>
                          ELSE \E on \in LinkSeen : CheckLink(on)
          /\ offered' = IF state' = "LINK_DOWN" THEN {}
                        ELSE IF dhcp_acquired THEN offered \cup Taken(d, type, ip) ELSE offered
    /\ UNCHANGED <<unmoved, dhcp_acquired>>

ERROR ==
    /\ Case("ERROR") /\ due
    /\ enter_state("RESET_ASSERT")
    /\ UNCHANGED <<unmoved, chk_due, link_miss, net_ip, sipr, dhcpvars, servervars>>

w5500_net_task ==
    \/ RESET_ASSERT \/ RESET_DEASSERT \/ CHECK_CHIP \/ CHIP_INIT
    \/ WAIT_LINK \/ LINK_SETTLE \/ DHCP_START \/ DHCP_RUN
    \/ APPLY_IP \/ OPEN_SOCKETS \/ RUNNING \/ ERROR

w5500_net_restart_bug ==
    /\ Turning
    /\ restarts < MaxRestarts /\ restarts' = restarts + 1
    /\ dhcp_acquired' = FALSE
    /\ enter_state("RESET_ASSERT")
    /\ offered' = {}
    /\ UNCHANGED <<env, chk_due, link_miss, net_ip, cfg, sipr, dhcp, dhcp_done, spinning,
                   hung, servervars, configured>>

\* NET:APPLy, from USB in any state or from VXI-11, after a successful save.
w5500_net_restart ==
    /\ Turning
    /\ restarts < MaxRestarts /\ restarts' = restarts + 1
    /\ vxi11_server_close
    /\ dhcp_acquired' = FALSE
    /\ enter_state("RESET_ASSERT")
    /\ offered' = {}
    /\ UNCHANGED <<env, chk_due, link_miss, net_ip, cfg, sipr, dhcp, dhcp_done, spinning,
                   hung, configured>>

\* NET:IPADdress and NET:DHCP change the settings in RAM, in any state.
NetSet(c) ==
    /\ Turning
    /\ cfg' = c
    /\ configured' = configured \cup {c.ip}
    /\ UNCHANGED <<env, state, timing, link_miss, dhcp_done, dhcp_acquired, net_ip, sipr, dhcp,
                   spinning, hung, servervars, restarts, offered>>

\* The cases that open or close sockets, or use them (DHCP_run reopens its own
\* socket, vxi11_server_task those it finds closed).
Opening == {"DHCP_RUN", "APPLY_IP", "OPEN_SOCKETS", "RUNNING"}

\* A case of the task or NET:APPLy calls socket() or close() and the silent chip
\* does not take the command: `while (getSn_CR(sn))` and `while (getSn_SR(sn) ...)`
\* have no limit, and the command is not repeated when the chip is back. What the
\* step did before is left out, since nothing runs any more.
Hang ==
    /\ Turning /\ ~chip
    /\ state \in Opening \/ restarts < MaxRestarts
    /\ hung' = TRUE
    /\ UNCHANGED <<env, state, timing, link_miss, net_ip, cfg, sipr, dhcpvars, servervars,
                   restarts, configured>>

\* The cable and the chip; the clock.
Environment ==
    /\ \/ link' = ~link /\ UNCHANGED chip
       \/ chip' = ~chip /\ UNCHANGED link
    /\ UNCHANGED <<state, timing, link_miss, net_ip, cfg, sipr, dhcpvars, servervars,
                   restarts, configured, hung>>

Waiting == {"RESET_DEASSERT", "BOOT_WAIT", "LINK_SETTLE", "DHCP_RUN", "ERROR"}

elapsed ==
    /\ state \in Waiting /\ ~due /\ due' = TRUE
    /\ UNCHANGED <<env, state, chk_due, link_miss, net_ip, cfg, sipr, dhcpvars, servervars,
                   restarts, configured, hung>>

chk_elapsed ==
    /\ ~chk_due /\ chk_due' = TRUE
    /\ UNCHANGED <<env, state, due, link_miss, net_ip, cfg, sipr, dhcpvars, servervars,
                   restarts, configured, hung>>

Next ==
    \/ w5500_net_task
    \/ w5500_net_restart
    \/ \E c \in [ip : StaticIP, use_dhcp : BOOLEAN] : NetSet(c)
    \/ Hang
    \/ Environment
    \/ elapsed
    \/ chk_elapsed

\* The main loop calls the task for ever (unless it spins or hangs) and time passes.
Fairness == WF_vars(w5500_net_task) /\ WF_vars(elapsed) /\ WF_vars(chk_elapsed)

Spec == Init /\ [][Next]_vars /\ Fairness

-----------------------------------------------------------------------------
(* Properties.                                                             *)

\* The variables stay in their ranges; link_miss in particular below three.
TypeOK ==
    /\ link \in BOOLEAN /\ chip \in BOOLEAN
    /\ state \in States
    /\ due \in BOOLEAN /\ chk_due \in BOOLEAN
    /\ link_miss \in 0..2
    /\ dhcp_done \in BOOLEAN /\ dhcp_acquired \in BOOLEAN
    /\ net_ip \in IP /\ sipr \in ChipIP /\ mdns_ip \in ChipIP
    /\ cfg \in [ip : StaticIP, use_dhcp : BOOLEAN]
    /\ dhcp \in DhcpState
    /\ spinning \in BOOLEAN /\ hung \in BOOLEAN /\ servers \in BOOLEAN
    /\ restarts \in 0..MaxRestarts
    /\ configured \in SUBSET StaticIP /\ offered \in SUBSET LeaseIP

\* The firmware has the VXI-11 and mDNS sockets open exactly in the state RUNNING,
\* whatever link losses, restarts over USB and failed chip checks came before.
ServersWhileRunning == servers <=> state = "RUNNING"

\* While the servers run, net_info (NET:STATe? reports it), the chip and the mDNS
\* responder agree on the address, and it is not 0.0.0.0, as far as it was not
\* told to, or read from, a silent chip.
OneAddress ==
    state = "RUNNING" => net_ip # ZERO /\ {sipr, mdns_ip} \subseteq {net_ip, Unknown}

\* The abstract view of this module.
service == IF state = "RUNNING" THEN [lease |-> dhcp_acquired, ip |-> net_ip] ELSE Down

Service == INSTANCE NetService
    WITH service <- service, configured <- configured, offered <- offered,
         Down <- Down, IP <- IP

\* The state machine implements NetService: the address is configured or freshly
\* offered, and fixed while the instrument is reachable.
ImplementsService == Service!Spec

\* The inductive strengthening of the three: the address in use was configured or
\* offered before the sockets were opened, and an address that is requested or
\* about to be used is an offered one. A renewal never changes the address.
AddressInv ==
    /\ cfg.ip \in configured
    /\ dhcp.state = "REREQUEST" => dhcp.old = dhcp.allocated
    /\ state = "DHCP_RUN" => ~dhcp_done
    /\ state = "APPLY_IP" /\ dhcp_done => dhcp.allocated \in offered
    /\ state = "DHCP_RUN" /\ dhcp.state = "REQUEST" => dhcp.allocated \in offered
    /\ state = "OPEN_SOCKETS" =>
          /\ net_ip \in (IF dhcp_acquired THEN offered ELSE configured)
          /\ sipr \in {net_ip, Unknown}
    /\ OneAddress

\* If the chip answers and the cable stays in from some time on, the instrument
\* becomes reachable for good, whatever came before and whatever the DHCP servers
\* do or fail to do, unless the main loop is caught in one of its two endless
\* waits: for the second after an address conflict, or for a socket command met
\* by a silent chip. (An outage that ends before such a command does no harm.)
ComesUp == <>[](link /\ chip /\ Turning) => <>[](state = "RUNNING")

\* If the cable stays out and the chip says so from some time on, the servers are
\* closed in the end, unless the main loop is caught as above.
GoesDown == <>[](~link /\ chip /\ Turning) => <>[]~servers

\* What w5500_net.c says of itself: a non-blocking state machine. A task that
\* begins to wait for something gets on with its work some time.
NonBlocking == spinning ~> ~spinning

\* What the branch after DHCP_run in RUNNING is for: a newly leased address
\* becomes the address of the chip.
LeaseApplied ==
    state = "RUNNING" /\ dhcp_acquired /\ dhcp.state = "LEASED" =>
        sipr \in {dhcp.allocated, Unknown}
=============================================================================
