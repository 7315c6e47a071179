-------------------------------- MODULE Dhcp --------------------------------
(***************************************************************************)
(* How the board gets its address: the DHCP task (src/code/src/netconf.c), *)
(* the client of lwIP that it starts and stops (lwip-1.4.1/src/core/       *)
(* dhcp.c), which the TCP/IP thread runs, and the PTP thread, which waits  *)
(* for an address before it does anything else (ptpd.c).                   *)
(*                                                                         *)
(* The TCP/IP thread has a higher priority than the task: what it does is  *)
(* one step, and may come between any two statements of the task.  Replies *)
(* are any that the client takes in its state, with an address in them.    *)
(* The timers of a short lease may end before the task has stopped the     *)
(* client; the 45 days after which their counters wrap are left out.       *)
(***************************************************************************)
EXTENDS Integers

CONSTANT MaxDhcpTries   \* MAX_DHCP_TRIES

ASSUME DhcpAssumption == MaxDhcpTries \in 1..5

VARIABLES
    dhcpState,   \* dhcp->state
    tries,       \* dhcp->tries
    request,     \* the request timer: "off", "new", or "old" when it may end
    leaseTimers, \* the timers of a lease that run, "t1" and "t2"
    address,     \* the address of the interface, "none", "leased" or "static"
    ifUp,        \* the interface is up
    task,        \* the DHCP task
    ptpAddress,  \* the address that the PTP thread has found, or "none"
    seen         \* history: what has happened (Events)

dhcpClient == <<dhcpState, tries, request>>
netif      == <<address, ifUp>>
dhcpVars == <<dhcpClient, leaseTimers, netif, task, ptpAddress, seen>>

LeaseTimers == {"t1", "t2"}

\* dhcp_start has failed; a server has refused a request, the renewal of a lease
\* that the interface had, or one that the task was about to stop; the last
\* offer named no server.
Events == {"unstarted", "refused", "leaseRefused", "refusedLate", "unnamedOffer"}

-----------------------------------------------------------------------------
(* The client.                                                             *)

\* Defect: the tries are counted from 0 each time.
EnterAnew(state, timer) ==
    /\ dhcpState' = state
    /\ tries' = 1
    /\ request' = timer

\* dhcp_set_state, which resets the number of tries when the state changes, and
\* what follows it in all but one of the callers: a try and its timer.
Enter(state, timer) ==
    /\ dhcpState' = state
    /\ tries' = (IF state = dhcpState THEN tries ELSE 0) + 1
    /\ request' = timer

\* A message, counted and timed whether or not there was a pbuf for it.  Its
\* timer runs for a second at least, while the task polls every 250 ms.
Send(state) == Enter(state, "new")

dhcp_discover == Send("selecting")
dhcp_select   == Send("requesting")
dhcp_renew    == Send("renewing")
dhcp_rebind   == Send("rebinding")
dhcp_decline  == Send("backing_off")

\* A request for the address by ARP, timed by one tick of 500 ms: the first one
\* by what is left of the tick, the second, sent by a tick, by a whole one.
dhcp_check == Enter("checking", IF dhcpState = "checking" THEN "new" ELSE "old")

\* Defect: the interface is not brought up again.
BindLeftDown ==
    /\ dhcpState' = "bound" /\ tries' = 0 /\ request' = "off"
    /\ leaseTimers' \in SUBSET LeaseTimers
    /\ address' = "leased"
    /\ UNCHANGED ifUp

\* Either of the lease's times may be infinite.
dhcp_bind ==
    /\ dhcpState' = "bound" /\ tries' = 0 /\ request' = "off"
    /\ leaseTimers' \in SUBSET LeaseTimers
    /\ address' = "leased" /\ ifUp' = TRUE

dhcp_stop == dhcpState' = "off" /\ tries' = 0 /\ request' = "off"

\* netif_set_down and netif_set_ipaddr(IP_ADDR_ANY).
TakeDown == address' = "none" /\ ifUp' = FALSE

Offer ==
    /\ dhcpState = "selecting"
    /\ dhcp_select
    /\ seen' = seen \ {"unnamedOffer"}
    /\ UNCHANGED <<leaseTimers, netif, task, ptpAddress>>

\* The timer has been stopped before the offer is looked at, and nothing is sent.
OfferWithoutServer ==
    /\ dhcpState = "selecting"
    /\ request' = "off"
    /\ seen' = seen \cup {"unnamedOffer"}
    /\ UNCHANGED <<dhcpState, tries, leaseTimers, netif, task, ptpAddress>>

\* Defect: the address is used without the check by ARP.
AckUnchecked ==
    /\ dhcpState \in {"requesting", "renewing", "rebinding"}
    /\ dhcp_bind
    /\ UNCHANGED <<task, ptpAddress, seen>>

Ack ==
    /\ \/ /\ dhcpState = "requesting"
          /\ dhcp_check
          /\ UNCHANGED <<leaseTimers, netif>>
       \/ /\ dhcpState \in {"renewing", "rebinding"}
          /\ dhcp_bind
    /\ UNCHANGED <<task, ptpAddress, seen>>

\* The state is BACKING_OFF only until dhcp_discover has set the next one.
Nak ==
    /\ dhcpState \in {"requesting", "renewing", "rebinding"}
    /\ dhcp_discover
    /\ TakeDown
    /\ seen' = seen \cup {"refused"}
                    \cup {e \in {"leaseRefused"} : address # "none"}
                    \cup {e \in {"refusedLate"} : task = "assigned"}
    /\ UNCHANGED <<leaseTimers, task, ptpAddress>>

\* Another host answers for the address that is being checked.
dhcp_arp_reply ==
    /\ dhcpState = "checking"
    /\ dhcp_decline
    /\ UNCHANGED <<leaseTimers, netif, task, ptpAddress, seen>>

\* The task gives up before a sixth message times out (TriesCounted, in
\* ClockProofs), so that nothing is released here.
SendAgain ==
    /\ \/ dhcpState \in {"backing_off", "selecting"} /\ dhcp_discover
       \/ dhcpState = "requesting" /\ dhcp_select
       \/ dhcpState = "renewing" /\ dhcp_renew
       \/ dhcpState = "rebinding" /\ dhcp_rebind
       \/ dhcpState = "checking" /\ tries <= 1 /\ dhcp_check
    /\ UNCHANGED <<leaseTimers, netif>>

dhcp_timeout ==
    /\ request = "old"
    /\ SendAgain \/ (dhcpState = "checking" /\ tries > 1 /\ dhcp_bind)
    /\ UNCHANGED <<task, ptpAddress, seen>>

\* The timer ends once, in whatever state.
LeaseTimeout(timer, resend) ==
    /\ timer \in leaseTimers
    /\ leaseTimers' = leaseTimers \ {timer}
    /\ IF dhcpState \in {"requesting", "bound", "renewing"}
         THEN resend
         ELSE UNCHANGED dhcpClient
    /\ UNCHANGED <<netif, task, ptpAddress, seen>>

dhcp_t1_timeout == LeaseTimeout("t1", dhcp_renew)
dhcp_t2_timeout == LeaseTimeout("t2", dhcp_rebind)

-----------------------------------------------------------------------------
(* The task.                                                               *)

TaskStart ==
    /\ task = "start"
    /\ task' = "address"
    /\ dhcp_discover
    /\ UNCHANGED <<leaseTimers, netif, ptpAddress, seen>>

\* No memory for the client or its first message: there is no client, or one
\* that is off, and the task does not look at the result.
TaskStartFails ==
    /\ task = "start"
    /\ task' = "address"
    /\ dhcp_stop
    /\ seen' = seen \cup {"unstarted"}
    /\ UNCHANGED <<leaseTimers, netif, ptpAddress>>

TaskLooks ==
    /\ task = "address"
    /\ task' = IF address # "none" THEN "assigned" ELSE "tries"
    /\ UNCHANGED <<dhcpClient, leaseTimers, netif, ptpAddress, seen>>

\* The task sleeps for 250 ms.
TaskGoesOn ==
    /\ task = "tries"
    /\ tries <= MaxDhcpTries
    /\ task' = "address"
    /\ request' = IF request = "new" THEN "old" ELSE request
    /\ UNCHANGED <<dhcpState, tries, leaseTimers, netif, ptpAddress, seen>>

\* Without a client tries is read through the pointer NULL.
TaskGivesUp ==
    /\ task = "tries"
    /\ tries > MaxDhcpTries \/ "unstarted" \in seen
    /\ task' = "stop"
    /\ UNCHANGED <<dhcpClient, leaseTimers, netif, ptpAddress, seen>>

TaskEndsWithLease ==
    /\ task = "assigned"
    /\ dhcp_stop
    /\ task' = "done"
    /\ UNCHANGED <<leaseTimers, netif, ptpAddress, seen>>

TaskStop ==
    /\ task = "stop"
    /\ dhcp_stop
    /\ task' = "set"
    /\ UNCHANGED <<leaseTimers, netif, ptpAddress, seen>>

TaskSetStatic ==
    /\ task = "set"
    /\ address' = "static"
    /\ task' = "done"
    /\ UNCHANGED <<dhcpClient, leaseTimers, ifUp, ptpAddress, seen>>

-----------------------------------------------------------------------------

\* The PTP thread looks every 500 ms.
PtpFindsAddress ==
    /\ ptpAddress = "none"
    /\ address # "none"
    /\ ptpAddress' = address
    /\ UNCHANGED <<dhcpClient, leaseTimers, netif, task, seen>>

\* LwIP_Init has set the interface up.
DhcpInit ==
    /\ dhcpState = "off" /\ tries = 0 /\ request = "off"
    /\ leaseTimers = {}
    /\ address = "none" /\ ifUp = TRUE
    /\ task = "start"
    /\ ptpAddress = "none"
    /\ seen = {}

dhcp_recv == Offer \/ OfferWithoutServer \/ Ack \/ Nak

ClientTimer == dhcp_timeout \/ dhcp_t1_timeout \/ dhcp_t2_timeout

TaskStep == \/ TaskStart \/ TaskStartFails \/ TaskLooks \/ TaskGoesOn \/ TaskGivesUp
            \/ TaskEndsWithLease \/ TaskStop \/ TaskSetStatic

DhcpNext == dhcp_recv \/ dhcp_arp_reply \/ ClientTimer \/ TaskStep \/ PtpFindsAddress

DhcpSpec == DhcpInit /\ [][DhcpNext]_dhcpVars

\* The task and the PTP thread go on polling, and timers end.
DhcpFairness ==
    /\ WF_dhcpVars(TaskStep)
    /\ WF_dhcpVars(dhcp_timeout)
    /\ WF_dhcpVars(PtpFindsAddress)

DhcpFairSpec == DhcpSpec /\ DhcpFairness

-----------------------------------------------------------------------------
(* Properties.                                                             *)

\* Every variable has its type.
DhcpTypeOK ==
    /\ dhcpState \in {"off", "selecting", "requesting", "checking", "backing_off",
                      "bound", "renewing", "rebinding"}
    /\ tries \in 0..(MaxDhcpTries + 1)
    /\ request \in {"off", "new", "old"}
    /\ leaseTimers \subseteq LeaseTimers
    /\ address \in {"none", "leased", "static"}
    /\ ptpAddress \in {"none", "leased", "static"}
    /\ ifUp \in BOOLEAN
    /\ task \in {"start", "address", "tries", "assigned", "stop", "set", "done"}
    /\ seen \subseteq Events

\* An interface that has an address is up.
ConfiguredIsUp == address # "none" => ifUp

\* A lease brings the interface up whatever was before, and a static address
\* comes to an interface that is up unless a server has refused what it had
\* offered: the client has then set the interface down, and the task, when it
\* gives up, does not set it up, so nothing can be sent (netconf.c:193-203,
\* dhcp.c:182-199, 1005-1013).
ConfiguredIsUpUnlessRefused ==
    address = "leased" \/ (address = "static" /\ "refused" \notin seen) => ifUp

\* The PTP thread starts in the end, with or without a server, whatever replies
\* are lost, unless
\*   - the client could not be started, or
\*   - servers refuse for ever what they have offered, or other hosts use it:
\*     each refusal and each decline resets the tries that the task counts, or
\*   - the offers that come name no server: the timer is stopped for them and
\*     nothing sent, or
\*   - a lease is refused after the task has seen it and before it has stopped
\*     the client (netconf.c:150-207, dhcp.c:252-273, 803-862, 1624,
\*     ptpd.c:57-63).
PtpStartsInTheEnd ==
    \/ <>("unstarted" \in seen)
    \/ []<><<Nak>>_dhcpVars \/ []<><<dhcp_arp_reply>>_dhcpVars
    \/ <>[]("unnamedOffer" \in seen)
    \/ <>("refusedLate" \in seen)
    \/ <>(ptpAddress # "none")

\* The address that the PTP thread has found remains the one of the interface
\* until a server refuses to renew a lease: none comes while the task gives up,
\* since the check by ARP outlasts the task's last look (netconf.c:193-203,
\* dhcp.c:420-432).
AddressRemains ==
    [][ptpAddress # "none" /\ address' # address => "leaseRefused" \in seen']_dhcpVars
=============================================================================
