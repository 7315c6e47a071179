------------------------------ MODULE MCClock ------------------------------
(***************************************************************************)
(* The measurement of the path delay, the servo, the search for an address *)
(* and the console, side by side as in MCThreads.                          *)
(***************************************************************************)
EXTENDS DelayExchange, MCServo, Dhcp, Telnet

VARIABLE part

clockVars == <<part, delayVars, servoVars, dhcpVars, telVars>>

In(p) == part = p /\ UNCHANGED part

OnlyDelay   == In("delay") /\ UNCHANGED <<servoVars, dhcpVars, telVars>>
OnlyServo   == In("servo") /\ UNCHANGED <<delayVars, dhcpVars, telVars>>
OnlyDhcp    == In("dhcp") /\ UNCHANGED <<delayVars, servoVars, telVars>>
OnlyConsole == In("console") /\ UNCHANGED <<delayVars, servoVars, dhcpVars>>

\* One initial state of each part that does not step is enough.
Start(p, init, chosen) == init /\ (part # p => chosen)

ClockInit ==
    /\ part \in {"delay", "servo", "dhcp", "console"}
    /\ Start("delay", DelayInit, mechanism = "E2E" /\ master = CHOOSE p \in Peers : TRUE)
    /\ Start("servo", ServoInit, /\ theta = -1500000 /\ freq = -30
                                 /\ meanPathDelay = ToTime(0))
    /\ DhcpInit
    /\ TelnetInit

ClockNext ==
    \/ OnlyDelay /\ DelayNext
    \/ OnlyServo /\ ServoNext
    \/ OnlyDhcp /\ DhcpNext
    \/ OnlyConsole /\ TelnetNext

ClockSpec == ClockInit /\ [][ClockNext]_clockVars

-----------------------------------------------------------------------------

\* Every variable of every part has its type.
ClockTypeOK == DelayTypeOK /\ ServoTypeOK /\ DhcpTypeOK /\ TelnetTypeOK

\* The servo's loop settles (Servo, SettlesInTheEnd).
ServoSettles == part = "servo" /\ ServoFairness => SettlesInTheEnd

\* The PTP thread gets an address (Dhcp, PtpStartsInTheEnd).
PtpStarts == part = "dhcp" /\ DhcpFairness => PtpStartsInTheEnd

\* The console takes its input (Telnet, ConsoleGoesOn).
ConsoleServed == part = "console" /\ TelnetFairness => ConsoleGoesOn
=============================================================================
