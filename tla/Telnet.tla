------------------------------- MODULE Telnet -------------------------------
(***************************************************************************)
(* The console (src/code/src/telnet.c, shell.c): one thread that serves    *)
(* one connection after the other.  It takes the telnet commands out of    *)
(* what the client sends, wherever the segments end, edits a line, shows   *)
(* the editing, and executes the line.                                     *)
(*                                                                         *)
(* An octet stands for its class; "a" is any visible character, and any    *)
(* octet of an option.  The output is followed as far as it shows the line *)
(* that is edited: what the commands print is not.                         *)
(***************************************************************************)
EXTENDS Integers, Sequences

CONSTANTS
    LineSize,   \* the size of cmdbuf
    InputSize,  \* the size of bi.data
    MaxUnits    \* bound: what a client sends in one connection

ASSUME TelnetAssumption ==
    LineSize \in Nat \ {0} /\ InputSize \in Nat \ {0} /\ MaxUnits \in Nat

VARIABLES
    octets,     \* the octets that were sent and not yet received
    hangup,     \* the client has closed the connection
    room,       \* there is room in the send buffer of TCP
    units,      \* how many units the client has sent
    telState,   \* ts->state
    input,      \* from bi.start to bi.end
    line,       \* buff of telnet_gets
    console,    \* the thread: in "getc", "sendopt" or "flush"
    echo,       \* the output buffer bo
    text, cursor,   \* history: the line that the client sees
    unread,     \* history: what the user has typed and the shell not read
    stalled,    \* history: output was thrown away
    quoted      \* history: where a quoted 255 was sent, "line" or "option"

connection  == <<octets, hangup, room, units>>
telTerminal == <<text, cursor>>
telHistory  == <<unread, stalled, quoted>>
telVars == <<connection, telState, input, line, console, echo, telTerminal, telHistory>>

-----------------------------------------------------------------------------
(* The client.                                                             *)

Typed255 == <<"IAC", "IAC">>
Option   == <<"IAC", "DO", "a">>
SubOption == <<"IAC", "SB", "a", "a", "IAC", "SE">>
Quoted255 == <<"IAC", "SB", "a", "IAC", "IAC", "a", "IAC", "SE">>

\* What a client sends, and what the user has typed by it.
Units == {<<"a">>, <<"BS">>, <<"CR">>, Typed255, Option, SubOption, Quoted255}

Meaning(u) == IF Len(u) = 1 THEN u ELSE IF u = Typed255 THEN <<"IAC">> ELSE <<>>

ClientSends(u) ==
    /\ ~hangup
    /\ units < MaxUnits
    /\ units' = units + 1
    /\ octets' = octets \o u
    /\ unread' = unread \o Meaning(u)
    /\ quoted' = quoted \cup (IF u = Typed255 THEN {"line"} ELSE {})
                        \cup (IF u = Quoted255 THEN {"option"} ELSE {})
    /\ UNCHANGED <<hangup, room, telState, input, line, console, echo, telTerminal, stalled>>

ClientReads ==
    /\ ~room
    /\ room' = TRUE
    /\ UNCHANGED <<octets, hangup, units, telState, input, line, console, echo,
                   telTerminal, telHistory>>

\* The connection is closed, or reset: what is on the way is lost then.
ClientLeaves ==
    /\ ~hangup
    /\ hangup' = TRUE
    /\ \/ UNCHANGED <<octets, unread>>
       \/ octets' = <<>> /\ unread' = input
    /\ UNCHANGED <<room, units, telState, input, line, console, echo, telTerminal,
                   stalled, quoted>>

-----------------------------------------------------------------------------
(* Telnet commands.                                                        *)

NextState(state, o) ==
    CASE state = "NORMAL" -> IF o = "IAC" THEN "IAC" ELSE "NORMAL"
      [] state = "IAC" -> IF o = "DO" THEN "OPT" ELSE IF o = "SB" THEN "SB" ELSE "NORMAL"
      [] state = "OPT" -> "NORMAL"
      [] state = "SB" -> "OPTDAT"
      [] state = "OPTDAT" -> IF o = "IAC" THEN "SE" ELSE "OPTDAT"
      [] state = "SE" -> "NORMAL"

IsData(state, o) == state = (IF o = "IAC" THEN "IAC" ELSE "NORMAL")

ProcessOctet(s, o) ==
    [state |-> NextState(s.state, o),
     data |-> IF IsData(s.state, o) THEN Append(s.data, o) ELSE s.data,
     options |-> s.options \/ s.state = "OPT"]

\* telnet_process: the state after the octets, their data, and whether there
\* were options among them.
Process(state, os) ==
    LET run[k \in 0..Len(os)] ==
            IF k = 0 THEN [state |-> state, data |-> <<>>, options |-> FALSE]
            ELSE ProcessOctet(run[k - 1], os[k])
    IN  run[Len(os)]

\* Defect: each segment is processed from the start.
Resumed(state) == "NORMAL"

\* The state in which telnet_process goes on.
StateBetween(state) == state

\* telnet_getc has nothing left and receives.  The answers to options are sent
\* without a look at the room for them; to some there is none.
Receive ==
    /\ console = "getc" /\ input = <<>>
    /\ \E k \in 1..Len(octets) :
          /\ k <= InputSize
          /\ LET done == Process(StateBetween(telState), SubSeq(octets, 1, k))
             IN  /\ telState' = done.state
                 /\ input' = done.data
                 /\ console' \in {"getc"} \cup (IF done.options THEN {"sendopt"} ELSE {})
          /\ octets' = SubSeq(octets, k + 1, Len(octets))
    /\ UNCHANGED <<hangup, room, units, line, echo, telTerminal, telHistory>>

SendOption ==
    /\ console = "sendopt"
    /\ room \/ hangup
    /\ room' \in {room, FALSE}
    /\ console' = "getc"
    /\ UNCHANGED <<octets, hangup, units, telState, input, line, echo, telTerminal, telHistory>>

-----------------------------------------------------------------------------
(* The line.                                                               *)

\* Defect: a full line goes on being echoed.
EchoedAlways(c) == IF c = "BS" THEN <<"BS", "SP", "BS">> ELSE <<c>>

Visible(c) == c \in {"a", "IAC"}

\* What telnet_gets echoes.
Echoed(c) ==
    IF c = "BS" THEN IF line # <<>> THEN <<"BS", "SP", "BS">> ELSE <<>>
    ELSE IF c = "CR" \/ Len(line) < LineSize - 1 THEN <<c>> ELSE <<>>

Edited(c) ==
    CASE c = "CR" -> <<>>
      [] c = "BS" -> IF line = <<>> THEN <<>> ELSE SubSeq(line, 1, Len(line) - 1)
      [] Visible(c) -> IF Len(line) < LineSize - 1 THEN Append(line, c) ELSE line

\* telnet_gets takes a character, and with the end of the line the shell
\* executes it, whatever it prints, and prompts for the next.
GetChar ==
    /\ console = "getc" /\ input # <<>>
    /\ LET c == Head(input)
       IN  line' = Edited(c) /\ echo' = echo \o Echoed(c)
    /\ input' = Tail(input)
    /\ unread' = IF unread = <<>> THEN <<>> ELSE Tail(unread)
    /\ console' = "flush"
    /\ UNCHANGED <<connection, telState, telTerminal, stalled, quoted>>

\* What the client's terminal does with an octet.
Shown(t, o) ==
    CASE o = "CR" -> [text |-> <<>>, cursor |-> 0]
      [] o = "BS" -> [t EXCEPT !.cursor = IF @ = 0 THEN 0 ELSE @ - 1]
      [] OTHER -> [text |-> IF t.cursor < Len(t.text)
                            THEN [t.text EXCEPT ![t.cursor + 1] = o] ELSE Append(t.text, o),
                   cursor |-> t.cursor + 1]

Terminal(t, os) ==
    LET run[k \in 0..Len(os)] == IF k = 0 THEN t ELSE Shown(run[k - 1], os[k])
    IN  run[Len(os)]

\* telnet_flush, when there is room in time ...
Flush ==
    /\ console = "flush"
    /\ room \/ echo = <<>>
    /\ LET t == Terminal([text |-> text, cursor |-> cursor], echo)
       IN  text' = t.text /\ cursor' = t.cursor
    /\ room' \in {room, FALSE}
    /\ echo' = <<>>
    /\ console' = "getc"
    /\ UNCHANGED <<octets, hangup, units, telState, input, line, telHistory>>

\* Defect: the output is tried again.
FlushAgain ==
    /\ console = "flush"
    /\ ~room /\ echo # <<>>
    /\ stalled' = TRUE
    /\ UNCHANGED <<connection, telState, input, line, console, echo, telTerminal, unread, quoted>>

\* ... and when there is none for a second: what is in the buffer is dropped.
FlushTimeout ==
    /\ console = "flush"
    /\ ~room /\ echo # <<>>
    /\ stalled' = TRUE
    /\ echo' = <<>>
    /\ console' = "getc"
    /\ UNCHANGED <<connection, telState, input, line, telTerminal, unread, quoted>>

-----------------------------------------------------------------------------
(* Connections.                                                            *)

\* telnet_shell clears the state for the next client that is accepted.
NewConnection ==
    /\ octets' = <<>> /\ hangup' = FALSE /\ room' = TRUE /\ units' = 0
    /\ telState' = "NORMAL"
    /\ input' = <<>> /\ line' = <<>> /\ console' = "getc" /\ echo' = <<>>
    /\ text' = <<>> /\ cursor' = 0
    /\ unread' = <<>> /\ stalled' = FALSE /\ quoted' = {}

EndOfStream ==
    /\ console = "getc" /\ input = <<>>
    /\ octets = <<>> /\ hangup
    /\ NewConnection

\* The command EXIT.
Exit ==
    /\ console = "getc" /\ input # <<>>
    /\ Head(input) = "CR"
    /\ NewConnection

TelnetInit ==
    /\ octets = <<>> /\ hangup = FALSE /\ room = TRUE /\ units = 0
    /\ telState = "NORMAL"
    /\ input = <<>> /\ line = <<>> /\ console = "getc" /\ echo = <<>>
    /\ text = <<>> /\ cursor = 0
    /\ unread = <<>> /\ stalled = FALSE /\ quoted = {}

ConsoleStep == \/ Receive \/ SendOption \/ GetChar \/ Flush \/ FlushTimeout
               \/ EndOfStream \/ Exit

TelnetNext ==
    \/ \E u \in Units : ClientSends(u)
    \/ ClientReads \/ ClientLeaves
    \/ ConsoleStep

TelnetSpec == TelnetInit /\ [][TelnetNext]_telVars

\* The thread runs.  Nothing is assumed of the client.
TelnetFairness == WF_telVars(ConsoleStep)

TelnetFairSpec == TelnetSpec /\ TelnetFairness

-----------------------------------------------------------------------------
(* Properties.                                                             *)

\* Every variable has its type.
TelnetTypeOK ==
    /\ \A k \in DOMAIN octets : octets[k] \in {"a", "BS", "CR", "IAC", "DO", "SB", "SE"}
    /\ \A k \in DOMAIN input : input[k] \in {"a", "BS", "CR", "IAC"}
    /\ \A k \in DOMAIN line : Visible(line[k])
    /\ Len(line) < LineSize
    /\ units \in 0..MaxUnits
    /\ telState \in {"NORMAL", "IAC", "OPT", "SB", "OPTDAT", "SE"}
    /\ console \in {"getc", "sendopt", "flush"}
    /\ hangup \in BOOLEAN /\ room \in BOOLEAN /\ stalled \in BOOLEAN
    /\ quoted \subseteq {"line", "option"}

\* The shell reads what the user types, each character once and in order, and
\* nothing of the telnet commands in between, wherever segments and
\* connections end.  A 255 that is quoted within an option is excepted: it is
\* taken for the end of the option, and the rest of the option for input
\* (telnet.c:155-214, 510-562).
InputKept ==
    "option" \notin quoted => input \o Process(telState, octets).data = unread

\* The user sees the line that will be executed, unless output had to be
\* dropped, or a 255 was typed, which the echo does not quote
\* (telnet.c:564-611).
LineAsSeen ==
    console = "getc" /\ ~stalled /\ quoted = {} =>
        /\ cursor = Len(line)
        /\ SubSeq(text, 1, cursor) = line
        /\ \A k \in cursor + 1..Len(text) : text[k] = "SP"

\* The console takes in what was typed and shows what it took.
ConsoleFaithful == InputKept /\ LineAsSeen

\* A client that reads nothing cannot keep the console from taking its input,
\* so the two never wait for each other, unless it asks for an option: the
\* answers to options wait for room without a limit (telnet.c:100-107, 470-507).
ConsoleGoesOn ==
    []<>(console # "sendopt") =>
        (octets # <<>> \/ input # <<>>) ~> (octets = <<>> /\ input = <<>>)
=============================================================================
