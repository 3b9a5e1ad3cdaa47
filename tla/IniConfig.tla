------------------------------ MODULE IniConfig ------------------------------
(***************************************************************************)
(* How src/cfgagent and src/ca_log come by their configuration and their   *)
(* port: the arguments, the file as src/libutils1/ini.c reads it, the      *)
(* handlers of the two programs, and the start of the server.              *)
(*                                                                         *)
(* fgets returns a line, or as much of it as fits: a longer line comes in  *)
(* pieces, each taken for a line.  A piece stands for its text: what kind  *)
(* of line it looks like, whether blanks precede it, and its name and      *)
(* value with the blanks and the comment after them removed.  `rest' says  *)
(* that it continues the line of the piece before it.                      *)
(***************************************************************************)
EXTENDS Integers, Sequences, SequencesExt

CONSTANTS
    Names,     \* names in the file; App and "host" among them
    App,       \* app_name of the program
    Values,    \* values in the file, as text
    Number,    \* atoi of each value
    Short,     \* its first 7 characters, what my_default_port and app_id hold
    Pieces,    \* what fgets may return
    Args,      \* port numbers on the command line; 0 for none
    MaxPieces  \* bound: pieces in a file

Sections == {"default", "app_id", "default_port", "other"}

PieceTypes ==
    [kind : {"blank", "comment"}, indent : BOOLEAN, rest : BOOLEAN, name : {""}, value : {""}]
    \cup [kind : {"section", "open"}, indent : BOOLEAN, rest : BOOLEAN, name : Sections, value : {"text"}]
    \cup [kind : {"pair"}, indent : BOOLEAN, rest : BOOLEAN, name : Names, value : Values]
    \cup [kind : {"text"}, indent : BOOLEAN, rest : BOOLEAN, name : {""}, value : Values]

\* What the constants have to be.
Parameters ==
    /\ {"host", App} \subseteq Names /\ App # "host"
    /\ {"", "text"} \subseteq Values /\ Number[""] = 0 /\ Number["text"] = 0
    /\ Number \in [Values -> Nat] /\ Short \in [Values -> Values]
    /\ Args \subseteq Nat /\ MaxPieces \in Nat
    /\ Pieces \subseteq PieceTypes

VARIABLES
    prog,       \* "cfgagent" or "ca_log"
    pc,         \* "args", "open", "parse", "start", "run" or "exit"
    file,       \* history: the pieces read
    section, prev_name, lineno, error,
    gconfig,    \* [default_host, app_id, my_default_port, app_server_ports]
    calls,      \* history: the pieces handler was called for
    defaultPort,
    listening   \* the server's port, 0 for one the system picks, -1 for none

parseVars == <<file, section, prev_name, lineno, error, gconfig, calls>>
vars == <<prog, pc, parseVars, defaultPort, listening>>
-----------------------------------------------------------------------------
(* Plausible errors, for mutation of the definitions that follow.          *)
Taken_Any(name)        == TRUE
FirstError_Never(e, b) == e
-----------------------------------------------------------------------------
Init ==
    /\ prog \in {"cfgagent", "ca_log"}
    /\ pc = "args"
    /\ file = << >> /\ calls = {}
    /\ section = "" /\ prev_name = "" /\ lineno = 0 /\ error = 0
    /\ gconfig = [default_host |-> "", app_id |-> "", my_default_port |-> "",
                  app_server_ports |-> << >>]
    /\ defaultPort = 7000 /\ listening = -1

(* The third argument.  ca_log keeps it in 16 bits before looking at it.   *)
Stored(a) == IF prog = "ca_log" THEN a % 65536 ELSE a
Allowed(port) == port \in 1024 .. 65535

Arguments(a) ==
    /\ pc = "args"
    /\ defaultPort' = IF a = 0 THEN defaultPort ELSE Stored(a)
    /\ pc' = IF Allowed(defaultPort') THEN "open" ELSE "exit"
    /\ UNCHANGED <<prog, parseVars, listening>>

\* read_ini_config and ini_parse; main does not look at the result.
OpenFile ==
    /\ pc = "open"
    /\ pc' \in {"parse", "start"}
    /\ UNCHANGED <<prog, parseVars, defaultPort, listening>>

-----------------------------------------------------------------------------
Valid(port) == port > 0 /\ port <= 65535
Taken(name) == name = App

\* The entry of app_server_ports; `from', the piece it comes from, is history.
Entry(name, value) ==
    [app_name |-> name, host |-> gconfig.default_host, port |-> Number[value],
     from |-> Len(file) + 1]

(* handler: what it stores, and whether it knows section and name.         *)
Known(name) ==
    \/ section = "default" /\ name = "host"
    \/ section = "app_id" /\ name = App
    \/ section = "default_port" /\ (prog = "cfgagent" \/ name = App)

Handled(name, value) ==
    IF ~Known(name) THEN gconfig
    ELSE CASE section = "default" -> [gconfig EXCEPT !.default_host = value]
           [] section = "app_id"  -> [gconfig EXCEPT !.app_id = Short[value]]
           [] section = "default_port" /\ prog = "ca_log" ->
                 [gconfig EXCEPT !.my_default_port = Short[value]]
           [] OTHER ->
                 IF Valid(Number[value])
                 THEN [gconfig EXCEPT !.app_server_ports = Append(@, Entry(name, value)),
                                      !.my_default_port = IF Taken(name) THEN Short[value] ELSE @]
                 ELSE gconfig

FirstError(e, b) == IF b /\ e = 0 THEN lineno + 1 ELSE e

handler(p, name, value) ==
    /\ gconfig' = Handled(name, value)
    /\ error' = FirstError(error, ~Known(name))
    /\ calls' = calls \cup {Len(file) + 1}

(* One turn of the loop of ini_parse_file.  An indented piece continues    *)
(* the value of the name before it, whatever it looks like.                *)
Continues(p) == prev_name # "" /\ p.indent /\ p.kind \notin {"blank", "comment"}
IsSection(p) == p.kind = "section"

ReadPiece(p) ==
    /\ pc = "parse"
    /\ Len(file) < MaxPieces
    /\ p.rest => file # << >>
    /\ file' = Append(file, p)
    /\ lineno' = lineno + 1
    /\ IF Continues(p)
       THEN /\ handler(p, prev_name, IF p.kind = "text" THEN p.value ELSE "text")
            /\ UNCHANGED <<section, prev_name>>
       ELSE IF p.kind = "pair"
       THEN /\ prev_name' = p.name
            /\ handler(p, p.name, p.value)
            /\ UNCHANGED section
       ELSE /\ section' = IF IsSection(p) THEN p.name ELSE section
            /\ prev_name' = IF IsSection(p) THEN "" ELSE prev_name
            /\ error' = FirstError(error, p.kind \in {"open", "text"})
            /\ UNCHANGED <<gconfig, calls>>
    /\ UNCHANGED <<prog, pc, defaultPort, listening>>

EndOfFile ==
    /\ pc = "parse"
    /\ pc' = "start"
    /\ UNCHANGED <<prog, parseVars, defaultPort, listening>>

-----------------------------------------------------------------------------
(* cfgagent takes its port from the file, ca_log from the arguments.       *)
PortToUse == IF prog = "cfgagent" THEN Number[gconfig.my_default_port] ELSE defaultPort

(* initServerActivities and the constructor of EventLoop: that the port    *)
(* could not be listened on is printed, and the program runs.              *)
Start ==
    /\ pc = "start"
    /\ defaultPort' = PortToUse
    /\ listening' \in {PortToUse, -1}
    /\ pc' = "run"
    /\ UNCHANGED <<prog, parseVars>>

Next ==
    \/ \E a \in Args : Arguments(a)
    \/ OpenFile
    \/ \E p \in Pieces : ReadPiece(p)
    \/ EndOfFile
    \/ Start

Spec == Init /\ [][Next]_vars
-----------------------------------------------------------------------------
\* app_server_ports holds entries, my_default_port and the like hold values.
Entries == [app_name : Names, host : Values, port : Nat, from : Nat]

Configurations ==
    [default_host : Values, app_id : Values, my_default_port : Values,
     app_server_ports : Seq(Entries)]

(* Every variable has its type. *)
TypeOK ==
    /\ prog \in {"cfgagent", "ca_log"}
    /\ pc \in {"args", "open", "parse", "start", "run", "exit"}
    /\ file \in Seq(Pieces)
    /\ section \in Sections \cup {""} /\ prev_name \in Names \cup {""}
    /\ lineno \in Nat /\ error \in Nat
    /\ gconfig \in Configurations
    /\ calls \subseteq 1 .. Len(file)
    /\ \A i \in 1 .. Len(gconfig.app_server_ports) :
          gconfig.app_server_ports[i].from \in 1 .. Len(file)
    /\ defaultPort \in Nat /\ listening \in Nat \cup {-1}

Cut(value, port) == \E v \in Values : v # value /\ Short[v] = value /\ Number[v] = port

(* The port the agent listens on is the one its own, last, entry in the    *)
(* list of servers has, so the connection it makes to itself is to itself; *)
(* without an entry the system picks one, whatever the arguments said.  A  *)
(* number of more than 7 characters is cut, and is another port.           *)
OwnPortIsListed ==
    LET servers == gconfig.app_server_ports
        mine    == gconfig.my_default_port
        own     == {i \in 1 .. Len(servers) : servers[i].app_name = App}
    IN  prog = "cfgagent" =>
        /\ own = {} => mine = ""
        /\ \A i \in own :
              \/ \E j \in own : j > i
              \/ Number[mine] = servers[i].port
              \/ Cut(mine, servers[i].port)
        /\ pc = "run" => defaultPort = Number[mine] /\ listening \in {Number[mine], -1}

(* The headers before piece i.  An indented one may be no header: it then  *)
(* continues a value, and the handler is called for it.                    *)
HeadersBefore(i) ==
    {j \in 1 .. i - 1 : file[j].kind \in {"section", "open"} /\ j \notin calls}

(* A server is listed under a header of its section; if the last header    *)
(* above it is another, or is broken, ini_parse has reported an error      *)
(* (which the agent does not look at).                                     *)
ServersUnderTheirHeader ==
    \A i \in 1 .. Len(gconfig.app_server_ports) :
        LET heads == HeadersBefore(gconfig.app_server_ports[i].from)
            Right(j) == file[j].kind = "section" /\ file[j].name = "default_port"
        IN  /\ \E j \in heads : Right(j)
            /\ error = 0 => \A j \in heads : Right(j) \/ \E k \in heads : k > j
=============================================================================
