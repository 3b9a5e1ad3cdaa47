------------------------------- MODULE MCConfig -------------------------------
(***************************************************************************)
(* Instance for TLC of the three ways a program is configured; `part' says *)
(* which of them a behaviour is about, as they have nothing in common:     *)
(*   "log"  messages between a service monitor, the agent and itself;      *)
(*   "ini"  a file of a few lines of every kind, some indented or too long;*)
(*   "xml"  the strings of the service monitor's file.                     *)
(***************************************************************************)
EXTENDS LogConfig

CONSTANTS
    Names, App, Values, Number, Short, Pieces, Args, MaxPieces,
    FieldSizes, BufferSize, Beyond, Stacks, MaxLen

MCNames  == {"host", "me", "peer"}
MCValues == {"", "text", "80", "7001", "70000", "00007001", "0000700"}
MCNumber == [v \in MCValues |->
               CASE v = "80" -> 80
                 [] v \in {"7001", "00007001"} -> 7001
                 [] v = "70000" -> 70000
                 [] v = "0000700" -> 700
                 [] OTHER -> 0]
MCShort  == [v \in MCValues |-> IF v = "00007001" THEN "0000700" ELSE v]

Piece(kind, indent, rest, name, value) ==
    [kind |-> kind, indent |-> indent, rest |-> rest, name |-> name, value |-> value]

MCPieces ==
    {Piece("comment", FALSE, FALSE, "", ""),
     Piece("section", FALSE, FALSE, "default", "text"),
     Piece("section", FALSE, FALSE, "default_port", "text"),
     Piece("section", TRUE, FALSE, "other", "text"),
     Piece("open", FALSE, FALSE, "other", "text"),
     Piece("text", TRUE, FALSE, "", "7001"),
     Piece("text", FALSE, TRUE, "", "text"),
     Piece("pair", FALSE, FALSE, "host", "text"),
     Piece("pair", FALSE, FALSE, "me", "70000"),
     Piece("pair", FALSE, FALSE, "me", "00007001"),
     Piece("pair", TRUE, FALSE, "me", "7001"),
     Piece("pair", FALSE, TRUE, "peer", "80")}

\* Memory of one kind in the buffer, of any other behind it, and an end.
MCStacks ==
    {[i \in 1 .. BufferSize + Beyond |->
        CASE i <= BufferSize         -> b
          [] i = BufferSize + Beyond -> "0"
          [] i = BufferSize + 1      -> c
          [] OTHER                   -> d] : b \in {"?", " ", "0"}, c, d \in {"?", " "}}

VARIABLES
    part,
    prog, pc, file, section, prev_name, lineno, error, gconfig, calls,
    defaultPort, listening,
    which, size, there, value, stack, before, str, done

iniVars == <<prog, pc, file, section, prev_name, lineno, error, gconfig, calls,
             defaultPort, listening>>
xmlVars == <<which, size, there, value, stack, before, str, done>>

Ini == INSTANCE IniConfig
Xml == INSTANCE ReadString

ASSUME IniAssumption        == Ini!Parameters
ASSUME ReadStringAssumption == Xml!Parameters

\* Of the parts that do not run one initial state is enough.
ConfigInit ==
    /\ part \in {"log", "ini", "xml"}
    /\ Init
    /\ Ini!Init
    /\ part # "ini" => prog = "cfgagent"
    /\ Xml!Init
    /\ part # "xml" => /\ which = "element" /\ ~there
                      /\ \A n \in FieldSizes : size <= n
                      /\ stack = CHOOSE m \in Stacks : TRUE

LogStep == part = "log" /\ Next /\ UNCHANGED <<part, iniVars, xmlVars>>
IniStep == part = "ini" /\ Ini!Next /\ UNCHANGED <<part, vars, xmlVars>>
XmlStep == part = "xml" /\ Xml!Next /\ UNCHANGED <<part, vars, iniVars>>

ConfigNext == LogStep \/ IniStep \/ XmlStep

(* No message has to be handled while the log configuration is idle.       *)
ConfigSpec == ConfigInit /\ [][ConfigNext]_<<part, vars, iniVars, xmlVars>> /\ Fairness

-----------------------------------------------------------------------------
(* IniConfig: the agent listens on the port of its own entry.              *)
OwnPortIsListed == Ini!OwnPortIsListed

(* IniConfig: a server is listed under a header of its section.            *)
ServersUnderTheirHeader == Ini!ServersUnderTheirHeader

(* ReadString: values are read as they are meant, what the stack held      *)
(* shows only behind leading blanks or the end of a field that was not     *)
(* zeroed, and only a buffer without an end is written behind.             *)
StringsAreRead ==
    /\ Xml!ShortIsRead /\ Xml!JunkOnlyAfterBlanks
    /\ Xml!WrittenBehindOnlyUnended /\ Xml!AbsentIsEmpty
=============================================================================
