----------------------------- MODULE ReadString -----------------------------
(***************************************************************************)
(* The strings of the service monitor's configuration: how                 *)
(* read_element_string and read_attribute_string of                        *)
(* src/service_monitor copy a value of the XML file into a field, through  *)
(* a buffer on the stack and trimwhitespace.  Memory is a sequence of      *)
(* characters; "0" ends a string, "?" is what an uninitialised character   *)
(* may show as.  A string without an end in its buffer goes on, read and   *)
(* written, in the memory behind it.                                       *)
(***************************************************************************)
EXTENDS Integers, Sequences, SequencesExt

CONSTANTS
    FieldSizes, \* n, the sizes of fields: 8 to 256, common_args[256] the longest
    BufferSize, \* of content[256], attrib_value[128]
    Beyond,     \* bound: how far behind the buffer there is some "0"
    Stacks,     \* what the memory from the buffer on may hold
    MaxLen      \* bound: characters in a value

Blank  == " "
Chars  == {"a", "b", Blank}
Places == Chars \cup {"?", "0"}   \* what a place in memory may hold

\* The buffer and the memory behind it.
StackSize == BufferSize + Beyond

\* What the constants have to be.
Parameters ==
    /\ BufferSize \in Nat /\ Beyond \in Nat \ {0} /\ MaxLen \in Nat
    /\ \A n \in FieldSizes : n \in 2 .. BufferSize
    /\ \A m \in Stacks : m \in [1 .. StackSize -> Places] /\ m[StackSize] = "0"

VARIABLES
    which,    \* "element" or "attribute"
    size,     \* of the field
    there,    \* whether the node has this element or attribute
    value,    \* its text, without the "0"
    stack,    \* the memory from the buffer on
    before,   \* history: what was there at first
    str,      \* the field
    done

vars == <<which, size, there, value, stack, before, str, done>>
-----------------------------------------------------------------------------
(* Plausible errors, for mutation of the definitions that follow.          *)
FirstKept_Same(m) == 1
-----------------------------------------------------------------------------
Texts == UNION {[1 .. len -> Chars] : len \in 0 .. MaxLen}

\* Fields are zeroed with their node, but for group_id_str on the stack,
\* an attribute's.
Init ==
    /\ which \in {"element", "attribute"}
    /\ size \in FieldSizes
    /\ there \in BOOLEAN
    /\ value \in IF there THEN Texts ELSE {<< >>}
    /\ stack \in Stacks
    /\ before = stack
    /\ str \in {[i \in 1 .. size |-> c] : c \in IF which = "element" THEN {"0"} ELSE {"0", "?"}}
    /\ done = FALSE

(* strncpy of the value into the buffer: as many characters of it, or "0". *)
\* An element copies no more than the field takes, an attribute all it can.
Copied == IF which = "element" THEN size - 1 ELSE BufferSize - 1

Buffered ==
    [i \in 1 .. StackSize |-> IF i > Copied THEN stack[i]
                              ELSE IF i <= Len(value) THEN value[i] ELSE "0"]

\* The string at the start of m: up to its "0", or all of m and beyond.
StringOf(m) ==
    LET ends == {i \in 1 .. Len(m) : m[i] = "0"}
    IN  IF ends = {} THEN m ELSE SubSeq(m, 1, Min(ends) - 1)

(* trimwhitespace: past the blanks in front, and a new "0" after the last  *)
(* character that is not one, if there is any.                             *)
FirstKept(s) == Min({i \in 1 .. Len(s) : s[i] # Blank} \cup {Len(s) + 1})
LastKept(s)  == Max({i \in 1 .. Len(s) : s[i] # Blank} \cup {0})

trimwhitespace(s) == SubSeq(s, FirstKept(s), LastKept(s))

Terminated(m) ==
    [i \in 1 .. Len(m) |-> IF LastKept(StringOf(m)) = i - 1 /\ i > 1 THEN "0" ELSE m[i]]

\* strncpy of n - 1 characters into the field.
Field(s) == [i \in 1 .. size |-> IF i = size THEN str[i] ELSE IF i <= Len(s) THEN s[i] ELSE "0"]

read_string ==
    /\ ~done /\ there
    /\ stack' = Terminated(Buffered)
    /\ str' = Field(trimwhitespace(StringOf(Buffered)))
    /\ done' = TRUE
    /\ UNCHANGED <<which, size, there, value, before>>

\* Without the element or attribute, -1 and an empty string.
read_absent ==
    /\ ~done /\ ~there
    /\ str' = [str EXCEPT ![1] = "0"]
    /\ done' = TRUE
    /\ UNCHANGED <<which, size, there, value, stack, before>>

Next == read_string \/ read_absent

Spec == Init /\ [][Next]_vars

-----------------------------------------------------------------------------
(* Every variable has its type. *)
TypeOK ==
    /\ which \in {"element", "attribute"}
    /\ size \in FieldSizes
    /\ there \in BOOLEAN
    /\ value \in Seq(Chars)
    /\ stack \in [1 .. StackSize -> Places]
    /\ before \in [1 .. StackSize -> Places]
    /\ str \in [1 .. size -> Places]
    /\ done \in BOOLEAN

(* What reading is for, in one piece: the words of the value, and as much  *)
(* of them as the field takes.                                             *)
Words(s) ==
    LET solid == {i \in 1 .. Len(s) : s[i] # Blank}
    IN  IF solid = {} THEN << >> ELSE SubSeq(s, Min(solid), Max(solid))
Start(s, n) == IF Len(s) <= n THEN s ELSE SubSeq(s, 1, n)

(* The field reads as w.  One that was not zeroed has no end behind the    *)
(* n - 1 characters that were copied: it only begins with those.           *)
Reads(w) ==
    IF Len(w) < size - 1 \/ str[size] = "0" THEN StringOf(str) = w
                                            ELSE Start(StringOf(str), size - 1) = w

(* A value that the buffer's share takes with its end is read as it is     *)
(* meant, cut only at the size of the field.                               *)
ShortIsRead ==
    done /\ there /\ Len(value) < Copied => Reads(Start(Words(value), size - 1))

(* For a longer one the buffer may have no end, and the string goes on in  *)
(* what the stack held before.  The first n - 1 characters of the field    *)
(* get to see that only if the value began with blanks, which make room    *)
(* for it; otherwise they are the start of the value, with or without the  *)
(* blanks that are now at its end.                                         *)
JunkOnlyAfterBlanks ==
    done /\ there /\ Len(value) >= Copied /\ value[1] # Blank =>
        Reads(Start(value, size - 1)) \/ Reads(Words(Start(value, size - 1)))

(* trimwhitespace writes behind the buffer only if the value left no room  *)
(* for its end and the rest of the buffer held none either; for the        *)
(* longest fields and for attributes that rest is one character.           *)
WrittenBehindOnlyUnended ==
    done /\ (\E i \in BufferSize + 1 .. StackSize : stack[i] # before[i]) =>
        /\ Len(value) >= Copied
        /\ \A i \in Copied + 1 .. BufferSize : before[i] # "0"

(* What is absent reads as empty. *)
AbsentIsEmpty == done /\ ~there => StringOf(str) = << >>
=============================================================================
