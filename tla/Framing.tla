------------------------------ MODULE Framing ------------------------------
(***************************************************************************)
(* How a connection turns the bytes it receives into messages: allocBuffer *)
(* and readData of src/libcmn2/appcommon.cpp with process_msg of           *)
(* src/appcmn1/pbcommon.cpp as their listener.                             *)
(*                                                                         *)
(* libuv asks allocBuffer where to read, reads some bytes of the stream    *)
(* there, and calls readData; process_msg calls the handler of every whole *)
(* message and returns how many bytes are left at the end, which readData  *)
(* moves to the front of the buffer.  Each step of the loop of process_msg *)
(* is a step here.                                                         *)
(*                                                                         *)
(* A cell stands for a group of bytes.  A header is Header cells, of which *)
(* the first is the length of the message and the second its payload_type. *)
(***************************************************************************)
EXTENDS Integers, Sequences, SequencesExt

CONSTANTS
    Header,    \* sizeof (PbHeader)
    BufSize,   \* rx_buf_size: MAX_ALLOCATION_SIZE
    MtMax,     \* MT_MAX
    Messages,  \* the messages the peer sends, each the sequence of its cells
    Junk,      \* what memory that was never written may hold
    MaxSent    \* bound: messages sent in one behaviour

ASSUME FramingAssumption ==
    /\ Header \in Nat /\ Header >= 2
    /\ BufSize \in Nat /\ BufSize >= Header
    /\ MtMax \in Nat
    /\ Messages \subseteq Seq(Nat)
    /\ Junk \subseteq Nat
    /\ MaxSent \in Nat

(* make_msg writes the length, and a message fits the buffer: its size is  *)
(* at most MAX_PB_MSG_SIZE plus a header, its type one of the enumeration. *)
ASSUME MessageAssumption ==
    \A m \in Messages :
        /\ Header <= Len(m) /\ Len(m) <= BufSize
        /\ m[1] = Len(m)
        /\ m[2] \in 1 .. (MtMax - 1)

VARIABLES
    stream,              \* cells the peer has sent that were not read
    sent,                \* history: the messages sent
    cut,                 \* the peer is gone
    rx_buf,              \* rx_buf_addr[]
    leftover_data_size,  \* rx_buf_info->leftover_data_size
    pc,                  \* "idle", "parse", "closed" or "aborted"
    base,                \* offset of buf.base in rx_buf
    total,               \* total_data_read, the siz of process_msg
    current_location,
    left,                \* leftover_data_size of process_msg
    dispatched,          \* history: the messages the handlers were given
    torn                 \* history: a read began with leftover_data_size > 0

peerVars  == <<stream, sent, cut>>
parseVars == <<base, total, current_location, left>>
vars == <<peerVars, rx_buf, leftover_data_size, pc, parseVars, dispatched, torn>>

Addresses == 0 .. (BufSize - 1)

(* A connection with the buffer the first call of allocBuffer gives it. *)
Init ==
    /\ stream = << >> /\ sent = << >> /\ cut = FALSE
    /\ rx_buf \in [Addresses -> Junk]
    /\ leftover_data_size = 0
    /\ pc = "idle"
    /\ base = 0 /\ total = 0 /\ current_location = 0 /\ left = 0
    /\ dispatched = << >>
    /\ torn = FALSE

-----------------------------------------------------------------------------
(* Plausible errors, for mutation of the definitions that follow. *)

ReadSpace_All        == BufSize
Advance_Header(len)  == Header
Remains_Siz(len)     == total
Remains_Nothing(len) == 0
-----------------------------------------------------------------------------
(* The peer: uv_write of a whole message, and the end of the connection,   *)
(* which may swallow the end of what was sent.                             *)
Send(m) ==
    /\ ~cut
    /\ Len(sent) < MaxSent
    /\ sent' = Append(sent, m)
    /\ stream' = stream \o m
    /\ UNCHANGED <<cut, rx_buf, leftover_data_size, pc, parseVars, dispatched, torn>>

PeerGone(kept) ==
    /\ ~cut
    /\ cut' = TRUE
    /\ stream' = SubSeq(stream, 1, kept)
    /\ UNCHANGED <<sent, rx_buf, leftover_data_size, pc, parseVars, dispatched, torn>>

(* The room allocBuffer offers: from the leftover to the end of the buffer. *)
ReadSpace == BufSize - leftover_data_size

(* libuv asserts that the buffer it is given has room. *)
AllocAbort ==
    /\ pc = "idle"
    /\ ReadSpace = 0
    /\ pc' = "aborted"
    /\ UNCHANGED <<peerVars, rx_buf, leftover_data_size, parseVars, dispatched, torn>>

(***************************************************************************)
(* allocBuffer, a read of n cells after the leftover, and readData up to   *)
(* the call of the listener.  n = 0 is a read that found nothing: libuv    *)
(* calls readData for it too.  The listener gets the total, leftover       *)
(* included, with the address allocBuffer returned, which is after it.     *)
(***************************************************************************)
Read(n) ==
    /\ pc = "idle"
    /\ ReadSpace > 0
    /\ n <= ReadSpace
    /\ rx_buf' = [a \in Addresses |->
                    IF a \in leftover_data_size .. (leftover_data_size + n - 1)
                    THEN stream[a - leftover_data_size + 1] ELSE rx_buf[a]]
    /\ stream' = SubSeq(stream, n + 1, Len(stream))
    /\ pc' = "parse"
    /\ base' = leftover_data_size
    /\ total' = leftover_data_size + n
    /\ left' = leftover_data_size + n
    /\ current_location' = 0
    /\ torn' = (torn \/ leftover_data_size > 0)
    /\ UNCHANGED <<sent, cut, leftover_data_size, dispatched>>

(* nread = -1: uv_close, and client_close_cb discards the leftover. *)
Eof ==
    /\ pc = "idle"
    /\ ReadSpace > 0
    /\ cut /\ stream = << >>
    /\ pc' = "closed"
    /\ leftover_data_size' = 0
    /\ UNCHANGED <<peerVars, rx_buf, parseVars, dispatched, torn>>

-----------------------------------------------------------------------------
(* process_msg.  An address past the buffer is memory nobody wrote.        *)
Cell(i, junk) ==
    IF base + current_location + i < BufSize THEN rx_buf[base + current_location + i]
                                             ELSE junk

HasHeader   == left >= Header
IsWhole(len) == left >= len
IsEmpty(len) == len = Header
Advance(len) == len

(* cbfuncs: a type of the enumeration has a handler; one past it reads the *)
(* element after pbcbs, see OffByOne.                                      *)
Registered(type) == type \in 1 .. (MtMax - 1)

Advanced(len) ==
    /\ left' = left - Advance(len)
    /\ current_location' = current_location + Advance(len)
    /\ UNCHANGED <<peerVars, rx_buf, leftover_data_size, pc, base, total, torn>>

EmptyMessage(len) ==
    /\ HasHeader /\ len >= Header /\ IsWhole(len)
    /\ IsEmpty(len)
    /\ Advanced(len)
    /\ UNCHANGED dispatched

Dispatch(len, type, junk) ==
    /\ HasHeader /\ len >= Header /\ IsWhole(len)
    /\ ~IsEmpty(len)
    /\ dispatched' = IF Registered(type)
                     THEN Append(dispatched, [i \in 1 .. len |-> Cell(i - 1, junk)])
                     ELSE dispatched
    /\ Advanced(len)

(* payload_type MT_MAX passes the test of cbfuncs, and whatever lies after *)
(* pbcbs is called as a handler unless it is zero.                         *)
OffByOne(len, type) ==
    /\ HasHeader /\ len >= Header /\ IsWhole(len)
    /\ ~IsEmpty(len)
    /\ type = MtMax
    /\ pc' = "aborted"
    /\ UNCHANGED <<peerVars, rx_buf, leftover_data_size, parseVars, dispatched, torn>>

(* memcpy of n cells to the front of the buffer; where source and target   *)
(* overlap the copy may also run from the end.                             *)
Moved(from, n) ==
    [a \in Addresses |-> IF a < n THEN rx_buf[from + a] ELSE rx_buf[a]]
MovedBackward(from, n) ==
    [a \in Addresses |-> IF a < n THEN rx_buf[n + ((a - n) % from)] ELSE rx_buf[a]]
Copies(from, n) ==
    {Moved(from, n)} \cup (IF from \in 1 .. (n - 1) THEN {MovedBackward(from, n)} ELSE {})

(* What process_msg returns when it leaves its loop: everything is dropped *)
(* after a header whose length is too small.                               *)
Remains(len) == IF HasHeader /\ len < Header THEN 0 ELSE left

Leaves(len) == ~HasHeader \/ len < Header \/ ~IsWhole(len)

(* The end of process_msg and of readData. *)
Finish(len) ==
    /\ Leaves(len)
    /\ leftover_data_size' = Remains(len)
    /\ rx_buf' \in Copies(total - Remains(len), Remains(len))
    /\ pc' = "idle"
    /\ base' = 0 /\ total' = 0 /\ current_location' = 0 /\ left' = 0
    /\ UNCHANGED <<peerVars, dispatched, torn>>

ProcessMsg(junk) ==
    LET len  == Cell(0, junk)
        type == Cell(1, junk)
    IN  /\ pc = "parse"
        /\ \/ EmptyMessage(len)
           \/ Dispatch(len, type, junk)
           \/ OffByOne(len, type)
           \/ Finish(len)

-----------------------------------------------------------------------------
ReadSome    == \E n \in 1 .. Len(stream) : Read(n)
ReadNothing == Read(0)
Parse       == \E junk \in Junk : ProcessMsg(junk)

Next ==
    \/ \E m \in Messages : Send(m)
    \/ \E kept \in 0 .. Len(stream) : PeerGone(kept)
    \/ ReadSome
    \/ ReadNothing
    \/ AllocAbort
    \/ Eof
    \/ Parse

(* A callback that runs comes to its end; and a read may find nothing yet,  *)
(* but not every time, what TCP has not delivered being delivered at last.  *)
Fairness == WF_vars(Parse) /\ SF_vars(ReadSome)

Spec == Init /\ [][Next]_vars /\ Fairness
-----------------------------------------------------------------------------
(* Every variable has its type. *)
TypeOK ==
    /\ stream \in Seq(Nat) /\ sent \in Seq(Messages) /\ cut \in BOOLEAN
    /\ rx_buf \in [Addresses -> Nat]
    /\ leftover_data_size \in Nat
    /\ pc \in {"idle", "parse", "closed", "aborted"}
    /\ base \in Nat /\ total \in Nat /\ current_location \in Nat /\ left \in Nat
    /\ dispatched \in Seq(Seq(Nat))
    /\ torn \in BOOLEAN

(* Whatever the bytes are, a torn message or memory never written included, *)
(* process_msg never says that more is left than there is, so the memcpy of *)
(* readData reads and writes inside the buffer, and the space allocBuffer   *)
(* computes from what is left is never negative.                            *)
CopyInBounds ==
    /\ leftover_data_size <= BufSize
    /\ pc = "parse" => /\ total <= BufSize
                       /\ left <= total
                       /\ current_location = total - left

(* Of the first k messages of a sequence: those a handler is called for,   *)
(* and the cells.                                                          *)
Handled(msgs) ==
    LET some[k \in 0 .. Len(msgs)] ==
            IF k = 0 THEN << >>
            ELSE IF Len(msgs[k]) > Header THEN Append(some[k - 1], msgs[k]) ELSE some[k - 1]
    IN  some
Size(msgs) ==
    LET cells[k \in 0 .. Len(msgs)] == IF k = 0 THEN 0 ELSE cells[k - 1] + Len(msgs[k])
    IN  cells

Unhandled == IF pc = "parse" THEN left ELSE leftover_data_size

FramedExactly ==
    \E k \in 0 .. Len(sent) :
        /\ dispatched = Handled(sent)[k]
        /\ pc \in {"idle", "parse"} /\ ~cut =>
              Size(sent)[Len(sent)] = Size(sent)[k] + Unhandled + Len(stream)

(* While no read starts after a partial message, the handlers get exactly   *)
(* the messages the peer sent, in order, whole and once, none but the empty *)
(* ones is skipped, and every cell is handled, in the buffer, or unread.    *)
FramedWhenAligned == ~torn => FramedExactly

(* On the same condition neither the room allocBuffer leaves nor a type     *)
(* past the end of pbcbs ever stops the program.                            *)
AbortsOnlyWhenTorn == pc = "aborted" => torn

(* What the comments in readData and process_msg say of a message that      *)
(* arrives in pieces: the rest is stored after the first part, and the      *)
(* whole is parsed correctly.                                               *)
Reassembled == FramedExactly

(* Every message sent on a connection that stays up is handled in the end,  *)
(* as long as no read tears a message.                                      *)
Delivered ==
    \A k \in 1 .. MaxSent :
        Len(sent) >= k ~> \/ torn \/ cut
                         \/ /\ Len(sent) >= k
                            /\ IsPrefix(Handled(sent)[k], dispatched)
=============================================================================
