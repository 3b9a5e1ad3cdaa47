----------------------------- MODULE MCFraming -----------------------------
(***************************************************************************)
(* Instance of Framing for TLC.  A header is two cells, so a read can end  *)
(* inside a header as well as inside a message; the buffer holds the       *)
(* longest message and a part of the next; the payloads of the messages    *)
(* are lengths and types themselves, so a header read at the wrong place   *)
(* is as plausible as a right one.                                         *)
(***************************************************************************)
EXTENDS Framing

MCMessages == { <<2, 1>>, <<3, 1, 3>>, <<4, 1, 2, 6>> }
MCJunk     == {0, 3}
=============================================================================
